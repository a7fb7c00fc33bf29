----------------------------- MODULE MCPipeline -----------------------------
EXTENDS Pipeline

\* Text pages with plain body text, a running header and a page number,
\* signatures with and without a list of recipients, a page that ends in a
\* bare label, or a header above a table.
MCLayouts ==
  {{"body"}, {"margin", "number"}, {"body", "sign"}, {"sign", "label"}, {"body", "label"},
   {"head", "cell"}}
=============================================================================
