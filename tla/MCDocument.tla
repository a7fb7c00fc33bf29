----------------------------- MODULE MCDocument -----------------------------
EXTENDS Document

Para(t, where, o) == [kind |-> "para", text |-> t, band |-> where, open |-> o]
Grid(top, t, l) ==
  [kind |-> "table", cols |-> 2, boxed |-> TRUE, header |-> top, high |-> t, low |-> l]

\* Body text that ends or is cut, a running header and the same words as
\* body text, a page number, and breaks.
TextShapes ==
  {Para("a", "none", TRUE), Para("b", "none", FALSE), Para("a", "top", TRUE),
   Para("number", "bottom", FALSE), Para("number", "none", FALSE),
   [kind |-> "break", orientation |-> "portrait"],
   [kind |-> "break", orientation |-> "landscape"]}

\* Tables that reach both ends of the page or one, with and without header,
\* and a block between them.
GridShapes ==
  {Grid("h", TRUE, TRUE), Grid("h", FALSE, TRUE), Grid("none", TRUE, TRUE),
   Grid("other", TRUE, FALSE), [kind |-> "other"]}

MCShapes == TextShapes \cup GridShapes
=============================================================================
