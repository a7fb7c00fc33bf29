---- MODULE MCSettings ----
EXTENDS Settings
====
