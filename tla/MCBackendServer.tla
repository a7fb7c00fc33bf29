-------------------------- MODULE MCBackendServer --------------------------
(* A small deployment for checking BackendServer: databases that are empty, *)
(* complete, of others, or wrong in one way.                                *)
EXTENDS BackendServer

MCShapes ==
  {[present |-> "none", flaws |-> {}, others |-> o] : o \in BOOLEAN}
  \union {[present |-> p, flaws |-> {}, others |-> FALSE] : p \in {"some", "all"}}
  \union {[present |-> "all", flaws |-> {f}, others |-> FALSE] : f \in Flaws}
=============================================================================
