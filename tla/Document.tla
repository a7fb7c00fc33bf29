------------------------------ MODULE Document ------------------------------
(***************************************************************************)
(* A document on its way through conversion-service/pipeline.py: one       *)
(* Classifier structures the lines of all pages (Hierarchy), then assemble *)
(* works on the blocks of the whole document (Stitcher).                   *)
(***************************************************************************)
EXTENDS Stitcher, Hierarchy

Init == StructureInit /\ StitchInit

Structure == pc = "walk" /\ StructureNext /\ UNCHANGED stitchVars

\* The walk is over: every block that came of the lines is in the stream,
\* with the tables, section breaks and transcriptions beside them.  The
\* classifier is not asked again, and is forgotten here.
Assemble ==
  /\ pc = "walk" /\ pending = <<>> /\ Len(blocks) <= MaxBlocks
  /\ HandOver(Len(blocks))
  /\ h' = NewClassifier /\ lines' = <<>> /\ pending' = <<>> /\ blocks' = <<>>

Next == Structure \/ Assemble \/ (Assembly /\ UNCHANGED structureVars)

Spec == Init /\ [][Next]_<<stitchVars, structureVars>>

=============================================================================
