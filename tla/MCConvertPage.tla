--------------------------- MODULE MCConvertPage ---------------------------
EXTENDS ConvertPage

CONSTANTS f1, f2, p1, p2, plain, accented

(* Two files, submitted at most twice.  A name of the accented kind does   *)
(* not survive the upload.                                                 *)
FourJobs == 1..4
TwoFiles == {f1, f2}
TwoNames == {plain, accented}
TwoPolls == {p1, p2}
=============================================================================
