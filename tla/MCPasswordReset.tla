--------------------------- MODULE MCPasswordReset ---------------------------
(* The model values of PasswordReset.cfg are the constants of PasswordReset. *)
EXTENDS PasswordReset
=============================================================================
