--------------------------- MODULE MCPasswordReset ---------------------------
(***************************************************************************)
(* Small instances of PasswordReset.                                       *)
(***************************************************************************)
EXTENDS PasswordReset, TLC

\* Accounts differ in nothing but their names.
UserSymmetry == Permutations(Users)
=============================================================================
