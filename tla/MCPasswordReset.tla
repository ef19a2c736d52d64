--------------------------- MODULE MCPasswordReset ---------------------------
(* Small instances of PasswordReset for TLC. *)
EXTENDS PasswordReset, TLC

Symmetry == Permutations(Requests) \cup Permutations(Mails) \cup Permutations(Tokens)
=============================================================================
