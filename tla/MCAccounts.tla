------------------------------ MODULE MCAccounts ------------------------------
(* Two handlers, two sessions at a time, two invitations, two reset tokens; *)
(* the lock after two failures, two TOTP steps and two enrolments.          *)
EXTENDS Accounts, TLC

Symmetric ==
    Permutations(Handlers) \cup Permutations(Sids)
      \cup Permutations(Invitations) \cup Permutations(Tokens)
=============================================================================
