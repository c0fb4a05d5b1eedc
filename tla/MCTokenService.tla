---- MODULE MCTokenService ----
(* Small instances of TokenService for TLC. *)
EXTENDS TokenService, TLC

Interchangeable ==
    Permutations(Tokens) \cup Permutations(Families) \cup Permutations(Requests)
====
