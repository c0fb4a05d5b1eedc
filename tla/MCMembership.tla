---- MODULE MCMembership ----
(* Small instances of Membership for TLC. *)
EXTENDS Membership, TLC

Interchangeable ==
    Permutations(Accounts) \cup Permutations(Orgs) \cup Permutations(Members)
        \cup Permutations(Codes) \cup Permutations(Requests)
====
