---- MODULE MCOrganizations ----
(* Small instances of Organizations for TLC. *)
EXTENDS Organizations, TLC

Interchangeable == Permutations(Requests)
====
