---- MODULE MCRetention ----
(* Small instances of Retention for TLC. *)
EXTENDS Retention, TLC

Interchangeable == Permutations(Devices) \cup Permutations(Rows)
====
