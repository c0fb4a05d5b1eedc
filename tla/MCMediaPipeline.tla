---- MODULE MCMediaPipeline ----
(* Small instances of MediaPipeline for TLC. *)
EXTENDS MediaPipeline, TLC

Interchangeable == Permutations(Requests) \cup Permutations(Jobs) \cup Permutations(Keys)
====
