---------------------------- MODULE MCSliceBoard ----------------------------
(* Slices, requests and members are interchangeable.                         *)
EXTENDS SliceBoard, TLC

Symmetric == Permutations(Slices) \cup Permutations(Requests) \cup Permutations(Users)

=============================================================================
