------------------------------ MODULE MCUploads ------------------------------
(* Instances of Uploads for TLC: uploads named by model values, one verifier *)
(* loop for each process, and the symmetry of files of the same kind.      *)
EXTENDS Uploads, TLC

CONSTANTS a1, x1, l1, l2

MixedFiles == {a1, x1}
OneAcceptable == {a1}
OneLoop == {l1}
TwoLoops == {l1, l2}
LoopSymmetry == Permutations({l1, l2})
=============================================================================
