---------------------------- MODULE MCLifecycle ----------------------------
(***************************************************************************)
(* LifecycleHistory with two pods for TLC.  The pods are alike: nothing in *)
(* the code or in the model tells one key from another, and the runs that  *)
(* use this module check no liveness, so their permutations are a sound    *)
(* symmetry.                                                               *)
(***************************************************************************)
EXTENDS LifecycleHistory, TLC

PodSymmetry == Permutations(Pods)
=============================================================================
