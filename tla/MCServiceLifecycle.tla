------------------------- MODULE MCServiceLifecycle -------------------------
(* Instances of ServiceLifecycle for TLC: two settings on one port. *)
EXTENDS ServiceLifecycle, TLC

OnePort == [s \in Settings |-> 8787]
AlikeSettings == Permutations(Settings)
=============================================================================
