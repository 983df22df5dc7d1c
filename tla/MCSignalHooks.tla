----------------------------- MODULE MCSignalHooks -----------------------------
(***************************************************************************)
(* SignalHooks on a small instance: with three deliveries of two task ids, *)
(* a retry or redelivery of one task overlaps with another task.           *)
(***************************************************************************)
EXTENDS SignalHooks, TLC

MCSymmetry == Permutations(Tasks) \cup Permutations(Children)
=============================================================================
