------------------------------ MODULE MCOpenLoop ------------------------------
(***************************************************************************)
(* OpenLoop on a small instance.  As in the code, a default soak is as     *)
(* long as results live and ten times a default open loop, and ar.get      *)
(* waits a fifth of it; the other times are chosen so that an apply_async  *)
(* may take less or more than the interval, and a result may be there when *)
(* get asks for it, come while it waits, come too late, or have expired.   *)
(***************************************************************************)
EXTENDS OpenLoop, TLC

ASSUME SortedChecked ==
  \A n \in 0 .. 4 : \A values \in [1 .. n -> 0 .. 3] : Sorted(values) = SortSeq(values, <)

MCDefaultDuration == [open_loop |-> 1, soak |-> 10]
Threshold(p50, p95, p99, failurePct, throughput) ==
  [p50 |-> p50, p95 |-> p95, p99 |-> p99, failurePct |-> failurePct, throughput |-> throughput]
MCLimits == {Threshold(9, 6, 11, 1, 0), Threshold(4, 20, 20, 50, 0), Threshold(20, 20, 20, 1, 1)}
=============================================================================
