---------------------------- MODULE MCSmokeHarness ----------------------------
(***************************************************************************)
(* SmokeHarness on a small instance: two runs within two seconds, two      *)
(* tasks to expect of a run.  As in the repository, the checkout is the    *)
(* default --out, and the mount of the cluster is both BENCH_RESULTS_PATH  *)
(* and the --out of the producer's Job.                                    *)
(***************************************************************************)
EXTENDS SmokeHarness

MCRepo == <<"repo">>
MCMount == <<"results">>
MCMounts == {<<>>, MCMount}
MCOuts == {MCRepo, MCMount}
MCInjected == {<<>>, <<"repo", "results", "results">>}
=============================================================================
