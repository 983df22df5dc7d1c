------------------------------ MODULE MCNatsBench ------------------------------
(***************************************************************************)
(* NatsBench on a small instance: no task or two for each scenario, one    *)
(* payload size or two or none.                                            *)
(***************************************************************************)
EXTENDS NatsBench

MCSizeLists == {<<>>, <<"small">>, <<"medium", "large">>}
=============================================================================
