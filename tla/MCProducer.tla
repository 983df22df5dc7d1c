------------------------------ MODULE MCProducer ------------------------------
(***************************************************************************)
(* Producer on a small instance: every mode and one unknown one; one task  *)
(* of each kind (result ignored, result kept, always failing) and a name   *)
(* _resolve_task rejects, taken from RunSpec's documentation.              *)
(***************************************************************************)
EXTENDS Producer

MCModeNames == {"burst", "closed_loop", "open_loop", "soak", "closed"}
MCTaskNames == {"noop", "echo", "fail_task", "sleep"}
=============================================================================
