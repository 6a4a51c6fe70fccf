----------------------------- MODULE MCSimQueue -----------------------------
(* SimQueue for TLC: one thread enqueues and dequeues, another one dequeues. *)
EXTENDS SimQueue, TLC

Workload == (0 :> <<"a", DEQ>>) @@ (1 :> <<DEQ>>)
=============================================================================
