----------------------------- MODULE MCSimFamily ----------------------------
(* Sim, the stack and the queue made from it, and their toggle vectors, for *)
(* TLC, side by side: a behaviour is one of them, which is chosen at the    *)
(* start, and the others stay as they are initialised. Each thread has a    *)
(* few requests to make.                                                    *)
EXTENDS Sim, TLC

CONSTANTS
  StackRequests, POP, EMPTY_STACK,                (* of the stack               *)
  QueueRequests, DEQ, EMPTY_QUEUE,                (* of the queue               *)
  MaxNodes,                                       (* of both                    *)
  nthreads, Width                                 (* of the toggle vectors      *)

(* The object of Sim is a register with an atomic exchange; the k-th        *)
(* request of a thread is k, so every request differs and an answer names   *)
(* the request served just before.                                          *)
ExchangeState(s, a, t) == <<t, a>>
ExchangeResult(s, a, t) == s
Numbered(n) == [k \in 1 .. n |-> k]

(* One thread that is slow, and one that goes round its pool meanwhile.     *)
SlowAndFast == (0 :> Numbered(2)) @@ (1 :> Numbered(6))

(* Three threads that meet in one call each.                                *)
OneEach == [t \in 0 .. 2 |-> Numbered(1)]

(* Two threads that push and pop, or enqueue and dequeue.                   *)
StackWorkload == (0 :> <<"a", POP>>) @@ (1 :> <<"b", POP, "c">>)
QueueWorkload == (0 :> <<"a", "b", DEQ>>) @@ (1 :> <<"c", DEQ>>)

VARIABLES
  which,       (* the component this behaviour is of                       *)
  s_announce, s_a_toggles, s_sp, s_rec, s_val, s_next, s_used, s_pc, s_calls,
  s_th, s_my, s_result,
  q_announce, q_enqueuers, q_dequeuers, q_enq_sp, q_deq_sp, q_enq, q_deq,
  q_rets, q_val, q_next, q_pc, q_calls, q_th, q_my, q_result,
  v_a_toggles, v_my_bit, v_toggle, v_pc, v_applied, v_l_toggles, v_diffs,
  v_combiner, v_bank, v_waiting, v_due

s_vars ==
  <<s_announce, s_a_toggles, s_sp, s_rec, s_val, s_next, s_used, s_pc, s_calls,
  s_th, s_my, s_result>>
q_vars ==
  <<q_announce, q_enqueuers, q_dequeuers, q_enq_sp, q_deq_sp, q_enq, q_deq,
  q_rets, q_val, q_next, q_pc, q_calls, q_th, q_my, q_result>>
v_vars ==
  <<v_a_toggles, v_my_bit, v_toggle, v_pc, v_applied, v_l_toggles, v_diffs,
  v_combiner, v_bank, v_waiting, v_due>>

S == INSTANCE SimStack WITH
  announce <- s_announce, a_toggles <- s_a_toggles, sp <- s_sp, rec <- s_rec,
  val <- s_val, next <- s_next, used <- s_used, pc <- s_pc, calls <- s_calls,
  th <- s_th, my <- s_my, result <- s_result, Requests <- StackRequests

Q == INSTANCE SimQueue WITH
  announce <- q_announce, enqueuers <- q_enqueuers, dequeuers <- q_dequeuers,
  enq_sp <- q_enq_sp, deq_sp <- q_deq_sp, enq <- q_enq, deq <- q_deq, rets <-
  q_rets, val <- q_val, next <- q_next, pc <- q_pc, calls <- q_calls, th <-
  q_th, my <- q_my, result <- q_result, Requests <- QueueRequests

V == INSTANCE ToggleVector WITH
  a_toggles <- v_a_toggles, my_bit <- v_my_bit, toggle <- v_toggle, pc <-
  v_pc, applied <- v_applied, l_toggles <- v_l_toggles, diffs <- v_diffs,
  combiner <- v_combiner, bank <- v_bank, waiting <- v_waiting, due <- v_due

(* Sim with three threads, in the same variables.                           *)
Three == INSTANCE Sim WITH N <- 3, Requests <- OneEach

ASSUME FamilyAssumption ==
  S!ConstantsAssumption /\ Q!ConstantsAssumption /\ V!ConstantsAssumption

allVars == <<which, vars, s_vars, q_vars, v_vars>>

MCInit ==
  /\ which \in {"Sim", "Sim of three", "SimStack", "SimQueue", "toggle vectors"}
  /\ IF which = "Sim of three" THEN Three!Init ELSE Init
  /\ S!Init /\ Q!Init /\ V!Init

MCNext ==
  \/ which = "Sim" /\ Next /\ UNCHANGED <<which, s_vars, q_vars, v_vars>>
  \/ which = "Sim of three" /\ Three!Next /\ UNCHANGED <<which, s_vars, q_vars, v_vars>>
  \/ which = "SimStack" /\ S!Next /\ UNCHANGED <<which, vars, q_vars, v_vars>>
  \/ which = "SimQueue" /\ Q!Next /\ UNCHANGED <<which, vars, s_vars, v_vars>>
  \/ which = "toggle vectors" /\ V!Next /\ UNCHANGED <<which, vars, s_vars, q_vars>>

MCSpec == MCInit /\ [][MCNext]_allVars

-----------------------------------------------------------------------------
(* Sim and SimStack are linearizable: the requests that a record has        *)
(* applied take effect, once each, when a CAS installs it (sim.c:121,       *)
(* simstack.c:183). (These are the formulas ImplementsBatchedObject and     *)
(* ImplementsBatchedStack of the modules, each for its own behaviours.)     *)
ImplementBatchedObjects ==
  /\ which = "Sim" => Ob!Init
  /\ which = "Sim of three" => Three!Ob!Init
  /\ which = "SimStack" => S!Ob!Init
  /\ [][which = "Sim" => Ob!Next]_<<which, Ob!vars>>
  /\ [][which = "Sim of three" => Three!Ob!Next]_<<which, Three!Ob!vars>>
  /\ [][which = "SimStack" => S!Ob!Next]_<<which, S!Ob!vars>>

(* No node of SimStack is in two places, of the stack, the pools and the    *)
(* attempts under way: a failed attempt gives back what it took, and a      *)
(* successful one recycles what it popped (simstack.c:164-193).             *)
StackNodesAreInOnePlace == which = "SimStack" => S!NoNodeTwice

(* SimQueue puts each value into its list once and in the order of its      *)
(* thread's calls, whoever links the batch (simqueue.c:159-197).            *)
QueueHoldsEveryElement == which = "SimQueue" => Q!EnqueuedExactlyOnce /\ Q!ListIsInOrder

(* The toggle vectors of more than one word do for Sim what its model takes *)
(* for granted: the addition of tvec.h flips one bit and no other, and the  *)
(* copy word by word misses no request announced before it, nor serves one  *)
(* twice (sim.c:64-119).                                                    *)
VectorsFlipAndCompare ==
  which = "toggle vectors" => V!AppliedExactlyWhenServed /\ V!RoundServesWhoWaits
=============================================================================
