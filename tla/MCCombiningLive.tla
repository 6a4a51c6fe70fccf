--------------------------- MODULE MCCombiningLive --------------------------
(* The combining protocols, and the lock-free object, side by side as in    *)
(* MCCombining, under the fairness of each: a thread that has started a     *)
(* call goes on.                                                            *)
EXTENDS CCSynch, TLC

CONSTANTS
  t1, t2, n1, n2, NumaNodes

(* H-Synch with two threads that share a queue, and with two that have each *)
(* a queue and compete for the lock.                                        *)
Neighbours == [t \in Threads |-> n1]
Rivals == (t1 :> n1) @@ (t2 :> n2)

(* Whether calls return does not depend on the object: one with one state.  *)
SameState(s, a, t) == s
NoAnswer(s, a, t) == NULL

(* With LFUObject it does: a counter modulo 3.                              *)
AddState(s, a, t) == (s + a) % 3
OldState(s, a, t) == s

VARIABLES
  which,       (* the component this behaviour is of                       *)
  d_tail, d_next, d_locked, d_completed, d_arg_ret, d_pid, d_state, d_pc,
  d_toggle, d_mypred, d_p, d_counter, d_result,
  h_nodes, h_node_indexes, h_tail, h_next, h_locked, h_completed, h_arg_ret,
  h_pid, h_queue, h_inside, h_state, h_pc, h_next_node, h_arg, h_cur, h_p,
  h_tmp_next, h_counter, h_result,
  o_tail, o_current_node, o_next, o_door, o_rec, o_state, o_running, o_pc,
  o_toggle, o_my, o_result,
  l_state, l_pc, l_request, l_old_state, l_answer

d_vars ==
  <<d_tail, d_next, d_locked, d_completed, d_arg_ret, d_pid, d_state, d_pc,
  d_toggle, d_mypred, d_p, d_counter, d_result>>
h_vars ==
  <<h_nodes, h_node_indexes, h_tail, h_next, h_locked, h_completed, h_arg_ret,
  h_pid, h_queue, h_inside, h_state, h_pc, h_next_node, h_arg, h_cur, h_p,
  h_tmp_next, h_counter, h_result>>
o_vars ==
  <<o_tail, o_current_node, o_next, o_door, o_rec, o_state, o_running, o_pc,
  o_toggle, o_my, o_result>>
l_vars ==
  <<l_state, l_pc, l_request, l_old_state, l_answer>>

D == INSTANCE DSMSynch WITH
  tail <- d_tail, next <- d_next, locked <- d_locked, completed <-
  d_completed, arg_ret <- d_arg_ret, pid <- d_pid, state <- d_state, pc <-
  d_pc, toggle <- d_toggle, mypred <- d_mypred, p <- d_p, counter <-
  d_counter, result <- d_result

H == INSTANCE HSynch WITH
  nodes <- h_nodes, node_indexes <- h_node_indexes, tail <- h_tail, next <-
  h_next, locked <- h_locked, completed <- h_completed, arg_ret <- h_arg_ret,
  pid <- h_pid, queue <- h_queue, inside <- h_inside, state <- h_state, pc <-
  h_pc, next_node <- h_next_node, arg <- h_arg, cur <- h_cur, p <- h_p,
  tmp_next <- h_tmp_next, counter <- h_counter, result <- h_result, NodeOf <-
  Neighbours, NodeSize <- 2

O == INSTANCE Osci WITH
  tail <- o_tail, current_node <- o_current_node, next <- o_next, door <-
  o_door, rec <- o_rec, state <- o_state, running <- o_running, pc <- o_pc,
  toggle <- o_toggle, my <- o_my, result <- o_result, nthreads <- 3,
  fibers_per_thread <- 2

L == INSTANCE LFUObject WITH
  state <- l_state, pc <- l_pc, request <- l_request, old_state <-
  l_old_state, answer <- l_answer, Args <- 0 .. 2, InitialState <- 0, NewState
  <- AddState, Result <- OldState

R == INSTANCE HSynch WITH
  nodes <- h_nodes, node_indexes <- h_node_indexes, tail <- h_tail, next <-
  h_next, locked <- h_locked, completed <- h_completed, arg_ret <- h_arg_ret,
  pid <- h_pid, queue <- h_queue, inside <- h_inside, state <- h_state, pc <-
  h_pc, next_node <- h_next_node, arg <- h_arg, cur <- h_cur, p <- h_p,
  tmp_next <- h_tmp_next, counter <- h_counter, result <- h_result, NodeOf <-
  Rivals, NodeSize <- 2

ASSUME D!ConstantsAssumption /\ H!ConstantsAssumption /\ R!ConstantsAssumption /\
       O!ConstantsAssumption

MCInit ==
  /\ which \in {"CCSynch", "DSMSynch", "neighbours", "rivals", "Osci",
                "LFUObject"}
  /\ Init /\ D!Init /\ H!Init /\ O!Init /\ L!Init

MCNext ==
  \/ which = "CCSynch" /\ Next /\ UNCHANGED <<which, d_vars, h_vars, o_vars, l_vars>>
  \/ which = "DSMSynch" /\ D!Next /\ UNCHANGED <<which, vars, h_vars, o_vars, l_vars>>
  \/ which = "neighbours" /\ H!Next /\ UNCHANGED <<which, vars, d_vars, o_vars, l_vars>>
  \/ which = "rivals" /\ R!Next /\ UNCHANGED <<which, vars, d_vars, o_vars, l_vars>>
  \/ which = "Osci" /\ O!Next /\ UNCHANGED <<which, vars, d_vars, h_vars, l_vars>>
  \/ which = "LFUObject" /\ L!Next /\ UNCHANGED <<which, vars, d_vars, h_vars, o_vars>>

(* The fairness of the modules, each for its own behaviours.                *)
Fairness ==
  /\ \A t \in Threads :
       /\ WF_vars(which = "CCSynch" /\ Step(t))
       /\ WF_d_vars(which = "DSMSynch" /\ D!Step(t))
       /\ WF_h_vars(which = "neighbours" /\ H!Step(t))
       /\ WF_h_vars(which = "rivals" /\ R!Step(t))
       /\ WF_l_vars(which = "LFUObject" /\ L!Step(t))
  /\ \A g \in O!Groups : WF_o_vars(which = "Osci" /\ O!GroupStep(g))

MCSpec ==
  MCInit /\ [][MCNext]_<<which, vars, d_vars, h_vars, o_vars, l_vars>> /\ Fairness

-----------------------------------------------------------------------------
(* Every call of every protocol returns, although the other threads call    *)
(* for ever: a combiner serves a bounded number of requests and hands over  *)
(* to the first one it leaves (ccsynch.c:38-52, dsmsynch.c:52-65,           *)
(* hsynch.c:44-65, osci.c:95-119). The lock-free object, whose CAS may fail *)
(* for ever (lfuobject.c:16-25), promises that some call does.              *)
CallsReturn ==
  /\ EveryCallReturns /\ D!EveryCallReturns /\ O!EveryCallReturns
  /\ \A t \in Threads : H!CallReturns(t)
  /\ L!SomeCallReturns
=============================================================================
