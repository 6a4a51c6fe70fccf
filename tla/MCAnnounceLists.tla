--------------------------- MODULE MCAnnounceLists --------------------------
(* The two protocols whose requests are put on a list by CAS, for TLC, side *)
(* by side: a behaviour is one of Oyama's combining or of flat combining,   *)
(* which is chosen at the start, and the other stays as it is initialised.  *)
(* The object is a bit: with Oyama a request flips it and is told whose     *)
(* request it was; with flat combining, where sfunc is given the pid of the *)
(* combiner (fc.c:85), the answer does not depend on the thread, as those   *)
(* of the queue and the stack built on it, and only says that it was done.  *)
EXTENDS Oyama, TLC

CONSTANT CombiningRounds

FlipState(s, a, t) == ~s
CallerResult(s, a, t) == IF t = NULL THEN TRUE ELSE t

(* Any sfunc that is not told the pid. *)
StateOfAnyone(s, a, t) == NewState(s, a, NULL)
ResultOfAnyone(s, a, t) == Result(s, a, NULL)

VARIABLES
  which,       (* the component this behaviour is of                       *)
  f_head, f_lock, f_next, f_val, f_active, f_pending, f_state, f_pc, f_owner,
  f_i, f_cur, f_result

f_vars ==
  <<f_head, f_lock, f_next, f_val, f_active, f_pending, f_state, f_pc, f_owner,
  f_i, f_cur, f_result>>

F == INSTANCE FC WITH
  head <- f_head, lock <- f_lock, next <- f_next, val <- f_val, active <-
  f_active, pending <- f_pending, state <- f_state, pc <- f_pc, owner <-
  f_owner, i <- f_i, cur <- f_cur, result <- f_result, NewState <-
  StateOfAnyone, Result <- ResultOfAnyone

ASSUME FCAssumption == F!ConstantsAssumption

MCInit ==
  /\ which \in {"Oyama", "FC"}
  /\ Init /\ F!Init

MCNext ==
  \/ which = "Oyama" /\ Next /\ UNCHANGED <<which, f_vars>>
  \/ which = "FC" /\ F!Next /\ UNCHANGED <<which, vars>>

(* The fairness of the modules, each for its own behaviours.                *)
Fairness ==
  \A t \in Threads :
    /\ WF_vars(which = "Oyama" /\ Step(t))
    /\ WF_f_vars(which = "FC" /\ F!Step(t))

MCSpec == MCInit /\ [][MCNext]_<<which, vars, f_vars>> /\ Fairness

-----------------------------------------------------------------------------
(* No request is lost from the list it is put on, and none is on it twice,  *)
(* although a combiner detaches the list (oyama.c:36) or goes through it    *)
(* (fc.c:82-94) while others push.                                          *)
RequestsStayListed ==
  /\ which = "Oyama" => TypeOK /\ RequestsAreListed
  /\ which = "FC" => F!TypeOK /\ F!EveryActiveRequestIsListed

(* Both are linearizable. (These are the formulas ImplementsAtomicObject of *)
(* the modules, each for its own behaviours.)                               *)
ImplementAtomicObject ==
  /\ Ob!Init /\ [][which = "Oyama" => Ob!Next]_<<which, Ob!vars>>
  /\ F!Ob!Init /\ [][which = "FC" => F!Ob!Next]_<<which, F!Ob!vars>>

(* A call returns once its request is on the list. (With Oyama the CAS that *)
(* puts it there may fail for ever while others call; with FC it cannot, as *)
(* each thread enlists itself only once.)                                   *)
CallsReturn == AnnouncedCallReturns /\ F!EveryCallReturns
=============================================================================
