----------------------------- MODULE LFUObject -----------------------------
(***************************************************************************)
(* The lock-free object of libconcurrent/concurrent/lfuobject.c: sfunc is  *)
(* run on a copy of the state (one word), which a CAS installs. The CAS    *)
(* succeeds on any state equal to the one that was copied, also after it   *)
(* has changed and changed back.                                           *)
(***************************************************************************)
CONSTANTS
  Threads, Args, InitialState, NULL,
  NewState(_, _, _), Result(_, _, _)   (* sfunc, as in AtomicObject        *)

VARIABLES
  state,       (* l->state.state                                           *)
  pc,
  request,     (* arg                                                      *)
  old_state,   (* locals                                                   *)
  answer       (* what the last call returned                              *)

vars == <<state, pc, request, old_state, answer>>

Goto(t, from, to) ==
  /\ pc[t] = from
  /\ pc' = [pc EXCEPT ![t] = to]

-----------------------------------------------------------------------------
(* LFUObjectInit *)
Init ==
  /\ state = InitialState
  /\ pc = [t \in Threads |-> "out"]
  /\ request = [t \in Threads |-> NULL]
  /\ old_state = [t \in Threads |-> NULL]
  /\ answer = [t \in Threads |-> NULL]

(* LFUObjectApplyOp *)
Call(t, a) ==
  /\ Goto(t, "out", "read")
  /\ request' = [request EXCEPT ![t] = a]
  /\ answer' = [answer EXCEPT ![t] = NULL]
  /\ UNCHANGED <<state, old_state>>

(* old_state = l->state; sfunc runs on a copy. *)
Read(t) ==
  /\ Goto(t, "read", "cas")
  /\ old_state' = [old_state EXCEPT ![t] = state]
  /\ UNCHANGED <<state, request, answer>>

(* Mutant of TryInstall: a store instead of the CAS.                        *)
TryInstallBlindly(t) ==
  /\ Goto(t, "cas", "return")
  /\ state' = NewState(old_state[t], request[t], t)
  /\ UNCHANGED <<request, old_state, answer>>

(* synchCAS64(&l->state, old_state, new_state) *)
TryInstall(t) ==
  LET done == state = old_state[t]
  IN  /\ Goto(t, "cas", IF done THEN "return" ELSE "read")
      /\ state' = IF done THEN NewState(old_state[t], request[t], t) ELSE state
      /\ old_state' = [old_state EXCEPT ![t] = IF done THEN @ ELSE NULL]
      /\ UNCHANGED <<request, answer>>

(* return ret_state, the answer of the run of sfunc that was installed      *)
Return(t) ==
  /\ Goto(t, "return", "out")
  /\ answer' = [answer EXCEPT ![t] = Result(old_state[t], request[t], t)]
  /\ old_state' = [old_state EXCEPT ![t] = NULL]
  /\ request' = [request EXCEPT ![t] = NULL]
  /\ UNCHANGED state

Step(t) == Read(t) \/ TryInstall(t) \/ Return(t)

Next == \E t \in Threads : Step(t) \/ \E a \in Args : Call(t, a)

Spec == Init /\ [][Next]_vars

(* A thread inside a call goes on. *)
Fairness == \A t \in Threads : WF_vars(Step(t))

-----------------------------------------------------------------------------
(* The type of the state.                                                   *)
TypeOK ==
  /\ pc \in [Threads -> {"out", "read", "cas", "return"}]
  /\ request \in [Threads -> Args \cup {NULL}]
  /\ DOMAIN old_state = Threads /\ DOMAIN answer = Threads

(* The request of t has taken effect once a CAS has succeeded for it.       *)
Served(t) ==
  IF pc[t] = "out" THEN [status |-> "idle"]
  ELSE IF pc[t] = "return"
    THEN [status |-> "done", ret |-> Result(old_state[t], request[t], t)]
    ELSE [status |-> "pending", arg |-> request[t]]

Ob == INSTANCE AtomicObject WITH
        NoResult <- NULL,
        obj <- state,
        op <- [t \in Threads |-> Served(t)],
        result <- answer

(* The object is linearizable; that a CAS may succeed on a state that has   *)
(* changed back does no harm.                                               *)
ImplementsAtomicObject == Ob!Spec

(* It is lock-free: one call may fail for ever, but then others return.     *)
SomeCallReturns ==
  \/ <>[](\A t \in Threads : pc[t] = "out")
  \/ []<>(\E t \in Threads : pc[t] = "return")
=============================================================================
