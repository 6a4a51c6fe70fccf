--------------------------------- MODULE FC ---------------------------------
(***************************************************************************)
(* Flat combining (libconcurrent/concurrent/fc.c). Each thread has one     *)
(* request, which it puts on the publication list at the first occasion    *)
(* and which stays there: the list is never cleaned up, because            *)
(* lock->count is set to 1 and not incremented before                      *)
(* count % FC_CLEANUP_FREQUENCY is tested. Whoever gets the lock goes      *)
(* through the list a few times and serves the requests that are pending.  *)
(***************************************************************************)
EXTENDS Integers, FiniteSets

CONSTANTS
  Threads,            (* a thread, its pid and its request: one name       *)
  NULL,
  Args,               (* requests                                          *)
  CombiningRounds,    (* FC_COMBINING_ROUNDS, 3 in the code                *)
  InitialState,
  NewState(_, _, _),  (* the two halves of sfunc, see AtomicObject         *)
  Result(_, _, _)

ConstantsAssumption ==
  /\ IsFiniteSet(Threads)
  /\ NULL \notin Threads
  /\ CombiningRounds \in Nat \ {0}

VARIABLES
  head,      (* lock->head: the publication list                           *)
  lock,      (* lock->lock # 0                                             *)
  next,      (* fields of the FCRequest of each thread                     *)
  val,
  active,
  pending,
  state,     (* the object sfunc works on                                  *)
  pc,        (* where each thread is in FCApplyOp                          *)
  owner,     (* whether it has got the lock                                *)
  i,         (* locals of FCApplyOp                                        *)
  cur,
  result     (* the value returned by the last call                        *)

requestVars == <<next, val, active, pending>>
localVars == <<owner, i, cur>>
vars == <<head, lock, requestVars, state, pc, localVars, result>>

Goto(t, from, to) ==
  /\ pc[t] = from
  /\ pc' = [pc EXCEPT ![t] = to]

(* return request->val; the locals do not outlive the call. *)
Return(t, from) ==
  /\ Goto(t, from, "idle")
  /\ result' = [result EXCEPT ![t] = val[t]]
  /\ owner' = [owner EXCEPT ![t] = FALSE]
  /\ i' = [i EXCEPT ![t] = 0]
  /\ UNCHANGED <<head, lock, requestVars, state, cur>>

-----------------------------------------------------------------------------
(* FCStructInit, and FCThreadStateInit of each thread. It leaves next, val  *)
(* and pending of a request alone, which are set before others look.        *)
Init ==
  /\ head = NULL
  /\ lock = FALSE
  /\ next = [t \in Threads |-> NULL]
  /\ val = [t \in Threads |-> NULL]
  /\ active = [t \in Threads |-> FALSE]
  /\ pending = [t \in Threads |-> FALSE]
  /\ state = InitialState
  /\ pc = [t \in Threads |-> "idle"]
  /\ owner = [t \in Threads |-> FALSE]
  /\ i = [t \in Threads |-> 0]
  /\ cur = [t \in Threads |-> NULL]
  /\ result = [t \in Threads |-> NULL]

(* The call: request->val = arg, which nobody reads before Publish. *)
Call(t, a) ==
  /\ Goto(t, "idle", "publish")
  /\ val' = [val EXCEPT ![t] = a]
  /\ result' = [result EXCEPT ![t] = NULL]
  /\ UNCHANGED <<head, lock, next, active, pending, state, localVars>>

(* request->pending = true *)
Publish(t) ==
  /\ Goto(t, "publish", "try")
  /\ pending' = [pending EXCEPT ![t] = TRUE]
  /\ UNCHANGED <<head, lock, next, val, active, state, localVars, result>>

(* lock->lock == 0 && CAS(&lock->lock, 0, 1). (The comparison before the    *)
(* CAS reads what the CAS compares again.) The owner enlists its request if *)
(* it has not done so, then begins the first round.                         *)
Acquire(t) ==
  /\ Goto(t, "try", IF active[t] THEN "round" ELSE "enlist")
  /\ ~lock
  /\ lock' = TRUE
  /\ owner' = [owner EXCEPT ![t] = TRUE]
  /\ UNCHANGED <<head, requestVars, state, i, cur, result>>

AcquireFails(t) ==
  /\ Goto(t, "try", "spin")
  /\ lock
  /\ UNCHANGED <<head, lock, requestVars, state, localVars, result>>

(* while (lock->lock && request->pending && request->active) ends *)
StopSpinning(t) ==
  /\ Goto(t, "spin", "check")
  /\ ~lock \/ ~pending[t] \/ ~active[t]
  /\ UNCHANGED <<head, lock, requestVars, state, localVars, result>>

(* if (request->pending == false) return request->val *)
ReturnHelped(t) ==
  /\ Return(t, "check")
  /\ ~pending[t]

TryAgain(t) ==
  /\ Goto(t, "check", IF active[t] THEN "try" ELSE "enlist")
  /\ pending[t]
  /\ UNCHANGED <<head, lock, requestVars, state, localVars, result>>

-----------------------------------------------------------------------------
(* FCEnqueueRequest: request->active = true, supposed = lock->head, and     *)
(* request->next = supposed, as nobody reads the first and the last.        *)
ReadHead(t) ==
  /\ Goto(t, "enlist", "push")
  /\ active' = [active EXCEPT ![t] = TRUE]
  /\ next' = [next EXCEPT ![t] = head]
  /\ UNCHANGED <<head, lock, val, pending, state, localVars, result>>

(* Mutant of Push: a store instead of the CAS. *)
PushBlindly(t) ==
  /\ Goto(t, "push", IF owner[t] THEN "round" ELSE "try")
  /\ head' = t
  /\ UNCHANGED <<lock, requestVars, state, localVars, result>>

(* CAS(&lock->head, supposed, request), ... *)
Push(t) ==
  /\ Goto(t, "push", IF owner[t] THEN "round" ELSE "try")
  /\ head = next[t]
  /\ head' = t
  /\ UNCHANGED <<lock, requestVars, state, localVars, result>>

(* ... which is tried again when somebody else was faster. *)
PushFails(t) ==
  /\ Goto(t, "push", "enlist")
  /\ head # next[t]
  /\ UNCHANGED <<head, lock, requestVars, state, localVars, result>>

-----------------------------------------------------------------------------
(* i < FC_COMBINING_ROUNDS; cur = lock->head *)
StartRound(t) ==
  /\ Goto(t, "round", "scan")
  /\ i[t] < CombiningRounds
  /\ cur' = [cur EXCEPT ![t] = head]
  /\ UNCHANGED <<head, lock, requestVars, state, owner, i, result>>

(* cur->pending is false; cur = cur->next *)
Skip(t) ==
  /\ Goto(t, "scan", "scan")
  /\ cur[t] # NULL
  /\ ~pending[cur[t]]
  /\ cur' = [cur EXCEPT ![t] = next[cur[t]]]
  /\ UNCHANGED <<head, lock, requestVars, state, owner, i, result>>

(* cur->pending; cur->val = sfunc(state, cur->val, pid). Only the combiner  *)
(* ends the pending of a request, and val is its own until then. The pid    *)
(* sfunc gets is the combiner's.                                            *)
Apply(t) ==
  /\ Goto(t, "scan", "finish")
  /\ cur[t] # NULL
  /\ pending[cur[t]]
  /\ state' = NewState(state, val[cur[t]], t)
  /\ val' = [val EXCEPT ![cur[t]] = Result(state, val[cur[t]], t)]
  /\ UNCHANGED <<head, lock, next, active, pending, localVars, result>>

(* cur->pending = false; cur = cur->next, which does not change any more. *)
Finish(t) ==
  /\ Goto(t, "finish", "scan")
  /\ pending' = [pending EXCEPT ![cur[t]] = FALSE]
  /\ cur' = [cur EXCEPT ![t] = next[cur[t]]]
  /\ UNCHANGED <<head, lock, next, val, active, state, owner, i, result>>

(* The end of the list; i++ *)
EndRound(t) ==
  /\ Goto(t, "scan", "round")
  /\ cur[t] = NULL
  /\ i' = [i EXCEPT ![t] = @ + 1]
  /\ UNCHANGED <<head, lock, requestVars, state, owner, cur, result>>

(* lock->lock = 0 *)
Release(t) ==
  /\ Goto(t, "round", "return")
  /\ i[t] >= CombiningRounds
  /\ lock' = FALSE
  /\ UNCHANGED <<head, requestVars, state, localVars, result>>

(* return request->val, by the thread that was the combiner *)
ReturnCombiner(t) == Return(t, "return")

FCEnqueueRequest(t) == ReadHead(t) \/ Push(t) \/ PushFails(t)

Step(t) ==
  \/ Publish(t)
  \/ Acquire(t) \/ AcquireFails(t) \/ StopSpinning(t) \/ ReturnHelped(t) \/ TryAgain(t)
  \/ FCEnqueueRequest(t)
  \/ StartRound(t) \/ Skip(t) \/ Apply(t) \/ Finish(t) \/ EndRound(t)
  \/ Release(t) \/ ReturnCombiner(t)

Next == \E t \in Threads : (\E a \in Args : Call(t, a)) \/ Step(t)

Spec == Init /\ [][Next]_vars

(* A thread inside an operation is scheduled again and again (it never      *)
(* blocks in the code, it spins); nobody is obliged to call.                *)
FairSpec == Spec /\ \A t \in Threads : WF_vars(Step(t))

-----------------------------------------------------------------------------
PCs == {"idle", "publish", "try", "spin", "check", "enlist", "push",
        "round", "scan", "finish", "return"}

(* The type of the state; a combiner makes CombiningRounds rounds.          *)
TypeOK ==
  /\ head \in Threads \cup {NULL}
  /\ lock \in BOOLEAN
  /\ next \in [Threads -> Threads \cup {NULL}]
  /\ DOMAIN val = Threads
  /\ active \in [Threads -> BOOLEAN]
  /\ pending \in [Threads -> BOOLEAN]
  /\ pc \in [Threads -> PCs]
  /\ owner \in [Threads -> BOOLEAN]
  /\ i \in [Threads -> 0 .. CombiningRounds]
  /\ cur \in [Threads -> Threads \cup {NULL}]
  /\ DOMAIN result = Threads

(* The requests from n on. *)
List(n) ==
  LET upTo[k \in 0 .. Cardinality(Threads)] ==
        IF k = 0 THEN {n} \ {NULL}
        ELSE upTo[k - 1] \cup ({next[u] : u \in upTo[k - 1]} \ {NULL})
  IN  upTo[Cardinality(Threads)]

(* No request that has been put on the list drops out of it when another    *)
(* one comes in, or is put there twice (which would cut or close the list): *)
(* those on the list are those that are active, save while their threads    *)
(* are still putting them there.                                            *)
EveryActiveRequestIsListed ==
  List(head) = {t \in Threads : active[t] /\ pc[t] \notin {"enlist", "push"}}

(* t has a call under way for which sfunc has run. *)
Served(t) ==
  /\ pc[t] \notin {"idle", "publish"}
  /\ ~pending[t] \/ \E c \in Threads : pc[c] = "finish" /\ cur[c] = t

AbstractOp(t) ==
  IF pc[t] = "idle" THEN [status |-> "idle"]
  ELSE IF Served(t) THEN [status |-> "done", ret |-> val[t]]
  ELSE [status |-> "pending", arg |-> val[t]]

Ob == INSTANCE AtomicObject WITH
        NoResult <- NULL,
        obj <- state,
        op <- [t \in Threads |-> AbstractOp(t)],
        result <- result

(* The object is linearizable, provided sfunc does not look at the pid: a   *)
(* request is served once although the combiner comes by several times and  *)
(* its thread may call again in between, and a combiner, which does not     *)
(* look whether its own request was served, returns the answer to it.       *)
ImplementsAtomicObject == Ob!Spec

(* A call returns: its request is put on the list, as each thread has to do *)
(* so only once, and the combiner at work, or the next one, comes by.       *)
EveryCallReturns == \A t \in Threads : pc[t] = "publish" ~> pc[t] = "idle"
=============================================================================
