------------------------------- MODULE Oyama -------------------------------
(***************************************************************************)
(* The combining object of Oyama et al. (libconcurrent/concurrent/oyama.c).*)
(* Threads push their announcement nodes on a stack by a CAS; whoever gets *)
(* the lock detaches the whole stack, serves it, and does so again until   *)
(* the stack is empty or help_bound requests have been served. The others  *)
(* wait until they have been served or the lock is free.                   *)
(***************************************************************************)
EXTENDS Integers, FiniteSets

CONSTANTS
  Threads,            (* a thread, its pid and its my_node: one name       *)
  NULL,
  Args,               (* requests                                          *)
  HelpFactor,         (* OYAMA_HELP_FACTOR, 10 in the code                 *)
  InitialState,
  NewState(_, _, _),  (* the two halves of sfunc, see AtomicObject         *)
  Result(_, _, _)

ASSUME ConstantsAssumption ==
  /\ IsFiniteSet(Threads)
  /\ NULL \notin Threads
  /\ HelpFactor \in Nat \ {0}

HelpBound == HelpFactor * Cardinality(Threads)

VARIABLES
  tail,       (* l->tail: the top of the stack of announcements            *)
  lock,       (* l->lock = LOCKED                                          *)
  next,       (* fields of the OyamaAnnounceNode of each thread            *)
  arg_ret,
  completed,
  state,      (* the object sfunc works on                                 *)
  pc,         (* where each thread is in OyamaApplyOp                      *)
  p,          (* locals of OyamaApplyOp                                    *)
  tmp_next,
  counter,
  result      (* the value returned by the last call                       *)

nodeVars == <<next, arg_ret, completed>>
localVars == <<p, tmp_next, counter>>
vars == <<tail, lock, nodeVars, state, pc, localVars, result>>

Goto(t, from, to) ==
  /\ pc[t] = from
  /\ pc' = [pc EXCEPT ![t] = to]

(* return mynode->arg_ret; the locals do not outlive the call. *)
Return(t, from) ==
  /\ Goto(t, from, "idle")
  /\ result' = [result EXCEPT ![t] = arg_ret[t]]
  /\ counter' = [counter EXCEPT ![t] = 0]
  /\ UNCHANGED <<tail, lock, nodeVars, state, p, tmp_next>>

-----------------------------------------------------------------------------
(* OyamaInit. OyamaThreadStateInit does nothing. *)
Init ==
  /\ tail = NULL
  /\ lock = FALSE
  /\ next = [t \in Threads |-> NULL]
  /\ arg_ret = [t \in Threads |-> NULL]
  /\ completed = [t \in Threads |-> FALSE]
  /\ state = InitialState
  /\ pc = [t \in Threads |-> "idle"]
  /\ p = [t \in Threads |-> NULL]
  /\ tmp_next = [t \in Threads |-> NULL]
  /\ counter = [t \in Threads |-> 0]
  /\ result = [t \in Threads |-> NULL]

(* The call: t fills in its node, which nobody can reach. *)
Call(t, a) ==
  /\ Goto(t, "idle", "readTail")
  /\ arg_ret' = [arg_ret EXCEPT ![t] = a]
  /\ completed' = [completed EXCEPT ![t] = FALSE]
  /\ result' = [result EXCEPT ![t] = NULL]
  /\ UNCHANGED <<tail, lock, next, state, localVars>>

(* mynode->next = l->tail *)
ReadTail(t) ==
  /\ Goto(t, "readTail", "push")
  /\ next' = [next EXCEPT ![t] = tail]
  /\ UNCHANGED <<tail, lock, arg_ret, completed, state, localVars, result>>

(* CAS(&l->tail, mynode->next, mynode), ... *)
Push(t) ==
  /\ Goto(t, "push", "try")
  /\ tail = next[t]
  /\ tail' = t
  /\ UNCHANGED <<lock, nodeVars, state, localVars, result>>

(* ... which is tried again when somebody else was faster. *)
PushFails(t) ==
  /\ Goto(t, "push", "readTail")
  /\ tail # next[t]
  /\ UNCHANGED <<tail, lock, nodeVars, state, localVars, result>>

(* l->lock == UNLOCKED && CAS(&l->lock, UNLOCKED, LOCKED). (The comparison  *)
(* before the CAS reads what the CAS compares again.)                       *)
Acquire(t) ==
  /\ Goto(t, "try", "detach")
  /\ ~lock
  /\ lock' = TRUE
  /\ UNCHANGED <<tail, nodeVars, state, localVars, result>>

AcquireFails(t) ==
  /\ Goto(t, "try", "spin")
  /\ lock
  /\ UNCHANGED <<tail, lock, nodeVars, state, localVars, result>>

(* Mutant of StopSpinning: the lock is not looked at. *)
StopSpinningIfServed(t) ==
  /\ Goto(t, "spin", "check")
  /\ completed[t]
  /\ UNCHANGED <<tail, lock, nodeVars, state, localVars, result>>

(* while (mynode->completed == false && l->lock == LOCKED) ends *)
StopSpinning(t) ==
  /\ Goto(t, "spin", "check")
  /\ completed[t] \/ ~lock
  /\ UNCHANGED <<tail, lock, nodeVars, state, localVars, result>>

(* if (mynode->completed) return mynode->arg_ret *)
ReturnHelped(t) ==
  /\ Return(t, "check")
  /\ completed[t]

TryAgain(t) ==
  /\ Goto(t, "check", "try")
  /\ ~completed[t]
  /\ UNCHANGED <<tail, lock, nodeVars, state, localVars, result>>

(* counter < help_bound && (p = SWAP(&l->tail, NULL)) != NULL *)
Detach(t) ==
  /\ Goto(t, "detach", "visit")
  /\ counter[t] < HelpBound
  /\ tail # NULL
  /\ p' = [p EXCEPT ![t] = tail]
  /\ tail' = NULL
  /\ UNCHANGED <<lock, nodeVars, state, tmp_next, counter, result>>

StopCombining(t) ==
  /\ Goto(t, "detach", "release")
  /\ counter[t] >= HelpBound \/ tail = NULL
  /\ UNCHANGED <<tail, lock, nodeVars, state, localVars, result>>

(* counter++; tmp_next = p->next, before p is given away *)
Visit(t) ==
  /\ Goto(t, "visit", "apply")
  /\ counter' = [counter EXCEPT ![t] = @ + 1]
  /\ tmp_next' = [tmp_next EXCEPT ![t] = next[p[t]]]
  /\ UNCHANGED <<tail, lock, nodeVars, state, p, result>>

(* Mutant of Apply: sfunc gets the combiner's pid. *)
ApplyAsCombiner(t) ==
  /\ Goto(t, "apply", "complete")
  /\ state' = NewState(state, arg_ret[p[t]], t)
  /\ arg_ret' = [arg_ret EXCEPT ![p[t]] = Result(state, arg_ret[p[t]], t)]
  /\ UNCHANGED <<tail, lock, next, completed, localVars, result>>

(* p->arg_ret = sfunc(p->arg_ret, p->pid) *)
Apply(t) ==
  /\ Goto(t, "apply", "complete")
  /\ state' = NewState(state, arg_ret[p[t]], p[t])
  /\ arg_ret' = [arg_ret EXCEPT ![p[t]] = Result(state, arg_ret[p[t]], p[t])]
  /\ UNCHANGED <<tail, lock, next, completed, localVars, result>>

(* p->completed = true; p = tmp_next; the end of the list ends the inner loop *)
Complete(t) ==
  /\ Goto(t, "complete", IF tmp_next[t] = NULL THEN "detach" ELSE "visit")
  /\ completed' = [completed EXCEPT ![p[t]] = TRUE]
  /\ p' = [p EXCEPT ![t] = tmp_next[t]]
  /\ tmp_next' = [tmp_next EXCEPT ![t] = NULL]
  /\ UNCHANGED <<tail, lock, next, arg_ret, state, counter, result>>

(* l->lock = UNLOCKED *)
Release(t) ==
  /\ Goto(t, "release", "return")
  /\ lock' = FALSE
  /\ UNCHANGED <<tail, nodeVars, state, localVars, result>>

(* return mynode->arg_ret, by the thread that was the combiner *)
ReturnCombiner(t) == Return(t, "return")

Step(t) ==
  \/ ReadTail(t) \/ Push(t) \/ PushFails(t)
  \/ Acquire(t) \/ AcquireFails(t) \/ StopSpinning(t) \/ ReturnHelped(t) \/ TryAgain(t)
  \/ Detach(t) \/ StopCombining(t) \/ Visit(t) \/ Apply(t) \/ Complete(t)
  \/ Release(t) \/ ReturnCombiner(t)

Next == \E t \in Threads : (\E a \in Args : Call(t, a)) \/ Step(t)

Spec == Init /\ [][Next]_vars

(* A thread inside an operation is scheduled again and again (it never      *)
(* blocks in the code, it spins); nobody is obliged to call.                *)
FairSpec == Spec /\ \A t \in Threads : WF_vars(Step(t))

-----------------------------------------------------------------------------
Combining == {"detach", "visit", "apply", "complete", "release"}

PCs == {"idle", "readTail", "push", "try", "spin", "check", "return"} \cup Combining

(* The type of the state. The bound is looked at between two lists, so the  *)
(* last list may go past it by all threads but one.                         *)
TypeOK ==
  /\ tail \in Threads \cup {NULL}
  /\ lock \in BOOLEAN
  /\ next \in [Threads -> Threads \cup {NULL}]
  /\ DOMAIN arg_ret = Threads
  /\ completed \in [Threads -> BOOLEAN]
  /\ pc \in [Threads -> PCs]
  /\ p \in [Threads -> Threads \cup {NULL}]
  /\ tmp_next \in [Threads -> Threads \cup {NULL}]
  /\ counter \in [Threads -> 0 .. HelpBound + Cardinality(Threads) - 1]
  /\ DOMAIN result = Threads

(* The nodes of the list that starts at n. *)
List(n) ==
  LET upTo[k \in 0 .. Cardinality(Threads)] ==
        IF k = 0 THEN {n} \ {NULL}
        ELSE upTo[k - 1] \cup ({next[u] : u \in upTo[k - 1]} \ {NULL})
  IN  upTo[Cardinality(Threads)]

(* What the combiner t has detached and still has to serve. *)
Detached(t) ==
  CASE pc[t] \in {"visit", "apply"} -> List(p[t])
    [] pc[t] = "complete" -> List(tmp_next[t])
    [] OTHER -> {}

(* t has announced its request, and sfunc has not run for it. *)
Served(t) ==
  completed[t] \/ \E c \in Threads : pc[c] = "complete" /\ p[c] = t

Announced(t) == pc[t] \notin {"idle", "readTail", "push"} /\ ~Served(t)

(* No request is lost, and none is served twice: the requests on the stack  *)
(* together with those the combiner has detached, although others push in   *)
(* between, are those announced and not served yet, each in one place.      *)
RequestsAreListed ==
  /\ {t \in Threads : Announced(t)} = List(tail) \cup UNION {Detached(c) : c \in Threads}
  /\ \A c \in Threads : List(tail) \cap Detached(c) = {}

AbstractOp(t) ==
  IF pc[t] = "idle" THEN [status |-> "idle"]
  ELSE IF Served(t) THEN [status |-> "done", ret |-> arg_ret[t]]
  ELSE [status |-> "pending", arg |-> arg_ret[t]]

Ob == INSTANCE AtomicObject WITH
        NoResult <- NULL,
        obj <- state,
        op <- [t \in Threads |-> AbstractOp(t)],
        result <- result

(* The object is linearizable: each request takes effect exactly once and   *)
(* each call returns its own answer; a combiner's own is among those it, or *)
(* the combiner before it, has served.                                      *)
ImplementsAtomicObject == Ob!Spec

(* A call whose request is on the stack returns: the next combiner serves   *)
(* it, or finds it served, or its own thread becomes the combiner. (The     *)
(* CAS that pushes it may fail for ever while others call.)                 *)
AnnouncedCallReturns == \A t \in Threads : pc[t] = "try" ~> pc[t] = "idle"
=============================================================================
