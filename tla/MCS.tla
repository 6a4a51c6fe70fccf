-------------------------------- MODULE MCS --------------------------------
(***************************************************************************)
(* The MCS queue lock (libconcurrent/concurrent/mcs.c). Each thread keeps  *)
(* its own node, spins on it, and is let in by its predecessor, which it   *)
(* has told its place by prev->next.                                       *)
(*                                                                         *)
(* A thread that finds a predecessor first sets locked in the node that    *)
(* l->Tail points to at that moment, which may already be the node of a    *)
(* thread behind it, and then in its own.                                  *)
(***************************************************************************)
EXTENDS Integers, FiniteSets

CONSTANTS
  Threads,   (* a thread and its node MyNode have the same name            *)
  NULL

ConstantsAssumption == NULL \notin Threads

VARIABLES
  tail,      (* l->Tail                                                    *)
  locked,    (* fields of the MCSLockNode of each thread                   *)
  next,
  pc,
  prev,      (* local of MCSLock                                           *)
  seen       (* the l->Tail whose node is about to be marked               *)

vars == <<tail, locked, next, pc, prev, seen>>

Goto(t, from, to) ==
  /\ pc[t] = from
  /\ pc' = [pc EXCEPT ![t] = to]

-----------------------------------------------------------------------------
(* MCSLockInit, and MCSThreadStateInit of every thread. *)
Init ==
  /\ tail = NULL
  /\ locked = [t \in Threads |-> FALSE]
  /\ next = [t \in Threads |-> NULL]
  /\ pc = [t \in Threads |-> "out"]
  /\ prev = [t \in Threads |-> NULL]
  /\ seen = [t \in Threads |-> NULL]

(* MCSLock: MyNode->next = NULL *)
Prepare(t) ==
  /\ Goto(t, "out", "swap")
  /\ next' = [next EXCEPT ![t] = NULL]
  /\ UNCHANGED <<tail, locked, prev, seen>>

(* prev = SWAP(&l->Tail, MyNode); without a predecessor nothing is marked.  *)
Swap(t) ==
  /\ Goto(t, "swap", IF tail = NULL THEN "spin" ELSE "readTail")
  /\ prev' = [prev EXCEPT ![t] = tail]
  /\ tail' = t
  /\ UNCHANGED <<locked, next, seen>>

(* l->Tail->locked = true: the pointer is read, then the node is written.   *)
ReadTail(t) ==
  /\ Goto(t, "readTail", "markTail")
  /\ seen' = [seen EXCEPT ![t] = tail]
  /\ UNCHANGED <<tail, locked, next, prev>>

MarkTail(t) ==
  /\ Goto(t, "markTail", "markOwn")
  /\ locked' = [locked EXCEPT ![seen[t]] = TRUE]
  /\ seen' = [seen EXCEPT ![t] = NULL]
  /\ UNCHANGED <<tail, next, prev>>

(* Mutant of MarkOwn: only the node in Tail is marked. *)
MarkOwnNever(t) ==
  /\ Goto(t, "markOwn", "link")
  /\ UNCHANGED <<tail, locked, next, prev, seen>>

(* MyNode->locked = true *)
MarkOwn(t) ==
  /\ Goto(t, "markOwn", "link")
  /\ locked' = [locked EXCEPT ![t] = TRUE]
  /\ UNCHANGED <<tail, next, prev, seen>>

(* prev->next = MyNode, after which the local is dead. *)
Link(t) ==
  /\ Goto(t, "link", "spin")
  /\ next' = [next EXCEPT ![prev[t]] = t]
  /\ prev' = [prev EXCEPT ![t] = NULL]
  /\ UNCHANGED <<tail, locked, seen>>

(* The spin loop ends and MCSLock returns. *)
Acquire(t) ==
  /\ Goto(t, "spin", "inside")
  /\ ~locked[t]
  /\ UNCHANGED <<tail, locked, next, prev, seen>>

(* MCSUnlock: a successor that has linked itself is let in at once.         *)
FindSuccessor(t) ==
  /\ Goto(t, "inside", "pass")
  /\ next[t] # NULL
  /\ UNCHANGED <<tail, locked, next, prev, seen>>

FindNone(t) ==
  /\ Goto(t, "inside", "cas")
  /\ next[t] = NULL
  /\ UNCHANGED <<tail, locked, next, prev, seen>>

(* Mutant of Free: a store instead of the CAS. *)
FreeBlindly(t) ==
  /\ Goto(t, "cas", "out")
  /\ tail' = NULL
  /\ UNCHANGED <<locked, next, prev, seen>>

(* CAS(&l->Tail, MyNode, NULL): the lock is free ...                        *)
Free(t) ==
  /\ Goto(t, "cas", "out")
  /\ tail = t
  /\ tail' = NULL
  /\ UNCHANGED <<locked, next, prev, seen>>

(* ... or somebody has swapped but not linked itself yet.                   *)
FreeFails(t) ==
  /\ Goto(t, "cas", "wait")
  /\ tail # t
  /\ UNCHANGED <<tail, locked, next, prev, seen>>

StopWaiting(t) ==
  /\ Goto(t, "wait", "pass")
  /\ next[t] # NULL
  /\ UNCHANGED <<tail, locked, next, prev, seen>>

(* MyNode->next->locked = false *)
Pass(t) ==
  /\ Goto(t, "pass", "clear")
  /\ locked' = [locked EXCEPT ![next[t]] = FALSE]
  /\ UNCHANGED <<tail, next, prev, seen>>

(* MyNode->next = NULL *)
Clear(t) ==
  /\ Goto(t, "clear", "out")
  /\ next' = [next EXCEPT ![t] = NULL]
  /\ UNCHANGED <<tail, locked, prev, seen>>

Lock(t) ==
  Swap(t) \/ ReadTail(t) \/ MarkTail(t) \/ MarkOwn(t) \/ Link(t) \/ Acquire(t)

Unlock(t) ==
  \/ FindSuccessor(t) \/ FindNone(t) \/ Free(t) \/ FreeFails(t)
  \/ StopWaiting(t) \/ Pass(t) \/ Clear(t)

Next == \E t \in Threads : Prepare(t) \/ Lock(t) \/ Unlock(t)

Spec == Init /\ [][Next]_vars

(* A thread that has started to lock goes on, and one that is inside leaves *)
(* eventually (critical sections are finite); nobody is obliged to lock.    *)
FairSpec == Spec /\ \A t \in Threads : WF_vars(Lock(t) \/ Unlock(t))

-----------------------------------------------------------------------------
(* The type of the state; a pointer about to be followed is not NULL.       *)
TypeOK ==
  /\ tail \in Threads \cup {NULL}
  /\ locked \in [Threads -> BOOLEAN]
  /\ next \in [Threads -> Threads \cup {NULL}]
  /\ pc \in [Threads -> {"out", "swap", "readTail", "markTail", "markOwn", "link",
                         "spin", "inside", "cas", "wait", "pass", "clear"}]
  /\ prev \in [Threads -> Threads \cup {NULL}]
  /\ seen \in [Threads -> Threads \cup {NULL}]
  /\ \A t \in Threads :
       /\ pc[t] = "readTail" => tail # NULL
       /\ pc[t] = "markTail" => seen[t] # NULL
       /\ pc[t] = "link" => prev[t] # NULL
       /\ pc[t] = "pass" => next[t] # NULL

(* A thread owns the lock until it has freed it or passed it on. *)
Owns(t) == pc[t] \in {"inside", "cas", "wait", "pass"}

(* MCSLock does not set locked in its own node when it finds no             *)
(* predecessor, so the node must have been left unlocked, whoever marked it *)
(* while it was the tail: otherwise the thread spins with nobody to let it in.*)
IdleNodeIsUnlocked ==
  \A t \in Threads : pc[t] \in {"out", "swap", "clear"} => ~locked[t]

(* t has joined the queue and not left it, and u is just ahead of it.       *)
Queued(t) == pc[t] \notin {"out", "swap", "clear"}

Ahead(u, t) == prev[t] = u \/ (Queued(u) /\ next[u] = t)

(* The queue of the abstract lock, read off the links.                      *)
Order ==
  LET Q == {t \in Threads : Queued(t)}
  IN  CHOOSE s \in [1 .. Cardinality(Q) -> Q] :
        /\ \A t \in Q : \E i \in DOMAIN s : s[i] = t
        /\ \A i \in 2 .. Cardinality(Q) : Ahead(s[i - 1], s[i])

Abstract == INSTANCE QueueLock WITH
              queue <- Order,
              inside <- {t \in Threads : Owns(t)}

(* The MCS lock is a first-come first-served lock: threads enter in the     *)
(* order of their SWAPs, each after the one before it has left.             *)
ImplementsQueueLock == Abstract!Spec

(* No thread waits for ever to enter, nor to leave: a late successor links  *)
(* itself, and is let in.                                                   *)
LockReturns == \A t \in Threads : pc[t] = "swap" ~> pc[t] = "inside"
UnlockReturns == \A t \in Threads : pc[t] = "inside" ~> pc[t] = "out"
LockAndUnlockReturn == LockReturns /\ UnlockReturns
=============================================================================
