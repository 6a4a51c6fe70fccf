------------------------------- MODULE MCLocks ------------------------------
(* The two queue locks for TLC, side by side: a behaviour is one of the CLH *)
(* lock or of the MCS lock, which is chosen at the start, and the other     *)
(* stays as it is initialised.                                              *)
EXTENDS CLH, TLC

CONSTANT MCSThreads

VARIABLES
  which,       (* the component this behaviour is of                       *)
  m_tail, m_locked, m_next, m_pc, m_prev, m_seen

m_vars ==
  <<m_tail, m_locked, m_next, m_pc, m_prev, m_seen>>

M == INSTANCE MCS WITH
  tail <- m_tail, locked <- m_locked, next <- m_next, pc <- m_pc, prev <-
  m_prev, seen <- m_seen, Threads <- MCSThreads

ASSUME MCSAssumption == M!ConstantsAssumption

(* The fields locked of the CLH nodes are not initialised: any value.       *)
MCInit ==
  /\ which \in {"CLH", "MCS"}
  /\ Init /\ M!Init
  /\ which = "MCS" => \A n \in Nodes : ~locked[n]

MCNext ==
  \/ which = "CLH" /\ Next /\ UNCHANGED <<which, m_vars>>
  \/ which = "MCS" /\ M!Next /\ UNCHANGED <<which, vars>>

(* The fairness of the modules, each for its own behaviours.                *)
Fairness ==
  /\ \A t \in Threads :
       WF_vars(which = "CLH" /\ (Swap(t) \/ Acquire(t) \/ Unlock(t)))
  /\ \A t \in MCSThreads :
       WF_m_vars(which = "MCS" /\ (M!Lock(t) \/ M!Unlock(t)))

MCSpec == MCInit /\ [][MCNext]_<<which, vars, m_vars>> /\ Fairness

-----------------------------------------------------------------------------
(* A thread of the MCS lock follows no NULL pointer, and its node, which    *)
(* others may have marked while it was in Tail (mcs.c:12-13), is unlocked   *)
(* again when it comes to lock: it would spin for ever with nobody ahead.   *)
IdleMCSNodeIsUnlocked == M!TypeOK /\ M!IdleNodeIsUnlocked

(* Both locks are first come, first served: threads enter in the order of   *)
(* their SWAPs, each after the one before it has left.                      *)
ImplementQueueLocks == ImplementsQueueLock /\ M!ImplementsQueueLock

(* Whoever has begun to lock gets the lock, and MCSUnlock, which may have   *)
(* to wait for a successor to link itself (mcs.c:31-34), returns.           *)
LocksReturn == LockReturns /\ M!LockAndUnlockReturn
=============================================================================
