-------------------------- MODULE Utilities_proofs --------------------------
(***************************************************************************)
(* What holds of the utilities for all values of their parameters.         *)
(* The barrier keeps any number of threads together, however often they    *)
(* come back to it. Between two steps it is in one of four stages, which   *)
(* follow one another in a circle; what the threads may be doing in each   *)
(* of them, and what the counters and flags then are, is the inductive     *)
(* invariant IInv. Of the other utilities the invariants are               *)
(*   JoinInv       the counters of the barrier bar are ahead of 0 by the   *)
(*                 threads that have still to decrement them;              *)
(*   FibersInv     where a fiber is tells whether it is active, and before *)
(*                 the main fiber runs the slots are filled in order;      *)
(*   PoolInv       every object in use or to be recycled was cut out of a  *)
(*                 block and is in one place; where allocations are rolled *)
(*                 back, the objects in use are those of the blocks along  *)
(*                 back, in order;                                         *)
(*   PlacementInv  each thread is on the core and node computed for it.    *)
(***************************************************************************)
EXTENDS MCUtilities, Sequences, FiniteSetTheorems, SequenceTheorems,
        WellFoundedInduction, TLAPS

N == val_at_set

Succ(m) == (m + 1) % 3

(* The threads that have still to decrement the counter of a phase.         *)
ToArrive == {t \in Threads : pc[t] \in {"out", "arrive", "awaitLeave"}}
ToLeave == {t \in Threads : pc[t] \in {"awaitAll", "leave"}}

(* Threads come to their next meeting; some may still be at the flag that   *)
(* lets them out of the last one, m.                                        *)
Gathering(m) ==
  /\ arrive = Cardinality(ToArrive) /\ ToArrive # {} /\ leave = N
  /\ arrive_flag
  /\ \A t \in Threads :
       \/ pc[t] \in {"out", "awaitLeave"} /\ meeting[t] = m
       \/ pc[t] \in {"arrive", "awaitAll"} /\ meeting[t] = Succ(m)
  /\ \A t \in Threads : pc[t] = "awaitLeave" => ~leave_flag

(* The last one, s, has come to meeting m; the others spin on arrive_flag.  *)
AllHere(m, s) ==
  /\ pc[s] \in {"resetArrive", "closeLeave", "openArrive"}
  /\ \A t \in Threads \ {s} : pc[t] = "awaitAll"
  /\ \A t \in Threads : meeting[t] = m
  /\ arrive = (IF pc[s] = "resetArrive" THEN 0 ELSE N) /\ leave = N
  /\ arrive_flag
  /\ pc[s] = "openArrive" => leave_flag

(* Threads leave meeting m.                                                 *)
Dispersing(m) ==
  /\ leave = Cardinality(ToLeave) /\ ToLeave # {} /\ arrive = N
  /\ ~arrive_flag /\ leave_flag
  /\ \A t \in Threads : pc[t] \in {"awaitAll", "leave", "awaitLeave"} /\ meeting[t] = m

(* The last one, s, leaves it; the others spin on leave_flag.               *)
AllGoing(m, s) ==
  /\ pc[s] \in {"resetLeave", "closeArrive", "openLeave"}
  /\ \A t \in Threads \ {s} : pc[t] = "awaitLeave"
  /\ \A t \in Threads : meeting[t] = m
  /\ leave = (IF pc[s] = "resetLeave" THEN 0 ELSE N) /\ arrive = N
  /\ leave_flag
  /\ pc[s] = "openLeave" <=> arrive_flag

Stage(m) ==
  \/ Gathering(m) \/ Dispersing(m)
  \/ \E s \in Threads : AllHere(m, s) \/ AllGoing(m, s)

IInv == TypeOK /\ \E m \in 0 .. 2 : Stage(m)

-----------------------------------------------------------------------------
(* What the proof uses about counting.                                      *)
LEMMA Counting ==
  /\ N \in Nat \ {0}
  /\ IsFiniteSet(ToArrive) /\ IsFiniteSet(ToLeave)
  /\ Cardinality(ToArrive) \in 0 .. N /\ Cardinality(ToLeave) \in 0 .. N
<1>1. /\ IsFiniteSet(Threads) /\ Threads # {}
      /\ ToArrive \subseteq Threads /\ ToLeave \subseteq Threads
  BY ConstantsAssumption DEF ToArrive, ToLeave
<1> QED
  BY <1>1, FS_Subset, FS_CardinalityType, FS_EmptySet DEF N, val_at_set

LEMMA CountingDown ==
  ASSUME NEW S, IsFiniteSet(S), NEW t \in S
  PROVE  /\ Cardinality(S) \in Nat /\ Cardinality(S) >= 1
         /\ Cardinality(S \ {t}) = Cardinality(S) - 1
         /\ Cardinality(S) = 1 => S = {t}
         /\ Cardinality(S) > 1 => S \ {t} # {}
<1>1. IsFiniteSet(S \ {t}) /\ Cardinality(S) \in Nat /\ Cardinality(S) # 0
  BY FS_RemoveElement, FS_CardinalityType, FS_EmptySet
<1>2. Cardinality(S \ {t}) = Cardinality(S) - 1
  BY FS_RemoveElement
<1>3. Cardinality(S \ {t}) = 0 <=> S \ {t} = {}
  BY <1>1, FS_EmptySet
<1> QED
  BY <1>1, <1>2, <1>3

LEMMA InitIInv == Init => IInv
<1> SUFFICES ASSUME Init PROVE IInv
  OBVIOUS
<1>1. TypeOK
  BY Counting DEF Init, TypeOK, N
<1>2. ToArrive = Threads /\ Threads # {}
  BY ConstantsAssumption DEF Init, ToArrive
<1>3. Gathering(0)
  BY <1>2 DEF Init, Gathering, N, val_at_set
<1> QED
  BY <1>1, <1>3 DEF IInv, Stage

-----------------------------------------------------------------------------
LEMMA NextType == IInv /\ [Next]_vars => TypeOK'
<1> SUFFICES ASSUME IInv, [Next]_vars PROVE TypeOK'
  OBVIOUS
<1> USE DEF TypeOK
<1>0. TypeOK /\ N = val_at_set /\ N \in Nat \ {0}
  BY Counting DEF IInv, N
<1>1. ASSUME NEW t \in Threads, Wait(t) PROVE TypeOK'
  BY <1>0, <1>1 DEF Wait, Goto, N, val_at_set
<1>2. ASSUME NEW t \in Threads, Arrive(t) PROVE TypeOK'
  <2>1. arrive >= 1
    BY <1>0, <1>2, Counting, CountingDown
       DEF IInv, Stage, Gathering, Dispersing, AllHere, AllGoing, ToArrive, Arrive, Goto
  <2> QED
    BY <1>0, <1>2, <2>1 DEF Arrive, Goto, N, val_at_set
<1>3. ASSUME NEW t \in Threads, AwaitAll(t) \/ CloseLeave(t) \/ OpenArrive(t) \/ AwaitLeave(t)
                                \/ CloseArrive(t) \/ OpenLeave(t)
      PROVE  TypeOK'
  BY <1>0, <1>3 DEF AwaitAll, CloseLeave, OpenArrive, AwaitLeave, CloseArrive, OpenLeave, Goto,
                    N, val_at_set
<1>4. ASSUME NEW t \in Threads, ResetArrive(t) \/ ResetLeave(t) PROVE TypeOK'
  BY <1>0, <1>4 DEF ResetArrive, ResetLeave, Goto, N, val_at_set
<1>5. ASSUME NEW t \in Threads, Leave(t) PROVE TypeOK'
  <2>1. leave >= 1
    BY <1>0, <1>5, Counting, CountingDown
       DEF IInv, Stage, Gathering, Dispersing, AllHere, AllGoing, ToLeave, Leave, Goto
  <2> QED
    BY <1>0, <1>5, <2>1 DEF Leave, Goto, N, val_at_set
<1>6. CASE UNCHANGED vars
  BY <1>0, <1>6 DEF vars, N, val_at_set
<1> QED
  BY <1>1, <1>2, <1>3, <1>4, <1>5, <1>6 DEF Next, Step

(* In each stage, every step stays in the stage or leads to the next one.   *)
LEMMA FromGathering ==
  ASSUME TypeOK, NEW m \in 0 .. 2, Gathering(m), NEW t \in Threads, Step(t)
  PROVE  Gathering(m)' \/ \E s \in Threads : AllHere(Succ(m), s)'
<1> USE DEF Goto, TypeOK
<1>0. N' = N /\ IsFiniteSet(ToArrive)
  BY Counting DEF N, val_at_set
<1>1. pc[t] \in {"out", "arrive", "awaitLeave"}
  BY DEF Gathering, Step, Wait, Arrive, AwaitAll, ResetArrive, CloseLeave, OpenArrive, Leave,
         AwaitLeave, ResetLeave, CloseArrive, OpenLeave
<1>2. CASE Wait(t) \/ AwaitLeave(t)
  <2>1. ToArrive' = ToArrive
    BY <1>2 DEF Wait, AwaitLeave, ToArrive
  <2> QED
    BY <1>0, <1>2, <2>1 DEF Wait, AwaitLeave, Gathering, Succ
<1>3. CASE Arrive(t)
  <2>1. t \in ToArrive
    BY <1>3 DEF Arrive, ToArrive
  <2>2. ToArrive' = ToArrive \ {t}
    BY <1>3 DEF Arrive, ToArrive
  <2>3. CASE arrive > 1
    <3>1. Cardinality(ToArrive') = arrive - 1 /\ ToArrive' # {}
      BY <1>0, <2>1, <2>2, <2>3, CountingDown DEF Gathering
    <3> QED
      BY <1>0, <1>3, <2>3, <3>1 DEF Arrive, Gathering
  <2>4. CASE ~(arrive > 1)
    <3>0. Cardinality(ToArrive) \in Nat /\ Cardinality(ToArrive) >= 1
      BY <1>0, <2>1, CountingDown
    <3>1. arrive = 1 /\ Cardinality(ToArrive) = 1
      BY <2>4, <3>0 DEF Gathering
    <3>2. ToArrive = {t}
      BY <1>0, <2>1, <3>1, CountingDown
    <3>3. \A u \in Threads \ {t} : pc[u] = "awaitAll"
      BY <3>2 DEF Gathering, ToArrive
    <3>4. AllHere(Succ(m), t)'
      BY <1>0, <1>3, <3>1, <3>3 DEF Arrive, Gathering, AllHere
    <3> QED
      BY <3>4
  <2> QED
    BY <2>3, <2>4
<1> QED
  BY <1>1, <1>2, <1>3
     DEF Step, AwaitAll, ResetArrive, CloseLeave, OpenArrive, Leave, ResetLeave, CloseArrive,
         OpenLeave

LEMMA FromAllHere ==
  ASSUME TypeOK, NEW m \in 0 .. 2, NEW s \in Threads, AllHere(m, s), NEW t \in Threads, Step(t)
  PROVE  AllHere(m, s)' \/ Dispersing(m)'
<1> USE DEF Goto, TypeOK
<1>0. N' = N
  BY DEF N, val_at_set
<1>1. t = s /\ (ResetArrive(s) \/ CloseLeave(s) \/ OpenArrive(s))
  BY DEF AllHere, Step, Wait, Arrive, AwaitAll, ResetArrive, CloseLeave, OpenArrive, Leave,
         AwaitLeave, ResetLeave, CloseArrive, OpenLeave
<1>2. CASE ResetArrive(s)
  BY <1>0, <1>2 DEF ResetArrive, AllHere, N
<1>3. CASE CloseLeave(s)
  BY <1>0, <1>3 DEF CloseLeave, AllHere
<1>4. CASE OpenArrive(s)
  <2>1. ToLeave' = Threads
    BY <1>4 DEF OpenArrive, AllHere, ToLeave
  <2> QED
    BY <1>0, <1>4, <2>1 DEF OpenArrive, AllHere, Dispersing, N, val_at_set
<1> QED
  BY <1>1, <1>2, <1>3, <1>4

LEMMA FromDispersing ==
  ASSUME TypeOK, NEW m \in 0 .. 2, Dispersing(m), NEW t \in Threads, Step(t)
  PROVE  Dispersing(m)' \/ \E s \in Threads : AllGoing(m, s)'
<1> USE DEF Goto, TypeOK
<1>0. N' = N /\ IsFiniteSet(ToLeave)
  BY Counting DEF N, val_at_set
<1>1. AwaitAll(t) \/ Leave(t)
  BY DEF Dispersing, Step, Wait, Arrive, AwaitAll, ResetArrive, CloseLeave, OpenArrive, Leave,
         AwaitLeave, ResetLeave, CloseArrive, OpenLeave
<1>2. CASE AwaitAll(t)
  <2>1. ToLeave' = ToLeave
    BY <1>2 DEF AwaitAll, ToLeave
  <2> QED
    BY <1>0, <1>2, <2>1 DEF AwaitAll, Dispersing
<1>3. CASE Leave(t)
  <2>1. t \in ToLeave
    BY <1>3 DEF Leave, ToLeave
  <2>2. ToLeave' = ToLeave \ {t}
    BY <1>3 DEF Leave, ToLeave
  <2>3. CASE leave > 1
    <3>1. Cardinality(ToLeave') = leave - 1 /\ ToLeave' # {}
      BY <1>0, <2>1, <2>2, <2>3, CountingDown DEF Dispersing
    <3> QED
      BY <1>0, <1>3, <2>3, <3>1 DEF Leave, Dispersing
  <2>4. CASE ~(leave > 1)
    <3>0. Cardinality(ToLeave) \in Nat /\ Cardinality(ToLeave) >= 1
      BY <1>0, <2>1, CountingDown
    <3>1. leave = 1 /\ Cardinality(ToLeave) = 1
      BY <2>4, <3>0 DEF Dispersing
    <3>2. ToLeave = {t}
      BY <1>0, <2>1, <3>1, CountingDown
    <3>3. \A u \in Threads \ {t} : pc[u] = "awaitLeave"
      BY <3>2 DEF Dispersing, ToLeave
    <3>4. AllGoing(m, t)'
      BY <1>0, <1>3, <3>1, <3>3 DEF Leave, Dispersing, AllGoing
    <3> QED
      BY <3>4
  <2> QED
    BY <2>3, <2>4
<1> QED
  BY <1>1, <1>2, <1>3

LEMMA FromAllGoing ==
  ASSUME TypeOK, NEW m \in 0 .. 2, NEW s \in Threads, AllGoing(m, s), NEW t \in Threads, Step(t)
  PROVE  AllGoing(m, s)' \/ Gathering(m)'
<1> USE DEF Goto, TypeOK
<1>0. N' = N
  BY DEF N, val_at_set
<1>1. t = s /\ (ResetLeave(s) \/ CloseArrive(s) \/ OpenLeave(s))
  BY DEF AllGoing, Step, Wait, Arrive, AwaitAll, ResetArrive, CloseLeave, OpenArrive, Leave,
         AwaitLeave, ResetLeave, CloseArrive, OpenLeave
<1>2. CASE ResetLeave(s) \/ CloseArrive(s)
  BY <1>0, <1>2 DEF ResetLeave, CloseArrive, AllGoing, N
<1>3. CASE OpenLeave(s)
  <2>1. ToArrive' = Threads
    BY <1>3 DEF OpenLeave, AllGoing, ToArrive
  <2> QED
    BY <1>0, <1>3, <2>1 DEF OpenLeave, AllGoing, Gathering, N, val_at_set
<1> QED
  BY <1>1, <1>2, <1>3

LEMMA NextIInv == IInv /\ [Next]_vars => IInv'
<1> SUFFICES ASSUME IInv, [Next]_vars PROVE IInv'
  OBVIOUS
<1>1. PICK m \in 0 .. 2 : Stage(m)
  BY DEF IInv
<1>2. TypeOK /\ TypeOK' /\ Succ(m) \in 0 .. 2
  BY NextType DEF IInv, Succ
<1>3. ASSUME NEW t \in Threads, Step(t) PROVE Stage(m)' \/ Stage(Succ(m))'
  BY <1>1, <1>2, <1>3, FromGathering, FromAllHere, FromDispersing, FromAllGoing DEF Stage
<1>4. ASSUME UNCHANGED vars PROVE Stage(m)'
  BY <1>1, <1>4 DEF vars, Stage, Gathering, Dispersing, AllHere, AllGoing, ToArrive, ToLeave,
                    N, val_at_set
<1> QED
  BY <1>2, <1>3, <1>4 DEF IInv, Next

LEMMA Inductive == Spec => []IInv
  BY InitIInv, NextIInv, PTL DEF Spec

-----------------------------------------------------------------------------
(* The type of the state is as stated in every reachable state; in          *)
(* particular the counters of synchBarrierWait never go below zero.         *)
THEOREM TypeCorrect == Spec => []TypeOK
<1>1. IInv => TypeOK
  BY DEF IInv
<1> QED
  BY <1>1, Inductive, PTL

(* Nobody gets through the barrier before all the others have come to it,   *)
(* or a meeting ahead of them.                                              *)
THEOREM NobodyPasses == Spec => []NobodyPassesAlone
<1>1. ASSUME IInv, NEW t \in Threads, NEW u \in Threads, Passed(t)
      PROVE  \/ meeting[u] = meeting[t]
             \/ meeting[u] = (meeting[t] + 1) % 3 /\ ~Passed(u)
  BY <1>1 DEF IInv, Stage, Gathering, Dispersing, AllHere, AllGoing, Passed, Succ
<1>2. IInv => NobodyPassesAlone
  BY <1>1 DEF NobodyPassesAlone
<1> QED
  BY <1>2, Inductive, PTL

LEMMA LeastNatural ==
  ASSUME NEW T, T \subseteq Nat, T # {}
  PROVE  \E n \in T : \A m \in T : n <= m
<1>1. \E x \in T : \A y \in T : ~ (<<y, x>> \in OpToRel(<, Nat))
  BY NatLessThanWellFounded, WFMin
<1>2. \A x, y \in T : x < y => <<x, y>> \in OpToRel(<, Nat)
  BY DEF OpToRel
<1>3. PICK x \in T : \A y \in T : ~ (y < x)
  BY <1>1, <1>2
<1>4. \A y \in T : x <= y
  BY <1>3
<1>. QED
  BY <1>4

-----------------------------------------------------------------------------
(*                     Starting and joining threads                         *)

FirstRun(i) == <<1, i>>
Indices == 0 .. J!Wrappers - 1

(* The wrappers of the first round that have decremented a counter of bar.  *)
HaveArrived == {i \in Indices : j_pc[FirstRun(i)] \in {"leaveLeave", "ended"}}
HaveLeft == {i \in Indices : j_pc[FirstRun(i)] = "ended"}

JoinType ==
  /\ j_round \in 0 .. Rounds /\ (j_round = 0 => j_main = "ready")
  /\ j_main \in {"ready", "setLeave", "create", "inWrapper", "joinLeave", "await", "awaitLeave"}
  /\ j_pc \in [J!Runs -> {"none", "run", "leaveArrive", "leaveLeave", "ended"}]
  /\ \A p \in J!Runs : p[1] > j_round => j_pc[p] = "none"

(* What the counters of bar are in the first round: each is ahead of 0 by   *)
(* the wrappers that have still to decrement it, and by the main thread     *)
(* when it has.                                                             *)
CountersOfBar ==
  /\ j_arrive = (J!Wrappers + 1) - Cardinality(HaveArrived)
                  - (IF j_main \in {"joinLeave", "await", "awaitLeave", "ready"} THEN 1 ELSE 0)
  /\ j_main # "setLeave" =>
       j_leave = (J!Wrappers + 1) - Cardinality(HaveLeft)
                   - (IF j_main \in {"await", "awaitLeave", "ready"} THEN 1 ELSE 0)

JoinInv ==
  /\ JoinType
  /\ j_round = 1 =>
       /\ j_main # "ready" => CountersOfBar
       /\ j_main = "setLeave" => \A i \in Indices : j_pc[FirstRun(i)] = "none"
       /\ j_main \notin {"setLeave", "create"} =>
            \A i \in Indices : j_pc[FirstRun(i)] # "none"
       /\ j_main = "ready" => \A i \in Indices : j_pc[FirstRun(i)] \notin {"none", "run"}

LEMMA JConstants ==
  /\ J!Wrappers \in Nat \ {0} /\ Rounds \in Nat
  /\ IsFiniteSet(Indices) /\ Cardinality(Indices) = J!Wrappers
  /\ J!Runs = (1 .. Rounds) \X Indices
<1>1. /\ nthreads \in Nat \ {0} /\ uthreads \in Nat \ {0} /\ uthreads <= nthreads
      /\ Rounds \in Nat
  BY MCAssumption DEF J!ConstantsAssumption
<1>2. \A n, u \in Nat \ {0} : u <= n => n \div u \in Nat \ {0}
  BY SMT
<1>3. J!Wrappers \in Nat \ {0}
  BY <1>1, <1>2 DEF J!Wrappers
<1>4. IsFiniteSet(Indices) /\ Cardinality(Indices) = J!Wrappers
  BY <1>3, FS_Interval DEF Indices
<1>. QED
  BY <1>1, <1>3, <1>4 DEF J!Runs, Indices

(* Counting wrappers. *)
LEMMA CountIndices ==
  ASSUME NEW X \in SUBSET Indices
  PROVE  /\ IsFiniteSet(X) /\ Cardinality(X) \in 0 .. J!Wrappers
         /\ Cardinality(X) = J!Wrappers => X = Indices
         /\ \A i \in Indices \ X : Cardinality(X \cup {i}) = Cardinality(X) + 1
<1>1. /\ IsFiniteSet(X) /\ Cardinality(X) \in Nat /\ Cardinality(X) <= J!Wrappers
      /\ Cardinality(X) = J!Wrappers => X = Indices
  BY JConstants, FS_Subset, FS_CardinalityType
<1>2. \A i \in Indices \ X : Cardinality(X \cup {i}) = Cardinality(X) + 1
  BY <1>1, FS_AddElement
<1>. QED
  BY <1>1, <1>2, JConstants

(* A step of one wrapper. *)
LEMMA WrapperMoves ==
  ASSUME JoinInv, NEW p \in J!Runs, J!WrapperStep(p), j_round = 1
  PROVE  \E i \in Indices : p = FirstRun(i) /\ FirstRun(i) \in J!Runs
<1>1. j_pc[p] # "none"
  BY DEF J!WrapperStep, J!FuncReturns, J!LeaveArrive, J!LeaveLeave
<1>2. p[1] = 1 /\ p[2] \in Indices /\ p = <<p[1], p[2]>>
  BY <1>1, JConstants DEF JoinInv, JoinType
<1>. QED
  BY <1>2, JConstants DEF FirstRun

LEMMA InitJoin == J!Init => JoinInv
BY JConstants DEF J!Init, JoinInv, JoinType

LEMMA NextJoinType == JoinInv /\ [J!Next]_j_vars => JoinType' /\ j_round' >= j_round
<1>. SUFFICES ASSUME JoinInv, [J!Next]_j_vars PROVE JoinType' /\ j_round' >= j_round
  OBVIOUS
<1>. USE JConstants DEF JoinType
<1>0. JoinType
  BY DEF JoinInv
<1>1. CASE J!SetArrive \/ J!SetLeave
  BY <1>0, <1>1 DEF J!SetArrive, J!SetLeave
<1>2. CASE J!Create
  <2>1. PICK i \in Indices :
          /\ j_main = "create" /\ j_pc' = [j_pc EXCEPT ![<<j_round, i>>] = "run"]
          /\ j_main' = (IF i = J!Wrappers - 1 THEN "inWrapper" ELSE "create")
          /\ UNCHANGED <<j_arrive, j_leave, j_round>>
    BY <1>2 DEF J!Create, Indices
  <2>2. <<j_round, i>> \in J!Runs
    BY <1>0, <2>1
  <2>. QED
    BY <1>0, <2>1, <2>2
<1>3. CASE J!JoinArrive \/ J!JoinLeave \/ J!AwaitArrive \/ J!AwaitLeave
  BY <1>0, <1>3 DEF J!JoinArrive, J!JoinLeave, J!AwaitArrive, J!AwaitLeave
<1>4. ASSUME NEW p \in J!Runs, J!WrapperStep(p) PROVE JoinType' /\ j_round' >= j_round
  <2>1. /\ j_pc[p] # "none" /\ UNCHANGED <<j_main, j_round>>
        /\ \E s \in {"leaveArrive", "leaveLeave", "ended"} : j_pc' = [j_pc EXCEPT ![p] = s]
    BY <1>4 DEF J!WrapperStep, J!FuncReturns, J!LeaveArrive, J!LeaveLeave
  <2>. QED
    BY <1>0, <2>1
<1>5. CASE UNCHANGED j_vars
  BY <1>0, <1>5 DEF j_vars
<1>. QED
  BY <1>1, <1>2, <1>3, <1>4, <1>5 DEF J!Next, J!MainStep

LEMMA SettingJoin == JoinInv /\ (J!SetArrive \/ J!SetLeave) => JoinInv'
<1>. SUFFICES ASSUME JoinInv, J!SetArrive \/ J!SetLeave PROVE JoinInv'
  OBVIOUS
<1>1. JoinType' /\ j_round' >= j_round /\ JoinType
  BY NextJoinType DEF J!Next, J!MainStep, JoinInv
<1>2. SUFFICES ASSUME j_round' = 1
      PROVE  /\ j_main' # "ready" => CountersOfBar'
             /\ j_main' = "setLeave" => \A i \in Indices : j_pc'[FirstRun(i)] = "none"
             /\ j_main' \in {"setLeave", "create"}
  <2>1. j_main' \in {"setLeave", "create"}
    BY DEF J!SetArrive, J!SetLeave
  <2>. QED
    BY <1>1, <1>2, <2>1 DEF JoinInv
<1>3. \A i \in Indices : j_pc[FirstRun(i)] = "none" /\ j_pc'[FirstRun(i)] = "none"
  <2>1. j_pc' = j_pc
    BY DEF J!SetArrive, J!SetLeave
  <2>2. CASE J!SetArrive
    <3>1. j_round = 0
      BY <1>1, <1>2, <2>2 DEF J!SetArrive, JoinType
    <3>2. \A i \in Indices : FirstRun(i) \in J!Runs /\ FirstRun(i)[1] = 1
      BY <1>1, <1>2, JConstants DEF JoinType, FirstRun
    <3>. QED
      BY <1>1, <2>1, <3>1, <3>2 DEF JoinType
  <2>3. CASE J!SetLeave
    BY <1>2, <2>1, <2>3 DEF J!SetLeave, JoinInv
  <2>. QED
    BY <2>2, <2>3
<1>4. HaveArrived' = {} /\ HaveLeft' = {} /\ HaveArrived = {}
  BY <1>3 DEF HaveArrived, HaveLeft
<1>5. Cardinality({}) = 0
  BY FS_EmptySet
<1>6. CountersOfBar'
  <2>1. CASE J!SetArrive
    BY <1>4, <1>5, <2>1, JConstants DEF J!SetArrive, CountersOfBar
  <2>2. CASE J!SetLeave
    <3>1. j_arrive = J!Wrappers + 1
      BY <1>2, <1>4, <1>5, <2>2, JConstants DEF J!SetLeave, JoinInv, CountersOfBar
    <3>. QED
      BY <1>4, <1>5, <2>2, <3>1, JConstants DEF J!SetLeave, CountersOfBar
  <2>. QED
    BY <2>1, <2>2
<1>. QED
  BY <1>3, <1>6 DEF J!SetArrive, J!SetLeave

LEMMA CreatingJoin == JoinInv /\ J!Create => JoinInv'
<1>. SUFFICES ASSUME JoinInv, J!Create PROVE JoinInv'
  OBVIOUS
<1>1. JoinType' /\ JoinType
  BY NextJoinType DEF J!Next, J!MainStep, JoinInv
<1>2. PICK i \in Indices :
        /\ j_main = "create" /\ j_pc' = [j_pc EXCEPT ![<<j_round, i>>] = "run"]
        /\ j_pc[<<j_round, i>>] = "none"
        /\ \A k \in 0 .. i - 1 : j_pc[<<j_round, k>>] # "none"
        /\ j_main' = (IF i = J!Wrappers - 1 THEN "inWrapper" ELSE "create")
        /\ UNCHANGED <<j_arrive, j_leave, j_round>>
  BY DEF J!Create, Indices
<1>3. SUFFICES ASSUME j_round = 1
      PROVE  CountersOfBar' /\ (j_main' = "inWrapper" =>
               \A k \in Indices : j_pc'[FirstRun(k)] # "none")
  <2>1. j_main' \in {"create", "inWrapper"}
    BY <1>2
  <2>. QED
    BY <1>1, <1>2, <1>3, <2>1 DEF JoinInv
<1>4. /\ \A k \in Indices : FirstRun(k) \in J!Runs
      /\ \A k, m \in Indices : FirstRun(k) = FirstRun(m) => k = m
  BY <1>1, <1>3, JConstants DEF JoinType, FirstRun
<1>5. \A k \in Indices : j_pc'[FirstRun(k)] = IF k = i THEN "run" ELSE j_pc[FirstRun(k)]
  BY <1>1, <1>2, <1>3, <1>4 DEF JoinType, FirstRun
<1>6. HaveArrived' = HaveArrived /\ HaveLeft' = HaveLeft
  BY <1>2, <1>3, <1>5 DEF HaveArrived, HaveLeft, FirstRun
<1>7. CountersOfBar'
  BY <1>2, <1>3, <1>6 DEF JoinInv, CountersOfBar
<1>8. ASSUME j_main' = "inWrapper" PROVE \A k \in Indices : j_pc'[FirstRun(k)] # "none"
  <2>1. \A k \in Indices : k # i => k \in 0 .. i - 1
    BY <1>2, <1>8, JConstants DEF Indices
  <2>2. \A k \in Indices : k # i => j_pc[FirstRun(k)] # "none"
    BY <1>2, <1>3, <2>1 DEF FirstRun
  <2>. QED
    BY <1>5, <2>2
<1>. QED
  BY <1>7, <1>8

(* The join: the main thread counts itself out and waits for a counter.     *)
LEMMA Joining ==
  JoinInv /\ (J!JoinArrive \/ J!JoinLeave \/ J!AwaitArrive \/ J!AwaitLeave) => JoinInv'
<1>. SUFFICES ASSUME JoinInv, J!JoinArrive \/ J!JoinLeave \/ J!AwaitArrive \/ J!AwaitLeave
              PROVE  JoinInv'
  OBVIOUS
<1>1. JoinType' /\ JoinType
  BY NextJoinType DEF J!Next, J!MainStep, JoinInv
<1>2. UNCHANGED <<j_pc, j_round>> /\ j_main' \notin {"setLeave", "create"}
  BY DEF J!JoinArrive, J!JoinLeave, J!AwaitArrive, J!AwaitLeave
<1>3. SUFFICES ASSUME j_round = 1
      PROVE  /\ j_main' # "ready" => CountersOfBar'
             /\ \A i \in Indices : j_pc[FirstRun(i)] # "none"
             /\ j_main' = "ready" => \A i \in Indices : j_pc[FirstRun(i)] \notin {"none", "run"}
  BY <1>1, <1>2, <1>3 DEF JoinInv
<1>4. CountersOfBar /\ \A i \in Indices : j_pc[FirstRun(i)] # "none"
  BY <1>3 DEF JoinInv, J!JoinArrive, J!JoinLeave, J!AwaitArrive, J!AwaitLeave
<1>5. HaveArrived' = HaveArrived /\ HaveLeft' = HaveLeft
  BY <1>2 DEF HaveArrived, HaveLeft
<1>6. /\ Cardinality(HaveArrived) \in 0 .. J!Wrappers /\ Cardinality(HaveLeft) \in 0 .. J!Wrappers
      /\ Cardinality(HaveArrived) = J!Wrappers => HaveArrived = Indices
      /\ Cardinality(HaveLeft) = J!Wrappers => HaveLeft = Indices
  BY CountIndices DEF HaveArrived, HaveLeft
<1>7. j_main' # "ready" => CountersOfBar'
  BY <1>4, <1>5, <1>6, JConstants
     DEF CountersOfBar, J!JoinArrive, J!JoinLeave, J!AwaitArrive, J!AwaitLeave
<1>8. ASSUME j_main' = "ready"
      PROVE  \A i \in Indices : j_pc[FirstRun(i)] \notin {"none", "run"}
  <2>1. \/ j_main = "await" /\ j_arrive = 0
        \/ j_main = "awaitLeave" /\ j_leave = 0
    BY <1>8 DEF J!JoinArrive, J!JoinLeave, J!AwaitArrive, J!AwaitLeave
  <2>2. HaveArrived = Indices \/ HaveLeft = Indices
    BY <1>4, <1>6, <2>1, JConstants DEF CountersOfBar
  <2>. QED
    BY <2>2 DEF HaveArrived, HaveLeft
<1>. QED
  BY <1>4, <1>7, <1>8

LEMMA Wrapping == ASSUME JoinInv, NEW p \in J!Runs, J!WrapperStep(p) PROVE JoinInv'
<1>1. JoinType' /\ JoinType
  BY NextJoinType DEF J!Next, JoinInv
<1>2. UNCHANGED <<j_main, j_round>>
  BY DEF J!WrapperStep, J!FuncReturns, J!LeaveArrive, J!LeaveLeave
<1>3. SUFFICES ASSUME j_round = 1
      PROVE  /\ j_main # "ready" => CountersOfBar'
             /\ j_main = "setLeave" => \A i \in Indices : j_pc'[FirstRun(i)] = "none"
             /\ j_main \notin {"setLeave", "create"} =>
                  \A i \in Indices : j_pc'[FirstRun(i)] # "none"
             /\ j_main = "ready" =>
                  \A i \in Indices : j_pc'[FirstRun(i)] \notin {"none", "run"}
  BY <1>1, <1>2, <1>3 DEF JoinInv
<1>4. PICK i \in Indices : p = FirstRun(i) /\ FirstRun(i) \in J!Runs
  BY <1>3, WrapperMoves
<1>5. /\ \A k \in Indices : FirstRun(k) \in J!Runs
      /\ \A k, m \in Indices : FirstRun(k) = FirstRun(m) => k = m
  BY <1>1, <1>3, JConstants DEF JoinType, FirstRun
<1>6. j_pc[p] # "none" /\ j_main # "setLeave" /\ (j_main # "ready" => CountersOfBar)
  BY <1>3, <1>4 DEF JoinInv, J!WrapperStep, J!FuncReturns, J!LeaveArrive, J!LeaveLeave
<1>7. PICK s \in {"leaveArrive", "leaveLeave", "ended"} :
        \A k \in Indices : j_pc'[FirstRun(k)] = IF k = i THEN s ELSE j_pc[FirstRun(k)]
  <2>1. \E s \in {"leaveArrive", "leaveLeave", "ended"} : j_pc' = [j_pc EXCEPT ![p] = s]
    BY DEF J!WrapperStep, J!FuncReturns, J!LeaveArrive, J!LeaveLeave
  <2>. QED
    BY <1>1, <1>4, <1>5, <2>1 DEF JoinType
<1>8. /\ HaveArrived \in SUBSET Indices /\ HaveLeft \in SUBSET Indices
      /\ \A k \in Indices : k \in HaveArrived <=> j_pc[FirstRun(k)] \in {"leaveLeave", "ended"}
      /\ \A k \in Indices : k \in HaveLeft <=> j_pc[FirstRun(k)] = "ended"
  BY DEF HaveArrived, HaveLeft
<1>9. /\ Cardinality(HaveArrived) \in 0 .. J!Wrappers /\ Cardinality(HaveLeft) \in 0 .. J!Wrappers
      /\ i \notin HaveArrived => Cardinality(HaveArrived \cup {i}) = Cardinality(HaveArrived) + 1
      /\ i \notin HaveLeft => Cardinality(HaveLeft \cup {i}) = Cardinality(HaveLeft) + 1
  BY <1>8, CountIndices
<1>10. ASSUME j_main # "ready" PROVE CountersOfBar'
  <2>1. CASE J!FuncReturns(p)
    <3>1. j_pc'[FirstRun(i)] = "leaveArrive" /\ j_pc[FirstRun(i)] = "run"
      BY <1>1, <1>4, <2>1 DEF J!FuncReturns, JoinType
    <3>2. HaveArrived' = HaveArrived /\ HaveLeft' = HaveLeft
      BY <1>7, <3>1 DEF HaveArrived, HaveLeft
    <3>. QED
      BY <1>2, <1>6, <1>10, <2>1, <3>2 DEF J!FuncReturns, CountersOfBar
  <2>2. CASE J!LeaveArrive(p)
    <3>1. j_pc'[FirstRun(i)] = "leaveLeave" /\ j_pc[FirstRun(i)] = "leaveArrive"
      BY <1>1, <1>4, <2>2 DEF J!LeaveArrive, JoinType
    <3>2. HaveArrived' = HaveArrived \cup {i} /\ i \notin HaveArrived /\ HaveLeft' = HaveLeft
      BY <1>7, <3>1 DEF HaveArrived, HaveLeft
    <3>. QED
      BY <1>2, <1>6, <1>9, <1>10, <2>2, <3>2, JConstants DEF J!LeaveArrive, CountersOfBar
  <2>3. CASE J!LeaveLeave(p)
    <3>1. j_pc'[FirstRun(i)] = "ended" /\ j_pc[FirstRun(i)] = "leaveLeave"
      BY <1>1, <1>4, <2>3 DEF J!LeaveLeave, JoinType
    <3>2. HaveLeft' = HaveLeft \cup {i} /\ i \notin HaveLeft /\ HaveArrived' = HaveArrived
      BY <1>7, <3>1 DEF HaveArrived, HaveLeft
    <3>. QED
      BY <1>2, <1>6, <1>9, <1>10, <2>3, <3>2, JConstants DEF J!LeaveLeave, CountersOfBar
  <2>. QED
    BY <2>1, <2>2, <2>3 DEF J!WrapperStep
<1>11. \A k \in Indices : j_pc'[FirstRun(k)] = "none" => j_pc[FirstRun(k)] = "none"
  BY <1>7
<1>12. \A k \in Indices : j_pc'[FirstRun(k)] = "run" => j_pc[FirstRun(k)] = "run"
  BY <1>7
<1>. QED
  BY <1>3, <1>6, <1>10, <1>11, <1>12 DEF JoinInv

LEMMA JoinInductive == JoinInv /\ [J!Next]_j_vars => JoinInv'
<1>1. JoinInv /\ UNCHANGED j_vars => JoinInv'
  BY DEF j_vars, JoinInv, JoinType, CountersOfBar, HaveArrived, HaveLeft
<1>. QED
  BY <1>1, SettingJoin, CreatingJoin, Joining, Wrapping DEF J!Next, J!MainStep

LEMMA JoinIsSafe == JoinInv => (j_round <= 1 => J!JoinWaitsForAll)
<1>. SUFFICES ASSUME JoinInv, j_round <= 1, j_main = "ready", j_round > 0
              PROVE  \A i \in Indices : j_pc[<<j_round, i>>] \notin {"none", "run"}
  BY DEF J!JoinWaitsForAll, Indices
<1>1. j_round = 1
  BY DEF JoinInv, JoinType
<1>. QED
  BY <1>1 DEF JoinInv, FirstRun

-----------------------------------------------------------------------------
(*                          User-level threads                              *)

Active == {i \in U!Slots : u_active[i]}

(* What is true of the fibers of a POSIX thread. The invariant of the run   *)
(* says that the stack of an active fiber is kept; that a fiber which is    *)
(* not active is never switched to needs the rest: where a fiber is tells   *)
(* whether it is active, and before the main fiber calls func the slots are *)
(* filled in order.                                                         *)
FibersType ==
  /\ u_active \in [U!Slots -> BOOLEAN] /\ u_N_FIBERS = Cardinality(Active)
  /\ u_currentFiber \in U!Slots
  /\ u_FIBER_RECYCLE \in U!Slots \cup {NULL} /\ u_freed \subseteq U!Slots
  /\ u_at \in [U!Slots -> {"none", "spawning", "fresh", "func", "waiting", "ended", "done"}]

ActiveIffNotEnded ==
  \A i \in U!Slots :
    /\ u_active[i] <=> u_at[i] \notin {"none", "ended"}
    /\ i = 0 => u_at[i] \in {"spawning", "func", "waiting", "done"}
    /\ i # 0 => u_at[i] \in {"none", "fresh", "func", "ended"}

SlotsFillInOrder ==
  /\ u_at[0] = "spawning" =>
       /\ u_currentFiber = 0 /\ u_N_FIBERS \in 1 .. MAX_FIBERS
       /\ \A i \in U!Slots : u_active[i] <=> i < u_N_FIBERS
       /\ u_FIBER_RECYCLE = NULL /\ u_freed = {}
  /\ u_at[0] # "spawning" => \A i \in U!Slots : u_at[i] # "none"

FibersInv ==
  /\ FibersType /\ ActiveIffNotEnded /\ SlotsFillInOrder
  /\ u_at[u_currentFiber] \in {"spawning", "func", "waiting", "done"}
  /\ \A i \in U!Slots : u_active[i] => i \notin u_freed \cup {u_FIBER_RECYCLE}
  /\ u_at[0] = "done" =>
       u_currentFiber = 0 /\ \A i \in U!Slots \ {0} : u_at[i] = "ended"

LEMMA UConstants ==
  MAX_FIBERS \in Nat \ {0} /\ NULL \notin Int /\ U!Slots = 0 .. MAX_FIBERS - 1 /\ 0 \in U!Slots
BY MCAssumption DEF U!ConstantsAssumption, U!Slots

(* Counting the true elements of a boolean function on the slots. *)
LEMMA USlotsFinite == \A X \in SUBSET U!Slots : IsFiniteSet(X) /\ Cardinality(X) \in Nat
<1>1. IsFiniteSet(U!Slots)
  BY UConstants, FS_Interval
<1>. QED
  BY <1>1, FS_Subset, FS_CardinalityType

(* The search for the next fiber finds an active one, when there is one.    *)
LEMMA NextFiberIsActive ==
  ASSUME NEW alive \in [U!Slots -> BOOLEAN], NEW x \in U!Slots, alive[x],
         u_currentFiber \in U!Slots
  PROVE  U!NextFiber(alive) \in U!Slots /\ alive[U!NextFiber(alive)]
<1>. DEFINE After(d) == (u_currentFiber + d) % MAX_FIBERS
            D == {e \in 1 .. MAX_FIBERS : alive[After(e)]}
<1>1. \A e \in 1 .. MAX_FIBERS : After(e) \in U!Slots
  BY UConstants
<1>2. \E e \in 1 .. MAX_FIBERS : After(e) = x
  <2>1. CASE x > u_currentFiber
    <3>1. After(x - u_currentFiber) = x /\ x - u_currentFiber \in 1 .. MAX_FIBERS
      BY <2>1, UConstants
    <3>. QED
      BY <3>1, UConstants
  <2>2. CASE x <= u_currentFiber
    <3>1. After((x - u_currentFiber) + MAX_FIBERS) = x
      BY <2>2, UConstants
    <3>2. (x - u_currentFiber) + MAX_FIBERS \in 1 .. MAX_FIBERS
      BY <2>2, UConstants
    <3>. QED
      BY <3>1, <3>2, UConstants
  <2>. QED
    BY <2>1, <2>2, UConstants
<1>9. D # {} /\ D \subseteq Nat
  <2>1. D # {}
    BY <1>2
  <2>. QED
    BY <2>1, UConstants
<1>. HIDE DEF D
<1>3. PICK e \in D : \A f \in D : e <= f
  BY ONLY <1>9, LeastNatural
<1>4. /\ e \in 1 .. MAX_FIBERS /\ alive[After(e)]
      /\ \A f \in 1 .. e - 1 : ~ alive[After(f)]
  <2>1. e \in 1 .. MAX_FIBERS /\ alive[After(e)]
    BY <1>3 DEF D
  <2>2. ASSUME NEW f \in 1 .. e - 1 PROVE ~ alive[After(f)]
    <3>1. f \in 1 .. MAX_FIBERS /\ ~ (e <= f)
      BY <2>1, UConstants
    <3>. QED
      BY <1>3, <3>1 DEF D
  <2>. QED
    BY <2>1, <2>2
<1>. DEFINE d == CHOOSE g \in 1 .. MAX_FIBERS :
                   /\ alive[After(g)] /\ \A f \in 1 .. g - 1 : ~ alive[After(f)]
<1>. HIDE DEF After
<1>5. d \in 1 .. MAX_FIBERS /\ alive[After(d)]
  BY <1>4
<1>6. U!NextFiber(alive) = After(d)
  BY DEF U!NextFiber, After
<1>. QED
  BY <1>1, <1>5, <1>6

LEMMA InitFibers == U!Init => FibersInv
<1>. SUFFICES ASSUME U!Init PROVE FibersInv
  OBVIOUS
<1>1. Active = {0}
  BY UConstants DEF U!Init, Active
<1>2. FibersType
  BY <1>1, UConstants, FS_Singleton DEF U!Init, FibersType
<1>3. ActiveIffNotEnded
  BY UConstants DEF U!Init, ActiveIffNotEnded
<1>4. SlotsFillInOrder
  <2>1. /\ u_N_FIBERS = 1 /\ u_currentFiber = 0 /\ u_FIBER_RECYCLE = NULL /\ u_freed = {}
        /\ u_at[0] = "spawning" /\ \A i \in U!Slots : u_active[i] <=> i = 0
    BY UConstants DEF U!Init
  <2>2. \A i \in U!Slots : i < 1 <=> i = 0
    BY UConstants
  <2>. QED
    BY <2>1, <2>2, UConstants DEF SlotsFillInOrder
<1>. QED
  BY <1>2, <1>3, <1>4, UConstants DEF U!Init, FibersInv

(* One fiber more, one fiber fewer. *)
LEMMA ActiveChanges ==
  ASSUME FibersType, NEW i \in U!Slots
  PROVE  /\ ~ u_active[i] =>
              Cardinality({k \in U!Slots : [u_active EXCEPT ![i] = TRUE][k]}) = u_N_FIBERS + 1
         /\ u_active[i] =>
              Cardinality({k \in U!Slots : [u_active EXCEPT ![i] = FALSE][k]}) = u_N_FIBERS - 1
         /\ u_N_FIBERS \in Nat
<1>1. IsFiniteSet(Active) /\ u_N_FIBERS \in Nat /\ Active \subseteq U!Slots
  BY USlotsFinite DEF FibersType, Active
<1>2. u_active \in [U!Slots -> BOOLEAN] /\ u_N_FIBERS = Cardinality(Active)
  BY DEF FibersType
<1>3. ASSUME ~ u_active[i]
      PROVE  Cardinality({k \in U!Slots : [u_active EXCEPT ![i] = TRUE][k]}) = u_N_FIBERS + 1
  <2>1. {k \in U!Slots : [u_active EXCEPT ![i] = TRUE][k]} = Active \cup {i} /\ i \notin Active
    BY <1>2, <1>3 DEF Active
  <2>. QED
    BY <1>1, <1>2, <2>1, FS_AddElement
<1>4. ASSUME u_active[i]
      PROVE  Cardinality({k \in U!Slots : [u_active EXCEPT ![i] = FALSE][k]}) = u_N_FIBERS - 1
  <2>1. {k \in U!Slots : [u_active EXCEPT ![i] = FALSE][k]} = Active \ {i} /\ i \in Active
    BY <1>2, <1>4 DEF Active
  <2>. QED
    BY <1>1, <1>2, <2>1, FS_RemoveElement
<1>. QED
  BY <1>1, <1>3, <1>4

LEMMA SpawnStep == FibersInv /\ U!Spawn => FibersInv'
<1>. SUFFICES ASSUME FibersInv, U!Spawn PROVE FibersInv'
  OBVIOUS
<1>. DEFINE n == u_N_FIBERS
<1>1. /\ n \in U!Slots /\ n # 0 /\ ~ u_active[n]
      /\ u_currentFiber = 0 /\ u_at[0] = "spawning"
  BY UConstants DEF FibersInv, FibersType, ActiveIffNotEnded, SlotsFillInOrder, U!Spawn
<1>2. FibersType'
  <2>1. Cardinality(Active') = n + 1
    BY <1>1, ActiveChanges DEF FibersInv, U!Spawn, Active
  <2>. QED
    BY <1>1, <2>1, UConstants DEF FibersInv, FibersType, U!Spawn
<1>3. ActiveIffNotEnded'
  BY <1>1 DEF FibersInv, FibersType, ActiveIffNotEnded, U!Spawn
<1>4. SlotsFillInOrder'
  BY <1>1, UConstants DEF FibersInv, FibersType, SlotsFillInOrder, U!Spawn
<1>5. u_at' = [u_at EXCEPT ![n] = "fresh"] /\ u_active' = [u_active EXCEPT ![n] = TRUE]
  BY DEF U!Spawn
<1>. QED
  BY <1>1, <1>2, <1>3, <1>4, <1>5, UConstants
     DEF FibersInv, FibersType, SlotsFillInOrder, U!Spawn

(* The main fiber alone moves on. *)
LEMMA MainFiberStep == FibersInv /\ (U!CallFunc \/ U!FuncReturns \/ U!AllEnded) => FibersInv'
<1>. SUFFICES ASSUME FibersInv, U!CallFunc \/ U!FuncReturns \/ U!AllEnded PROVE FibersInv'
  OBVIOUS
<1>1. PICK s \in {"func", "waiting", "done"} :
        /\ u_at' = [u_at EXCEPT ![0] = s] /\ u_at[0] # "done" /\ u_currentFiber = 0
        /\ u_at[0] = "spawning" => u_N_FIBERS = MAX_FIBERS
        /\ s = "done" => u_N_FIBERS = 1 /\ u_at[0] = "waiting"
  BY DEF FibersInv, SlotsFillInOrder, U!CallFunc, U!FuncReturns, U!AllEnded
<1>2. UNCHANGED <<u_N_FIBERS, u_active, u_currentFiber, u_FIBER_RECYCLE, u_freed>>
  BY DEF U!CallFunc, U!FuncReturns, U!AllEnded
<1>3. FibersType'
  BY <1>1, <1>2, UConstants DEF FibersInv, FibersType, Active
<1>4. ActiveIffNotEnded'
  BY <1>1, <1>2, UConstants DEF FibersInv, FibersType, ActiveIffNotEnded
<1>5. SlotsFillInOrder'
  <2>1. \A i \in U!Slots : u_at'[i] # "none"
    <3>1. CASE u_at[0] = "spawning"
      BY <1>1, <3>1, UConstants DEF FibersInv, FibersType, ActiveIffNotEnded, SlotsFillInOrder
    <3>2. CASE u_at[0] # "spawning"
      BY <1>1, <3>2, UConstants DEF FibersInv, FibersType, SlotsFillInOrder
    <3>. QED
      BY <3>1, <3>2
  <2>. QED
    BY <1>1, <2>1, UConstants DEF FibersInv, FibersType, SlotsFillInOrder
<1>6. ASSUME s = "done" PROVE \A i \in U!Slots \ {0} : u_at'[i] = "ended"
  <2>1. Active = {0}
    <3>1. 0 \in Active /\ IsFiniteSet(Active) /\ Cardinality(Active) = 1
      BY <1>1, <1>6, UConstants, USlotsFinite
         DEF FibersInv, FibersType, ActiveIffNotEnded, Active
    <3>2. Cardinality(Active \ {0}) = 0
      BY <3>1, FS_RemoveElement
    <3>3. Active \ {0} = {}
      BY <3>1, <3>2, FS_RemoveElement, FS_EmptySet
    <3>. QED
      BY <3>1, <3>3
  <2>. QED
    BY <1>1, <1>6, <2>1, UConstants
       DEF FibersInv, FibersType, ActiveIffNotEnded, SlotsFillInOrder, Active
<1>. QED
  BY <1>1, <1>2, <1>3, <1>4, <1>5, <1>6, UConstants DEF FibersInv, FibersType, ActiveIffNotEnded

(* Switching to an active fiber, from one that goes on later and from one   *)
(* that has ended.                                                          *)
LEMMA YieldStep == FibersInv /\ U!Yield => FibersInv'
<1>. SUFFICES ASSUME FibersInv, U!Yield PROVE FibersInv'
  OBVIOUS
<1>. DEFINE n == U!NextFiber(u_active)
<1>1. n \in U!Slots /\ u_active[n]
  BY NextFiberIsActive DEF FibersInv, FibersType, ActiveIffNotEnded
<1>2. /\ UNCHANGED <<u_N_FIBERS, u_active>> /\ u_currentFiber' = n
      /\ u_at' = [u_at EXCEPT ![n] = IF @ = "fresh" THEN "func" ELSE @]
      /\ IF u_at[n] = "fresh"
           THEN u_FIBER_RECYCLE' = u_FIBER_RECYCLE /\ u_freed' = u_freed
           ELSE u_FIBER_RECYCLE' = NULL /\ u_freed' = u_freed \cup ({u_FIBER_RECYCLE} \ {NULL})
      /\ u_at[u_currentFiber] \in {"func", "waiting"}
  BY DEF U!Yield, U!SwitchTo
<1>. HIDE DEF n
<1>3. u_at[0] \notin {"spawning", "done"}
  BY <1>2 DEF FibersInv, SlotsFillInOrder
<1>4. FibersType'
  BY <1>1, <1>2 DEF FibersInv, FibersType, Active
<1>5. ActiveIffNotEnded'
  BY <1>1, <1>2, <1>3 DEF FibersInv, FibersType, ActiveIffNotEnded
<1>6. u_at'[0] = u_at[0] /\ \A i \in U!Slots : u_at'[i] # "none"
  BY <1>1, <1>2, <1>3, UConstants DEF FibersInv, FibersType, ActiveIffNotEnded, SlotsFillInOrder
<1>7. SlotsFillInOrder'
  BY <1>3, <1>6 DEF SlotsFillInOrder
<1>8. u_at'[u_currentFiber'] \in {"spawning", "func", "waiting", "done"}
  BY <1>1, <1>2 DEF FibersInv, FibersType, ActiveIffNotEnded
<1>9. \A i \in U!Slots : u_active'[i] => i \notin u_freed' \cup {u_FIBER_RECYCLE'}
  BY <1>2, UConstants DEF FibersInv
<1>. QED
  BY <1>3, <1>4, <1>5, <1>6, <1>7, <1>8, <1>9 DEF FibersInv

LEMMA EndStep == FibersInv /\ U!End => FibersInv'
<1>. SUFFICES ASSUME FibersInv, U!End PROVE FibersInv'
  OBVIOUS
<1>. DEFINE c == u_currentFiber
            alive == [u_active EXCEPT ![c] = FALSE]
            n == U!NextFiber(alive)
<1>1. c \in U!Slots /\ c # 0 /\ u_at[c] = "func" /\ u_active[c] /\ u_active[0]
  BY UConstants DEF FibersInv, FibersType, ActiveIffNotEnded, U!End
<1>2. n \in U!Slots /\ alive[n]
  <2>1. alive \in [U!Slots -> BOOLEAN] /\ alive[0]
    BY <1>1, UConstants DEF FibersInv, FibersType
  <2>. QED
    BY ONLY <1>1, <2>1, UConstants, NextFiberIsActive
<1>3. n # c /\ u_active[n]
  BY <1>1, <1>2 DEF FibersInv, FibersType
<1>4. /\ u_active' = alive /\ u_N_FIBERS' = u_N_FIBERS - 1 /\ u_currentFiber' = n
      /\ u_at' = [[u_at EXCEPT ![c] = "ended"] EXCEPT ![n] = IF @ = "fresh" THEN "func" ELSE @]
      /\ IF [u_at EXCEPT ![c] = "ended"][n] = "fresh"
           THEN u_FIBER_RECYCLE' = c /\ u_freed' = u_freed
           ELSE u_FIBER_RECYCLE' = NULL /\ u_freed' = u_freed \cup ({c} \ {NULL})
  BY DEF U!End, U!SwitchTo
<1>5. u_N_FIBERS' = Cardinality(Active')
  BY <1>1, <1>4, ActiveChanges DEF FibersInv, Active
<1>6. u_at \in [U!Slots -> {"none", "spawning", "fresh", "func", "waiting", "ended", "done"}]
      /\ u_active \in [U!Slots -> BOOLEAN]
  BY DEF FibersInv, FibersType
<1>. HIDE DEF n
<1>7. /\ u_at'[c] = "ended" /\ ~ u_active'[c]
      /\ \A i \in U!Slots \ {c} :
           /\ u_active'[i] = u_active[i]
           /\ u_at'[i] = IF i = n /\ u_at[i] = "fresh" THEN "func" ELSE u_at[i]
  BY <1>1, <1>2, <1>3, <1>4, <1>6
<1>8. u_at[0] \notin {"spawning", "done"}
  BY <1>1 DEF FibersInv, SlotsFillInOrder
<1>9. FibersType'
  BY <1>1, <1>2, <1>3, <1>4, <1>5, <1>6 DEF FibersInv, FibersType
<1>10. ActiveIffNotEnded'
  BY <1>1, <1>7, <1>8 DEF FibersInv, ActiveIffNotEnded
<1>11. u_at'[0] = u_at[0] /\ \A i \in U!Slots : u_at'[i] # "none"
  BY <1>1, <1>7, <1>8, UConstants DEF FibersInv, ActiveIffNotEnded, SlotsFillInOrder
<1>12. SlotsFillInOrder'
  BY <1>8, <1>11 DEF SlotsFillInOrder
<1>13. u_at'[u_currentFiber'] \in {"spawning", "func", "waiting", "done"}
  <2>1. u_at[n] \in {"spawning", "fresh", "func", "waiting", "done"}
    BY <1>2, <1>3 DEF FibersInv, ActiveIffNotEnded
  <2>2. u_at'[n] = IF u_at[n] = "fresh" THEN "func" ELSE u_at[n]
    BY <1>2, <1>3, <1>7
  <2>. QED
    BY <1>4, <2>1, <2>2
<1>14. \A i \in U!Slots : u_active'[i] => i \notin u_freed' \cup {u_FIBER_RECYCLE'}
  BY <1>4, <1>7, UConstants DEF FibersInv
<1>. QED
  BY <1>8, <1>9, <1>10, <1>11, <1>12, <1>13, <1>14 DEF FibersInv

LEMMA FibersInductive == FibersInv /\ [U!Next]_u_vars => FibersInv'
<1>1. FibersInv /\ UNCHANGED u_vars => FibersInv'
  BY DEF u_vars, FibersInv, FibersType, ActiveIffNotEnded, SlotsFillInOrder, Active
<1>. QED
  BY <1>1, SpawnStep, MainFiberStep, YieldStep, EndStep DEF U!Next

LEMMA FibersAreSafe == FibersInv => U!TypeOK /\ U!StacksInUseAreKept
<1>1. ASSUME FibersInv PROVE U!TypeOK
  <2>1. U!Cardinality(Active) = Cardinality(Active)
    BY DEF U!Cardinality, Cardinality
  <2>. QED
    BY <1>1, <2>1 DEF FibersInv, FibersType, U!TypeOK, Active
<1>2. ASSUME FibersInv PROVE U!StacksInUseAreKept
  BY <1>2 DEF FibersInv, FibersType, ActiveIffNotEnded, U!StacksInUseAreKept
<1>. QED
  BY <1>1, <1>2

-----------------------------------------------------------------------------
(*                              The pool                                    *)

Object == P!Blocks \X (0 .. Entries - 1)

PoolType ==
  /\ p_entry \in [P!Blocks -> 0 .. Entries \cup {NULL}]
  /\ p_next = [b \in P!Blocks |-> NULL] /\ p_back \in [P!Blocks -> P!Blocks \cup {NULL}]
  /\ p_cur_block \in P!Blocks \cup {NULL} /\ p_head_block \in P!Blocks \cup {NULL}
  /\ p_held \in Seq(Object) /\ p_recycle_list \in Seq(Object)
  /\ p_usage \in {"recycles", "rolls back"}

(* The blocks are the first m ones. *)
FirstBlocks(entry, m) == \A b \in P!Blocks : entry[b] # NULL <=> b <= m

(* An object that was cut out of its block. *)
IsCut(o, entry) == entry[o[1]] # NULL /\ o[2] < entry[o[1]]

Distinct(q) == \A i, j \in 1 .. Len(q) : q[i] = q[j] => i = j

(* A pool whose objects are recycled. *)
Scattered ==
  /\ \A i \in 1 .. Len(p_held) : IsCut(p_held[i], p_entry)
  /\ \A i \in 1 .. Len(p_recycle_list) : IsCut(p_recycle_list[i], p_entry)
  /\ Distinct(p_held) /\ Distinct(p_recycle_list)
  /\ \A i \in 1 .. Len(p_held), j \in 1 .. Len(p_recycle_list) : p_held[i] # p_recycle_list[j]

(* The blocks from the first to b, along back; all but b are used up.       *)
IsStack(r, c, b, m, entry, back) ==
  /\ c \in 1 .. m /\ r \in [1 .. c -> 1 .. m] /\ r[c] = b
  /\ \A i, j \in 1 .. c : r[i] = r[j] => i = j
  /\ back[r[1]] = NULL /\ \A i \in 2 .. c : back[r[i]] = r[i - 1]
  /\ \A i \in 1 .. c - 1 : entry[r[i]] = Entries

(* A pool whose last allocations are cancelled: the objects held are those  *)
(* of the stack of blocks, in order.                                        *)
Stacked(r, c) ==
  /\ Len(p_held) = ((c - 1) * Entries) + p_entry[p_cur_block]
  /\ \A i \in 1 .. Len(p_held) :
       p_held[i] = <<r[((i - 1) \div Entries) + 1], (i - 1) % Entries>>

PoolInv ==
  /\ PoolType
  /\ p_usage = "rolls back" => p_recycle_list = <<>> /\ (p_cur_block = NULL => p_held = <<>>)
  /\ p_cur_block # NULL =>
       \E m \in P!Blocks :
         /\ FirstBlocks(p_entry, m) /\ p_cur_block <= m
         /\ p_usage = "recycles" => Scattered
         /\ p_usage = "rolls back" =>
              \E c \in 1 .. m : \E r \in [1 .. c -> 1 .. m] :
                IsStack(r, c, p_cur_block, m, p_entry, p_back) /\ Stacked(r, c)

LEMMA PConstants ==
  /\ Entries \in Nat \ {0} /\ MaxBlocks \in Nat \ {0} /\ NULL \notin Int
  /\ P!Blocks = 1 .. MaxBlocks
BY MCAssumption DEF P!ConstantsAssumption, P!Blocks

(* Division with remainder, for the place of an object in its block.        *)
LEMMA Dividing ==
  ASSUME NEW n \in Nat \ {0}
  PROVE  /\ \A q \in Int, x \in 0 .. n - 1 :
              (q * n + x) \div n = q /\ (q * n + x) % n = x
         /\ \A y \in Int :
              y % n \in 0 .. n - 1 /\ y \div n \in Int /\ y = ((y \div n) * n) + (y % n)
         /\ \A y \in Nat, c \in Nat : y < c * n => y \div n \in 0 .. c - 1
<1>1. \A q \in Int, x \in 0 .. n - 1 : (q * n + x) \div n = q /\ (q * n + x) % n = x
  BY SMT
<1>2. \A y \in Int :
        y % n \in 0 .. n - 1 /\ y \div n \in Int /\ y = ((y \div n) * n) + (y % n)
  BY SMT
<1>3. \A y \in Nat, c \in Nat : y < c * n => y \div n \in 0 .. c - 1
  BY SMT
<1>. QED
  BY <1>1, <1>2, <1>3

(* synchAllocObj takes a new block when the one in use is full.             *)
LEMMA NewBlockIsNext ==
  ASSUME NEW m \in P!Blocks, FirstBlocks(p_entry, m), P!BlocksLeft
  PROVE  P!NewBlock = m + 1 /\ m + 1 \in P!Blocks /\ p_entry[m + 1] = NULL
<1>1. PICK b \in P!Blocks : p_entry[b] = NULL
  BY DEF P!BlocksLeft
<1>2. m + 1 \in P!Blocks /\ p_entry[m + 1] = NULL /\ \A c \in 1 .. m : p_entry[c] # NULL
  <2>1. b > m /\ m \in 1 .. MaxBlocks /\ b \in 1 .. MaxBlocks
    BY <1>1, PConstants DEF FirstBlocks
  <2>. QED
    BY <2>1, PConstants DEF FirstBlocks
<1>3. \A b2 \in P!Blocks :
        (p_entry[b2] = NULL /\ \A c \in 1 .. b2 - 1 : p_entry[c] # NULL) <=> b2 = m + 1
  <2>1. ASSUME NEW b2 \in P!Blocks, p_entry[b2] = NULL, \A c \in 1 .. b2 - 1 : p_entry[c] # NULL
        PROVE  b2 = m + 1
    <3>1. b2 > m
      BY <2>1, PConstants DEF FirstBlocks
    <3>2. ~ (b2 > m + 1)
      BY <1>2, <2>1, PConstants
    <3>. QED
      BY <3>1, <3>2, PConstants
  <2>2. \A c \in 1 .. (m + 1) - 1 : p_entry[c] # NULL
    BY <1>2, PConstants
  <2>. QED
    BY <1>2, <2>1, <2>2
<1>. QED
  BY <1>2, <1>3 DEF P!NewBlock

LEMMA InitPool == P!Init => PoolInv
<1>. SUFFICES ASSUME P!Init PROVE PoolInv
  OBVIOUS
<1>1. p_entry = [b \in P!Blocks |-> IF b = 1 THEN 0 ELSE NULL]
  BY DEF P!Init
<1>2. /\ p_next = [b \in P!Blocks |-> NULL] /\ p_back = [b \in P!Blocks |-> NULL]
      /\ p_usage \in {"recycles", "rolls back"}
  BY DEF P!Init
<1>3. p_cur_block = 1 /\ p_head_block = 1
  BY DEF P!Init
<1>4. p_held = <<>> /\ p_recycle_list = <<>>
  BY DEF P!Init
<1>5. /\ p_held \in Seq(Object) /\ p_recycle_list \in Seq(Object)
      /\ Len(p_held) = 0 /\ Len(p_recycle_list) = 0
  BY <1>4, EmptySeq
<1>6. /\ 1 \in P!Blocks /\ p_entry[1] = 0 /\ 1 # NULL
      /\ \A b \in P!Blocks \ {1} : p_entry[b] = NULL
  BY <1>1, PConstants
<1>7. PoolType
  <2>1. p_entry \in [P!Blocks -> 0 .. Entries \cup {NULL}]
    BY <1>1, PConstants
  <2>2. p_cur_block \in P!Blocks \cup {NULL} /\ p_head_block \in P!Blocks \cup {NULL}
    BY <1>3, <1>6
  <2>3. p_back \in [P!Blocks -> P!Blocks \cup {NULL}]
    BY <1>2
  <2>. QED
    BY <1>2, <1>5, <2>1, <2>2, <2>3 DEF PoolType
<1>8. FirstBlocks(p_entry, 1)
  BY <1>6, PConstants DEF FirstBlocks
<1>9. Scattered
  BY <1>5 DEF Scattered, Distinct
<1>10. \E c \in 1 .. 1 : \E r \in [1 .. c -> 1 .. 1] :
         IsStack(r, c, p_cur_block, 1, p_entry, p_back) /\ Stacked(r, c)
  <2>. DEFINE r == [i \in 1 .. 1 |-> 1]
  <2>1. r \in [1 .. 1 -> 1 .. 1] /\ r[1] = 1
    OBVIOUS
  <2>2. p_back[r[1]] = NULL
    BY <1>2, <1>6, <2>1
  <2>3. IsStack(r, 1, p_cur_block, 1, p_entry, p_back)
    BY <1>3, <2>1, <2>2 DEF IsStack
  <2>4. Len(p_held) = ((1 - 1) * Entries) + p_entry[p_cur_block]
    BY <1>3, <1>5, <1>6, PConstants
  <2>5. Stacked(r, 1)
    BY <1>5, <2>4 DEF Stacked
  <2>. QED
    BY <2>1, <2>3, <2>5
<1>11. p_usage = "rolls back" =>
         p_recycle_list = <<>> /\ (p_cur_block = NULL => p_held = <<>>)
  BY <1>4
<1>12. p_cur_block # NULL =>
         \E m \in P!Blocks :
           /\ FirstBlocks(p_entry, m) /\ p_cur_block <= m
           /\ p_usage = "recycles" => Scattered
           /\ p_usage = "rolls back" =>
                \E c \in 1 .. m : \E r \in [1 .. c -> 1 .. m] :
                  IsStack(r, c, p_cur_block, m, p_entry, p_back) /\ Stacked(r, c)
  <2>1. /\ FirstBlocks(p_entry, 1) /\ p_cur_block <= 1
        /\ p_usage = "recycles" => Scattered
        /\ p_usage = "rolls back" =>
             \E c \in 1 .. 1 : \E r \in [1 .. c -> 1 .. 1] :
               IsStack(r, c, p_cur_block, 1, p_entry, p_back) /\ Stacked(r, c)
    <3>1. p_cur_block <= 1
      BY <1>3
    <3>. QED
      BY <3>1, <1>8, <1>9, <1>10, Zenon
  <2>. QED
    BY <1>6, <2>1, Zenon
<1>. QED
  BY <1>7, <1>11, <1>12 DEF PoolInv

(* Allocations from the recycle list; there is none when the pool is rolled *)
(* back.                                                                    *)
LEMMA AllocRecycledStep == PoolInv /\ P!AllocRecycled => PoolInv'
<1>. SUFFICES ASSUME PoolInv, P!AllocRecycled PROVE PoolInv'
  OBVIOUS
<1>. DEFINE q == p_held  l == p_recycle_list
<1>1. /\ q' = Append(q, Head(l)) /\ l' = Tail(l) /\ l # <<>>
      /\ UNCHANGED <<p_entry, p_next, p_back, p_head_block, p_cur_block, p_usage>>
  BY DEF P!AllocRecycled
<1>2. /\ q \in Seq(Object) /\ l \in Seq(Object) /\ p_usage = "recycles"
      /\ Len(l) \in Nat \ {0} /\ Len(q) \in Nat
  BY <1>1, EmptySeq, LenProperties DEF PoolInv, PoolType
<1>3. /\ q' \in Seq(Object) /\ Len(q') = Len(q) + 1
      /\ \A i \in 1 .. Len(q) + 1 : q'[i] = IF i <= Len(q) THEN q[i] ELSE l[1]
      /\ l' \in Seq(Object) /\ Len(l') = Len(l) - 1
      /\ \A i \in 1 .. Len(l) - 1 : l'[i] = l[i + 1]
  <2>1. Head(l) \in Object /\ Head(l) = l[1]
    BY <1>1, <1>2, HeadTailProperties
  <2>. QED
    BY <1>1, <1>2, <2>1, HeadTailProperties, AppendProperties
<1>4. PoolType'
  BY <1>1, <1>3 DEF PoolInv, PoolType
<1>5. ASSUME p_cur_block # NULL, Scattered PROVE Scattered'
  <2>1. \A i \in 1 .. Len(q) : IsCut(q[i], p_entry)
    BY <1>5 DEF Scattered
  <2>2. \A i \in 1 .. Len(l) : IsCut(l[i], p_entry)
    BY <1>5 DEF Scattered
  <2>3. \A i \in 1 .. Len(q') : IsCut(q'[i], p_entry')
    BY <1>1, <1>2, <1>3, <2>1, <2>2 DEF IsCut
  <2>4. \A i \in 1 .. Len(l') : IsCut(l'[i], p_entry')
    BY <1>1, <1>2, <1>3, <2>2 DEF IsCut
  <2>5. /\ Distinct(q) /\ Distinct(l)
        /\ \A i \in 1 .. Len(q), j \in 1 .. Len(l) : q[i] # l[j]
    BY <1>5 DEF Scattered
  <2>6. ASSUME NEW i \in 1 .. Len(l'), NEW j \in 1 .. Len(l'), l'[i] = l'[j] PROVE i = j
    <3>1. l'[i] = l[i + 1] /\ i + 1 \in 1 .. Len(l) /\ l'[j] = l[j + 1] /\ j + 1 \in 1 .. Len(l)
      <4>1. \A y \in 1 .. Len(l') : y \in 1 .. Len(l) - 1 /\ y + 1 \in 1 .. Len(l)
        BY <1>2, <1>3
      <4>. QED
        BY <1>3, <4>1
    <3>. QED
      <4>1. l[i + 1] = l[j + 1]
        BY <2>6, <3>1
      <4>2. i + 1 = j + 1
        BY <2>5, <3>1, <4>1 DEF Distinct
      <4>. QED
        BY <1>2, <1>3, <4>2
  <2>7. Distinct(q')
    BY <1>2, <1>3, <2>5 DEF Distinct
  <2>8. ASSUME NEW i \in 1 .. Len(q'), NEW j \in 1 .. Len(l') PROVE q'[i] # l'[j]
    <3>1. l'[j] = l[j + 1] /\ j + 1 \in 2 .. Len(l)
      BY <1>2, <1>3
    <3>2. CASE i <= Len(q)
      BY <1>2, <1>3, <2>5, <3>1, <3>2
    <3>3. CASE i > Len(q)
      BY <1>2, <1>3, <2>5, <3>1, <3>3 DEF Distinct
    <3>. QED
      BY <1>2, <3>2, <3>3
  <2>. QED
    BY <2>3, <2>4, <2>6, <2>7, <2>8 DEF Scattered, Distinct
<1>. QED
  BY <1>1, <1>2, <1>4, <1>5 DEF PoolInv

LEMMA RecycleStep ==
  ASSUME PoolInv, NEW k \in 1 .. Len(p_held), P!Recycle(k) PROVE PoolInv'
<1>. DEFINE q == p_held  l == p_recycle_list
<1>1. /\ l' = <<q[k]>> \o l /\ q' = SubSeq(q, 1, k - 1) \o SubSeq(q, k + 1, Len(q))
      /\ UNCHANGED <<p_entry, p_next, p_back, p_head_block, p_cur_block, p_usage>>
      /\ p_usage = "recycles"
  BY DEF P!Recycle
<1>2. /\ q \in Seq(Object) /\ l \in Seq(Object) /\ Len(l) \in Nat /\ Len(q) \in Nat
      /\ q[k] \in Object /\ \A i \in 1 .. Len(q) : q[i] \in Object
  <2>1. q \in Seq(Object) /\ l \in Seq(Object)
    BY DEF PoolInv, PoolType
  <2>2. Len(l) \in Nat /\ Len(q) \in Nat /\ q \in [1 .. Len(q) -> Object]
    BY <2>1, LenProperties
  <2>. QED
    BY <2>1, <2>2
<1>3. /\ SubSeq(q, 1, k - 1) \in Seq(Object) /\ Len(SubSeq(q, 1, k - 1)) = k - 1
      /\ \A i \in 1 .. k - 1 : SubSeq(q, 1, k - 1)[i] = q[i]
  BY <1>2, SubSeqProperties
<1>4. /\ SubSeq(q, k + 1, Len(q)) \in Seq(Object) /\ Len(SubSeq(q, k + 1, Len(q))) = Len(q) - k
      /\ \A i \in 1 .. Len(q) - k : SubSeq(q, k + 1, Len(q))[i] = q[k + i]
  <2>1. k + 1 \in Int /\ \A i \in k + 1 .. Len(q) : q[i] \in Object
    BY <1>2
  <2>. QED
    BY <1>2, <2>1, SubSeqProperties
<1>. DEFINE q1 == SubSeq(q, 1, k - 1)  q2 == SubSeq(q, k + 1, Len(q))
<1>9. /\ q1 \in Seq(Object) /\ Len(q1) = k - 1 /\ \A i \in 1 .. k - 1 : q1[i] = q[i]
      /\ q2 \in Seq(Object) /\ Len(q2) = Len(q) - k
      /\ \A i \in 1 .. Len(q) - k : q2[i] = q[k + i]
      /\ q' = q1 \o q2
  BY <1>1, <1>3, <1>4
<1>. HIDE DEF q1, q2
<1>5. /\ q' \in Seq(Object) /\ Len(q') = Len(q) - 1
      /\ \A i \in 1 .. Len(q) - 1 : q'[i] = IF i < k THEN q[i] ELSE q[i + 1]
  <2>1. /\ q' \in Seq(Object) /\ Len(q') = (k - 1) + (Len(q) - k)
        /\ \A i \in 1 .. (k - 1) + (Len(q) - k) :
              q'[i] = IF i <= k - 1 THEN q1[i] ELSE q2[i - (k - 1)]
    <3>1. q1 \in Seq(Object) /\ q2 \in Seq(Object)
      BY <1>9
    <3>2. /\ q1 \o q2 \in Seq(Object) /\ Len(q1 \o q2) = Len(q1) + Len(q2)
          /\ \A i \in 1 .. Len(q1) + Len(q2) :
                (q1 \o q2)[i] = IF i <= Len(q1) THEN q1[i] ELSE q2[i - Len(q1)]
      BY <3>1, ConcatProperties
    <3>3. q' = q1 \o q2 /\ Len(q1) = k - 1 /\ Len(q2) = Len(q) - k
      BY <1>9
    <3>. QED
      BY <3>2, <3>3
  <2>3. ASSUME NEW i \in 1 .. Len(q) - 1 PROVE q'[i] = IF i < k THEN q[i] ELSE q[i + 1]
    <3>1. CASE i < k
      BY <1>2, <1>9, <2>1, <3>1
    <3>2. CASE i >= k
      <4>1. i - (k - 1) \in 1 .. Len(q) - k /\ k + (i - (k - 1)) = i + 1
        BY <1>2, <3>2
      <4>2. i \in 1 .. (k - 1) + (Len(q) - k) /\ ~ (i <= k - 1) /\ ~ (i < k)
        BY <1>2, <3>2
      <4>3. q'[i] = q2[i - (k - 1)]
        BY <2>1, <4>2
      <4>4. q2[i - (k - 1)] = q[k + (i - (k - 1))]
        BY <1>9, <4>1
      <4>. QED
        BY <4>1, <4>2, <4>3, <4>4
    <3>. QED
      BY <3>1, <3>2
  <2>. QED
    BY <1>2, <2>1, <2>3
<1>6. /\ l' \in Seq(Object) /\ Len(l') = Len(l) + 1
      /\ \A i \in 1 .. Len(l) + 1 : l'[i] = IF i = 1 THEN q[k] ELSE l[i - 1]
  <2>1. <<q[k]>> \in Seq(Object) /\ Len(<<q[k]>>) = 1 /\ <<q[k]>>[1] = q[k]
    BY <1>2
  <2>. QED
    BY <1>1, <1>2, <2>1, ConcatProperties
<1>7. PoolType'
  BY <1>1, <1>5, <1>6 DEF PoolInv, PoolType
<1>8. ASSUME Scattered PROVE Scattered'
  <2>1. /\ \A i \in 1 .. Len(q) : IsCut(q[i], p_entry')
        /\ \A i \in 1 .. Len(l) : IsCut(l[i], p_entry')
        /\ Distinct(q) /\ Distinct(l)
        /\ \A i \in 1 .. Len(q), j \in 1 .. Len(l) : q[i] # l[j]
    BY <1>1, <1>8 DEF Scattered
  <2>2. \A i \in 1 .. Len(q') :
          \E m \in 1 .. Len(q) : m # k /\ q'[i] = q[m] /\ m = IF i < k THEN i ELSE i + 1
    BY <1>2, <1>5
  <2>3. \A i \in 1 .. Len(l') :
          \/ i = 1 /\ l'[i] = q[k]
          \/ i - 1 \in 1 .. Len(l) /\ l'[i] = l[i - 1]
    BY <1>2, <1>6
  <2>4. \A i \in 1 .. Len(q') : IsCut(q'[i], p_entry')
    BY <2>1, <2>2
  <2>5. \A i \in 1 .. Len(l') : IsCut(l'[i], p_entry')
    BY <2>1, <2>3
  <2>6. Distinct(q')
    BY <1>2, <1>5, <2>1, <2>2 DEF Distinct
  <2>7. ASSUME NEW i \in 1 .. Len(l'), NEW j \in 1 .. Len(l'), l'[i] = l'[j] PROVE i = j
    <3>1. k \in 1 .. Len(q)
      BY <1>2
    <3>2. CASE i = 1
      BY <2>1, <2>3, <2>7, <3>1, <3>2
    <3>3. CASE j = 1
      BY <2>1, <2>3, <2>7, <3>1, <3>3
    <3>4. CASE i # 1 /\ j # 1
      <4>1. /\ i - 1 \in 1 .. Len(l) /\ j - 1 \in 1 .. Len(l)
            /\ l[i - 1] = l[j - 1]
        BY <2>3, <2>7, <3>4
      <4>2. i - 1 = j - 1
        BY <2>1, <4>1 DEF Distinct
      <4>. QED
        BY <4>2
    <3>. QED
      BY <3>2, <3>3, <3>4
  <2>8. ASSUME NEW i \in 1 .. Len(q'), NEW j \in 1 .. Len(l') PROVE q'[i] # l'[j]
    <3>1. PICK m \in 1 .. Len(q) : m # k /\ q'[i] = q[m]
      BY <2>2
    <3>2. CASE j = 1 /\ l'[j] = q[k]
      <4>1. k \in 1 .. Len(q)
        BY <1>2
      <4>2. q[m] # q[k]
        BY <2>1, <3>1, <4>1 DEF Distinct
      <4>. QED
        BY <3>1, <3>2, <4>2
    <3>3. CASE j - 1 \in 1 .. Len(l) /\ l'[j] = l[j - 1]
      BY <2>1, <3>1, <3>3
    <3>. QED
      BY <2>3, <3>2, <3>3
  <2>. QED
    BY <2>4, <2>5, <2>6, <2>7, <2>8 DEF Scattered, Distinct
<1>. QED
  BY <1>1, <1>7, <1>8 DEF PoolInv

(* An allocation takes the object <<b, x>> that is next in block b.         *)
Takes(b, x) ==
  /\ b \in P!Blocks /\ x \in 0 .. Entries - 1 /\ p_recycle_list = <<>>
  /\ p_held' = Append(p_held, <<b, x>>)
  /\ p_entry' = [p_entry EXCEPT ![b] = x + 1]
  /\ p_cur_block' = b
  /\ UNCHANGED <<p_next, p_head_block, p_recycle_list, p_usage>>

LEMMA TakesType ==
  ASSUME PoolInv, NEW b, NEW x, Takes(b, x),
         p_back' \in [P!Blocks -> P!Blocks \cup {NULL}]
  PROVE  /\ PoolType' /\ Len(p_held') = Len(p_held) + 1 /\ Len(p_held) \in Nat
         /\ \A i \in 1 .. Len(p_held) : p_held'[i] = p_held[i]
         /\ p_held'[Len(p_held) + 1] = <<b, x>>
         /\ x + 1 \in 1 .. Entries
<1>0. PoolType /\ b \in P!Blocks /\ x \in 0 .. Entries - 1
  BY DEF Takes, PoolInv
<1>1. <<b, x>> \in Object /\ x + 1 \in 1 .. Entries /\ p_held \in Seq(Object)
  <2>1. p_held \in Seq(Object)
    BY <1>0 DEF PoolType
  <2>2. x + 1 \in 1 .. Entries
    BY <1>0, PConstants
  <2>. QED
    BY <1>0, <2>1, <2>2 DEF Object
<1>2. /\ p_held' \in Seq(Object) /\ Len(p_held') = Len(p_held) + 1 /\ Len(p_held) \in Nat
      /\ \A i \in 1 .. Len(p_held) : p_held'[i] = p_held[i]
      /\ p_held'[Len(p_held) + 1] = <<b, x>>
  BY <1>1, AppendProperties, LenProperties DEF Takes
<1>3. p_entry' \in [P!Blocks -> 0 .. Entries \cup {NULL}]
  <2>1. p_entry' = [p_entry EXCEPT ![b] = x + 1]
    BY DEF Takes
  <2>. QED
    <3>1. p_entry \in [P!Blocks -> 0 .. Entries \cup {NULL}]
      BY <1>0 DEF PoolType
    <3>2. x + 1 \in 0 .. Entries
      BY <1>1, PConstants
    <3>. QED
      BY <2>1, <3>1, <3>2
<1>. QED
  BY <1>1, <1>2, <1>3 DEF Takes, PoolInv, PoolType

(* The object taken is a new one. *)
LEMMA TakesScattered ==
  ASSUME PoolInv, Scattered, NEW b, NEW x, Takes(b, x),
         p_back' \in [P!Blocks -> P!Blocks \cup {NULL}],
         p_entry[b] = x \/ p_entry[b] = NULL
  PROVE  Scattered'
<1>. DEFINE q == p_held
<1>1. /\ Len(q') = Len(q) + 1 /\ Len(q) \in Nat /\ x + 1 \in 1 .. Entries
      /\ \A i \in 1 .. Len(q) : q'[i] = q[i]
      /\ q'[Len(q) + 1] = <<b, x>>
  BY TakesType
<1>2. /\ p_recycle_list = <<>> /\ p_recycle_list' = <<>> /\ b \in P!Blocks
      /\ p_entry' = [p_entry EXCEPT ![b] = x + 1] /\ x \in 0 .. Entries - 1
      /\ p_entry \in [P!Blocks -> 0 .. Entries \cup {NULL}]
  BY DEF Takes, PoolInv, PoolType
<1>3. \A i \in 1 .. Len(q) : IsCut(q[i], p_entry) /\ q[i] # <<b, x>> /\ q[i] \in Object
  <2>1. ~ IsCut(<<b, x>>, p_entry)
    BY <1>2, PConstants DEF IsCut
  <2>2. \A i \in 1 .. Len(q) : IsCut(q[i], p_entry)
    BY DEF Scattered
  <2>3. \A i \in 1 .. Len(q) : q[i] \in Object
    <3>1. q \in Seq(Object)
      BY DEF PoolInv, PoolType
    <3>. QED
      BY <3>1, LenProperties
  <2>. QED
    BY <2>1, <2>2, <2>3
<1>4. \A o \in Object : IsCut(o, p_entry) => IsCut(o, p_entry')
  BY <1>1, <1>2, PConstants DEF IsCut, Object
<1>5. IsCut(<<b, x>>, p_entry')
  BY <1>1, <1>2, PConstants DEF IsCut
<1>6. \A i \in 1 .. Len(q') : IsCut(q'[i], p_entry')
  <2>1. ASSUME NEW i \in 1 .. Len(q') PROVE IsCut(q'[i], p_entry')
    <3>1. CASE i = Len(q) + 1
      <4>1. q'[i] = <<b, x>>
        BY <1>1, <3>1
      <4>. QED
        BY <1>5, <4>1 DEF IsCut
    <3>2. CASE i \in 1 .. Len(q)
      <4>1. q'[i] = q[i] /\ IsCut(q[i], p_entry') /\ q[i] \in Object
        BY <1>1, <1>3, <1>4, <3>2 DEF IsCut
      <4>. QED
        BY <4>1 DEF IsCut
    <3>. QED
      BY <1>1, <3>1, <3>2
  <2>. QED
    BY <2>1
<1>7. Distinct(q)'
  BY <1>1, <1>3 DEF Scattered, Distinct
<1>. HIDE DEF q
<1>8. Len(p_recycle_list') = 0
  BY <1>2, EmptySeq
<1>. QED
  BY <1>6, <1>7, <1>8 DEF Scattered, Distinct, q

LEMMA AllocFromBlockStep == PoolInv /\ P!AllocFromBlock => PoolInv'
<1>. SUFFICES ASSUME PoolInv, P!AllocFromBlock PROVE PoolInv'
  OBVIOUS
<1>. DEFINE b == p_cur_block  x == p_entry[b]  n == Len(p_held)
<1>1. /\ b # NULL /\ p_recycle_list = <<>> /\ x < Entries /\ p_back' = p_back
      /\ p_held' = Append(p_held, <<b, x>>)
      /\ p_entry' = [p_entry EXCEPT ![b] = @ + 1]
      /\ UNCHANGED <<p_next, p_head_block, p_cur_block, p_recycle_list, p_usage>>
  BY DEF P!AllocFromBlock
<1>2. PICK m \in P!Blocks :
         /\ FirstBlocks(p_entry, m) /\ b <= m
         /\ p_usage = "recycles" => Scattered
         /\ p_usage = "rolls back" =>
              \E c \in 1 .. m : \E r \in [1 .. c -> 1 .. m] :
                IsStack(r, c, b, m, p_entry, p_back) /\ Stacked(r, c)
  BY <1>1 DEF PoolInv
<1>3. b \in P!Blocks /\ x # NULL /\ x \in 0 .. Entries - 1
  <2>1. b \in P!Blocks /\ x \in 0 .. Entries \cup {NULL}
    BY <1>1 DEF PoolInv, PoolType
  <2>2. x # NULL
    BY <1>2, <2>1 DEF FirstBlocks
  <2>. QED
    BY <1>1, <2>1, <2>2, PConstants
<1>4. Takes(b, x)
  BY <1>1, <1>3 DEF Takes
<1>5. p_back' \in [P!Blocks -> P!Blocks \cup {NULL}]
  BY <1>1 DEF PoolInv, PoolType
<1>6. /\ PoolType' /\ Len(p_held') = n + 1 /\ n \in Nat
      /\ \A i \in 1 .. n : p_held'[i] = p_held[i]
      /\ p_held'[n + 1] = <<b, x>>
      /\ x + 1 \in 1 .. Entries
  BY <1>4, <1>5, TakesType
<1>7. /\ p_entry'[b] = x + 1
      /\ \A d \in P!Blocks : d # b => p_entry'[d] = p_entry[d]
  BY <1>1, <1>3 DEF PoolInv, PoolType
<1>8. FirstBlocks(p_entry', m)
  <2>1. p_entry'[b] # NULL
    BY <1>6, <1>7, PConstants
  <2>. QED
    BY <1>2, <1>7, <2>1 DEF FirstBlocks
<1>9. p_usage = "recycles" => Scattered'
  BY <1>2, <1>4, <1>5, TakesScattered
<1>10. ASSUME NEW c \in 1 .. m, NEW r \in [1 .. c -> 1 .. m],
              IsStack(r, c, b, m, p_entry, p_back), Stacked(r, c)
       PROVE  IsStack(r, c, b', m, p_entry', p_back') /\ Stacked(r, c)'
  <2>1. IsStack(r, c, b, m, p_entry', p_back')
    <3>1. \A i \in 1 .. c - 1 : r[i] \in P!Blocks /\ r[i] # b
      <4>1. \A i \in 1 .. c - 1 : r[i] \in 1 .. m /\ i # c /\ i \in 1 .. c /\ c \in 1 .. c
        BY <1>10, PConstants
      <4>2. \A i \in 1 .. m : i \in P!Blocks
        BY PConstants
      <4>. QED
        BY <1>10, <4>1, <4>2 DEF IsStack
    <3>2. \A i \in 1 .. c - 1 : p_entry'[r[i]] = Entries
      BY <1>7, <1>10, <3>1 DEF IsStack
    <3>. QED
      BY <1>1, <1>10, <3>2 DEF IsStack
  <2>2. n = (c - 1) * Entries + x
    BY <1>10 DEF Stacked
  <2>3. n + 1 = (c - 1) * Entries + (x + 1)
    <3>1. (c - 1) * Entries \in Int
      BY <1>10, PConstants
    <3>. QED
      BY <1>3, <2>2, <3>1, PConstants
  <2>4. n \div Entries = c - 1 /\ n % Entries = x
    <3>1. c - 1 \in Int
      BY <1>10, PConstants
    <3>2. ((c - 1) * Entries + x) \div Entries = c - 1 /\ ((c - 1) * Entries + x) % Entries = x
      BY <1>3, <3>1, PConstants, Dividing, Zenon
    <3>. QED
      BY <2>2, <3>2
  <2>5. \A i \in 1 .. n + 1 :
          p_held'[i] = <<r[((i - 1) \div Entries) + 1], (i - 1) % Entries>>
    <3>1. ASSUME NEW i \in 1 .. n
          PROVE  p_held'[i] = <<r[((i - 1) \div Entries) + 1], (i - 1) % Entries>>
      BY <1>6, <1>10 DEF Stacked
    <3>2. p_held'[n + 1] = <<r[(((n + 1) - 1) \div Entries) + 1], ((n + 1) - 1) % Entries>>
      <4>1. (n + 1) - 1 = n /\ (c - 1) + 1 = c /\ r[c] = b
        BY <1>6, <1>10 DEF IsStack
      <4>. QED
        BY <1>6, <2>4, <4>1
    <3>3. \A i \in 1 .. n + 1 : i = n + 1 \/ i \in 1 .. n
      BY <1>6
    <3>. QED
      BY <3>1, <3>2, <3>3
  <2>6. Stacked(r, c)'
    BY <1>1, <1>6, <1>7, <2>3, <2>5 DEF Stacked
  <2>. QED
    BY <1>1, <2>1, <2>6
<1>11. p_usage = "rolls back" =>
         \E c \in 1 .. m : \E r \in [1 .. c -> 1 .. m] :
           IsStack(r, c, b', m, p_entry', p_back') /\ Stacked(r, c)'
  BY <1>2, <1>10
<1>. QED
  BY <1>1, <1>2, <1>6, <1>8, <1>9, <1>11 DEF PoolInv

LEMMA AllocFromNextBlockStep == PoolInv /\ P!AllocFromNextBlock => PoolInv'
<1>. SUFFICES ASSUME PoolInv, P!AllocFromNextBlock PROVE PoolInv'
  OBVIOUS
<1>. DEFINE b == p_cur_block  n == Len(p_held)
<1>1. /\ b # NULL /\ p_recycle_list = <<>> /\ p_entry[b] = Entries
      /\ IF p_next[b] # NULL THEN p_cur_block' = p_next[b] /\ UNCHANGED p_back
         ELSE /\ P!BlocksLeft
              /\ p_back' = [p_back EXCEPT ![P!NewBlock] = b]
              /\ p_cur_block' = P!NewBlock
      /\ p_held' = Append(p_held,
           <<p_cur_block', IF p_entry[p_cur_block'] = NULL THEN 0 ELSE p_entry[p_cur_block']>>)
      /\ p_entry' = [p_entry EXCEPT ![p_cur_block'] =
           (IF p_entry[p_cur_block'] = NULL THEN 0 ELSE p_entry[p_cur_block']) + 1]
      /\ UNCHANGED <<p_next, p_head_block, p_recycle_list, p_usage>>
  BY DEF P!AllocFromNextBlock
<1>2. PICK m \in P!Blocks :
         /\ FirstBlocks(p_entry, m) /\ b <= m
         /\ p_usage = "recycles" => Scattered
         /\ p_usage = "rolls back" =>
              \E c \in 1 .. m : \E r \in [1 .. c -> 1 .. m] :
                IsStack(r, c, b, m, p_entry, p_back) /\ Stacked(r, c)
  BY <1>1 DEF PoolInv
<1>. DEFINE a == m + 1
<1>3. b \in P!Blocks /\ p_next[b] = NULL
  BY <1>1 DEF PoolInv, PoolType
<1>4. a \in P!Blocks /\ p_entry[a] = NULL /\ p_cur_block' = a /\ p_back' = [p_back EXCEPT ![a] = b]
  BY <1>1, <1>2, <1>3, NewBlockIsNext
<1>5. Takes(a, 0)
  <2>1. 0 \in 0 .. Entries - 1
    BY PConstants
  <2>. QED
    BY <1>1, <1>4, <2>1 DEF Takes
<1>6. p_back' \in [P!Blocks -> P!Blocks \cup {NULL}]
  BY <1>3, <1>4 DEF PoolInv, PoolType
<1>7. /\ PoolType' /\ Len(p_held') = n + 1 /\ n \in Nat
      /\ \A i \in 1 .. n : p_held'[i] = p_held[i]
      /\ p_held'[n + 1] = <<a, 0>>
  BY <1>5, <1>6, TakesType
<1>8. /\ p_entry'[a] = 1
      /\ \A d \in P!Blocks : d # a => p_entry'[d] = p_entry[d]
      /\ \A d \in P!Blocks : p_back'[d] = IF d = a THEN b ELSE p_back[d]
  <2>1. p_entry' = [p_entry EXCEPT ![a] = 1]
    BY <1>5 DEF Takes
  <2>2. /\ p_entry \in [P!Blocks -> 0 .. Entries \cup {NULL}]
        /\ p_back \in [P!Blocks -> P!Blocks \cup {NULL}]
    BY DEF PoolInv, PoolType
  <2>. QED
    BY <1>4, <2>1, <2>2
<1>9. FirstBlocks(p_entry', a) /\ p_cur_block' <= a /\ p_cur_block' # NULL
  <2>1. a \in Int /\ m \in Int /\ a # NULL /\ p_entry'[a] # NULL
    BY <1>4, <1>8, PConstants
  <2>2. \A d \in P!Blocks : d <= a <=> d <= m \/ d = a
    BY PConstants
  <2>3. FirstBlocks(p_entry', a)
    BY <1>2, <1>8, <2>1, <2>2 DEF FirstBlocks
  <2>. QED
    BY <1>4, <2>1, <2>3
<1>10. p_usage = "recycles" => Scattered'
  BY <1>2, <1>4, <1>5, <1>6, TakesScattered
<1>11. ASSUME NEW c \in 1 .. m, NEW r \in [1 .. c -> 1 .. m],
              IsStack(r, c, b, m, p_entry, p_back), Stacked(r, c)
       PROVE  \E d \in 1 .. a : \E s \in [1 .. d -> 1 .. a] :
                IsStack(s, d, p_cur_block', a, p_entry', p_back') /\ Stacked(s, d)'
  <2>. DEFINE s == [i \in 1 .. c + 1 |-> IF i <= c THEN r[i] ELSE a]
  <2>0. /\ c \in Nat \ {0} /\ m \in Nat \ {0} /\ 1 .. m \subseteq P!Blocks
        /\ \A i \in 1 .. c : r[i] \in 1 .. m /\ r[i] # a
    BY <1>11, PConstants
  <2>1. /\ c + 1 \in 1 .. a /\ s \in [1 .. c + 1 -> 1 .. a]
        /\ s[c + 1] = a /\ \A i \in 1 .. c : s[i] = r[i]
    BY <2>0, <1>11
  <2>. HIDE DEF s
  <2>2. \A i, j \in 1 .. c + 1 : s[i] = s[j] => i = j
    <3>1. \A i \in 1 .. c + 1 : i = c + 1 \/ i \in 1 .. c
      BY <2>0
    <3>. QED
      BY <1>11, <2>0, <2>1, <3>1 DEF IsStack
  <2>3. p_back'[s[1]] = NULL
    BY <1>8, <1>11, <2>0, <2>1 DEF IsStack
  <2>4. ASSUME NEW i \in 2 .. c + 1 PROVE p_back'[s[i]] = s[i - 1]
    <3>1. CASE i = c + 1
      <4>1. i - 1 = c /\ c \in 1 .. c
        BY <2>0, <3>1
      <4>2. s[i] = a /\ s[i - 1] = r[c] /\ r[c] = b
        BY <1>11, <2>1, <3>1, <4>1 DEF IsStack
      <4>. QED
        BY <1>4, <1>8, <4>2
    <3>2. CASE i # c + 1
      <4>1. i \in 2 .. c /\ i \in 1 .. c /\ i - 1 \in 1 .. c
        BY <2>0, <3>2
      <4>2. s[i] = r[i] /\ s[i - 1] = r[i - 1] /\ p_back[r[i]] = r[i - 1]
        BY <1>11, <2>1, <4>1 DEF IsStack
      <4>. QED
        BY <1>8, <2>0, <4>1, <4>2
    <3>. QED
      BY <3>1, <3>2
  <2>5. \A i \in 1 .. c : p_entry'[s[i]] = Entries
    <3>1. \A i \in 1 .. c : p_entry[r[i]] = Entries
      <4>1. \A i \in 1 .. c : i = c \/ i \in 1 .. c - 1
        BY <2>0
      <4>. QED
        BY <1>1, <1>11, <4>1 DEF IsStack
    <3>. QED
      BY <1>8, <2>0, <2>1, <3>1
  <2>6. IsStack(s, c + 1, p_cur_block', a, p_entry', p_back')
    <3>1. (c + 1) - 1 = c
      BY <2>0
    <3>. QED
      BY <1>4, <2>1, <2>2, <2>3, <2>4, <2>5, <3>1 DEF IsStack
  <2>7. n = c * Entries /\ n \div Entries = c /\ n % Entries = 0
    <3>1. n = (c - 1) * Entries + Entries
      BY <1>1, <1>11 DEF Stacked
    <3>2. n = c * Entries + 0 /\ 0 \in 0 .. Entries - 1
      BY <2>0, <3>1, PConstants
    <3>3. (c * Entries + 0) \div Entries = c /\ (c * Entries + 0) % Entries = 0
      <4>1. c \in Int /\ 0 \in 0 .. Entries - 1
        BY <2>0, <3>2
      <4>. QED
        BY <4>1, PConstants, Dividing, Zenon
    <3>4. c * Entries + 0 = c * Entries
      BY <2>0, PConstants
    <3>. QED
      BY <3>2, <3>3, <3>4
  <2>8. ASSUME NEW i \in 1 .. n + 1
        PROVE  p_held'[i] = <<s[((i - 1) \div Entries) + 1], (i - 1) % Entries>>
    <3>1. CASE i = n + 1
      <4>1. i - 1 = n
        BY <1>7, <3>1
      <4>. QED
        BY <1>7, <2>1, <2>7, <3>1, <4>1
    <3>2. CASE i # n + 1
      <4>1. i \in 1 .. n /\ i - 1 \in Nat /\ i - 1 < c * Entries
        BY <1>7, <2>7, <3>2
      <4>2. (i - 1) \div Entries \in 0 .. c - 1
        BY <2>0, <4>1, PConstants, Dividing
      <4>3. ((i - 1) \div Entries) + 1 \in 1 .. c
        BY <2>0, <4>2
      <4>4. p_held[i] = <<r[((i - 1) \div Entries) + 1], (i - 1) % Entries>>
        BY <1>11, <4>1 DEF Stacked
      <4>. QED
        BY <1>7, <2>1, <4>1, <4>3, <4>4
    <3>. QED
      BY <3>1, <3>2
  <2>9. Stacked(s, c + 1)'
    <3>1. n + 1 = (((c + 1) - 1) * Entries) + 1
      BY <2>0, <2>7
    <3>. QED
      BY <1>4, <1>7, <1>8, <2>8, <3>1 DEF Stacked
  <2>. QED
    BY <2>1, <2>6, <2>9
<1>12. p_usage = "rolls back" =>
         \E c \in 1 .. a : \E r \in [1 .. c -> 1 .. a] :
           IsStack(r, c, p_cur_block', a, p_entry', p_back') /\ Stacked(r, c)'
  BY <1>2, <1>11
<1>. QED
  BY <1>1, <1>4, <1>7, <1>9, <1>10, <1>12 DEF PoolInv

(* A state of the loop of synchRollback, after n rounds: it has come down   *)
(* to the d-th block of the stack r, and what is still to be cancelled      *)
(* there leaves target objects.                                             *)
IsRolled(s, r, c, m, target, d, n) ==
  /\ d \in 1 .. c /\ s[2] = r[d] /\ s[1] \in Nat
  /\ s[3] \in [P!Blocks -> 0 .. Entries \cup {NULL}] /\ FirstBlocks(s[3], m)
  /\ \A i \in 1 .. d - 1 : s[3][r[i]] = Entries
  /\ s[3][r[d]] \in 0 .. Entries
  /\ ((d - 1) * Entries) + s[3][r[d]] = target + s[1]
  /\ s[1] = 0 \/ d + n <= c

LEMMA RollbackStepRolls ==
  ASSUME NEW m \in P!Blocks, NEW c \in 1 .. m, NEW r \in [1 .. c -> 1 .. m],
         IsStack(r, c, p_cur_block, m, p_entry, p_back), NEW target \in Nat, NEW n \in Nat,
         NEW s, NEW d, IsRolled(s, r, c, m, target, d, n), s[1] # 0
  PROVE  \E e \in 1 .. c : IsRolled(P!RollbackStep(s), r, c, m, target, e, n + 1)
<1>. DEFINE b == r[d]  x == s[3][b]  t == P!RollbackStep(s)
<1>1. /\ d \in 1 .. c /\ s[2] = b /\ s[1] \in Nat \ {0}
      /\ s[3] \in [P!Blocks -> 0 .. Entries \cup {NULL}] /\ FirstBlocks(s[3], m)
      /\ \A i \in 1 .. d - 1 : s[3][r[i]] = Entries
      /\ x \in 0 .. Entries /\ ((d - 1) * Entries) + x = target + s[1] /\ d + n <= c
  BY DEF IsRolled
<1>2. /\ \A i, j \in 1 .. c : r[i] = r[j] => i = j
      /\ p_back[r[1]] = NULL /\ \A i \in 2 .. c : p_back[r[i]] = r[i - 1]
  BY DEF IsStack
<1>3. /\ c \in Nat \ {0} /\ m \in Nat \ {0} /\ 1 .. m \subseteq P!Blocks /\ b \in P!Blocks
      /\ \A i \in 1 .. c : r[i] \in 1 .. m /\ r[i] \in P!Blocks /\ r[i] # NULL
  <2>1. c \in Nat \ {0} /\ m \in Nat \ {0} /\ 1 .. m \subseteq P!Blocks
    BY PConstants
  <2>2. \A i \in 1 .. c : r[i] \in 1 .. m
    OBVIOUS
  <2>3. NULL \notin P!Blocks
    BY PConstants
  <2>. QED
    BY <1>1, <2>1, <2>2, <2>3
<1>4. /\ \A i \in 1 .. d - 1 : i \in 1 .. c /\ i # d
      /\ \A i \in 1 .. d - 1 : r[i] # b /\ r[i] \in P!Blocks
  <2>1. \A i \in 1 .. d - 1 : i \in 1 .. c /\ i # d
    BY <1>1, <1>3
  <2>. QED
    BY <1>1, <1>2, <1>3, <2>1
<1>5. ASSUME NEW y \in 0 .. Entries
      PROVE  /\ [s[3] EXCEPT ![b] = y] \in [P!Blocks -> 0 .. Entries \cup {NULL}]
             /\ FirstBlocks([s[3] EXCEPT ![b] = y], m)
             /\ [s[3] EXCEPT ![b] = y][b] = y
             /\ \A i \in 1 .. d - 1 : [s[3] EXCEPT ![b] = y][r[i]] = Entries
  <2>1. [s[3] EXCEPT ![b] = y] \in [P!Blocks -> 0 .. Entries \cup {NULL}]
    BY <1>1
  <2>2. /\ [s[3] EXCEPT ![b] = y][b] = y
        /\ \A a \in P!Blocks : a # b => [s[3] EXCEPT ![b] = y][a] = s[3][a]
    BY <1>1, <1>3
  <2>3. y # NULL /\ s[3][b] # NULL
    BY <1>1, PConstants
  <2>4. FirstBlocks([s[3] EXCEPT ![b] = y], m)
    BY <1>1, <1>3, <2>2, <2>3 DEF FirstBlocks
  <2>5. \A i \in 1 .. d - 1 : [s[3] EXCEPT ![b] = y][r[i]] = Entries
    BY <1>1, <1>4, <2>2
  <2>. QED
    BY <2>1, <2>2, <2>4, <2>5
<1>8. /\ x \in Int /\ x >= 0 /\ x <= Entries /\ Entries \in Int
      /\ s[1] \in Int /\ s[1] > 0 /\ (d - 1) * Entries \in Int
      /\ ((d - 1) * Entries) + x = target + s[1] /\ target \in Int
  <2>1. s[1] \in Int /\ s[1] > 0 /\ ((d - 1) * Entries) + x = target + s[1]
    BY <1>1
  <2>5. target \in Int
    OBVIOUS
  <2>2. x \in 0 .. Entries
    BY <1>1
  <2>3. d \in Int
    BY <1>1
  <2>. HIDE DEF x
  <2>4. (d - 1) * Entries \in Int /\ Entries \in Int
    BY <2>3, PConstants
  <2>. QED
    BY <2>1, <2>2, <2>4, <2>5
<1>9. x \in Int /\ s[1] \in Int /\ target \in Int /\ Entries \in Int
  BY <1>8
<1>6. CASE s[1] <= x
  <2>1. t = <<0, b, [s[3] EXCEPT ![b] = x - s[1]]>>
    BY <1>1, <1>6 DEF P!RollbackStep
  <2>4. t[1] = 0 /\ t[2] = b /\ t[3] = [s[3] EXCEPT ![b] = x - s[1]]
    BY <2>1
  <2>. HIDE DEF t, x
  <2>2. x - s[1] \in 0 .. Entries
    BY <1>6, <1>8
  <2>3. ((d - 1) * Entries) + (x - s[1]) = target + 0
    <3>1. PICK below \in Int : below = (d - 1) * Entries
      BY <1>8
    <3>2. below + x = target + s[1]
      BY <1>8, <3>1
    <3>4. PICK less \in Int : less = x - s[1]
      BY <1>9
    <3>5. below + less = target
      BY <1>9, <3>2, <3>4
    <3>3. below + (x - s[1]) = target + 0
      BY <3>4, <3>5
    <3>. QED
      BY <3>1, <3>3
  <2>5. IsRolled(t, r, c, m, target, d, n + 1)
    <3>1. /\ t[3] \in [P!Blocks -> 0 .. Entries \cup {NULL}]
          /\ FirstBlocks(t[3], m) /\ t[3][b] = x - s[1]
          /\ \A i \in 1 .. d - 1 : t[3][r[i]] = Entries
      BY <1>5, <2>2, <2>4
    <3>2. t[1] \in Nat
      BY <2>4
    <3>. QED
      BY <1>1, <2>2, <2>3, <2>4, <3>1, <3>2 DEF IsRolled
  <2>. QED
    BY <1>1, <2>5, Zenon DEF t
<1>7. CASE ~ (s[1] <= x)
  <2>1. d > 1
    <3>1. CASE d = 1
      <4>1. (d - 1) * Entries = 0
        BY <3>1, PConstants
      <4>. QED
        BY <1>1, <1>7, <4>1, PConstants
    <3>. QED
      BY <1>1, <1>3, <3>1
  <2>. DEFINE e == d - 1
  <2>2. /\ e \in 1 .. c /\ d \in 2 .. c /\ e \in 1 .. d - 1 /\ p_back[b] = r[e] /\ r[e] # NULL
        /\ e + (n + 1) <= c
    BY <1>1, <1>2, <1>3, <2>1
  <2>3. t = <<s[1] - x, r[e], [s[3] EXCEPT ![b] = 0]>>
    BY <1>1, <1>7, <2>2 DEF P!RollbackStep
  <2>4. t[1] = s[1] - x /\ t[2] = r[e] /\ t[3] = [s[3] EXCEPT ![b] = 0]
    BY <2>3
  <2>5. s[1] - x \in Nat
    <3>. HIDE DEF x
    <3>. QED
      BY <1>7, <1>8
  <2>6. ((e - 1) * Entries) + Entries = target + (s[1] - x)
    <3>1. ((d - 1) * Entries) = ((e - 1) * Entries) + Entries
      BY <2>2, PConstants
    <3>2. (e - 1) * Entries \in Int
      BY <2>2, PConstants
    <3>. HIDE DEF x, e
    <3>3. PICK below \in Int : below = (e - 1) * Entries
      BY <3>2
    <3>4. (below + Entries) + x = target + s[1]
      BY <1>8, <3>1, <3>3
    <3>5. below + Entries = target + (s[1] - x)
      BY ONLY <1>9, <3>4, below \in Int
    <3>. QED
      BY <3>3, <3>5
  <2>. HIDE DEF t, x, e
  <2>7. /\ t[3] \in [P!Blocks -> 0 .. Entries \cup {NULL}] /\ FirstBlocks(t[3], m)
        /\ \A i \in 1 .. d - 1 : t[3][r[i]] = Entries
    <3>1. 0 \in 0 .. Entries
      BY PConstants
    <3>. QED
      BY <1>5, <2>4, <3>1
  <2>8. \A i \in 1 .. e - 1 : t[3][r[i]] = Entries
    <3>1. \A i \in 1 .. e - 1 : i \in 1 .. d - 1
      BY <1>1, <2>2 DEF e
    <3>. QED
      BY <2>7, <3>1
  <2>9. t[3][r[e]] = Entries /\ Entries \in 0 .. Entries
    BY <2>2, <2>7, PConstants
  <2>10. IsRolled(t, r, c, m, target, e, n + 1)
    BY <2>2, <2>4, <2>5, <2>6, <2>7, <2>8, <2>9 DEF IsRolled
  <2>. QED
    BY <2>2, <2>10, Zenon DEF t
<1>. QED
  BY <1>6, <1>7

(* The equation of the loop, for its first n rounds. *)
IsUnrolled(g, n, k) ==
  g = [i \in 0 .. n |->
         IF i = 0 THEN <<k, p_cur_block, p_entry>>
         ELSE IF g[i - 1][1] = 0 THEN g[i - 1] ELSE P!RollbackStep(g[i - 1])]

CannotUnroll(k) == {n \in Nat : ~ \E g : IsUnrolled(g, n, k)}

LEMMA Unrolling == ASSUME NEW k PROVE \A n \in Nat : \E g : IsUnrolled(g, n, k)
<1>1. \E g : IsUnrolled(g, 0, k)
  <2>. DEFINE g == [i \in 0 .. 0 |-> <<k, p_cur_block, p_entry>>]
  <2>1. \A i \in 0 .. 0 : i = 0
    OBVIOUS
  <2>2. IsUnrolled(g, 0, k)
    BY <2>1 DEF IsUnrolled
  <2>. QED
    BY <2>2
<1>2. ASSUME NEW n \in Nat, NEW f, IsUnrolled(f, n, k)
      PROVE  \E g : IsUnrolled(g, n + 1, k)
  <2>. DEFINE Next1(v) == IF v[1] = 0 THEN v ELSE P!RollbackStep(v)
              g == [i \in 0 .. n + 1 |-> IF i <= n THEN f[i] ELSE Next1(f[n])]
  <2>1. \A i \in 0 .. n : f[i] = IF i = 0 THEN <<k, p_cur_block, p_entry>> ELSE Next1(f[i - 1])
    BY <1>2 DEF IsUnrolled
  <2>. HIDE DEF Next1
  <2>2. \A i \in 0 .. n : g[i] = f[i]
    OBVIOUS
  <2>3. g[n + 1] = Next1(f[n]) /\ n \in 0 .. n /\ (n + 1) - 1 = n /\ n + 1 # 0
    OBVIOUS
  <2>. DEFINE h == [i \in 0 .. n + 1 |->
                      IF i = 0 THEN <<k, p_cur_block, p_entry>> ELSE Next1(g[i - 1])]
  <2>4. ASSUME NEW i \in 0 .. n + 1 PROVE g[i] = h[i]
    <3>1. CASE i = n + 1
      BY <2>2, <2>3, <3>1
    <3>2. CASE i = 0
      BY <2>1, <2>2, <3>2
    <3>3. CASE i # n + 1 /\ i # 0
      <4>1. i \in 0 .. n /\ i - 1 \in 0 .. n
        BY <3>3
      <4>2. g[i] = Next1(f[i - 1]) /\ g[i - 1] = f[i - 1]
        BY <2>1, <2>2, <3>3, <4>1
      <4>. QED
        BY <3>3, <4>2
    <3>. QED
      BY <3>1, <3>2, <3>3
  <2>5. g = h
    BY <2>4
  <2>6. IsUnrolled(g, n + 1, k)
    BY <2>5, Zenon DEF IsUnrolled, Next1, h
  <2>. QED
    BY <2>6
<1>3. CannotUnroll(k) = {}
  <2>. SUFFICES ASSUME CannotUnroll(k) # {} PROVE FALSE
    OBVIOUS
  <2>1. CannotUnroll(k) \subseteq Nat
    BY DEF CannotUnroll
  <2>2. PICK n \in CannotUnroll(k) : \A i \in CannotUnroll(k) : n <= i
    BY ONLY <2>1, LeastNatural, CannotUnroll(k) # {}
  <2>3. n \in Nat /\ ~ \E g : IsUnrolled(g, n, k)
    BY <2>2 DEF CannotUnroll
  <2>4. n # 0
    BY <1>1, <2>3
  <2>5. n - 1 \in Nat /\ (n - 1) + 1 = n /\ ~ (n <= n - 1)
    BY <2>3, <2>4
  <2>6. n - 1 \notin CannotUnroll(k)
    BY <2>2, <2>5
  <2>7. \E f : IsUnrolled(f, n - 1, k)
    BY <2>5, <2>6 DEF CannotUnroll
  <2>. QED
    BY <1>2, <2>3, <2>5, <2>7
<1>. QED
  BY <1>3 DEF CannotUnroll

HasNotRolled(g, r, c, m, target) ==
  {i \in 0 .. MaxBlocks : ~ \E d \in 1 .. c : IsRolled(g[i], r, c, m, target, d, i)}

LEMMA RollbackRolls ==
  ASSUME PoolType, p_cur_block \in P!Blocks,
         NEW m \in P!Blocks, NEW c \in 1 .. m, NEW r \in [1 .. c -> 1 .. m],
         FirstBlocks(p_entry, m), p_cur_block <= m,
         IsStack(r, c, p_cur_block, m, p_entry, p_back), Stacked(r, c),
         NEW k \in 1 .. Len(p_held), NEW g, IsUnrolled(g, MaxBlocks, k)
  PROVE  \E d \in 1 .. c :
           /\ IsRolled(g[MaxBlocks], r, c, m, Len(p_held) - k, d, MaxBlocks)
           /\ g[MaxBlocks][1] = 0
<1>. DEFINE target == Len(p_held) - k
            Bad == HasNotRolled(g, r, c, m, target)
<1>1. /\ c \in Nat \ {0} /\ m \in 1 .. MaxBlocks /\ MaxBlocks \in Nat \ {0}
      /\ c <= MaxBlocks /\ Len(p_held) \in Nat /\ k \in Nat \ {0} /\ target \in Nat
  <2>1. Len(p_held) \in Nat
    BY LenProperties DEF PoolType
  <2>. QED
    BY <2>1, PConstants
<1>. HIDE DEF target, Bad
<1>2. /\ g[0] = <<k, p_cur_block, p_entry>>
      /\ \A i \in 1 .. MaxBlocks :
           g[i] = IF g[i - 1][1] = 0 THEN g[i - 1] ELSE P!RollbackStep(g[i - 1])
  <2>1. \A i \in 0 .. MaxBlocks :
          g[i] = IF i = 0 THEN <<k, p_cur_block, p_entry>>
                 ELSE IF g[i - 1][1] = 0 THEN g[i - 1] ELSE P!RollbackStep(g[i - 1])
    BY DEF IsUnrolled
  <2>2. 0 \in 0 .. MaxBlocks /\ \A i \in 1 .. MaxBlocks : i \in 0 .. MaxBlocks /\ i # 0
    BY <1>1
  <2>. QED
    BY <2>1, <2>2
<1>3. IsRolled(g[0], r, c, m, target, c, 0)
  <2>1. g[0][1] = k /\ g[0][2] = p_cur_block /\ g[0][3] = p_entry /\ r[c] = p_cur_block
    BY <1>2 DEF IsStack
  <2>2. p_entry[p_cur_block] \in 0 .. Entries
    BY PConstants DEF PoolType, FirstBlocks
  <2>3. ((c - 1) * Entries) + p_entry[p_cur_block] = target + k
    <3>1. PICK total \in Int : total = ((c - 1) * Entries) + p_entry[p_cur_block]
      <4>1. (c - 1) * Entries \in Int
        BY <1>1, PConstants
      <4>. QED
        BY <4>1, <2>2
    <3>2. total = Len(p_held)
      BY <3>1 DEF Stacked
    <3>3. total = target + k
      BY <1>1, <3>2 DEF target
    <3>. QED
      BY <3>1, <3>3
  <2>4. /\ p_entry \in [P!Blocks -> 0 .. Entries \cup {NULL}]
        /\ \A i \in 1 .. c - 1 : p_entry[r[i]] = Entries
    BY DEF PoolType, IsStack
  <2>5. c + 0 <= c /\ c \in 1 .. c
    BY <1>1
  <2>. QED
    BY <1>1, <2>1, <2>2, <2>3, <2>4, <2>5 DEF IsRolled
<1>4. ASSUME NEW i \in 1 .. MaxBlocks, NEW d \in 1 .. c,
             IsRolled(g[i - 1], r, c, m, target, d, i - 1)
      PROVE  \E e \in 1 .. c : IsRolled(g[i], r, c, m, target, e, i)
  <2>1. i - 1 \in Nat /\ (i - 1) + 1 = i
    BY <1>1
  <2>2. CASE g[i - 1][1] = 0
    <3>1. g[i] = g[i - 1]
      BY <1>2, <2>2
    <3>2. IsRolled(g[i], r, c, m, target, d, i)
      BY <1>4, <2>2, <3>1 DEF IsRolled
    <3>. QED
      BY <3>2
  <2>3. CASE g[i - 1][1] # 0
    <3>1. g[i] = P!RollbackStep(g[i - 1])
      BY <1>2, <2>3
    <3>2. \E e \in 1 .. c :
            IsRolled(P!RollbackStep(g[i - 1]), r, c, m, target, e, (i - 1) + 1)
      BY <1>1, <1>4, <2>1, <2>3, RollbackStepRolls
    <3>. QED
      BY <2>1, <3>1, <3>2
  <2>. QED
    BY <2>2, <2>3
<1>5. Bad = {}
  <2>. SUFFICES ASSUME Bad # {} PROVE FALSE
    OBVIOUS
  <2>1. Bad \subseteq Nat
    BY <1>1 DEF Bad, HasNotRolled
  <2>2. PICK i \in Bad : \A j \in Bad : i <= j
    BY ONLY <2>1, Bad # {}, LeastNatural
  <2>3. i \in 0 .. MaxBlocks /\ ~ \E d \in 1 .. c : IsRolled(g[i], r, c, m, target, d, i)
    BY <2>2 DEF Bad, HasNotRolled
  <2>4. i # 0
    <3>1. c \in 1 .. c
      BY <1>1
    <3>. QED
      BY <1>3, <2>3, <3>1
  <2>5. i \in 1 .. MaxBlocks /\ i - 1 \in 0 .. MaxBlocks /\ ~ (i <= i - 1)
    BY <1>1, <2>3, <2>4
  <2>6. i - 1 \notin Bad
    BY <2>2, <2>5
  <2>7. \E d \in 1 .. c : IsRolled(g[i - 1], r, c, m, target, d, i - 1)
    BY <2>5, <2>6 DEF Bad, HasNotRolled
  <2>. QED
    BY <1>4, <2>3, <2>5, <2>7
<1>6. PICK d \in 1 .. c : IsRolled(g[MaxBlocks], r, c, m, target, d, MaxBlocks)
  <2>1. MaxBlocks \in 0 .. MaxBlocks
    BY <1>1
  <2>. QED
    BY <1>5, <2>1 DEF Bad, HasNotRolled
<1>7. g[MaxBlocks][1] = 0
  <2>1. ~ (d + MaxBlocks <= c)
    BY <1>1
  <2>. QED
    BY <1>6, <2>1 DEF IsRolled
<1>. QED
  BY <1>6, <1>7 DEF target

LEMMA RollbackPoolStep ==
  ASSUME PoolInv, NEW k \in 1 .. Len(p_held), P!Rollback(k) PROVE PoolInv'
<1>1. PICK g : /\ IsUnrolled(g, MaxBlocks, k)
               /\ p_held' = SubSeq(p_held, 1, Len(p_held) - k)
               /\ p_cur_block' = g[MaxBlocks][2] /\ p_entry' = g[MaxBlocks][3]
  <2>1. \E g : IsUnrolled(g, MaxBlocks, k)
    BY PConstants, Unrolling
  <2>. QED
    BY <2>1, Zenon DEF P!Rollback, IsUnrolled
<1>2. /\ p_usage = "rolls back"
      /\ UNCHANGED <<p_next, p_back, p_head_block, p_recycle_list, p_usage>>
  BY DEF P!Rollback
<1>3. /\ PoolType /\ p_held \in Seq(Object) /\ Len(p_held) \in Nat
      /\ \A i \in 1 .. Len(p_held) : p_held[i] \in Object
  <2>1. PoolType /\ p_held \in Seq(Object)
    BY DEF PoolInv, PoolType
  <2>2. Len(p_held) \in Nat /\ p_held \in [1 .. Len(p_held) -> Object]
    BY <2>1, LenProperties
  <2>. QED
    BY <2>1, <2>2
<1>4. p_cur_block # NULL /\ p_cur_block \in P!Blocks
  <2>1. p_held # <<>>
    <3>1. Len(p_held) # 0
      BY <1>3
    <3>. QED
      BY <3>1, EmptySeq
  <2>. QED
    BY <1>2, <2>1 DEF PoolInv, PoolType
<1>5. PICK m \in P!Blocks :
        /\ FirstBlocks(p_entry, m) /\ p_cur_block <= m
        /\ \E c \in 1 .. m : \E r \in [1 .. c -> 1 .. m] :
             IsStack(r, c, p_cur_block, m, p_entry, p_back) /\ Stacked(r, c)
  BY <1>2, <1>4 DEF PoolInv
<1>14. PICK c \in 1 .. m : \E r \in [1 .. c -> 1 .. m] :
         IsStack(r, c, p_cur_block, m, p_entry, p_back) /\ Stacked(r, c)
  BY <1>5
<1>6. PICK r \in [1 .. c -> 1 .. m] :
        IsStack(r, c, p_cur_block, m, p_entry, p_back) /\ Stacked(r, c)
  BY <1>14
<1>. DEFINE n == Len(p_held) - k
<1>7. PICK d \in 1 .. c :
        /\ IsRolled(g[MaxBlocks], r, c, m, n, d, MaxBlocks) /\ g[MaxBlocks][1] = 0
  BY <1>1, <1>3, <1>4, <1>5, <1>6, RollbackRolls
<1>8. /\ n \in Nat /\ \A i \in 1 .. n : i \in 1 .. Len(p_held)
      /\ m \in 1 .. MaxBlocks /\ c \in 1 .. MaxBlocks /\ d \in 1 .. m
      /\ \A i \in 1 .. d : i \in 1 .. c
  BY <1>3, PConstants
<1>9. /\ p_held' \in Seq(Object) /\ Len(p_held') = n
      /\ \A i \in 1 .. n : p_held'[i] = p_held[i]
  <2>1. /\ SubSeq(p_held, 1, n) \in Seq(Object)
        /\ Len(SubSeq(p_held, 1, n)) = IF 1 <= n THEN n - 1 + 1 ELSE 0
        /\ \A i \in 1 .. n - 1 + 1 : SubSeq(p_held, 1, n)[i] = p_held[1 + i - 1]
    <3>1. n \in Int /\ 1 \in Int /\ \A i \in 1 .. n : p_held[i] \in Object
      BY <1>3, <1>8
    <3>. HIDE DEF n
    <3>. QED
      BY <3>1, SubSeqProperties
  <2>2. p_held' = SubSeq(p_held, 1, n)
    BY <1>1
  <2>3. n \in Nat
    BY <1>8
  <2>. HIDE DEF n
  <2>4. /\ n - 1 + 1 = n /\ \A i \in 1 .. n : 1 + i - 1 = i
        /\ 1 <= n \/ n = 0
    BY <2>3
  <2>. QED
    BY <2>1, <2>2, <2>4
<1>10. /\ p_cur_block' = r[d] /\ p_entry' \in [P!Blocks -> 0 .. Entries \cup {NULL}]
       /\ FirstBlocks(p_entry', m) /\ p_entry'[r[d]] \in 0 .. Entries
       /\ \A i \in 1 .. d - 1 : p_entry'[r[i]] = Entries
       /\ ((d - 1) * Entries) + p_entry'[r[d]] = n + 0
  BY <1>1, <1>7 DEF IsRolled
<1>11. p_cur_block' \in P!Blocks /\ p_cur_block' <= m /\ p_cur_block' # NULL
  <2>1. r[d] \in 1 .. m
    BY <1>6, <1>7, <1>8
  <2>. QED
    BY <1>8, <1>10, <2>1, PConstants
<1>12. PoolType'
  BY <1>2, <1>3, <1>9, <1>10, <1>11 DEF PoolType
<1>13. \E s \in [1 .. d -> 1 .. m] :
         IsStack(s, d, p_cur_block', m, p_entry', p_back') /\ Stacked(s, d)'
  <2>. DEFINE s == [i \in 1 .. d |-> r[i]]
  <2>1. s \in [1 .. d -> 1 .. m] /\ \A i \in 1 .. d : s[i] = r[i] /\ i \in 1 .. c
    BY <1>6, <1>8
  <2>. HIDE DEF s
  <2>2. /\ d \in 1 .. d /\ 1 \in 1 .. d
        /\ \A i \in 2 .. d : i \in 1 .. d /\ i - 1 \in 1 .. d /\ i \in 2 .. c
        /\ \A i \in 1 .. d - 1 : i \in 1 .. d
    BY <1>8
  <2>3. IsStack(s, d, p_cur_block', m, p_entry', p_back')
    <3>1. s[d] = p_cur_block' /\ p_back'[s[1]] = NULL
      BY <1>2, <1>6, <1>10, <2>1, <2>2 DEF IsStack
    <3>2. \A i, j \in 1 .. d : s[i] = s[j] => i = j
      BY <1>6, <2>1 DEF IsStack
    <3>3. \A i \in 2 .. d : p_back'[s[i]] = s[i - 1]
      BY <1>2, <1>6, <2>1, <2>2 DEF IsStack
    <3>4. \A i \in 1 .. d - 1 : p_entry'[s[i]] = Entries
      BY <1>10, <2>1, <2>2
    <3>. QED
      BY <1>8, <2>1, <3>1, <3>2, <3>3, <3>4 DEF IsStack
  <2>4. n = ((d - 1) * Entries) + p_entry'[p_cur_block']
    BY <1>8, <1>10
  <2>5. ASSUME NEW i \in 1 .. n
        PROVE  p_held'[i] = <<s[((i - 1) \div Entries) + 1], (i - 1) % Entries>>
    <3>1. p_held'[i] = <<r[((i - 1) \div Entries) + 1], (i - 1) % Entries>>
      BY <1>6, <1>8, <1>9 DEF Stacked
    <3>2. i - 1 \in Nat /\ d \in Nat /\ i - 1 < d * Entries
      <4>1. i - 1 \in Nat /\ d \in Nat /\ i - 1 < n
        BY <1>8
      <4>2. n <= d * Entries
        <5>1. PICK below \in Int : below = (d - 1) * Entries
          BY <1>8, PConstants
        <5>2. d * Entries = below + Entries
          BY <1>8, <5>1, PConstants
        <5>3. n = below + p_entry'[r[d]]
          BY <1>8, <1>10, <5>1
        <5>. QED
          BY <1>8, <1>10, <5>2, <5>3, PConstants
      <4>3. d * Entries \in Int
        BY <1>8, PConstants
      <4>. QED
        BY <1>8, <4>1, <4>2, <4>3
    <3>3. (i - 1) \div Entries \in 0 .. d - 1
      BY <3>2, PConstants, Dividing
    <3>4. ((i - 1) \div Entries) + 1 \in 1 .. d
      BY <1>8, <3>3
    <3>. QED
      BY <2>1, <3>1, <3>4
  <2>6. Stacked(s, d)'
    BY <1>9, <2>4, <2>5 DEF Stacked
  <2>. QED
    BY <2>1, <2>3, <2>6
<1>. QED
  BY <1>2, <1>8, <1>10, <1>11, <1>12, <1>13 DEF PoolInv

LEMMA DestroyStep == PoolInv /\ P!Destroy => PoolInv'
<1>. SUFFICES ASSUME PoolInv, P!Destroy PROVE PoolInv'
  OBVIOUS
<1>1. /\ p_head_block' = NULL /\ p_cur_block' = NULL /\ p_held' = <<>>
      /\ UNCHANGED <<p_next, p_back, p_recycle_list, p_usage>>
  BY DEF P!Destroy
<1>2. \E X : p_entry' = [b \in P!Blocks |-> IF b \in X THEN NULL ELSE p_entry[b]]
  <2>1. \E f : p_entry' = [b \in P!Blocks |->
                             IF \E i \in 0 .. MaxBlocks : f[i] = b THEN NULL ELSE p_entry[b]]
    BY Zenon DEF P!Destroy
  <2>2. PICK f : p_entry' = [b \in P!Blocks |->
                             IF \E i \in 0 .. MaxBlocks : f[i] = b THEN NULL ELSE p_entry[b]]
    BY <2>1
  <2>. DEFINE X == {b \in P!Blocks : \E i \in 0 .. MaxBlocks : f[i] = b}
  <2>3. \A b \in P!Blocks : b \in X <=> \E i \in 0 .. MaxBlocks : f[i] = b
    OBVIOUS
  <2>. HIDE DEF X
  <2>4. p_entry' = [b \in P!Blocks |-> IF b \in X THEN NULL ELSE p_entry[b]]
    BY <2>2, <2>3
  <2>. QED
    BY <2>4
<1>3. p_entry' \in [P!Blocks -> 0 .. Entries \cup {NULL}]
  BY <1>2 DEF PoolInv, PoolType
<1>4. p_held' \in Seq(Object)
  BY <1>1, EmptySeq
<1>5. PoolType'
  BY <1>1, <1>3, <1>4 DEF PoolInv, PoolType
<1>. QED
  BY <1>1, <1>5 DEF PoolInv

LEMMA PoolInductive == PoolInv /\ [P!Next]_p_vars => PoolInv'
<1>1. ASSUME PoolInv, UNCHANGED p_vars PROVE PoolInv'
  <2>1. /\ p_entry' = p_entry /\ p_back' = p_back /\ p_cur_block' = p_cur_block
        /\ p_recycle_list' = p_recycle_list /\ p_held' = p_held /\ p_usage' = p_usage
    BY <1>1 DEF p_vars
  <2>2. PoolType'
    BY <1>1 DEF p_vars, PoolInv, PoolType
  <2>3. Scattered => Scattered'
    BY <2>1 DEF Scattered
  <2>4. \A r, c : Stacked(r, c) => Stacked(r, c)'
    BY <2>1 DEF Stacked
  <2>. QED
    BY <1>1, <2>1, <2>2, <2>3, <2>4 DEF PoolInv
<1>. QED
  BY <1>1, AllocRecycledStep, AllocFromBlockStep, AllocFromNextBlockStep, RecycleStep,
     RollbackPoolStep, DestroyStep
     DEF P!Next, P!Use, P!Alloc

(* The objects of a sequence without repetitions are as many as its length. *)
LEMMA DistinctCount ==
  ASSUME NEW X, NEW q \in Seq(X), Distinct(q)
  PROVE  Cardinality({q[i] : i \in 1 .. Len(q)}) = Len(q)
<1>. DEFINE Members == {q[i] : i \in 1 .. Len(q)}
<1>1. Len(q) \in Nat /\ q \in [1 .. Len(q) -> Members]
  BY LenProperties
<1>2. q \in Bijection(1 .. Len(q), Members)
  BY <1>1 DEF Bijection, Injection, Surjection, IsInjective, Distinct
<1>3. IsFiniteSet(1 .. Len(q)) /\ Cardinality(1 .. Len(q)) = Len(q)
  BY <1>1, FS_Interval
<1>. HIDE DEF Members
<1>4. Cardinality(Members) = Cardinality(1 .. Len(q))
  BY <1>2, <1>3, FS_Bijection DEF ExistsBijection
<1>. QED
  BY <1>3, <1>4 DEF Members

LEMMA StackedDistinct ==
  ASSUME PoolType, NEW m \in P!Blocks, NEW c \in 1 .. m, NEW r \in [1 .. c -> 1 .. m],
         p_cur_block \in P!Blocks, FirstBlocks(p_entry, m), p_cur_block <= m,
         IsStack(r, c, p_cur_block, m, p_entry, p_back), Stacked(r, c)
  PROVE  Distinct(p_held)
<1>. DEFINE n == Len(p_held)  Block(i) == ((i - 1) \div Entries) + 1
<1>1. n \in Nat /\ c \in Nat \ {0} /\ n <= c * Entries /\ c * Entries \in Int
  <2>1. n \in Nat /\ c \in Nat \ {0}
    <3>1. p_held \in Seq(Object)
      BY DEF PoolType
    <3>2. c \in Nat \ {0}
      BY PConstants
    <3>. QED
      BY <3>1, <3>2, LenProperties
  <2>2. PICK below \in Int : below = (c - 1) * Entries
    BY <2>1, PConstants
  <2>3. c * Entries = below + Entries /\ c * Entries \in Int
    BY <2>1, <2>2, PConstants
  <2>4. n = below + p_entry[p_cur_block]
    BY <2>2 DEF Stacked
  <2>5. p_entry[p_cur_block] \in 0 .. Entries
    BY PConstants DEF PoolType, FirstBlocks
  <2>. QED
    BY <2>1, <2>3, <2>4, <2>5, PConstants
<1>2. \A i \in 1 .. n : p_held[i] = <<r[Block(i)], (i - 1) % Entries>> /\ Block(i) \in 1 .. c
  <2>1. ASSUME NEW i \in 1 .. n PROVE (i - 1) \div Entries \in 0 .. c - 1
    <3>1. i - 1 \in Nat /\ c \in Nat /\ i - 1 < c * Entries
      BY <1>1
    <3>. QED
      BY <3>1, PConstants, Dividing
  <2>2. \A i \in 1 .. n : Block(i) \in 1 .. c
    BY <1>1, <2>1
  <2>. QED
    BY <2>2 DEF Stacked
<1>3. ASSUME NEW i \in 1 .. n, NEW j \in 1 .. n, p_held[i] = p_held[j] PROVE i = j
  <2>1. r[Block(i)] = r[Block(j)] /\ (i - 1) % Entries = (j - 1) % Entries
    BY <1>2, <1>3
  <2>2. Block(i) = Block(j)
    BY <1>2, <2>1 DEF IsStack
  <2>3. \A y \in Int : y \div Entries \in Int /\ y = ((y \div Entries) * Entries) + (y % Entries)
    BY PConstants, Dividing
  <2>4. i - 1 \in Int /\ j - 1 \in Int
    BY <1>1
  <2>5. (i - 1) \div Entries = (j - 1) \div Entries
    BY <2>2, <2>3, <2>4
  <2>6. i - 1 = j - 1
    BY <2>1, <2>3, <2>4, <2>5
  <2>. QED
    BY <1>1, <2>6
<1>. QED
  BY <1>3 DEF Distinct

LEMMA PoolIsSafe == PoolInv => P!TypeOK /\ P!NoObjectTwice
<1>. SUFFICES ASSUME PoolInv PROVE P!TypeOK /\ P!NoObjectTwice
  OBVIOUS
<1>1. P!TypeOK
  BY DEF PoolInv, PoolType, P!TypeOK
<1>. DEFINE all == p_held \o p_recycle_list
<1>2. ASSUME p_cur_block # NULL PROVE Distinct(all)
  <2>1. /\ p_held \in Seq(Object) /\ p_recycle_list \in Seq(Object) /\ PoolType
        /\ p_usage \in {"recycles", "rolls back"}
    BY DEF PoolInv, PoolType
  <2>2. /\ Len(p_held) \in Nat /\ Len(p_recycle_list) \in Nat
        /\ Len(all) = Len(p_held) + Len(p_recycle_list)
        /\ \A i \in 1 .. Len(p_held) + Len(p_recycle_list) :
             all[i] = IF i <= Len(p_held) THEN p_held[i] ELSE p_recycle_list[i - Len(p_held)]
    BY <2>1, LenProperties, ConcatProperties
  <2>3. CASE p_usage = "recycles"
    <3>1. Scattered
      BY <1>2, <2>3 DEF PoolInv
    <3>. HIDE DEF all
    <3>2. ASSUME NEW i \in 1 .. Len(all), NEW j \in 1 .. Len(all), all[i] = all[j]
          PROVE  i = j
      <4>1. \A h \in 1 .. Len(all) :
              \/ h \in 1 .. Len(p_held) /\ all[h] = p_held[h]
              \/ /\ h - Len(p_held) \in 1 .. Len(p_recycle_list)
                 /\ all[h] = p_recycle_list[h - Len(p_held)]
        BY <2>2
      <4>2. CASE i \in 1 .. Len(p_held) /\ all[i] = p_held[i]
        BY <3>1, <3>2, <4>1, <4>2 DEF Scattered, Distinct
      <4>3. CASE /\ i - Len(p_held) \in 1 .. Len(p_recycle_list)
                 /\ all[i] = p_recycle_list[i - Len(p_held)]
        <5>1. /\ j - Len(p_held) \in 1 .. Len(p_recycle_list)
              /\ all[j] = p_recycle_list[j - Len(p_held)]
          BY <3>1, <3>2, <4>1, <4>3 DEF Scattered
        <5>2. i - Len(p_held) = j - Len(p_held)
          BY <3>1, <3>2, <4>3, <5>1 DEF Scattered, Distinct
        <5>. QED
          BY <2>2, <5>2
      <4>. QED
        BY <4>1, <4>2, <4>3
    <3>. QED
      BY <3>2 DEF Distinct
  <2>4. CASE p_usage = "rolls back"
    <3>1. p_recycle_list = <<>> /\ p_cur_block \in P!Blocks
      BY <1>2, <2>4 DEF PoolInv, PoolType
    <3>2. PICK m \in P!Blocks :
            /\ FirstBlocks(p_entry, m) /\ p_cur_block <= m
            /\ \E c \in 1 .. m : \E r \in [1 .. c -> 1 .. m] :
                 IsStack(r, c, p_cur_block, m, p_entry, p_back) /\ Stacked(r, c)
      BY <1>2, <2>4 DEF PoolInv
    <3>3. Distinct(p_held)
      BY <2>1, <3>1, <3>2, StackedDistinct
    <3>4. all = p_held
      BY <2>1, <3>1, ConcatEmptySeq
    <3>. QED
      BY <3>3, <3>4
  <2>. QED
    BY <2>1, <2>3, <2>4
<1>3. ASSUME p_cur_block # NULL
      PROVE  P!Cardinality({all[i] : i \in 1 .. Len(all)}) = Len(all)
  <2>1. all \in Seq(Object)
    BY ConcatProperties DEF PoolInv, PoolType
  <2>2. Cardinality({all[i] : i \in 1 .. Len(all)}) = Len(all)
    <3>. HIDE DEF all
    <3>. QED
      BY <1>2, <1>3, <2>1, DistinctCount
  <2>. QED
    BY <2>2 DEF P!Cardinality, Cardinality
<1>4. P!NoObjectTwice
  BY <1>3 DEF P!NoObjectTwice
<1>. QED
  BY <1>1, <1>4

-----------------------------------------------------------------------------
(*                       The placement of threads                           *)

LEMMA LConstants == /\ MaxThreads \in Nat \ {0} /\ NULL \notin Nat
                    /\ L!Pids = 0 .. MaxThreads - 1
BY MCAssumption DEF L!ConstantsAssumption, L!Pids

(* Two numbers with the same quotient and remainder are the same.           *)
LEMMA DivMod ==
  ASSUME NEW n \in Nat \ {0}
  PROVE  \A x, y \in Nat : x \div n = y \div n /\ x % n = y % n => x = y
<1>1. \A x \in Int : x \div n \in Int /\ x % n \in Int /\ x = ((x \div n) * n) + (x % n)
  BY Dividing
<1>. QED
  BY <1>1

(* What the sizes of a machine are: k nodes of z CPUs. With SMT z = 2 * h,  *)
(* and CPUs c and c + k * h are siblings; a machine with one node, which    *)
(* the library takes for one with SMT, may have one CPU more.               *)
IsMachine(k, z, h) ==
  /\ k \in Nat \ {0} /\ z \in Nat \ {0} /\ h \in Nat
  /\ L!nodes = k /\ L!node_size = z /\ L!ncpus = k * z /\ L!half_node_size = h
  /\ l_machine.smt \/ k = 1 => h > 0 /\ L!ncpus \div 2 = k * h
  /\ l_machine.smt => z = 2 * h
  /\ k = 1 => z = 2 * h \/ (z = (2 * h) + 1 /\ L!ncpus % 2 = 1)

LEMMA MachineSizes ==
  ASSUME l_machine \in Machines
  PROVE  \E k, z, h \in Nat : IsMachine(k, z, h)
<1>. DEFINE c == L!ncpus  k == L!nodes  z == L!node_size  h == L!half_node_size
<1>1. /\ k \in Nat \ {0} /\ c \in Nat \ {0} /\ c % k = 0 /\ c > 1
      /\ l_machine.smt => c % (2 * k) = 0
  BY MCAssumption DEF L!ConstantsAssumption, L!ncpus, L!nodes
<1>2. z = c \div k /\ h = z \div 2
  BY DEF L!node_size, L!half_node_size
<1>. HIDE DEF c, k, z, h
<1>3. z \in Nat \ {0} /\ c = k * z
  <2>1. \A x \in Nat \ {0}, y \in Nat \ {0} : x % y = 0 => x \div y \in Nat \ {0} /\ x = y * (x \div y)
    BY SMT
  <2>. QED
    BY <1>1, <1>2, <2>1
<1>4. h \in Nat
  BY <1>2, <1>3
<1>5. ASSUME l_machine.smt PROVE z = 2 * h /\ h > 0 /\ c \div 2 = k * h
  <2>1. PICK e \in Nat \ {0} : c = (2 * k) * e
    <3>1. \A x \in Nat \ {0}, y \in Nat \ {0} : x % y = 0 => x \div y \in Nat \ {0} /\ x = y * (x \div y)
      BY SMT
    <3>2. 2 * k \in Nat \ {0}
      BY <1>1
    <3>3. c % (2 * k) = 0 /\ c \in Nat \ {0}
      BY <1>1, <1>5
    <3>4. c \div (2 * k) \in Nat \ {0} /\ c = (2 * k) * (c \div (2 * k))
      BY ONLY <3>1, <3>2, <3>3
    <3>. QED
      BY ONLY <3>4
  <2>2. z = 2 * e
    <3>1. \A x, y, w \in Nat \ {0} : x * y = (2 * x) * w => y = 2 * w
      BY SMT
    <3>. QED
      BY <1>1, <1>3, <2>1, <3>1
  <2>3. h = e
    BY <1>2, <2>2
  <2>4. c \div 2 = k * e
    <3>1. c = 2 * (k * e) /\ k * e \in Nat
      BY <1>1, <2>1
    <3>. QED
      BY <3>1
  <2>. QED
    BY <2>2, <2>3, <2>4
<1>6. ASSUME k = 1
      PROVE  /\ z = 2 * h \/ (z = (2 * h) + 1 /\ c % 2 = 1)
             /\ h > 0 /\ c \div 2 = k * h
  <2>1. z = c /\ c > 1
    BY <1>1, <1>3, <1>6
  <2>. QED
    BY <1>2, <1>3, <1>6, <2>1
<1>7. IsMachine(k, z, h)
  BY <1>1, <1>3, <1>4, <1>5, <1>6 DEF IsMachine, c, k, z, h
<1>. QED
  BY <1>3, <1>4, <1>7, <1>1

(* "SMT or HyperThreading detected": also on a machine with one node.       *)
LEMMA Detected ==
  ASSUME NEW k, NEW z, NEW h, IsMachine(k, z, h)
  PROVE  /\ L!SmtDetected <=> l_machine.smt \/ k = 1
         /\ \A c \in 0 .. L!ncpus - 1 :
              \/ L!LeftOver(c)
              \/ /\ L!NodeOfCore(c) = L!numa_node_of_cpu(c)
                 /\ L!NodeOfCore(c) \in 0 .. k - 1
<1>1. /\ k \in Nat \ {0} /\ z \in Nat \ {0} /\ h \in Nat
      /\ L!nodes = k /\ L!node_size = z /\ L!ncpus = k * z /\ L!half_node_size = h
      /\ l_machine.smt \/ k = 1 => h > 0 /\ L!ncpus \div 2 = k * h
      /\ l_machine.smt => z = 2 * h
      /\ k = 1 => z = 2 * h \/ (z = (2 * h) + 1 /\ L!ncpus % 2 = 1)
  BY DEF IsMachine
<1>2. CASE l_machine.smt
  <2>1. h \in Nat \ {0} /\ k * h \in Nat \ {0} /\ k * z = (k * h) + (k * h)
    BY <1>1, <1>2
  <2>2. \A c : L!numa_node_of_cpu(c) = (c % (k * h)) \div h
    BY <1>1, <1>2 DEF L!numa_node_of_cpu
  <2>3. L!numa_node_of_cpu(0) = 0 /\ L!numa_node_of_cpu(k * h) = 0
    <3>1. \A y \in Nat \ {0} : 0 % y = 0 /\ y % y = 0 /\ 0 \div y = 0
      BY SMT
    <3>. QED
      BY <2>1, <2>2, <3>1
  <2>4. L!SmtDetected
    BY <1>1, <1>2, <2>3 DEF L!SmtDetected
  <2>5. ASSUME NEW c \in 0 .. (k * h) - 1
        PROVE  /\ L!NodeOfCore(c) = c \div h /\ L!numa_node_of_cpu(c) = c \div h
               /\ c \div h \in 0 .. k - 1
    <3>1. c % (k * h) = c
      <4>1. \A y \in Nat \ {0} : \A x \in 0 .. y - 1 : x % y = x
        BY SMT
      <4>. QED
        BY <2>1, <4>1
    <3>2. L!NodeOfCore(c) = c \div h
      BY <1>1, <1>2, <2>1, <2>4 DEF L!NodeOfCore
    <3>3. c \div h \in 0 .. k - 1
      <4>1. c \in Nat /\ c < k * h /\ k \in Nat
        BY <1>1, <2>1
      <4>. QED
        BY <2>1, <4>1, Dividing
    <3>. QED
      BY <2>2, <3>1, <3>2, <3>3
  <2>6. ASSUME NEW c \in k * h .. (k * z) - 1
        PROVE  /\ L!NodeOfCore(c) = (c - (k * h)) \div h /\ L!numa_node_of_cpu(c) = (c - (k * h)) \div h
               /\ (c - (k * h)) \div h \in 0 .. k - 1
    <3>1. c % (k * h) = c - (k * h)
      <4>1. \A y \in Nat \ {0} : \A x \in y .. (y + y) - 1 : x % y = x - y
        BY SMT
      <4>. QED
        BY <2>1, <4>1
    <3>2. L!NodeOfCore(c) = (c - (k * h)) \div h
      BY <1>1, <1>2, <2>1, <2>4 DEF L!NodeOfCore
    <3>3. (c - (k * h)) \div h \in 0 .. k - 1
      <4>1. c - (k * h) \in Nat /\ c - (k * h) < k * h /\ k \in Nat
        BY <1>1, <2>1
      <4>. QED
        BY <2>1, <4>1, Dividing
    <3>. QED
      BY <2>2, <3>1, <3>2, <3>3
  <2>7. \A c \in 0 .. L!ncpus - 1 : c \in 0 .. (k * h) - 1 \/ c \in k * h .. (k * z) - 1
    BY <1>1, <2>1
  <2>. QED
    BY <1>2, <2>4, <2>5, <2>6, <2>7
<1>3. CASE ~ l_machine.smt /\ k = 1
  <2>1. h \in Nat \ {0} /\ k * z = z /\ L!ncpus = z /\ L!ncpus \div 2 = h
        /\ (z = h + h \/ (z = (h + h) + 1 /\ L!ncpus % 2 = 1))
    BY <1>1, <1>3
  <2>2. ASSUME NEW c \in 0 .. z - 1 PROVE c \div z = 0
    BY <2>1
  <2>3. \A c : L!numa_node_of_cpu(c) = c \div z
    BY <1>1, <1>3 DEF L!numa_node_of_cpu
  <2>4. 0 \in 0 .. z - 1 /\ h \in 0 .. z - 1
    BY <2>1
  <2>5. L!SmtDetected
    BY <1>1, <2>1, <2>2, <2>3, <2>4 DEF L!SmtDetected
  <2>6. ASSUME NEW c \in 0 .. z - 1, ~ L!LeftOver(c)
        PROVE  L!NodeOfCore(c) = 0
    <3>0. c < h + h
      BY <1>1, <1>3, <2>1, <2>6 DEF L!LeftOver
    <3>1. c < h => c \div h = 0
      BY <2>1
    <3>2. ~ (c < h) => (c - h) \div h = 0
      BY <2>1, <3>0
    <3>. QED
      BY <1>1, <2>1, <2>5, <3>1, <3>2 DEF L!NodeOfCore
  <2>. QED
    BY <1>3, <2>1, <2>2, <2>3, <2>5, <2>6
<1>4. CASE ~ l_machine.smt /\ k # 1
  <2>1. \A c : L!numa_node_of_cpu(c) = c \div z
    BY <1>1, <1>4 DEF L!numa_node_of_cpu
  <2>2. (k * z) \div 2 \in Nat /\ (k * z) \div 2 >= z
    <3>1. k * z >= 2 * z /\ k * z \in Nat
      BY <1>1, <1>4
    <3>. QED
      BY <1>1, <3>1
  <2>3. 0 \div z = 0 /\ ((k * z) \div 2) \div z >= 1
    <3>1. \A x \in Nat : x >= z => x \div z >= 1
      BY <1>1
    <3>. QED
      BY <1>1, <2>2, <3>1
  <2>4. ~ L!SmtDetected
    BY <1>1, <2>1, <2>3 DEF L!SmtDetected
  <2>5. \A c \in 0 .. L!ncpus - 1 : c \div z \in 0 .. k - 1
    <3>1. \A c \in 0 .. L!ncpus - 1 : c \in Nat /\ k \in Nat /\ c < k * z
      BY <1>1
    <3>. QED
      BY <1>1, <3>1, Dividing
  <2>. QED
    BY <1>1, <1>4, <2>1, <2>4, <2>5 DEF L!NodeOfCore
<1>. QED
  BY <1>2, <1>3, <1>4

(* Threads dealt out to k nodes in turn, with w CPUs on each.               *)
Dealt(t, k, w) == ((t % k) * w) + (t \div k)

LEMMA Dealing ==
  ASSUME NEW k \in Nat \ {0}, NEW w \in Nat \ {0}
  PROVE  /\ \A t \in 0 .. (k * w) - 1 : Dealt(t, k, w) \in 0 .. (k * w) - 1
         /\ \A t, u \in 0 .. (k * w) - 1 : Dealt(t, k, w) = Dealt(u, k, w) => t = u
<1>1. ASSUME NEW t \in 0 .. (k * w) - 1
      PROVE  /\ t \in Nat /\ t % k \in 0 .. k - 1 /\ t \div k \in 0 .. w - 1
             /\ Dealt(t, k, w) \in 0 .. (k * w) - 1
             /\ Dealt(t, k, w) \div w = t % k /\ Dealt(t, k, w) % w = t \div k
  <2>1. k * w \in Nat \ {0} /\ k * w = w * k
    OBVIOUS
  <2>2. t \in Nat /\ t \in Int /\ t < w * k
    BY <2>1
  <2>3. t % k \in 0 .. k - 1 /\ t \div k \in 0 .. w - 1
    BY <2>2, Dividing
  <2>4. PICK q \in 0 .. k - 1 : q = t % k
    BY <2>3
  <2>5. PICK x \in 0 .. w - 1 : x = t \div k
    BY <2>3
  <2>6. Dealt(t, k, w) = (q * w) + x
    BY <2>4, <2>5 DEF Dealt
  <2>7. ((q * w) + x) \div w = q /\ ((q * w) + x) % w = x
    <3>1. q \in Int
      OBVIOUS
    <3>. QED
      BY <3>1, Dividing, Zenon
  <2>8. (q * w) + x \in 0 .. (k * w) - 1
    <3>1. q * w <= (k - 1) * w /\ q * w \in Nat
      OBVIOUS
    <3>2. (k - 1) * w = (k * w) - w
      OBVIOUS
    <3>. QED
      BY <2>1, <3>1, <3>2
  <2>. QED
    BY <2>2, <2>3, <2>4, <2>5, <2>6, <2>7, <2>8
<1>2. ASSUME NEW t \in 0 .. (k * w) - 1, NEW u \in 0 .. (k * w) - 1,
             Dealt(t, k, w) = Dealt(u, k, w)
      PROVE  t = u
  <2>1. t % k = u % k /\ t \div k = u \div k /\ t \in Nat /\ u \in Nat
    BY <1>1, <1>2
  <2>. QED
    BY <2>1, DivMod
<1>. QED
  BY <1>1, <1>2

Core(t) == L!synchPreferredCoreOfThread(t)

(* synchPreferredCoreOfThread names a CPU, and under every policy but       *)
(* the default one with SMT a different one for each thread.                *)
LEMMA CoresAreCPUs ==
  ASSUME NEW k, NEW z, NEW h, IsMachine(k, z, h), l_schedule_policy \in 1 .. 5
  PROVE  /\ \A t \in 0 .. L!ncpus - 1 : Core(t) \in 0 .. L!ncpus - 1
         /\ ~ L!SiblingsFirst =>
              \A t, u \in 0 .. L!ncpus - 1 : Core(t) = Core(u) => t = u
<1>. DEFINE c == L!ncpus
<1>1. /\ k \in Nat \ {0} /\ z \in Nat \ {0} /\ h \in Nat
      /\ L!nodes = k /\ L!node_size = z /\ c = k * z /\ L!half_node_size = h
      /\ l_machine.smt \/ k = 1 => h > 0 /\ c \div 2 = k * h
      /\ l_machine.smt => z = 2 * h
      /\ k = 1 => z = 2 * h \/ z = (2 * h) + 1
  BY DEF IsMachine
<1>2. L!SmtDetected => /\ h \in Nat \ {0} /\ c \div 2 = k * h
                       /\ k = 1 \/ (z = 2 * h /\ c = (k * h) + (k * h))
  <2>1. L!SmtDetected <=> l_machine.smt \/ k = 1
    BY Detected
  <2>. QED
    BY <1>1, <2>1
<1>3. c \in Nat \ {0}
  BY <1>1
<1>4. \A x \in 0 .. c - 1 : x % c = x
  <2>1. \A y \in Nat \ {0} : \A x \in 0 .. y - 1 : x % y = x
    BY SMT
  <2>. QED
    BY <1>3, <2>1
<1>5. \A x \in Int : x % c \in 0 .. c - 1
  BY <1>3, Dividing
<1>. HIDE DEF c
<1>. DEFINE Plain == l_schedule_policy \in {1, 3}
            Half == l_schedule_policy = 2 /\ L!SmtDetected
            Pairs == l_schedule_policy = 4 /\ L!SmtDetected
<1>6. /\ Plain => \A t : Core(t) = t % c
      /\ Half => \A t : Core(t) = L!Sparse(t) % c
      /\ Pairs => \A t : Core(t) = L!SparseSMTPrefer(t) % c
      /\ ~ Plain /\ ~ Half /\ ~ Pairs => \A t : Core(t) = L!RoundRobin(t) % c
  BY DEF Core, L!synchPreferredCoreOfThread, L!FLAT, L!NUMA_DENSE, L!NUMA_SPARSE,
         L!NUMA_SPARSE_SMT_PREFER, c
<1>7. CASE Plain
  <2>1. \A t \in 0 .. c - 1 : Core(t) = t
    BY <1>4, <1>6, <1>7
  <2>. QED
    BY <2>1 DEF c
<1>8. CASE Half /\ k = 1
  <2>1. h \in Nat \ {0} /\ k = 1 /\ c \div 2 = h
    BY <1>1, <1>2, <1>8
  <2>2. ASSUME NEW x \in Int PROVE L!SparseHalf(x) = x
    <3>1. x % 1 = 0 /\ x \div 1 = x
      OBVIOUS
    <3>. QED
      BY <1>1, <2>1, <3>1 DEF L!SparseHalf
  <2>3. ASSUME NEW t \in 0 .. c - 1 PROVE L!Sparse(t) = t
    <3>1. t \in Int /\ t - h \in Int /\ (t - h) + h = t
      BY <1>3, <2>1
    <3>2. L!Sparse(t) = IF t >= h THEN L!SparseHalf(t - h) + h ELSE L!SparseHalf(t)
      BY <2>1 DEF L!Sparse, c
    <3>. QED
      BY <2>2, <3>1, <3>2
  <2>4. \A t \in 0 .. c - 1 : Core(t) = t
    BY <1>4, <1>6, <1>8, <2>3
  <2>. QED
    BY <2>4 DEF c
<1>9. CASE Half /\ k # 1
  <2>1. /\ h \in Nat \ {0} /\ c \div 2 = k * h /\ c = (k * h) + (k * h) /\ k * h \in Nat
    BY <1>1, <1>2, <1>9
  <2>2. \A t \in Int :
               /\ t < k * h => L!Sparse(t) = Dealt(t, k, h)
               /\ t >= k * h => L!Sparse(t) = Dealt(t - (k * h), k, h) + (k * h)
    <3>1. \A t : L!SparseHalf(t) = Dealt(t, k, h)
      BY <1>1 DEF L!SparseHalf, Dealt
    <3>2. \A t : L!Sparse(t) = IF t >= k * h THEN L!SparseHalf(t - (k * h)) + (k * h)
                               ELSE L!SparseHalf(t)
      BY <2>1 DEF L!Sparse, c
    <3>. QED
      BY <2>1, <3>1, <3>2
  <2>3. /\ \A t \in 0 .. (k * h) - 1 : Dealt(t, k, h) \in 0 .. (k * h) - 1
        /\ \A t, u \in 0 .. (k * h) - 1 : Dealt(t, k, h) = Dealt(u, k, h) => t = u
    BY <1>1, <2>1, Dealing
  <2>4. ASSUME NEW t \in 0 .. c - 1
        PROVE  \/ /\ t \in 0 .. (k * h) - 1 /\ L!Sparse(t) = Dealt(t, k, h)
                  /\ L!Sparse(t) \in 0 .. (k * h) - 1
               \/ /\ t - (k * h) \in 0 .. (k * h) - 1
                  /\ L!Sparse(t) = Dealt(t - (k * h), k, h) + (k * h)
                  /\ L!Sparse(t) \in k * h .. c - 1
    <3>1. CASE t < k * h
      <4>1. t \in 0 .. (k * h) - 1
        BY <2>1, <3>1
      <4>. QED
        BY <2>2, <2>3, <3>1, <4>1
    <3>2. CASE t >= k * h
      <4>1. t - (k * h) \in 0 .. (k * h) - 1
        BY <2>1, <3>2
      <4>2. Dealt(t - (k * h), k, h) \in 0 .. (k * h) - 1
        BY <2>3, <4>1
      <4>. QED
        BY <2>1, <2>2, <3>2, <4>1, <4>2
    <3>. QED
      BY <2>1, <3>1, <3>2
  <2>5. \A t \in 0 .. c - 1 : L!Sparse(t) \in 0 .. c - 1
    BY <2>1, <2>4
  <2>6. \A t \in 0 .. c - 1 : Core(t) = L!Sparse(t)
    BY <1>4, <1>6, <1>9, <2>5
  <2>7. ASSUME NEW t \in 0 .. c - 1, NEW u \in 0 .. c - 1, L!Sparse(t) = L!Sparse(u)
        PROVE  t = u
    <3>1. CASE t \in 0 .. (k * h) - 1 /\ L!Sparse(t) = Dealt(t, k, h)
               /\ L!Sparse(t) \in 0 .. (k * h) - 1
      <4>1. ~ (L!Sparse(u) \in k * h .. c - 1)
        BY <2>1, <2>7, <3>1
      <4>. QED
        BY <2>3, <2>4, <2>7, <3>1, <4>1
    <3>2. CASE /\ t - (k * h) \in 0 .. (k * h) - 1
               /\ L!Sparse(t) = Dealt(t - (k * h), k, h) + (k * h)
               /\ L!Sparse(t) \in k * h .. c - 1
      <4>1. ~ (L!Sparse(u) \in 0 .. (k * h) - 1)
        BY <2>1, <2>7, <3>2
      <4>2. u - (k * h) \in 0 .. (k * h) - 1 /\ L!Sparse(u) = Dealt(u - (k * h), k, h) + (k * h)
        BY <2>4, <4>1
      <4>3. Dealt(t - (k * h), k, h) = Dealt(u - (k * h), k, h)
        <5>1. PICK x \in Int : x = Dealt(t - (k * h), k, h)
          BY <2>1, <2>3, <3>2
        <5>2. PICK y \in Int : y = Dealt(u - (k * h), k, h)
          BY <2>1, <2>3, <4>2
        <5>3. x + (k * h) = y + (k * h)
          BY <2>7, <3>2, <4>2, <5>1, <5>2
        <5>4. k * h \in Int
          BY <2>1
        <5>. QED
          BY ONLY <5>1, <5>2, <5>3, <5>4
      <4>4. t - (k * h) = u - (k * h)
        BY <2>3, <3>2, <4>2, <4>3
      <4>. QED
        BY <2>1, <4>4
    <3>. QED
      BY <2>4, <3>1, <3>2
  <2>. QED
    BY <2>5, <2>6, <2>7 DEF c
<1>10. CASE Pairs
  <2>1. L!SiblingsFirst
    BY <1>10 DEF L!SiblingsFirst, L!NUMA_SPARSE_SMT_PREFER
  <2>2. ASSUME NEW t \in 0 .. c - 1 PROVE L!SparseSMTPrefer(t) \in Int
    <3>1. L!SparseSMTPrefer(t) = (t % z) * h + t \div (2 * k)
      BY <1>1 DEF L!SparseSMTPrefer
    <3>2. t \in Int /\ 2 * k \in Nat \ {0}
      BY <1>1, <1>3
    <3>3. t % z \in Int /\ t \div (2 * k) \in Int
      BY <1>1, <3>2, Dividing
    <3>. QED
      BY <1>1, <3>1, <3>3
  <2>3. \A t \in 0 .. c - 1 : Core(t) \in 0 .. c - 1
    BY <1>5, <1>6, <1>10, <2>2
  <2>. QED
    BY <2>1, <2>3 DEF c
<1>11. CASE ~ Plain /\ ~ Half /\ ~ Pairs
  <2>1. \A t \in 0 .. c - 1 : L!RoundRobin(t) = Dealt(t, k, z)
    <3>1. ASSUME NEW t \in 0 .. c - 1 PROVE L!RoundRobin(t) = Dealt(t, k, z)
      <4>1. t \in Int /\ t % k \in Int /\ t \div k \in Int
        BY <1>1, <1>3, Dividing
      <4>2. (t % k) * z \in Int
        BY <1>1, <4>1
      <4>3. \A x, y \in Int : x + y = y + x
        OBVIOUS
      <4>. QED
        BY <1>1, <4>1, <4>2, <4>3 DEF L!RoundRobin, Dealt
    <3>. QED
      BY <3>1
  <2>2. /\ \A t \in 0 .. c - 1 : Dealt(t, k, z) \in 0 .. c - 1
        /\ \A t, u \in 0 .. c - 1 : Dealt(t, k, z) = Dealt(u, k, z) => t = u
    BY <1>1, Dealing
  <2>3. \A t \in 0 .. c - 1 : Core(t) = Dealt(t, k, z)
    BY <1>4, <1>6, <1>11, <2>1, <2>2
  <2>. QED
    BY <2>2, <2>3 DEF c
<1>. QED
  BY <1>7, <1>8, <1>9, <1>10, <1>11

(* The place of a CPU on its node, of z.                                    *)
Offset(c, k, z, h) ==
  IF ~ L!SmtDetected \/ k = 1 THEN c % z
  ELSE IF c < k * h THEN c % h
  ELSE ((c - (k * h)) % h) + h

LEMMA Offsets ==
  ASSUME NEW k, NEW z, NEW h, IsMachine(k, z, h)
  PROVE  /\ \A c \in 0 .. L!ncpus - 1 : Offset(c, k, z, h) \in 0 .. z - 1
         /\ \A c, d \in 0 .. L!ncpus - 1 :
              L!NodeOfCore(c) = L!NodeOfCore(d) /\ Offset(c, k, z, h) = Offset(d, k, z, h)
                => c = d
<1>1. /\ k \in Nat \ {0} /\ z \in Nat \ {0} /\ h \in Nat
      /\ L!nodes = k /\ L!node_size = z /\ L!ncpus = k * z /\ L!half_node_size = h
      /\ l_machine.smt \/ k = 1 => h > 0 /\ L!ncpus \div 2 = k * h
      /\ l_machine.smt => z = 2 * h
      /\ k = 1 => z = 2 * h \/ (z = (2 * h) + 1 /\ L!ncpus % 2 = 1)
  BY DEF IsMachine
<1>2. L!SmtDetected <=> l_machine.smt \/ k = 1
  BY Detected
<1>3. CASE ~ L!SmtDetected
  <2>1. /\ \A c : Offset(c, k, z, h) = c % z
        /\ \A c : L!NodeOfCore(c) = c \div z
    BY <1>1, <1>3 DEF Offset, L!NodeOfCore
  <2>2. \A c \in 0 .. L!ncpus - 1 : c \in Nat /\ c \in Int
    BY <1>1
  <2>3. \A x, y \in Nat : x \div z = y \div z /\ x % z = y % z => x = y
    BY <1>1, DivMod
  <2>4. \A x \in Int : x % z \in 0 .. z - 1
    BY <1>1, Dividing
  <2>5. \A c \in 0 .. L!ncpus - 1 : Offset(c, k, z, h) \in 0 .. z - 1
    BY <2>1, <2>2, <2>4
  <2>6. ASSUME NEW c \in 0 .. L!ncpus - 1, NEW d \in 0 .. L!ncpus - 1,
               L!NodeOfCore(c) = L!NodeOfCore(d), Offset(c, k, z, h) = Offset(d, k, z, h)
        PROVE  c = d
    BY ONLY <2>1, <2>2, <2>3, <2>6
  <2>. QED
    BY <2>5, <2>6
<1>4. CASE k = 1
  <2>1. L!ncpus = z /\ \A x \in 0 .. z - 1 : x % z = x
    <3>1. \A y \in Nat \ {0} : \A x \in 0 .. y - 1 : x % y = x
      BY SMT
    <3>. QED
      BY <1>1, <1>4, <3>1
  <2>2. \A c \in 0 .. L!ncpus - 1 : Offset(c, k, z, h) = c
    BY <1>4, <2>1 DEF Offset
  <2>. QED
    BY <2>1, <2>2
<1>5. CASE L!SmtDetected /\ k # 1
  <2>1. h \in Nat \ {0} /\ z = h + h /\ L!ncpus \div 2 = k * h /\ k * h \in Nat
        /\ L!ncpus = (k * h) + (k * h)
    BY <1>1, <1>2, <1>5
  <2>2. PICK half \in Nat : half = k * h
    BY <2>1
  <2>3. \A c \in 0 .. half - 1 : /\ Offset(c, k, z, h) = c % h
                                 /\ L!NodeOfCore(c) = c \div h
                                 /\ c \in Nat /\ c \in Int
    BY <1>1, <1>5, <2>1, <2>2 DEF Offset, L!NodeOfCore
  <2>4. \A c \in half .. L!ncpus - 1 : /\ Offset(c, k, z, h) = ((c - half) % h) + h
                                       /\ L!NodeOfCore(c) = (c - half) \div h
                                       /\ c - half \in Nat /\ c - half \in Int
    BY <1>1, <1>5, <2>1, <2>2 DEF Offset, L!NodeOfCore
  <2>5. \A y \in Int : y % h \in 0 .. h - 1
    BY <2>1, Dividing
  <2>6. \A c \in 0 .. L!ncpus - 1 : c \in 0 .. half - 1 \/ c \in half .. L!ncpus - 1
    BY <2>1, <2>2
  <2>7. /\ \A c \in 0 .. half - 1 : Offset(c, k, z, h) \in 0 .. h - 1
        /\ \A c \in half .. L!ncpus - 1 : Offset(c, k, z, h) \in h .. z - 1
    <3>1. \A c \in 0 .. half - 1 : Offset(c, k, z, h) \in 0 .. h - 1
      BY <2>3, <2>5
    <3>2. ASSUME NEW c \in half .. L!ncpus - 1 PROVE Offset(c, k, z, h) \in h .. z - 1
      <4>1. PICK y \in 0 .. h - 1 : y = (c - half) % h
        BY <2>4, <2>5
      <4>2. Offset(c, k, z, h) = y + h
        BY <2>4, <4>1
      <4>. QED
        BY <2>1, <4>2
    <3>. QED
      BY <3>1, <3>2
  <2>8. \A c \in 0 .. L!ncpus - 1 : Offset(c, k, z, h) \in 0 .. z - 1
    BY <2>1, <2>6, <2>7
  <2>9. ASSUME NEW c \in 0 .. L!ncpus - 1, NEW d \in 0 .. L!ncpus - 1,
               L!NodeOfCore(c) = L!NodeOfCore(d), Offset(c, k, z, h) = Offset(d, k, z, h)
        PROVE  c = d
    <3>1. CASE c \in 0 .. half - 1
      <4>1. ~ (Offset(c, k, z, h) \in h .. z - 1)
        BY <2>1, <2>7, <3>1
      <4>2. d \in 0 .. half - 1
        BY <2>6, <2>7, <2>9, <4>1
      <4>3. c \in Nat /\ d \in Nat /\ c % h = d % h /\ c \div h = d \div h
        BY <2>3, <2>9, <3>1, <4>2
      <4>. QED
        BY <2>1, <4>3, DivMod
    <3>2. CASE c \in half .. L!ncpus - 1
      <4>1. ~ (Offset(c, k, z, h) \in 0 .. h - 1)
        BY <2>1, <2>7, <3>2
      <4>2. d \in half .. L!ncpus - 1
        BY <2>6, <2>7, <2>9, <4>1
      <4>3. PICK x \in Nat : x = c - half
        BY <2>4, <3>2
      <4>4. PICK y \in Nat : y = d - half
        BY <2>4, <4>2
      <4>5. x \div h = y \div h
        BY <2>4, <2>9, <3>2, <4>2, <4>3, <4>4
      <4>6. x % h = y % h
        <5>1. (x % h) + h = (y % h) + h
          BY <2>4, <2>9, <3>2, <4>2, <4>3, <4>4
        <5>2. x % h \in 0 .. h - 1 /\ y % h \in 0 .. h - 1
          BY <2>5
        <5>3. \A a, b \in 0 .. h - 1 : a + h = b + h => a = b
          BY <2>1
        <5>. QED
          BY ONLY <5>1, <5>2, <5>3
      <4>7. x = y
        BY <2>1, <4>5, <4>6, DivMod
      <4>. QED
        BY <2>2, <3>2, <4>2, <4>3, <4>4, <4>7
    <3>. QED
      BY <2>6, <3>1, <3>2
  <2>. QED
    BY <2>8, <2>9
<1>. QED
  BY <1>3, <1>4, <1>5

(* The topology of H-Synch is the one of the machine, and a thread that has *)
(* started is where the library places it.                                  *)
PlacementInv ==
  /\ l_machine \in Machines /\ l_schedule_policy \in 1 .. 5
  /\ l_nthreads \in 1 .. L!ncpus
  /\ l_hsynch.numa_policy = TRUE /\ l_hsynch.numa_nodes = L!nodes
  /\ l_hsynch.numa_node_size \in Nat /\ l_hsynch.numa_node_size >= L!node_size
  /\ DOMAIN l_preferred_core = L!Pids /\ DOMAIN l_preferred_node = L!Pids
  /\ DOMAIN l_node_of_thread = L!Pids
  /\ \A t \in L!Pids :
       \/ l_preferred_core[t] = NULL
       \/ /\ l_preferred_core[0] # NULL /\ t < l_nthreads
          /\ l_preferred_core[t] = Core(t)
          /\ l_preferred_node[t] = L!NodeOfCore(Core(t))
          /\ l_node_of_thread[t] = l_preferred_node[t]

LEMMA InitPlacement ==
  ASSUME L!Init
  PROVE  PlacementInv
<1>1. /\ l_machine \in Machines /\ l_schedule_policy = 4
      /\ l_nthreads \in 1 .. L!ncpus
      /\ l_hsynch = L!Topology(l_machine, l_nthreads, 0)
      /\ l_preferred_core = [t \in L!Pids |-> NULL]
      /\ l_preferred_node = [t \in L!Pids |-> NULL]
      /\ l_node_of_thread = [t \in L!Pids |-> NULL]
  BY DEF L!Init, L!NUMA_SPARSE_SMT_PREFER, L!HSYNCH_DEFAULT_NUMA_POLICY, L!ncpus
<1>2. PICK k, z, h \in Nat : IsMachine(k, z, h)
  BY <1>1, MachineSizes
<1>3. z \in Nat /\ z = l_machine.ncpus \div l_machine.nodes /\ k = l_machine.nodes
      /\ k \in Nat \ {0} /\ l_nthreads \in Nat
  BY <1>1, <1>2 DEF IsMachine, L!node_size, L!nodes, L!ncpus
<1>4. (l_nthreads \div k) + (l_nthreads % k) \in Nat
  BY <1>3
<1>5. /\ l_hsynch.numa_policy = TRUE /\ l_hsynch.numa_nodes = k
      /\ l_hsynch.numa_node_size = IF (l_nthreads \div k) + (l_nthreads % k) < z THEN z
                                   ELSE (l_nthreads \div k) + (l_nthreads % k)
  <2>1. ~ (0 > l_nthreads)
    BY <1>3
  <2>. QED
    BY <1>1, <1>3, <2>1 DEF L!Topology, L!HSYNCH_DEFAULT_NUMA_POLICY
<1>6. l_hsynch.numa_node_size \in Nat /\ l_hsynch.numa_node_size >= z
  BY <1>3, <1>4, <1>5
<1>. QED
  BY <1>1, <1>2, <1>5, <1>6 DEF PlacementInv, IsMachine

(* Where the library places threads depends on nothing that changes when    *)
(* one starts.                                                              *)
LEMMA SamePlaces ==
  ASSUME l_machine' = l_machine
  PROVE  /\ L!ncpus' = L!ncpus /\ L!nodes' = L!nodes /\ L!node_size' = L!node_size
         /\ L!Pids' = L!Pids
         /\ \A c : L!NodeOfCore(c)' = L!NodeOfCore(c)
         /\ l_schedule_policy' = l_schedule_policy => \A t : Core(t)' = Core(t)
<1>1. /\ L!ncpus' = L!ncpus /\ L!nodes' = L!nodes /\ L!node_size' = L!node_size
      /\ L!half_node_size' = L!half_node_size /\ L!Pids' = L!Pids
  BY DEF L!ncpus, L!nodes, L!node_size, L!half_node_size, L!Pids
<1>2. \A c : L!numa_node_of_cpu(c)' = L!numa_node_of_cpu(c)
  BY <1>1 DEF L!numa_node_of_cpu
<1>3. L!SmtDetected' = L!SmtDetected
  BY <1>1 DEF L!SmtDetected, L!numa_node_of_cpu
<1>4. \A c : L!NodeOfCore(c)' = L!NodeOfCore(c)
  BY <1>1, <1>3 DEF L!NodeOfCore
<1>5. ASSUME l_schedule_policy' = l_schedule_policy, NEW t
      PROVE  Core(t)' = Core(t)
  <2>1. L!RoundRobin(t)' = L!RoundRobin(t) /\ L!SparseSMTPrefer(t)' = L!SparseSMTPrefer(t)
    BY <1>1 DEF L!RoundRobin, L!SparseSMTPrefer
  <2>2. L!Sparse(t)' = L!Sparse(t)
    BY <1>1 DEF L!Sparse, L!SparseHalf
  <2>. QED
    BY <1>1, <1>3, <1>5, <2>1, <2>2 DEF Core, L!synchPreferredCoreOfThread
<1>. QED
  BY <1>1, <1>4, <1>5

LEMMA PlacementInductive ==
  ASSUME PlacementInv, [L!Next]_l_vars
  PROVE  PlacementInv'
<1>1. CASE UNCHANGED l_vars
  <2>1. UNCHANGED <<l_machine, l_schedule_policy, l_hsynch, l_nthreads, l_preferred_core,
                    l_preferred_node, l_node_of_thread>>
    BY <1>1 DEF l_vars
  <2>. QED
    BY <2>1, SamePlaces DEF PlacementInv
<1>2. ASSUME NEW policy \in L!FLAT .. L!POLICY_MAX + 1, L!SetPolicy(policy)
      PROVE  PlacementInv'
  <2>1. /\ UNCHANGED <<l_machine, l_hsynch, l_nthreads, l_preferred_core, l_preferred_node,
                       l_node_of_thread>>
        /\ l_schedule_policy' \in 1 .. 5
        /\ l_preferred_core[0] = NULL
    BY <1>2 DEF L!SetPolicy, L!NoThreadYet, L!FLAT, L!POLICY_MAX, L!NUMA_DENSE_SMT_PREFER
  <2>2. \A t \in L!Pids : l_preferred_core[t] = NULL
    BY <2>1 DEF PlacementInv
  <2>. QED
    BY <2>1, <2>2, SamePlaces DEF PlacementInv
<1>3. ASSUME NEW t \in L!Pids, L!Start(t)
      PROVE  PlacementInv'
  <2>1. /\ t < l_nthreads
        /\ \A u \in L!Pids : l_preferred_core[u] = NULL <=> u >= t
        /\ l_preferred_core' = [l_preferred_core EXCEPT ![t] = Core(t % L!ncpus)]
        /\ l_preferred_node' = [l_preferred_node EXCEPT ![t] = L!NodeOfCore(l_preferred_core'[t])]
        /\ l_node_of_thread' = [l_node_of_thread EXCEPT ![t] = L!HSynchNodeOf(t)]
        /\ UNCHANGED <<l_machine, l_schedule_policy, l_hsynch, l_nthreads>>
    BY <1>3 DEF L!Start, Core
  <2>2. /\ DOMAIN l_preferred_core = L!Pids /\ DOMAIN l_preferred_node = L!Pids
        /\ DOMAIN l_node_of_thread = L!Pids
        /\ l_hsynch.numa_policy = TRUE
        /\ l_nthreads \in 1 .. L!ncpus /\ l_machine \in Machines /\ l_schedule_policy \in 1 .. 5
    BY DEF PlacementInv
  <2>3. PICK k, z, h \in Nat : IsMachine(k, z, h)
    BY <2>2, MachineSizes
  <2>4. L!ncpus \in Nat \ {0}
    BY <2>3 DEF IsMachine
  <2>5. t \in Nat /\ t \in 0 .. L!ncpus - 1
    BY <2>1, <2>2, <2>4, LConstants
  <2>6. t % L!ncpus = t
    <3>1. \A y \in Nat \ {0} : \A x \in 0 .. y - 1 : x % y = x
      BY SMT
    <3>. QED
      BY <2>4, <2>5, <3>1
  <2>7. Core(t) \in 0 .. L!ncpus - 1 /\ Core(t) # NULL
    <3>1. Core(t) \in 0 .. L!ncpus - 1
      BY <2>2, <2>3, <2>5, CoresAreCPUs
    <3>. QED
      BY <2>4, <3>1, LConstants
  <2>8. /\ DOMAIN l_preferred_core' = L!Pids /\ DOMAIN l_preferred_node' = L!Pids
        /\ DOMAIN l_node_of_thread' = L!Pids
        /\ l_preferred_core'[t] = Core(t)
        /\ l_preferred_node'[t] = L!NodeOfCore(Core(t))
        /\ \A u \in L!Pids \ {t} : /\ l_preferred_core'[u] = l_preferred_core[u]
                                   /\ l_preferred_node'[u] = l_preferred_node[u]
                                   /\ l_node_of_thread'[u] = l_node_of_thread[u]
    BY <2>1, <2>2, <2>6
  <2>9. l_node_of_thread'[t] = l_preferred_node'[t]
    <3>1. L!HSynchNodeOf(t) = l_preferred_node'[t]
      BY <2>2 DEF L!HSynchNodeOf
    <3>. QED
      BY <2>1, <2>2, <3>1
  <2>10. l_preferred_core'[0] # NULL
    <3>1. 0 \in L!Pids /\ t \in Nat
      BY <2>5, LConstants
    <3>2. CASE t = 0
      BY <2>7, <2>8, <3>2
    <3>3. CASE t # 0
      <4>1. ~ (0 >= t)
        BY <3>1, <3>3
      <4>. QED
        BY <2>1, <2>8, <3>1, <3>3, <4>1
    <3>. QED
      BY <3>2, <3>3
  <2>11. ASSUME NEW u \in L!Pids
         PROVE  \/ l_preferred_core'[u] = NULL
                \/ /\ l_preferred_core'[0] # NULL /\ u < l_nthreads
                   /\ l_preferred_core'[u] = Core(u)
                   /\ l_preferred_node'[u] = L!NodeOfCore(Core(u))
                   /\ l_node_of_thread'[u] = l_preferred_node'[u]
    <3>1. CASE u = t
      BY <2>1, <2>8, <2>9, <2>10, <3>1
    <3>2. CASE u # t
      BY <2>8, <2>10, <3>2 DEF PlacementInv
    <3>. QED
      BY <3>1, <3>2
  <2>12. /\ L!ncpus' = L!ncpus /\ L!nodes' = L!nodes /\ L!node_size' = L!node_size
         /\ L!Pids' = L!Pids
         /\ \A c : L!NodeOfCore(c)' = L!NodeOfCore(c)
         /\ \A u : Core(u)' = Core(u)
    BY <2>1, SamePlaces
  <2>. QED
    BY <2>1, <2>8, <2>11, <2>12 DEF PlacementInv
<1>. QED
  BY <1>1, <1>2, <1>3 DEF L!Next

LEMMA PlacementFits ==
  ASSUME PlacementInv
  PROVE  L!TopologyFitsThreads
<1>1. /\ l_machine \in Machines /\ l_schedule_policy \in 1 .. 5
      /\ l_nthreads \in 1 .. L!ncpus
      /\ l_hsynch.numa_policy = TRUE /\ l_hsynch.numa_nodes = L!nodes
      /\ l_hsynch.numa_node_size \in Nat /\ l_hsynch.numa_node_size >= L!node_size
  BY DEF PlacementInv
<1>2. PICK k, z, h \in Nat : IsMachine(k, z, h)
  BY <1>1, MachineSizes
<1>3. /\ k \in Nat \ {0} /\ z \in Nat \ {0} /\ L!nodes = k /\ L!node_size = z
      /\ L!ncpus = k * z
  BY <1>2 DEF IsMachine
<1>4. ASSUME NEW t \in L!Started
      PROVE  /\ t \in 0 .. L!ncpus - 1 /\ l_preferred_core[t] = Core(t)
             /\ l_preferred_node[t] = L!NodeOfCore(Core(t))
             /\ l_node_of_thread[t] = L!NodeOfCore(Core(t))
             /\ Core(t) \in 0 .. L!ncpus - 1
  <2>1. t \in L!Pids /\ l_preferred_core[t] # NULL
    BY DEF L!Started
  <2>2. /\ t < l_nthreads /\ l_preferred_core[t] = Core(t)
        /\ l_preferred_node[t] = L!NodeOfCore(Core(t))
        /\ l_node_of_thread[t] = L!NodeOfCore(Core(t))
    BY <2>1 DEF PlacementInv
  <2>3. t \in 0 .. L!ncpus - 1
    <3>1. L!ncpus \in Nat
      BY <1>3
    <3>. QED
      BY <1>1, <2>1, <2>2, <3>1, LConstants
  <2>4. Core(t) \in 0 .. L!ncpus - 1
    BY <1>1, <1>2, <2>3, CoresAreCPUs
  <2>. QED
    BY <2>2, <2>3, <2>4
<1>5. L!SiblingsFirst \/ L!CoreIdsAreUnique
  <2>1. ~ L!SiblingsFirst => \A t, u \in 0 .. L!ncpus - 1 : Core(t) = Core(u) => t = u
    BY <1>1, <1>2, CoresAreCPUs
  <2>. QED
    BY <1>4, <2>1 DEF L!CoreIdsAreUnique
<1>6. \A c \in 0 .. L!ncpus - 1 : \/ L!LeftOver(c)
                                  \/ /\ L!NodeOfCore(c) = L!numa_node_of_cpu(c)
                                     /\ L!NodeOfCore(c) \in 0 .. k - 1
  BY <1>2, Detected
<1>7. \A t \in L!Started :
        \/ L!LeftOver(l_preferred_core[t])
        \/ /\ l_preferred_node[t] = L!numa_node_of_cpu(l_preferred_core[t])
           /\ l_node_of_thread[t] \in 0 .. l_hsynch.numa_nodes - 1
  BY <1>1, <1>3, <1>4, <1>6
<1>8. ASSUME NEW g \in 0 .. l_hsynch.numa_nodes - 1, ~ L!SiblingsFirst
      PROVE  L!Cardinality({t \in L!Started : l_node_of_thread[t] = g})
               <= l_hsynch.numa_node_size + 1
  <2>. DEFINE S == {t \in L!Started : l_node_of_thread[t] = g}
              f == [t \in S |-> Offset(Core(t), k, z, h)]
  <2>1. /\ \A c \in 0 .. L!ncpus - 1 : Offset(c, k, z, h) \in 0 .. z - 1
        /\ \A c, d \in 0 .. L!ncpus - 1 :
              L!NodeOfCore(c) = L!NodeOfCore(d) /\ Offset(c, k, z, h) = Offset(d, k, z, h)
                => c = d
    BY <1>2, Offsets
  <2>2. f \in [S -> 0 .. z - 1]
    BY <1>4, <2>1
  <2>3. ASSUME NEW t \in S, NEW u \in S, f[t] = f[u] PROVE t = u
    <3>1. Core(t) = Core(u)
      BY <1>4, <2>1, <2>3
    <3>2. \A x, y \in 0 .. L!ncpus - 1 : Core(x) = Core(y) => x = y
      BY <1>1, <1>2, <1>8, CoresAreCPUs
    <3>. QED
      BY <1>4, <3>1, <3>2
  <2>4. f \in Injection(S, 0 .. z - 1)
    BY <2>2, <2>3 DEF Injection, IsInjective
  <2>5. IsFiniteSet(0 .. z - 1) /\ Cardinality(0 .. z - 1) = z
    <3>1. 0 \in Int /\ z - 1 \in Int /\ ~ (0 > z - 1) /\ ((z - 1) - 0) + 1 = z
      BY <1>3
    <3>. QED
      BY <3>1, FS_Interval
  <2>. HIDE DEF f, S
  <2>6. IsFiniteSet(S) /\ Cardinality(S) <= z
    BY <2>4, <2>5, FS_Injection
  <2>7. L!Cardinality(S) = Cardinality(S)
    BY DEF L!Cardinality, Cardinality
  <2>8. Cardinality(S) \in Nat
    BY <2>6, FS_CardinalityType
  <2>9. L!Cardinality(S) <= l_hsynch.numa_node_size + 1
    BY <1>1, <1>3, <2>6, <2>7, <2>8
  <2>. QED
    BY <2>9 DEF S
<1>. QED
  BY <1>5, <1>7, <1>8 DEF L!TopologyFitsThreads

-----------------------------------------------------------------------------
(*                        The utilities together                            *)

UtilitiesInv == IInv /\ JoinInv /\ FibersInv /\ PoolInv /\ PlacementInv

LEMMA UtilitiesInductive == MCSpec => []UtilitiesInv
<1>1. MCInit => UtilitiesInv
  BY InitIInv, InitJoin, InitFibers, InitPool, InitPlacement DEF MCInit, UtilitiesInv
<1>2. UtilitiesInv /\ [MCNext]_<<which, vars, j_vars, u_vars, p_vars, l_vars>> => UtilitiesInv'
  <2>1. [MCNext]_<<which, vars, j_vars, u_vars, p_vars, l_vars>> =>
          /\ [Next]_vars /\ [J!Next]_j_vars /\ [U!Next]_u_vars
          /\ [P!Next]_p_vars /\ [L!Next]_l_vars
    BY Zenon DEF MCNext
  <2>. QED
    BY <2>1, NextIInv, JoinInductive, FibersInductive, PoolInductive, PlacementInductive
       DEF UtilitiesInv
<1>. QED
  BY <1>1, <1>2, PTL DEF MCSpec

(* The first time threads are started and joined, for any numbers of        *)
(* threads and of fibers in each, synchJoinThreadsN returns only when func  *)
(* has returned in all of the threads. (In a second round it may not: the   *)
(* barrier bar of the first may still be in use when it is set again.)      *)
THEOREM FirstJoinWaits == MCSpec => []JoinWaitsForThreads
<1>1. UtilitiesInv => JoinWaitsForThreads
  BY JoinIsSafe DEF UtilitiesInv, JoinWaitsForThreads
<1>. QED
  BY <1>1, UtilitiesInductive, PTL

(* No fiber is switched to after its end and no stack is freed under one    *)
(* that runs on it, for any MAX_FIBERS; and a pool of blocks of any size    *)
(* hands out no object twice, neither after Recycle nor after a Rollback    *)
(* across the border of two blocks.                                         *)
THEOREM MemoryIsKept == MCSpec => []MemoryInUseIsKept
<1>1. UtilitiesInv => MemoryInUseIsKept
  BY FibersAreSafe, PoolIsSafe DEF UtilitiesInv, MemoryInUseIsKept
<1>. QED
  BY <1>1, UtilitiesInductive, PTL

(* On every machine of two or more CPUs whose NUMA nodes are of one size,   *)
(* with SMT of pairs of siblings, and under every placement policy: the     *)
(* NUMA node computed for a thread is the one its core is on, and H-Synch   *)
(* has that node, unless the core is the last one of an odd number on a     *)
(* single node; and unless the policy is the default one and SMT is         *)
(* detected (as it always is on a single node), no core is given to two     *)
(* threads and the node has room for all of its threads.                    *)
THEOREM PlacementConsistent == MCSpec => []PlacementIsConsistent
<1>1. UtilitiesInv => PlacementIsConsistent
  BY PlacementFits DEF UtilitiesInv, PlacementIsConsistent
<1>. QED
  BY <1>1, UtilitiesInductive, PTL
=============================================================================
