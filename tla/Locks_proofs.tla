---------------------------- MODULE Locks_proofs ----------------------------
(***************************************************************************)
(* The queue locks CLH and MCS exclude, and are first come, first served   *)
(* (QueueLock), for any number of threads.                                 *)
(*                                                                         *)
(* Both implement the abstract lock: of the sequences that Order may       *)
(* choose from there is one, and it grows by SWAPs at its end and loses    *)
(* its first thread.                                                       *)
(*                                                                         *)
(* CLH: IInv is inductive. Of the nodes that could let a thread in, the    *)
(* tail and the predecessors of those in the queue, at most one is         *)
(* unlocked.                                                               *)
(*                                                                         *)
(* MCS: the threads that have swapped themselves into Tail and have not    *)
(* left are a queue, q[lo] .. q[hi]. No variable of the code holds it; the *)
(* inductive invariant says that there is one such that only its first     *)
(* thread may own the lock, and only the nodes of the others get marked:   *)
(* the tail that a thread marks is behind the thread, or the thread.       *)
(***************************************************************************)
EXTENDS MCLocks, Sequences, FiniteSetTheorems, WellFoundedInduction, TLAPS

-----------------------------------------------------------------------------
(*                        The order of the queue                           *)

(* Any set of naturals has a least one. *)
LEMMA LeastNatural ==
  ASSUME NEW T, T \subseteq Nat, T # {}
  PROVE  \E n \in T : \A m \in T : n <= m
<1>1. \E x \in T : \A y \in T : ~ (<<y, x>> \in OpToRel(<, Nat))
  BY NatLessThanWellFounded, WFMin
<1>2. \A x, y \in T : x < y => <<x, y>> \in OpToRel(<, Nat)
  BY DEF OpToRel
<1>3. PICK x \in T : \A y \in T : ~ (y < x)
  BY <1>1, <1>2
<1>4. \A y \in T : x <= y
  BY <1>3
<1>. QED
  BY <1>4

Members(s) == {s[i] : i \in 1 .. Len(s)}

(* R tells who comes next in q, s goes along R, and s has the members of q. *)
Leads(R, q, n) ==
  /\ \A i, j \in 1 .. n : q[i] = q[j] => i = j
  /\ \A i, j \in 1 .. n : <<q[i], q[j]>> \in R => j = i + 1

Follows(R, s, n) == \A i \in 2 .. n : <<s[i - 1], s[i]>> \in R

SameMembers(s, q, n) ==
  /\ \A i \in 1 .. n : \E k \in 1 .. n : s[i] = q[k]
  /\ \A k \in 1 .. n : \E i \in 1 .. n : s[i] = q[k]

(* A line in which R tells who comes next is the only one of its members.   *)
LEMMA LineIsUnique ==
  ASSUME NEW T, NEW R, NEW n \in Nat, NEW q \in [1 .. n -> T], NEW s \in [1 .. n -> T],
         Leads(R, q, n), Follows(R, s, n), SameMembers(s, q, n)
  PROVE  s = q
<1> USE DEF Leads, Follows, SameMembers
<1>1. SUFFICES ASSUME n # 0 PROVE \A i \in 1 .. n : s[i] = q[i]
  OBVIOUS
<1>2. 1 \in 1 .. n
  BY <1>1
<1>3. PICK k \in 1 .. n : s[1] = q[k]
  BY <1>2
<1>4. \A i \in 1 .. n : k + i - 1 \in 1 .. n /\ s[i] = q[k + i - 1]
  <2> DEFINE T1 == {i \in 1 .. n : ~(k + i - 1 \in 1 .. n /\ s[i] = q[k + i - 1])}
  <2> SUFFICES ASSUME T1 # {} PROVE FALSE
    OBVIOUS
  <2>1. PICK i \in T1 : \A m \in T1 : i <= m
    <3>1. T1 \subseteq Nat
      OBVIOUS
    <3> HIDE DEF T1
    <3> QED
      BY <3>1, LeastNatural
  <2>2. i # 1
    BY <1>3, <2>1
  <2>3. i \in 2 .. n /\ i - 1 \in 1 .. n
    BY <2>1, <2>2
  <2>4. i - 1 \notin T1
    <3>1. i \in Nat /\ ~(i <= i - 1)
      BY <2>3
    <3> HIDE DEF T1
    <3> QED
      BY <2>1, <3>1
  <2>5. k + i - 2 \in 1 .. n /\ s[i - 1] = q[k + i - 2]
    <3>1. k + (i - 1) - 1 = k + i - 2
      BY <2>3
    <3> QED
      BY <2>3, <2>4, <3>1
  <2>6. PICK j \in 1 .. n : s[i] = q[j]
    BY <2>3
  <2>7. j = (k + i - 2) + 1
    BY <2>3, <2>5, <2>6
  <2>8. k + i - 1 = j
    BY <2>3, <2>7
  <2> QED
    BY <2>1, <2>6, <2>8
<1>5. k = 1
  <2>1. PICK i \in 1 .. n : s[i] = q[1]
    BY <1>2
  <2>2. k + i - 1 \in 1 .. n /\ q[k + i - 1] = q[1]
    BY <1>4, <2>1
  <2>3. k + i - 1 = 1
    BY <1>2, <2>2
  <2> QED
    BY <2>1, <2>3
<1> QED
  BY <1>4, <1>5

(* It is what the locks' definitions of Order choose.                       *)
LEMMA OrderIsLine ==
  ASSUME NEW T, NEW R, NEW q \in Seq(T), Leads(R, q, Len(q))
  PROVE  /\ Cardinality(Members(q)) = Len(q)
         /\ q \in [1 .. Len(q) -> Members(q)]
         /\ \A t \in Members(q) : \E i \in DOMAIN q : q[i] = t
         /\ \A s \in [1 .. Len(q) -> Members(q)] :
              /\ \A t \in Members(q) : \E i \in DOMAIN s : s[i] = t
              /\ Follows(R, s, Len(q))
              => s = q
<1> DEFINE n == Len(q)
<1>1. q \in [1 .. n -> Members(q)] /\ \A t \in Members(q) : \E i \in 1 .. n : q[i] = t
  BY DEF Members
<1>2. q \in Bijection(1 .. n, Members(q))
  BY <1>1 DEF Leads, Bijection, Injection, Surjection, IsInjective
<1>3. Cardinality(Members(q)) = n /\ IsFiniteSet(Members(q))
  <2>1. ExistsBijection(1 .. n, Members(q)) /\ n \in Nat
    BY <1>2 DEF ExistsBijection
  <2> QED
    BY <2>1, FS_CountingElements, FS_NatBijection
<1>4. ASSUME NEW s \in [1 .. n -> Members(q)],
             \A t \in Members(q) : \E i \in DOMAIN s : s[i] = t,
             Follows(R, s, n)
      PROVE  s = q
  <2>1. Members(q) \subseteq T
    BY DEF Members
  <2>2. s \in [1 .. n -> T] /\ q \in [1 .. n -> T] /\ n \in Nat
    BY <2>1
  <2>3. /\ \A i \in 1 .. n : \E k \in 1 .. n : s[i] = q[k]
        /\ \A k \in 1 .. n : \E i \in 1 .. n : s[i] = q[k]
    <3>1. DOMAIN s = 1 .. n /\ DOMAIN q = 1 .. n
      BY <2>2
    <3>2. \A i \in 1 .. n : s[i] \in Members(q)
      BY <1>4
    <3>3. \A k \in 1 .. n : q[k] \in Members(q)
      BY <1>1
    <3> HIDE DEF n
    <3>4. \A i \in 1 .. n : \E k \in 1 .. n : q[k] = s[i]
      BY <1>1, <3>2
    <3>5. \A k \in 1 .. n : \E i \in 1 .. n : s[i] = q[k]
      BY <1>4, <3>1, <3>3
    <3> QED
      BY <3>4, <3>5
  <2>4. SameMembers(s, q, n)
    BY <2>3 DEF SameMembers
  <2>5. Leads(R, q, n)
    OBVIOUS
  <2> HIDE DEF n
  <2> QED
    BY <1>4, <2>2, <2>4, <2>5, LineIsUnique
<1> QED
  BY <1>1, <1>3, <1>4

-----------------------------------------------------------------------------
(*                                  CLH                                    *)

(* CLHLockInit leaves one gate, the unlocked node in Tail. *)
LEMMA InitIInv == Init => IInv
<1>. SUFFICES ASSUME Init PROVE IInv
  OBVIOUS
<1>1. TypeOK
  BY DEF Init, TypeOK, Nodes
<1>2. Ownership
  BY ConstantsAssumption DEF Init, Ownership, HoldsPred
<1>3. Flags
  BY DEF Init, Flags
<1>4. OneGate
  <2>1. \A n \in Nodes : Gate(n) => n = Dummy
    BY DEF Init, Gate, Queued
  <2>. QED
    BY <2>1 DEF OneGate
<1>. QED
  BY <1>1, <1>2, <1>3, <1>4 DEF IInv

(* The node set to locked is private: it is nobody's gate. *)
LEMMA PrepareStep ==
  ASSUME NEW t \in Threads, IInv, Prepare(t)
  PROVE  IInv'
<1>. TypeOK /\ Ownership /\ Flags /\ OneGate
  BY DEF IInv
<1>1. TypeOK'
  BY DEF TypeOK, Prepare, Goto
<1>2. Ownership'
  BY DEF Ownership, HoldsNode, HoldsPred, Prepare, Goto
<1>3. Flags'
  BY DEF TypeOK, Ownership, Flags, HoldsPred, Prepare, Goto
<1>4. OneGate'
  BY DEF OneGate, Gate, Queued, Prepare, Goto
<1>. QED
  BY <1>1, <1>2, <1>3, <1>4 DEF IInv

(* The old tail becomes the predecessor and the new tail is locked. *)
LEMMA SwapStep ==
  ASSUME NEW t \in Threads, IInv, Swap(t)
  PROVE  IInv'
<1>. TypeOK /\ Ownership /\ Flags /\ OneGate
  BY DEF IInv
<1>1. TypeOK'
  BY DEF TypeOK, Swap, Goto
<1>2. Ownership'
  BY DEF TypeOK, Ownership, HoldsNode, HoldsPred, Swap, Goto
<1>3. Flags'
  BY DEF Flags, Swap, Goto
<1>4. OneGate'
  BY DEF TypeOK, Flags, OneGate, Gate, Queued, Swap, Goto
<1>. QED
  BY <1>1, <1>2, <1>3, <1>4 DEF IInv

(* The thread that enters found its gate open. *)
LEMMA AcquireStep ==
  ASSUME NEW t \in Threads, IInv, Acquire(t)
  PROVE  IInv'
<1>. TypeOK /\ Ownership /\ Flags /\ OneGate
  BY DEF IInv
<1>1. TypeOK'
  BY DEF TypeOK, Acquire, Goto
<1>2. Ownership'
  BY DEF Ownership, HoldsNode, HoldsPred, Acquire, Goto
<1>3. Flags'
  BY DEF Flags, Acquire, Goto
<1>4. OneGate'
  BY DEF OneGate, Gate, Queued, Acquire, Goto
<1>. QED
  BY <1>1, <1>2, <1>3, <1>4 DEF IInv

(* One gate closes, as the thread leaves the queue, and its node opens. *)
LEMMA ReleaseStep ==
  ASSUME NEW t \in Threads, IInv, Release(t)
  PROVE  IInv'
<1>. TypeOK /\ Ownership /\ Flags /\ OneGate
  BY DEF IInv
<1>1. TypeOK'
  BY DEF TypeOK, Release, Goto
<1>2. Ownership'
  BY DEF Ownership, Flags, HoldsNode, HoldsPred, Release, Goto
<1>3. Flags'
  BY DEF TypeOK, Ownership, Flags, HoldsNode, Release, Goto
<1>4. OneGate'
  BY DEF TypeOK, Ownership, Flags, OneGate, HoldsPred, Gate, Queued,
    Release, Goto
<1>. QED
  BY <1>1, <1>2, <1>3, <1>4 DEF IInv

(* The node of the predecessor changes hands. *)
LEMMA RecycleStep ==
  ASSUME NEW t \in Threads, IInv, Recycle(t)
  PROVE  IInv'
<1>. TypeOK /\ Ownership /\ Flags /\ OneGate
  BY DEF IInv
<1>1. TypeOK'
  BY DEF TypeOK, Ownership, HoldsPred, Recycle, Goto
<1>2. Ownership'
  BY DEF TypeOK, Ownership, HoldsNode, HoldsPred, Recycle, Goto
<1>3. Flags'
  BY DEF Flags, Recycle, Goto
<1>4. OneGate'
  BY DEF OneGate, Gate, Queued, Recycle, Goto
<1>. QED
  BY <1>1, <1>2, <1>3, <1>4 DEF IInv

(* What a step of any thread preserves. *)
LEMMA NextIInv == IInv /\ [Next]_vars => IInv'
<1>. SUFFICES ASSUME IInv, [Next]_vars PROVE IInv'
  OBVIOUS
<1>1. ASSUME NEW t \in Threads, Step(t) PROVE IInv'
  BY <1>1, PrepareStep, SwapStep, AcquireStep, ReleaseStep, RecycleStep
     DEF Step, Unlock
<1>2. CASE UNCHANGED vars
  BY <1>2 DEF vars, IInv, TypeOK, Ownership, Flags, OneGate, HoldsNode,
    HoldsPred, Gate, Queued
<1>. QED
  BY <1>1, <1>2 DEF Next

(* The invariant holds in every reachable state. *)
LEMMA IInvCorrect == Spec => []IInv
  BY InitIInv, NextIInv, PTL DEF Spec

(* The type invariant of the lock and its nodes. *)
THEOREM TypeCorrect == Spec => []TypeOK
  BY IInvCorrect, PTL DEF IInv

(* CLHLock never lets two threads in, however many there are. *)
THEOREM MutualExclusionHolds == Spec => []MutualExclusion
<1>1. IInv => MutualExclusion
  BY DEF IInv, MutualExclusion, Ownership, Flags, OneGate, Gate, Queued,
    HoldsPred
<1>. QED
  BY <1>1, IInvCorrect, PTL

(* The node a thread takes over at unlock is never one that another thread  *)
(* still spins on, so CLHLock may set it again.                             *)
THEOREM RecycledNodeIsFreeHolds == Spec => []RecycledNodeIsFree
<1>1. IInv => RecycledNodeIsFree
  BY DEF IInv, RecycledNodeIsFree, Ownership, HoldsPred
<1>. QED
  BY <1>1, IInvCorrect, PTL

-----------------------------------------------------------------------------
(* The queue of CLH: the threads from their SWAP to their release, each     *)
(* with the node of the one before it as MyPred. The first one finds its    *)
(* predecessor's node unlocked; so does who comes next, if there is none.   *)
Line(q) ==
  /\ q \in Seq(Threads)
  /\ \A i \in 1 .. Len(q) : Queued(q[i])
  /\ \A t \in Threads : Queued(t) => \E i \in 1 .. Len(q) : q[i] = t
  /\ \A i, j \in 1 .. Len(q) : q[i] = q[j] => i = j
  /\ \A i \in 2 .. Len(q) : MyPred[q[i]] = MyNode[q[i - 1]]
  /\ Len(q) # 0 => tail = MyNode[q[Len(q)]] /\ ~locked[MyPred[q[1]]]
  /\ Len(q) = 0 => ~locked[tail]

LEMMA InitLine == Init => Line(<< >>)
<1> SUFFICES ASSUME Init PROVE Line(<< >>)
  OBVIOUS
<1>1. ~locked[tail] /\ \A t \in Threads : ~Queued(t)
  BY DEF Init, Queued, Nodes
<1>2. << >> \in Seq(Threads) /\ Len(<< >>) = 0
  OBVIOUS
<1> QED
  BY <1>1, <1>2 DEF Line

(* Line describes one sequence only, and Order is that one.                 *)
LEMMA OrderIs == IInv => \A q \in Seq(Threads) : Line(q) => Order = q
<1> SUFFICES ASSUME IInv, NEW q \in Seq(Threads), Line(q) PROVE Order = q
  OBVIOUS
<1> DEFINE R == {p \in Threads \X Threads : MyPred[p[2]] = MyNode[p[1]]}
<1> DEFINE n == Len(q)
<1>1. n \in Nat /\ \A i \in 1 .. n : q[i] \in Threads /\ Queued(q[i])
  BY DEF Line
<1>2. \A t, u \in Threads : <<t, u>> \in R <=> MyPred[u] = MyNode[t]
  OBVIOUS
<1>3. Leads(R, q, n)
  <2>1. ASSUME NEW i \in 1 .. n, NEW j \in 1 .. n, <<q[i], q[j]>> \in R PROVE j = i + 1
    <3>1. MyPred[q[j]] = MyNode[q[i]]
      BY <1>1, <1>2, <2>1
    <3>2. locked[MyNode[q[i]]]
      BY <1>1 DEF IInv, Flags, Queued
    <3>3. j # 1
      BY <3>1, <3>2 DEF Line
    <3>4. j \in 2 .. n /\ j - 1 \in 1 .. n
      BY <1>1, <3>3
    <3>5. MyNode[q[j - 1]] = MyNode[q[i]]
      BY <3>1, <3>4 DEF Line
    <3>6. q[j - 1] = q[i]
      BY <1>1, <3>4, <3>5 DEF IInv, Ownership, HoldsNode, Queued
    <3>7. j - 1 = i
      BY <3>4, <3>6 DEF Line
    <3> QED
      BY <1>1, <3>4, <3>7
  <2>2. \A i, j \in 1 .. n : q[i] = q[j] => i = j
    BY DEF Line
  <2> HIDE DEF n, R
  <2> QED
    BY <2>1, <2>2 DEF Leads
<1> DEFINE Q == {t \in Threads : Queued(t)}
<1>4. Members(q) = Q
  BY <1>1 DEF Members, Line
<1>5. \A s \in [1 .. n -> Q] : Follows(R, s, n) <=> \A i \in 2 .. n : MyPred[s[i]] = MyNode[s[i - 1]]
  <2> SUFFICES ASSUME NEW s \in [1 .. n -> Q]
               PROVE  \A i \in 2 .. n : <<s[i - 1], s[i]>> \in R <=> MyPred[s[i]] = MyNode[s[i - 1]]
    BY DEF Follows
  <2>1. \A i \in 2 .. n : s[i] \in Threads /\ s[i - 1] \in Threads
    BY <1>1
  <2> QED
    BY <1>2, <2>1
<1>6. /\ Cardinality(Q) = n /\ q \in [1 .. n -> Q]
      /\ \A t \in Q : \E i \in DOMAIN q : q[i] = t
      /\ \A i \in 2 .. n : MyPred[q[i]] = MyNode[q[i - 1]]
      /\ \A s \in [1 .. n -> Q] :
           /\ \A t \in Q : \E i \in DOMAIN s : s[i] = t
           /\ \A i \in 2 .. n : MyPred[s[i]] = MyNode[s[i - 1]]
           => s = q
  <2>1. \A i \in 2 .. n : MyPred[q[i]] = MyNode[q[i - 1]]
    BY DEF Line
  <2> HIDE DEF R, Q
  <2> QED
    BY <1>3, <1>4, <1>5, <2>1, OrderIsLine
<1>7. Order = CHOOSE s \in [1 .. n -> Q] :
                /\ \A t \in Q : \E i \in DOMAIN s : s[i] = t
                /\ \A i \in 2 .. n : MyPred[s[i]] = MyNode[s[i - 1]]
  BY <1>6 DEF Order
<1> HIDE DEF n, Q
<1> QED
  BY <1>6, <1>7

(* A thread joins the line at its end.                                      *)
LEMMA LineJoin ==
  ASSUME NEW t \in Threads, IInv, Swap(t), NEW q \in Seq(Threads), Line(q)
  PROVE  /\ Line(Append(q, t))'
         /\ \A i \in DOMAIN q : q[i] # t
<1> DEFINE n == Len(q)
<1> DEFINE r == Append(q, t)
<1>1. /\ n \in Nat /\ r \in Seq(Threads) /\ Len(r) = n + 1 /\ r[n + 1] = t
      /\ \A i \in 1 .. n : r[i] = q[i] /\ q[i] \in Threads /\ Queued(q[i])
      /\ DOMAIN q = 1 .. n
  BY DEF Line
<1>2. /\ ~Queued(t) /\ Queued(t)' /\ \A u \in Threads \ {t} : Queued(u)' <=> Queued(u)
      /\ locked' = locked /\ MyNode' = MyNode /\ tail' = MyNode[t]
      /\ \A u \in Threads : MyPred'[u] = IF u = t THEN tail ELSE MyPred[u]
  BY DEF Swap, Goto, Queued, IInv, TypeOK
<1>3. \A i \in 1 .. n : q[i] # t
  BY <1>1, <1>2
<1>4. \A i \in 1 .. n + 1 : i # n + 1 => i \in 1 .. n
  BY <1>1
<1>5. \A i \in 1 .. n + 1 : Queued(r[i])'
  <2> SUFFICES ASSUME NEW i \in 1 .. n + 1 PROVE Queued(r[i])'
    OBVIOUS
  <2>1. CASE i = n + 1
    BY <2>1, <1>1, <1>2
  <2>2. CASE i # n + 1
    <3>1. i \in 1 .. n /\ r[i] = q[i] /\ q[i] \in Threads \ {t} /\ Queued(q[i])
      BY <2>2, <1>1, <1>3, <1>4
    <3>2. Queued(q[i])'
      BY <3>1, <1>2
    <3> QED
      BY <3>1, <3>2
  <2> QED
    BY <2>1, <2>2
<1>6. \A u \in Threads : Queued(u)' => \E i \in 1 .. n + 1 : r[i] = u
  <2> SUFFICES ASSUME NEW u \in Threads, Queued(u)' PROVE \E i \in 1 .. n + 1 : r[i] = u
    OBVIOUS
  <2>1. CASE u = t
    <3>1. n + 1 \in 1 .. n + 1
      BY <1>1
    <3> QED
      BY <2>1, <3>1, <1>1
  <2>2. CASE u # t
    <3>1. PICK i \in 1 .. n : q[i] = u
      BY <2>2, <1>2 DEF Line
    <3>2. i \in 1 .. n + 1 /\ r[i] = u
      BY <3>1, <1>1
    <3> HIDE DEF r
    <3> QED
      BY <3>2
  <2> QED
    BY <2>1, <2>2
<1>7. \A i, j \in 1 .. n + 1 : r[i] = r[j] => i = j
  <2>1. \A i, j \in 1 .. n : q[i] = q[j] => i = j
    BY DEF Line
  <2> HIDE DEF n, r
  <2> QED
    BY <2>1, <1>1, <1>3, <1>4
<1>8. \A i \in 2 .. n + 1 : MyPred'[r[i]] = MyNode'[r[i - 1]]
  <2> SUFFICES ASSUME NEW i \in 2 .. n + 1 PROVE MyPred'[r[i]] = MyNode[r[i - 1]]
    BY <1>2
  <2>1. i - 1 \in 1 .. n /\ r[i - 1] = q[i - 1]
    BY <1>1
  <2>2. CASE i = n + 1
    <3>1. n # 0 /\ i - 1 = n
      BY <1>1, <2>2
    <3>2. tail = MyNode[q[n]]
      BY <3>1 DEF Line
    <3> QED
      BY <2>1, <2>2, <3>1, <3>2, <1>1, <1>2
  <2>3. CASE i # n + 1
    <3>1. i \in 2 .. n /\ r[i] = q[i] /\ q[i] \in Threads /\ q[i] # t
      BY <2>3, <1>1, <1>3
    <3>2. MyPred[q[i]] = MyNode[q[i - 1]]
      BY <3>1 DEF Line
    <3> QED
      BY <2>1, <3>1, <3>2, <1>2
  <2> QED
    BY <2>2, <2>3
<1>9. tail' = MyNode'[r[n + 1]] /\ ~locked'[MyPred'[r[1]]]
  <2>1. CASE n = 0
    <3>1. r[1] = t /\ ~locked[tail]
      BY <2>1, <1>1 DEF Line
    <3> QED
      BY <3>1, <1>1, <1>2
  <2>2. CASE n # 0
    <3>1. 1 \in 1 .. n /\ r[1] = q[1] /\ q[1] # t /\ q[1] \in Threads
      BY <2>2, <1>1, <1>3
    <3>2. ~locked[MyPred[q[1]]]
      BY <2>2 DEF Line
    <3> QED
      BY <3>1, <3>2, <1>1, <1>2
  <2> QED
    BY <2>1, <2>2
<1>10. Line(r)'
  <2>1. Len(r) = n + 1 /\ n + 1 # 0
    BY <1>1
  <2> HIDE DEF n, r
  <2> QED
    BY <2>1, <1>1, <1>5, <1>6, <1>7, <1>8, <1>9 DEF Line
<1> QED
  BY <1>1, <1>3, <1>10

(* Who finds its predecessor's node unlocked is the first of the line.      *)
LEMMA FirstOfLine ==
  ASSUME IInv, NEW q \in Seq(Threads), Line(q), NEW t \in Threads, Queued(t), ~locked[MyPred[t]]
  PROVE  Len(q) # 0 /\ q[1] = t
<1>1. PICK i \in 1 .. Len(q) : q[i] = t
  BY DEF Line
<1>2. CASE i = 1
  BY <1>1, <1>2
<1>3. CASE i # 1
  <2>1. i \in 2 .. Len(q) /\ i - 1 \in 1 .. Len(q) /\ q[i - 1] \in Threads
    BY <1>1, <1>3
  <2>2. MyPred[t] = MyNode[q[i - 1]] /\ Queued(q[i - 1])
    BY <1>1, <2>1 DEF Line
  <2>3. locked[MyNode[q[i - 1]]]
    BY <2>1, <2>2 DEF IInv, Flags, Queued
  <2> QED
    BY <2>2, <2>3
<1> QED
  BY <1>2, <1>3

(* The first thread leaves the line, and its node lets the next one in.     *)
LEMMA LineLeave ==
  ASSUME NEW t \in Threads, IInv, Release(t), NEW q \in Seq(Threads), Line(q)
  PROVE  Len(q) # 0 /\ q[1] = t /\ Line(Tail(q))'
<1> DEFINE n == Len(q)
<1> DEFINE r == Tail(q)
<1>1. n # 0 /\ q[1] = t
  BY FirstOfLine DEF Release, Goto, IInv, Flags, Queued
<1>2. /\ n \in Nat \ {0} /\ r \in Seq(Threads) /\ Len(r) = n - 1
      /\ \A i \in 1 .. n - 1 : r[i] = q[i + 1] /\ i + 1 \in 1 .. n
      /\ \A i \in 1 .. n : q[i] \in Threads /\ Queued(q[i])
  BY <1>1 DEF Line
<1>3. /\ ~Queued(t)' /\ \A u \in Threads \ {t} : Queued(u)' <=> Queued(u)
      /\ MyNode' = MyNode /\ MyPred' = MyPred /\ tail' = tail
      /\ locked' = [locked EXCEPT ![MyNode[t]] = FALSE] /\ ~locked'[MyNode[t]]
  BY DEF Release, Goto, Queued, IInv, TypeOK
<1>4. \A i, j \in 1 .. n : q[i] = q[j] => i = j
  BY DEF Line
<1>5. \A i \in 1 .. n - 1 : r[i] # t
  <2> SUFFICES ASSUME NEW i \in 1 .. n - 1 PROVE r[i] # t
    OBVIOUS
  <2>1. i + 1 # 1 /\ 1 \in 1 .. n
    BY <1>2
  <2> QED
    BY <1>1, <1>2, <1>4, <2>1
<1>6. \A i \in 1 .. n - 1 : Queued(r[i])'
  <2> SUFFICES ASSUME NEW i \in 1 .. n - 1 PROVE Queued(r[i])'
    OBVIOUS
  <2>1. r[i] = q[i + 1] /\ q[i + 1] \in Threads \ {t} /\ Queued(q[i + 1])
    BY <1>2, <1>5
  <2>2. Queued(q[i + 1])'
    BY <1>3, <2>1
  <2> QED
    BY <2>1, <2>2
<1>7. \A u \in Threads : Queued(u)' => \E i \in 1 .. n - 1 : r[i] = u
  <2> SUFFICES ASSUME NEW u \in Threads, Queued(u)' PROVE \E i \in 1 .. n - 1 : r[i] = u
    OBVIOUS
  <2>1. u # t /\ Queued(u)
    BY <1>3
  <2>2. PICK i \in 1 .. n : q[i] = u
    BY <2>1 DEF Line
  <2>3. i # 1
    BY <1>1, <2>1, <2>2
  <2>4. i - 1 \in 1 .. n - 1 /\ (i - 1) + 1 = i
    BY <1>2, <2>3
  <2>5. r[i - 1] = u
    BY <1>2, <2>2, <2>4
  <2> HIDE DEF r
  <2> QED
    BY <2>4, <2>5
<1>8. \A i, j \in 1 .. n - 1 : r[i] = r[j] => i = j
  <2> SUFFICES ASSUME NEW i \in 1 .. n - 1, NEW j \in 1 .. n - 1, r[i] = r[j] PROVE i = j
    OBVIOUS
  <2>1. i + 1 = j + 1
    BY <1>2, <1>4
  <2> QED
    BY <2>1
<1>9. \A i \in 2 .. n - 1 : MyPred'[r[i]] = MyNode'[r[i - 1]]
  <2> SUFFICES ASSUME NEW i \in 2 .. n - 1 PROVE MyPred[r[i]] = MyNode[r[i - 1]]
    BY <1>3
  <2>1. i + 1 \in 2 .. n /\ (i + 1) - 1 = i /\ (i - 1) + 1 = i /\ i - 1 \in 1 .. n - 1 /\ i \in 1 .. n - 1
    BY <1>2
  <2>2. MyPred[q[i + 1]] = MyNode[q[(i + 1) - 1]]
    BY <2>1 DEF Line
  <2>3. r[i] = q[i + 1] /\ r[i - 1] = q[i]
    BY <1>2, <2>1
  <2> QED
    BY <2>1, <2>2, <2>3
<1>10. tail = MyNode[q[n]]
  BY <1>1 DEF Line
<1>11. n - 1 # 0 => tail' = MyNode'[r[n - 1]] /\ ~locked'[MyPred'[r[1]]]
  <2> SUFFICES ASSUME n - 1 # 0 PROVE tail = MyNode[r[n - 1]] /\ ~locked'[MyPred[r[1]]]
    BY <1>3
  <2>1. n - 1 \in 1 .. n - 1 /\ 1 \in 1 .. n - 1 /\ 2 \in 2 .. n /\ (n - 1) + 1 = n
    BY <1>2
  <2>2. r[n - 1] = q[n] /\ r[1] = q[2]
    BY <1>2, <2>1
  <2>3. MyPred[q[2]] = MyNode[q[2 - 1]]
    BY <2>1 DEF Line
  <2>4. MyPred[r[1]] = MyNode[t]
    <3>1. 2 - 1 = 1
      OBVIOUS
    <3> QED
      BY <1>1, <2>2, <2>3, <3>1
  <2> QED
    BY <1>3, <1>10, <2>2, <2>4
<1>12. n - 1 = 0 => ~locked'[tail']
  <2>1. n - 1 = 0 => tail = MyNode[t]
    <3>1. n \in Nat
      OBVIOUS
    <3> HIDE DEF n
    <3>2. n - 1 = 0 => n = 1
      BY <3>1
    <3> QED
      BY <1>1, <1>10, <3>2
  <2> QED
    BY <1>3, <2>1
<1>13. Line(r)'
  <2> HIDE DEF n, r
  <2> QED
    BY <1>2, <1>6, <1>7, <1>8, <1>9, <1>11, <1>12 DEF Line
<1> QED
  BY <1>1, <1>13

(* Nothing else that a thread does moves the line.                          *)
LEMMA LineStays ==
  ASSUME NEW t \in Threads, IInv, Prepare(t) \/ Acquire(t) \/ Recycle(t),
         NEW q \in Seq(Threads), Line(q)
  PROVE  Line(q)'
<1>1. \A u \in Threads : Queued(u)' <=> Queued(u)
  BY DEF Prepare, Acquire, Recycle, Goto, Queued, IInv, TypeOK
<1>2. \A u \in Threads : Queued(u) => MyNode'[u] = MyNode[u]
  BY DEF Prepare, Acquire, Recycle, Goto, Queued, IInv, TypeOK
<1>3. tail' = tail /\ MyPred' = MyPred
  BY DEF Prepare, Acquire, Recycle
<1>4. locked'[tail] = locked[tail]
  BY DEF Prepare, Acquire, Recycle, Goto, IInv, TypeOK, Ownership
<1>5. \A u \in Threads : Queued(u) => locked'[MyPred[u]] = locked[MyPred[u]]
  BY DEF Prepare, Acquire, Recycle, Goto, IInv, TypeOK, Ownership, Queued, HoldsPred
<1> DEFINE n == Len(q)
<1>6. n \in Nat /\ \A i \in 1 .. n : q[i] \in Threads /\ Queued(q[i])
  BY DEF Line
<1>7. \A i \in 1 .. n : Queued(q[i])' /\ MyNode'[q[i]] = MyNode[q[i]]
  BY <1>1, <1>2, <1>6
<1>8. \A i \in 2 .. n : i - 1 \in 1 .. n
  BY <1>6
<1>9. n # 0 => 1 \in 1 .. n /\ n \in 1 .. n
  BY <1>6
<1>10. n # 0 => tail' = MyNode'[q[n]] /\ ~locked'[MyPred'[q[1]]]
  BY <1>3, <1>5, <1>6, <1>7, <1>9 DEF Line
<1>11. \A i \in 2 .. n : MyPred'[q[i]] = MyNode'[q[i - 1]]
  BY <1>3, <1>7, <1>8 DEF Line
<1>12. n = 0 => ~locked'[tail']
  BY <1>3, <1>4 DEF Line
<1>13. \A u \in Threads : Queued(u)' => \E i \in 1 .. n : q[i] = u
  BY <1>1 DEF Line
<1>14. \A i, j \in 1 .. n : q[i] = q[j] => i = j
  BY DEF Line
<1> QED
  BY <1>7, <1>10, <1>11, <1>12, <1>13, <1>14 DEF Line

LineInv == \E q \in Seq(Threads) : Line(q)

(* A SWAP is the abstract Join, the end of the spin loop Enter, the store   *)
(* that opens the gate Leave; the rest only gets nodes ready.               *)
LEMMA CLHNextRefinement ==
  ASSUME IInv, IInv', LineInv, [Next]_vars,
         (IInv => \A q \in Seq(Threads) : Line(q) => Order = q)'
  PROVE  LineInv' /\ [Lock!Next]_(Lock!vars)
<1> DEFINE Inside == {t \in Threads : pc[t] = "inside"}
<1>0. PICK q \in Seq(Threads) : Line(q)
  BY DEF LineInv
<1>1. Order = q
  BY <1>0, OrderIs
<1>2. ASSUME NEW r \in Seq(Threads), Line(r)' PROVE LineInv' /\ Order' = r
  BY <1>2 DEF LineInv
<1>3. ASSUME NEW t \in Threads, Swap(t) PROVE LineInv' /\ Lock!Join(t)
  <2>1. Line(Append(q, t))' /\ \A i \in DOMAIN q : q[i] # t
    BY <1>0, <1>3, LineJoin
  <2>2. LineInv' /\ Order' = Append(q, t)
    <3>1. Append(q, t) \in Seq(Threads)
      OBVIOUS
    <3> QED
      BY <1>2, <2>1, <3>1
  <2>3. Inside' = Inside
    BY <1>3 DEF Swap, Goto, IInv, TypeOK
  <2> QED
    BY <1>1, <2>1, <2>2, <2>3 DEF Lock!Join, Lock!Joined
<1>4. ASSUME NEW t \in Threads, Acquire(t) PROVE LineInv' /\ Lock!Enter(t)
  <2>1. LineInv' /\ Order' = q
    BY <1>0, <1>2, <1>4, LineStays
  <2>2. Len(q) # 0 /\ q[1] = t
    BY <1>0, <1>4, FirstOfLine DEF Acquire, Goto, Queued
  <2>3. q # << >> /\ Head(q) = t
    BY <2>2
  <2>4. t \notin Inside /\ Inside' = Inside \cup {t}
    BY <1>4 DEF Acquire, Goto, IInv, TypeOK
  <2> QED
    BY <1>1, <2>1, <2>3, <2>4 DEF Lock!Enter
<1>5. ASSUME NEW t \in Threads, Release(t) PROVE LineInv' /\ Lock!Leave(t)
  <2>1. Line(Tail(q))' /\ Len(q) # 0
    BY <1>0, <1>5, LineLeave
  <2>2. LineInv' /\ Order' = Tail(q)
    <3>1. Tail(q) \in Seq(Threads)
      BY <2>1
    <3> QED
      BY <1>2, <2>1, <3>1
  <2>3. t \in Inside /\ Inside' = Inside \ {t}
    BY <1>5 DEF Release, Goto, IInv, TypeOK
  <2> QED
    BY <1>1, <2>2, <2>3 DEF Lock!Leave
<1>6. ASSUME NEW t \in Threads, Prepare(t) \/ Recycle(t) PROVE LineInv' /\ UNCHANGED Lock!vars
  <2>1. LineInv' /\ Order' = q
    BY <1>0, <1>2, <1>6, LineStays
  <2>2. Inside' = Inside
    BY <1>6 DEF Prepare, Recycle, Goto, IInv, TypeOK
  <2> QED
    BY <1>1, <2>1, <2>2 DEF Lock!vars
<1>7. CASE UNCHANGED vars
  <2>1. Line(q)'
    BY <1>0, <1>7 DEF vars, Line, Queued
  <2>2. LineInv' /\ Order' = q
    BY <1>2, <2>1
  <2>3. Inside' = Inside
    BY <1>7 DEF vars
  <2> QED
    BY <1>1, <2>2, <2>3 DEF Lock!vars
<1> QED
  BY <1>3, <1>4, <1>5, <1>6, <1>7 DEF Next, Step, Unlock, Lock!Next

(* The CLH lock is first come, first served: threads enter in the order of  *)
(* their SWAPs, each after the one before it has left.                      *)
THEOREM CLHIsQueueLock == Spec => ImplementsQueueLock
<1>1. Init => Lock!Init /\ LineInv
  <2> SUFFICES ASSUME Init PROVE Lock!Init /\ LineInv
    OBVIOUS
  <2>1. << >> \in Seq(Threads) /\ Line(<< >>)
    BY InitLine
  <2>2. Order = << >>
    BY <2>1, InitIInv, OrderIs
  <2>3. {t \in Threads : pc[t] = "inside"} = {}
    BY DEF Init
  <2> QED
    BY <2>1, <2>2, <2>3 DEF Lock!Init, LineInv
<1>2. IInv /\ IInv' /\ LineInv /\ [Next]_vars => LineInv' /\ [Lock!Next]_(Lock!vars)
  <2>1. (IInv => \A q \in Seq(Threads) : Line(q) => Order = q)'
    BY OrderIs, PTL
  <2> QED
    BY <2>1, CLHNextRefinement
<1> QED
  BY <1>1, <1>2, IInvCorrect, PTL DEF Spec, ImplementsQueueLock, Lock!Spec

-----------------------------------------------------------------------------
(*                                  MCS                                    *)

(* A thread that has a predecessor it has not told yet.                     *)
Joining(t) == m_pc[t] \in {"readTail", "markTail", "markOwn", "link"}

MCSQueue(q, lo, hi) ==
  /\ q \in [Nat -> MCSThreads \cup {NULL}] /\ lo \in Nat \ {0} /\ hi \in Nat /\ lo <= hi + 1
  /\ m_tail = IF lo > hi THEN NULL ELSE q[hi]
  /\ \A i \in lo .. hi : q[i] \in MCSThreads /\ M!Queued(q[i])
  /\ \A i, j \in lo .. hi : q[i] = q[j] => i = j
  /\ \A t \in MCSThreads : M!Queued(t) => \E i \in lo .. hi : q[i] = t
  /\ lo <= hi => m_next[q[hi]] = NULL
  /\ lo <= hi => ~Joining(q[lo]) /\ ~m_locked[q[lo]]
  /\ \A i \in lo .. hi : i > lo =>
       /\ Joining(q[i]) \/ (m_pc[q[i]] = "spin" /\ m_locked[q[i]])
       /\ m_pc[q[i]] = "link" => m_locked[q[i]]
       /\ IF Joining(q[i]) THEN m_prev[q[i]] = q[i - 1] /\ m_next[q[i - 1]] = NULL
          ELSE m_next[q[i - 1]] = q[i]
       /\ m_pc[q[i]] = "markTail" => \E j \in lo .. hi : j >= i /\ m_seen[q[i]] = q[j]

MCSIInv ==
  /\ M!ConstantsAssumption
  /\ M!TypeOK /\ M!IdleNodeIsUnlocked
  /\ \A t \in MCSThreads : m_pc[t] = "swap" => m_next[t] = NULL
  /\ \E q \in [Nat -> MCSThreads \cup {NULL}], lo \in Nat \ {0}, hi \in Nat : MCSQueue(q, lo, hi)

(* No two threads are between the return of MCSLock and the store or CAS of *)
(* MCSUnlock that lets the next one in.                                     *)
MCSMutualExclusion == \A t, u \in MCSThreads : M!Owns(t) /\ M!Owns(u) => t = u

-----------------------------------------------------------------------------
LEMMA MCSInitIInv ==
  ASSUME M!ConstantsAssumption, M!Init
  PROVE  MCSIInv
<1>1. M!TypeOK /\ M!IdleNodeIsUnlocked /\ \A t \in MCSThreads : m_pc[t] = "swap" => m_next[t] = NULL
  BY DEF M!ConstantsAssumption, M!Init, M!TypeOK, M!IdleNodeIsUnlocked
<1>2. MCSQueue([i \in Nat |-> NULL], 1, 0)
  BY DEF M!Init, MCSQueue, M!Queued
<1> QED
  BY <1>1, <1>2 DEF MCSIInv

(* Where a thread that is in the queue can be. *)
LEMMA Positions ==
  ASSUME NEW q, NEW lo \in Nat \ {0}, NEW hi \in Nat, MCSQueue(q, lo, hi), NEW t \in MCSThreads
  PROVE  /\ M!Owns(t) => lo <= hi /\ t = q[lo]
         /\ m_pc[t] = "spin" /\ ~m_locked[t] => lo <= hi /\ t = q[lo]
         /\ Joining(t) => \E k \in lo .. hi : k > lo /\ t = q[k]
<1>1. M!Queued(t) => \E k \in lo .. hi : q[k] = t
  BY DEF MCSQueue
<1>2. M!Owns(t) \/ m_pc[t] = "spin" \/ Joining(t) => M!Queued(t)
  BY DEF M!Owns, M!Queued, Joining
<1> QED
  BY <1>1, <1>2 DEF MCSQueue, M!Owns, Joining

(* A thread that is not in the queue changes its own node.                  *)
LEMMA OutsideStep ==
  ASSUME NEW t \in MCSThreads, MCSIInv, M!Prepare(t) \/ M!Clear(t)
  PROVE  MCSIInv'
<1> M!TypeOK /\ M!IdleNodeIsUnlocked /\ NULL \notin MCSThreads
  BY DEF MCSIInv, M!ConstantsAssumption
<1>0. PICK q \in [Nat -> MCSThreads \cup {NULL}], lo \in Nat \ {0}, hi \in Nat : MCSQueue(q, lo, hi)
  BY DEF MCSIInv
<1>1. M!TypeOK' /\ M!IdleNodeIsUnlocked' /\ \A u \in MCSThreads : m_pc'[u] = "swap" => m_next'[u] = NULL
  BY DEF MCSIInv, M!Prepare, M!Clear, M!Goto, M!TypeOK, M!IdleNodeIsUnlocked
<1>2. /\ m_pc[t] \in {"out", "clear"} /\ m_pc'[t] \in {"out", "swap"}
      /\ \A u \in MCSThreads \ {t} : m_pc'[u] = m_pc[u] /\ m_next'[u] = m_next[u]
      /\ UNCHANGED <<m_tail, m_locked, m_prev, m_seen>>
  BY DEF M!Prepare, M!Clear, M!Goto, M!TypeOK
<1>3. \A u \in MCSThreads : /\ M!Queued(u)' <=> M!Queued(u)
                            /\ Joining(u)' <=> Joining(u)
                            /\ M!Queued(u) => u # t
  BY <1>2 DEF M!Queued, Joining
<1>4. MCSQueue(q, lo, hi)'
  <2>1. \A i \in lo .. hi : /\ q[i] \in MCSThreads /\ M!Queued(q[i]) /\ m_pc'[q[i]] = m_pc[q[i]]
                            /\ m_next'[q[i]] = m_next[q[i]]
                            /\ Joining(q[i])' <=> Joining(q[i])
    BY <1>0, <1>2, <1>3 DEF MCSQueue
  <2>2. \A i \in lo .. hi : i > lo => i - 1 \in lo .. hi
    OBVIOUS
  <2>3. lo <= hi => lo \in lo .. hi /\ hi \in lo .. hi
    OBVIOUS
  <2>4. \A i \in lo .. hi : i > lo =>
           /\ Joining(q[i])' \/ (m_pc'[q[i]] = "spin" /\ m_locked'[q[i]])
           /\ m_pc'[q[i]] = "link" => m_locked'[q[i]]
           /\ IF Joining(q[i])' THEN m_prev'[q[i]] = q[i - 1] /\ m_next'[q[i - 1]] = NULL
              ELSE m_next'[q[i - 1]] = q[i]
           /\ m_pc'[q[i]] = "markTail" => \E j \in lo .. hi : j >= i /\ m_seen'[q[i]] = q[j]
    BY <1>0, <1>2, <2>1, <2>2 DEF MCSQueue
  <2>5. \A i \in lo .. hi : M!Queued(q[i])'
    BY <1>3, <2>1
  <2> QED
    BY <1>0, <1>2, <1>3, <2>1, <2>3, <2>4, <2>5 DEF MCSQueue
<1> QED
  BY <1>0, <1>1, <1>4 DEF MCSIInv, M!ConstantsAssumption

(* The first thread of the queue enters, or looks for the next one.         *)
LEMMA FirstStep ==
  ASSUME NEW t \in MCSThreads, MCSIInv,
         M!Acquire(t) \/ M!FindSuccessor(t) \/ M!FindNone(t) \/ M!FreeFails(t) \/ M!StopWaiting(t)
  PROVE  MCSIInv'
<1> M!TypeOK /\ M!IdleNodeIsUnlocked /\ NULL \notin MCSThreads
  BY DEF MCSIInv, M!ConstantsAssumption
<1>0. PICK q \in [Nat -> MCSThreads \cup {NULL}], lo \in Nat \ {0}, hi \in Nat : MCSQueue(q, lo, hi)
  BY DEF MCSIInv
<1>1. M!TypeOK' /\ M!IdleNodeIsUnlocked' /\ \A u \in MCSThreads : m_pc'[u] = "swap" => m_next'[u] = NULL
  BY DEF MCSIInv, M!Acquire, M!FindSuccessor, M!FindNone, M!FreeFails, M!StopWaiting, M!Goto, M!TypeOK,
         M!IdleNodeIsUnlocked
<1>2. /\ m_pc'[t] \in {"inside", "cas", "wait", "pass"}
      /\ M!Owns(t) \/ (m_pc[t] = "spin" /\ ~m_locked[t])
      /\ \A u \in MCSThreads \ {t} : m_pc'[u] = m_pc[u]
      /\ UNCHANGED <<m_tail, m_locked, m_next, m_prev, m_seen>>
  BY DEF M!Acquire, M!FindSuccessor, M!FindNone, M!FreeFails, M!StopWaiting, M!Goto, M!TypeOK, M!Owns
<1>3. \A u \in MCSThreads : (M!Queued(u)' <=> M!Queued(u)) /\ (Joining(u)' <=> Joining(u))
  BY <1>2 DEF M!Queued, Joining, M!Owns
<1>4. lo <= hi /\ t = q[lo]
  BY <1>0, <1>2, Positions
<1>5. MCSQueue(q, lo, hi)'
  <2>1. \A i \in lo .. hi : i > lo => q[i] # t /\ i - 1 \in lo .. hi
    BY <1>0, <1>4 DEF MCSQueue
  <2>2. \A i \in lo .. hi : /\ q[i] \in MCSThreads /\ M!Queued(q[i])'
                            /\ Joining(q[i])' <=> Joining(q[i])
                            /\ i > lo => m_pc'[q[i]] = m_pc[q[i]]
    BY <1>0, <1>2, <1>3, <2>1 DEF MCSQueue
  <2>3. lo \in lo .. hi
    BY <1>4
  <2>4. \A i \in lo .. hi : i > lo =>
           /\ Joining(q[i])' \/ (m_pc'[q[i]] = "spin" /\ m_locked'[q[i]])
           /\ m_pc'[q[i]] = "link" => m_locked'[q[i]]
           /\ IF Joining(q[i])' THEN m_prev'[q[i]] = q[i - 1] /\ m_next'[q[i - 1]] = NULL
              ELSE m_next'[q[i - 1]] = q[i]
           /\ m_pc'[q[i]] = "markTail" => \E j \in lo .. hi : j >= i /\ m_seen'[q[i]] = q[j]
    BY <1>0, <1>2, <2>1, <2>2 DEF MCSQueue
  <2> QED
    BY <1>0, <1>2, <1>3, <1>4, <2>2, <2>3, <2>4 DEF MCSQueue
<1> QED
  BY <1>0, <1>1, <1>5 DEF MCSIInv, M!ConstantsAssumption

(* A thread marks the tail, which is not ahead of it, and its own node.     *)
LEMMA MarkStep ==
  ASSUME NEW t \in MCSThreads, MCSIInv, M!ReadTail(t) \/ M!MarkTail(t) \/ M!MarkOwn(t)
  PROVE  MCSIInv'
<1> M!TypeOK /\ M!IdleNodeIsUnlocked /\ NULL \notin MCSThreads
  BY DEF MCSIInv, M!ConstantsAssumption
<1>0. PICK q \in [Nat -> MCSThreads \cup {NULL}], lo \in Nat \ {0}, hi \in Nat : MCSQueue(q, lo, hi)
  BY DEF MCSIInv
<1>1. Joining(t) /\ M!Queued(t)
  BY DEF M!ReadTail, M!MarkTail, M!MarkOwn, M!Goto, Joining, M!Queued
<1>2. PICK k \in lo .. hi : k > lo /\ t = q[k]
  BY <1>0, <1>1, Positions
<1>3. m_pc[t] = "markTail" => \E j \in lo .. hi : j >= k /\ m_seen[t] = q[j]
  BY <1>0, <1>2 DEF MCSQueue
<1>4. /\ m_pc'[t] \in {"markTail", "markOwn", "link"}
      /\ m_pc'[t] = "link" => m_locked'[t]
      /\ m_pc'[t] = "markTail" => m_seen'[t] = m_tail
      /\ \A u \in MCSThreads \ {t} : m_pc'[u] = m_pc[u] /\ m_seen'[u] = m_seen[u]
      /\ UNCHANGED <<m_tail, m_next, m_prev>>
  BY DEF M!ReadTail, M!MarkTail, M!MarkOwn, M!Goto, M!TypeOK
<1>5. \A u \in MCSThreads : m_locked[u] => m_locked'[u]
  BY DEF M!ReadTail, M!MarkTail, M!MarkOwn, M!TypeOK
<1>6. \A u \in MCSThreads : m_locked'[u] # m_locked[u] => \E j \in lo .. hi : j > lo /\ u = q[j]
  BY <1>2, <1>3 DEF M!ReadTail, M!MarkTail, M!MarkOwn, M!Goto, M!TypeOK
<1>7. \A u \in MCSThreads : (M!Queued(u)' <=> M!Queued(u)) /\ (Joining(u)' <=> Joining(u))
  BY <1>1, <1>4 DEF M!Queued, Joining
<1>8. M!TypeOK'
  <2>1. m_tail \in MCSThreads /\ m_prev[t] \in MCSThreads
    <3>1. k - 1 \in lo .. hi
      BY <1>2
    <3> QED
      BY <3>1, <1>0, <1>1, <1>2 DEF MCSQueue
  <2>2. CASE M!ReadTail(t)
    BY <2>1, <2>2 DEF M!ReadTail, M!Goto, M!TypeOK
  <2>3. CASE M!MarkTail(t)
    BY <2>3 DEF M!MarkTail, M!Goto, M!TypeOK
  <2>4. CASE M!MarkOwn(t)
    BY <2>1, <2>4 DEF M!MarkOwn, M!Goto, M!TypeOK
  <2> QED
    BY <2>2, <2>3, <2>4
<1>9. M!IdleNodeIsUnlocked'
  <2>1. \A u \in MCSThreads : ~M!Queued(u) => m_locked'[u] = m_locked[u]
    BY <1>0, <1>6 DEF MCSQueue
  <2>2. \A u \in MCSThreads : m_pc'[u] \in {"out", "swap", "clear"} => ~M!Queued(u) /\ m_pc'[u] = m_pc[u]
    BY <1>4, <1>7 DEF M!Queued
  <2> QED
    BY <2>1, <2>2 DEF M!IdleNodeIsUnlocked
<1>10. \A u \in MCSThreads : m_pc'[u] = "swap" => m_next'[u] = NULL
  BY <1>4 DEF MCSIInv
<1>11. MCSQueue(q, lo, hi)'
  <2>1. \A i \in lo .. hi : /\ q[i] \in MCSThreads /\ M!Queued(q[i])'
                            /\ Joining(q[i])' <=> Joining(q[i])
                            /\ i # k => m_pc'[q[i]] = m_pc[q[i]] /\ m_seen'[q[i]] = m_seen[q[i]]
                            /\ m_locked[q[i]] => m_locked'[q[i]]
                            /\ i > lo => i - 1 \in lo .. hi
    BY <1>0, <1>2, <1>4, <1>5, <1>7 DEF MCSQueue
  <2>2. m_pc'[t] = "markTail" => hi \in lo .. hi /\ hi >= k /\ m_seen'[t] = q[hi]
    BY <1>0, <1>2, <1>4 DEF MCSQueue
  <2>3. lo \in lo .. hi /\ ~m_locked'[q[lo]] /\ ~Joining(q[lo])'
    BY <1>0, <1>2, <1>6, <2>1 DEF MCSQueue
  <2>4. \A i \in lo .. hi : i > lo =>
           /\ Joining(q[i])' \/ (m_pc'[q[i]] = "spin" /\ m_locked'[q[i]])
           /\ m_pc'[q[i]] = "link" => m_locked'[q[i]]
           /\ IF Joining(q[i])' THEN m_prev'[q[i]] = q[i - 1] /\ m_next'[q[i - 1]] = NULL
              ELSE m_next'[q[i - 1]] = q[i]
           /\ m_pc'[q[i]] = "markTail" => \E j \in lo .. hi : j >= i /\ m_seen'[q[i]] = q[j]
    <3> SUFFICES ASSUME NEW i \in lo .. hi, i > lo
                 PROVE  /\ Joining(q[i])' \/ (m_pc'[q[i]] = "spin" /\ m_locked'[q[i]])
                        /\ m_pc'[q[i]] = "link" => m_locked'[q[i]]
                        /\ IF Joining(q[i])' THEN m_prev'[q[i]] = q[i - 1] /\ m_next'[q[i - 1]] = NULL
                           ELSE m_next'[q[i - 1]] = q[i]
                        /\ m_pc'[q[i]] = "markTail" => \E j \in lo .. hi : j >= i /\ m_seen'[q[i]] = q[j]
      OBVIOUS
    <3>1. CASE i = k
      BY <3>1, <1>0, <1>1, <1>2, <1>4, <2>1, <2>2 DEF MCSQueue
    <3>2. CASE i # k
      BY <3>2, <1>0, <1>4, <2>1 DEF MCSQueue
    <3> QED
      BY <3>1, <3>2
  <2> QED
    BY <1>0, <1>4, <1>7, <2>1, <2>3, <2>4 DEF MCSQueue
<1> QED
  BY <1>0, <1>8, <1>9, <1>10, <1>11 DEF MCSIInv, M!ConstantsAssumption

(* The late thread is linked where the queue has it already.                *)
LEMMA LinkStep ==
  ASSUME NEW t \in MCSThreads, MCSIInv, M!Link(t)
  PROVE  MCSIInv'
<1> M!TypeOK /\ M!IdleNodeIsUnlocked /\ NULL \notin MCSThreads
  BY DEF MCSIInv, M!ConstantsAssumption
<1>0. PICK q \in [Nat -> MCSThreads \cup {NULL}], lo \in Nat \ {0}, hi \in Nat : MCSQueue(q, lo, hi)
  BY DEF MCSIInv
<1>1. /\ m_pc[t] = "link" /\ m_pc'[t] = "spin"
      /\ \A u \in MCSThreads \ {t} : m_pc'[u] = m_pc[u] /\ m_prev'[u] = m_prev[u]
      /\ m_next' = [m_next EXCEPT ![m_prev[t]] = t] /\ UNCHANGED <<m_tail, m_locked, m_seen>>
  BY DEF M!Link, M!Goto, M!TypeOK
<1>2. PICK k \in lo .. hi : k > lo /\ t = q[k]
  BY <1>0, <1>1, Positions DEF Joining
<1>3. k - 1 \in lo .. hi /\ m_prev[t] = q[k - 1] /\ q[k - 1] \in MCSThreads /\ M!Queued(q[k - 1])
  BY <1>0, <1>1, <1>2 DEF MCSQueue, Joining
<1>4. \A u \in MCSThreads : /\ M!Queued(u)' <=> M!Queued(u)
                            /\ Joining(u)' <=> Joining(u) /\ u # t
  BY <1>1 DEF M!Queued, Joining
<1>5. M!TypeOK' /\ M!IdleNodeIsUnlocked'
  BY DEF M!Link, M!Goto, M!TypeOK, M!IdleNodeIsUnlocked
<1>6. \A u \in MCSThreads : m_pc'[u] = "swap" => m_next'[u] = NULL
  BY <1>1, <1>3 DEF MCSIInv, M!TypeOK, M!Queued
<1>7. MCSQueue(q, lo, hi)'
  <2>1. \A i \in lo .. hi : /\ q[i] \in MCSThreads /\ M!Queued(q[i])'
                            /\ m_next'[q[i]] = IF i = k - 1 THEN t ELSE m_next[q[i]]
                            /\ i # k => /\ m_pc'[q[i]] = m_pc[q[i]] /\ m_prev'[q[i]] = m_prev[q[i]]
                                        /\ Joining(q[i])' <=> Joining(q[i])
    BY <1>0, <1>1, <1>2, <1>3, <1>4 DEF MCSQueue, M!TypeOK
  <2>2. hi \in lo .. hi /\ hi # k - 1 /\ lo # k /\ lo \in lo .. hi
    BY <1>2
  <2>3. \A i \in lo .. hi : i > lo =>
           /\ Joining(q[i])' \/ (m_pc'[q[i]] = "spin" /\ m_locked'[q[i]])
           /\ m_pc'[q[i]] = "link" => m_locked'[q[i]]
           /\ IF Joining(q[i])' THEN m_prev'[q[i]] = q[i - 1] /\ m_next'[q[i - 1]] = NULL
              ELSE m_next'[q[i - 1]] = q[i]
           /\ m_pc'[q[i]] = "markTail" => \E j \in lo .. hi : j >= i /\ m_seen'[q[i]] = q[j]
    <3> SUFFICES ASSUME NEW i \in lo .. hi, i > lo
                 PROVE  /\ Joining(q[i])' \/ (m_pc'[q[i]] = "spin" /\ m_locked'[q[i]])
                        /\ m_pc'[q[i]] = "link" => m_locked'[q[i]]
                        /\ IF Joining(q[i])' THEN m_prev'[q[i]] = q[i - 1] /\ m_next'[q[i - 1]] = NULL
                           ELSE m_next'[q[i - 1]] = q[i]
                        /\ m_pc'[q[i]] = "markTail" => \E j \in lo .. hi : j >= i /\ m_seen'[q[i]] = q[j]
      OBVIOUS
    <3>1. CASE i = k
      BY <3>1, <1>0, <1>1, <1>2, <1>3, <1>4, <2>1 DEF MCSQueue
    <3>2. CASE i # k
      <4>1. i - 1 \in lo .. hi /\ i - 1 # k - 1
        BY <3>2
      <4> QED
        BY <3>2, <4>1, <1>0, <1>1, <2>1 DEF MCSQueue
    <3> QED
      BY <3>1, <3>2
  <2> QED
    BY <1>0, <1>1, <1>4, <2>1, <2>2, <2>3 DEF MCSQueue
<1> QED
  BY <1>0, <1>5, <1>6, <1>7 DEF MCSIInv, M!ConstantsAssumption


(* A thread joins the queue at its end. *)
LEMMA MCSSwapStep ==
  ASSUME NEW t \in MCSThreads, MCSIInv, M!Swap(t)
  PROVE  MCSIInv'
<1> M!TypeOK /\ M!IdleNodeIsUnlocked /\ NULL \notin MCSThreads
  BY DEF MCSIInv, M!ConstantsAssumption
<1>0. PICK q \in [Nat -> MCSThreads \cup {NULL}], lo \in Nat \ {0}, hi \in Nat : MCSQueue(q, lo, hi)
  BY DEF MCSIInv
<1>1. /\ m_pc[t] = "swap" /\ m_pc'[t] = (IF m_tail = NULL THEN "spin" ELSE "readTail")
      /\ m_prev'[t] = m_tail /\ m_tail' = t
      /\ \A u \in MCSThreads \ {t} : m_pc'[u] = m_pc[u] /\ m_prev'[u] = m_prev[u]
      /\ UNCHANGED <<m_locked, m_next, m_seen>>
  BY DEF M!Swap, M!Goto, M!TypeOK
<1>2. m_next[t] = NULL /\ ~m_locked[t]
  BY <1>1 DEF MCSIInv, M!IdleNodeIsUnlocked
<1>3. M!TypeOK' /\ M!IdleNodeIsUnlocked' /\ \A u \in MCSThreads : m_pc'[u] = "swap" => m_next'[u] = NULL
  BY DEF MCSIInv, M!Swap, M!Goto, M!TypeOK, M!IdleNodeIsUnlocked
<1>4. PICK r : r = [q EXCEPT ![hi + 1] = t]
  OBVIOUS
<1>5. \A u \in MCSThreads \ {t} : (M!Queued(u)' <=> M!Queued(u)) /\ (Joining(u)' <=> Joining(u))
  BY <1>1 DEF M!Queued, Joining
<1>6. ~M!Queued(t) /\ M!Queued(t)' /\ (Joining(t)' <=> m_tail # NULL)
  BY <1>1 DEF M!Queued, Joining
<1>7. m_tail = NULL => lo = hi + 1
  BY <1>0 DEF MCSQueue
<1>8. m_tail # NULL => hi \in lo .. hi /\ m_tail = q[hi] /\ m_next[q[hi]] = NULL
  BY <1>0 DEF MCSQueue
<1>9. MCSQueue(r, lo, hi + 1)'
  <2>1. /\ r \in [Nat -> MCSThreads \cup {NULL}] /\ r[hi + 1] = t /\ lo <= hi + 1
        /\ \A i \in lo .. hi : r[i] = q[i]
    BY <1>0, <1>4 DEF MCSQueue
  <2>2. \A i \in lo .. hi + 1 : i # hi + 1 => i \in lo .. hi
    OBVIOUS
  <2>3. \A i \in lo .. hi : /\ q[i] \in MCSThreads /\ q[i] # t
                            /\ M!Queued(q[i])' /\ (Joining(q[i])' <=> Joining(q[i]))
                            /\ m_pc'[q[i]] = m_pc[q[i]] /\ m_prev'[q[i]] = m_prev[q[i]]
    BY <1>0, <1>1, <1>5, <1>6 DEF MCSQueue
  <2>4. \A i \in lo .. hi + 1 : r[i] \in MCSThreads /\ M!Queued(r[i])'
    <3> SUFFICES ASSUME NEW i \in lo .. hi + 1 PROVE r[i] \in MCSThreads /\ M!Queued(r[i])'
      OBVIOUS
    <3>1. CASE i = hi + 1
      BY <3>1, <2>1, <1>6
    <3>2. CASE i # hi + 1
      BY <3>2, <2>1, <2>2, <2>3
    <3> QED
      BY <3>1, <3>2
  <2>5. \A i, j \in lo .. hi + 1 : r[i] = r[j] => i = j
    BY <1>0, <2>1, <2>2, <2>3 DEF MCSQueue
  <2>6. \A u \in MCSThreads : M!Queued(u)' => \E i \in lo .. hi + 1 : r[i] = u
    <3>1. hi + 1 \in lo .. hi + 1 /\ \A i \in lo .. hi : i \in lo .. hi + 1
      BY <2>1
    <3> QED
      BY <1>0, <1>5, <2>1, <3>1 DEF MCSQueue
  <2>7. ~Joining(r[lo])' /\ ~m_locked'[r[lo]]
    <3>1. CASE m_tail = NULL
      BY <3>1, <1>1, <1>2, <1>6, <1>7, <2>1
    <3>2. CASE m_tail # NULL
      <4>1. lo \in lo .. hi /\ r[lo] = q[lo]
        BY <3>2, <1>8, <2>1
      <4> QED
        BY <4>1, <1>0, <1>1, <2>3 DEF MCSQueue
    <3> QED
      BY <3>1, <3>2
  <2>8. \A i \in lo .. hi + 1 : i > lo =>
           /\ Joining(r[i])' \/ (m_pc'[r[i]] = "spin" /\ m_locked'[r[i]])
           /\ m_pc'[r[i]] = "link" => m_locked'[r[i]]
           /\ IF Joining(r[i])' THEN m_prev'[r[i]] = r[i - 1] /\ m_next'[r[i - 1]] = NULL
              ELSE m_next'[r[i - 1]] = r[i]
           /\ m_pc'[r[i]] = "markTail" => \E j \in lo .. hi + 1 : j >= i /\ m_seen'[r[i]] = r[j]
    <3> SUFFICES ASSUME NEW i \in lo .. hi + 1, i > lo
                 PROVE  /\ Joining(r[i])' \/ (m_pc'[r[i]] = "spin" /\ m_locked'[r[i]])
                        /\ m_pc'[r[i]] = "link" => m_locked'[r[i]]
                        /\ IF Joining(r[i])' THEN m_prev'[r[i]] = r[i - 1] /\ m_next'[r[i - 1]] = NULL
                           ELSE m_next'[r[i - 1]] = r[i]
                        /\ m_pc'[r[i]] = "markTail" =>
                             \E j \in lo .. hi + 1 : j >= i /\ m_seen'[r[i]] = r[j]
      OBVIOUS
    <3>1. CASE i = hi + 1
      <4>1. m_tail # NULL /\ i - 1 = hi /\ r[i] = t /\ r[i - 1] = q[hi]
        BY <3>1, <1>7, <1>8, <2>1
      <4>2. Joining(t)' /\ m_pc'[t] = "readTail" /\ m_prev'[t] = q[hi] /\ m_next'[q[hi]] = NULL
        BY <4>1, <1>1, <1>6, <1>8
      <4>3. Joining(r[i])' <=> Joining(t)'
        BY <4>1
      <4> QED
        BY <4>1, <4>2, <4>3
    <3>2. CASE i # hi + 1
      <4>1. /\ i \in lo .. hi /\ i - 1 \in lo .. hi /\ r[i] = q[i] /\ r[i - 1] = q[i - 1]
            /\ \A j \in lo .. hi : j \in lo .. hi + 1 /\ r[j] = q[j]
        BY <3>2, <2>1
      <4>2. Joining(r[i])' <=> Joining(q[i])'
        BY <4>1
      <4> QED
        BY <4>1, <4>2, <1>0, <1>1, <2>3 DEF MCSQueue
    <3> QED
      BY <3>1, <3>2
  <2>9. hi + 1 \in Nat /\ lo <= hi + 1 + 1
    BY <2>1
  <2> QED
    BY <1>1, <1>2, <2>1, <2>4, <2>5, <2>6, <2>7, <2>8, <2>9 DEF MCSQueue
<1> QED
  <2>1. r \in [Nat -> MCSThreads \cup {NULL}] /\ hi + 1 \in Nat
    BY <1>4
  <2> QED
    BY <2>1, <1>3, <1>9 DEF MCSIInv, M!ConstantsAssumption

(* The first thread leaves: it frees the lock, or lets the next one in.      *)
LEMMA LeaveStep ==
  ASSUME NEW t \in MCSThreads, MCSIInv, M!Free(t) \/ M!Pass(t)
  PROVE  MCSIInv'
<1> M!TypeOK /\ M!IdleNodeIsUnlocked /\ NULL \notin MCSThreads
  BY DEF MCSIInv, M!ConstantsAssumption
<1>0. PICK q \in [Nat -> MCSThreads \cup {NULL}], lo \in Nat \ {0}, hi \in Nat : MCSQueue(q, lo, hi)
  BY DEF MCSIInv
<1>1. /\ m_pc[t] \in {"cas", "pass"} /\ m_pc'[t] \in {"out", "clear"}
      /\ \A u \in MCSThreads \ {t} : m_pc'[u] = m_pc[u]
      /\ UNCHANGED <<m_next, m_prev, m_seen>>
  BY DEF M!Free, M!Pass, M!Goto, M!TypeOK
<1>2. lo <= hi /\ t = q[lo]
  BY <1>0, <1>1, Positions DEF M!Owns
<1>3. lo \in lo .. hi /\ ~m_locked[t] /\ \A i \in lo + 1 .. hi : i \in lo .. hi /\ i > lo /\ q[i] # t
  BY <1>0, <1>2 DEF MCSQueue
<1>4. \A u \in MCSThreads \ {t} : (M!Queued(u)' <=> M!Queued(u)) /\ (Joining(u)' <=> Joining(u))
  BY <1>1 DEF M!Queued, Joining
<1>5. ~M!Queued(t)'
  BY <1>1 DEF M!Queued
<1>6. IF lo = hi THEN m_tail' = NULL /\ m_locked' = m_locked
      ELSE /\ m_tail' = m_tail
           /\ m_locked' = [m_locked EXCEPT ![q[lo + 1]] = FALSE]
           /\ ~Joining(q[lo + 1]) /\ m_next[t] = q[lo + 1]
  <2>1. CASE lo = hi
    <3>1. m_next[t] = NULL
      BY <1>0, <1>2, <2>1 DEF MCSQueue
    <3>2. ~M!Pass(t)
      BY <3>1 DEF M!Pass, M!Goto, M!TypeOK
    <3> QED
      BY <2>1, <3>2 DEF M!Free
  <2>2. CASE lo # hi
    <3>1. lo + 1 \in lo .. hi /\ hi \in lo .. hi /\ (lo + 1) - 1 = lo /\ lo + 1 > lo
      BY <1>2, <2>2
    <3>2. m_tail # t
      BY <1>0, <1>2, <2>2, <3>1 DEF MCSQueue
    <3>3. M!Pass(t)
      BY <3>2 DEF M!Free
    <3>4. m_next[t] # NULL
      BY <3>3 DEF M!Pass, M!Goto, M!TypeOK
    <3>5. ~Joining(q[lo + 1]) /\ m_next[t] = q[lo + 1]
      BY <1>0, <1>2, <3>1, <3>4 DEF MCSQueue
    <3> QED
      BY <2>2, <3>3, <3>5 DEF M!Pass
  <2> QED
    BY <2>1, <2>2
<1>7. M!IdleNodeIsUnlocked'
  BY <1>3 DEF M!Free, M!Pass, M!Goto, M!TypeOK, M!IdleNodeIsUnlocked
<1>8. \A u \in MCSThreads : m_pc'[u] = "swap" => m_next'[u] = NULL
  BY <1>1 DEF MCSIInv
<1>9. MCSQueue(q, lo + 1, hi)'
  <2>1. \A i \in lo + 1 .. hi : /\ q[i] \in MCSThreads /\ M!Queued(q[i])' /\ m_pc'[q[i]] = m_pc[q[i]]
                                /\ Joining(q[i])' <=> Joining(q[i])
    BY <1>0, <1>1, <1>3, <1>4 DEF MCSQueue
  <2>2. \A u \in MCSThreads : M!Queued(u)' => \E i \in lo + 1 .. hi : q[i] = u
    <3>1. \A i \in lo .. hi : i = lo \/ i \in lo + 1 .. hi
      OBVIOUS
    <3> QED
      BY <1>0, <1>2, <1>4, <1>5, <3>1 DEF MCSQueue
  <2>3. \A i \in lo + 1 .. hi : i > lo + 1 => /\ i - 1 \in lo + 1 .. hi
                                             /\ m_locked'[q[i]] = m_locked[q[i]]
    <3> SUFFICES ASSUME NEW i \in lo + 1 .. hi, i > lo + 1
                 PROVE  i - 1 \in lo + 1 .. hi /\ m_locked'[q[i]] = m_locked[q[i]]
      OBVIOUS
    <3>1. lo # hi /\ i \in lo .. hi /\ lo + 1 \in lo .. hi /\ i # lo + 1
      OBVIOUS
    <3>2. q[i] # q[lo + 1] /\ q[i] \in MCSThreads
      BY <1>0, <3>1 DEF MCSQueue
    <3> QED
      BY <1>6, <3>1, <3>2 DEF M!TypeOK
  <2>4. \A i \in lo + 1 .. hi :
          m_pc[q[i]] = "markTail" => \E j \in lo + 1 .. hi : j >= i /\ m_seen'[q[i]] = q[j]
    <3> SUFFICES ASSUME NEW i \in lo + 1 .. hi, m_pc[q[i]] = "markTail"
                 PROVE  \E j \in lo + 1 .. hi : j >= i /\ m_seen'[q[i]] = q[j]
      OBVIOUS
    <3>1. PICK j \in lo .. hi : j >= i /\ m_seen[q[i]] = q[j]
      BY <1>0, <1>3 DEF MCSQueue
    <3>2. j \in lo + 1 .. hi
      BY <3>1
    <3> QED
      BY <1>1, <3>1, <3>2
  <2>5. \A i \in lo + 1 .. hi : i > lo + 1 =>
           /\ Joining(q[i])' \/ (m_pc'[q[i]] = "spin" /\ m_locked'[q[i]])
           /\ m_pc'[q[i]] = "link" => m_locked'[q[i]]
           /\ IF Joining(q[i])' THEN m_prev'[q[i]] = q[i - 1] /\ m_next'[q[i - 1]] = NULL
              ELSE m_next'[q[i - 1]] = q[i]
           /\ m_pc'[q[i]] = "markTail" => \E j \in lo + 1 .. hi : j >= i /\ m_seen'[q[i]] = q[j]
    <3> SUFFICES ASSUME NEW i \in lo + 1 .. hi, i > lo + 1
                 PROVE  /\ Joining(q[i])' \/ (m_pc'[q[i]] = "spin" /\ m_locked'[q[i]])
                        /\ m_pc'[q[i]] = "link" => m_locked'[q[i]]
                        /\ IF Joining(q[i])' THEN m_prev'[q[i]] = q[i - 1] /\ m_next'[q[i - 1]] = NULL
                           ELSE m_next'[q[i - 1]] = q[i]
                        /\ m_pc'[q[i]] = "markTail" =>
                             \E j \in lo + 1 .. hi : j >= i /\ m_seen'[q[i]] = q[j]
      BY Zenon
    <3>1. i \in lo .. hi /\ i > lo
      OBVIOUS
    <3>2. /\ m_pc'[q[i]] = m_pc[q[i]] /\ m_locked'[q[i]] = m_locked[q[i]]
          /\ Joining(q[i])' <=> Joining(q[i])
      BY <2>1, <2>3
    <3> QED
      BY <1>0, <1>1, <2>4, <3>1, <3>2 DEF MCSQueue
  <2>6. lo + 1 <= hi => ~Joining(q[lo + 1])' /\ ~m_locked'[q[lo + 1]]
    <3> SUFFICES ASSUME lo + 1 <= hi PROVE ~Joining(q[lo + 1])' /\ ~m_locked'[q[lo + 1]]
      OBVIOUS
    <3>1. lo # hi /\ lo + 1 \in lo + 1 .. hi
      OBVIOUS
    <3> QED
      BY <3>1, <1>6, <2>1 DEF M!TypeOK
  <2>7. /\ m_tail' = (IF lo + 1 > hi THEN NULL ELSE q[hi])
        /\ lo + 1 <= hi => m_next'[q[hi]] = NULL
    BY <1>0, <1>1, <1>2, <1>6 DEF MCSQueue
  <2>8. /\ lo + 1 \in Nat \ {0} /\ lo + 1 <= hi + 1
        /\ \A i, j \in lo + 1 .. hi : q[i] = q[j] => i = j
    BY <1>0, <1>2, <1>3 DEF MCSQueue
  <2> QED
    BY <2>1, <2>2, <2>5, <2>6, <2>7, <2>8 DEF MCSQueue
<1>10. M!TypeOK'
  <2>1. \A u \in MCSThreads : m_pc'[u] = "readTail" => m_tail' # NULL
    BY <1>9 DEF MCSQueue, M!Queued
  <2> QED
    BY <2>1 DEF M!Free, M!Pass, M!Goto, M!TypeOK
<1> QED
  <2>1. lo + 1 \in Nat \ {0}
    OBVIOUS
  <2> QED
    BY <2>1, <1>7, <1>8, <1>9, <1>10 DEF MCSIInv, M!ConstantsAssumption

LEMMA MCSStutterStep ==
  ASSUME MCSIInv, UNCHANGED M!vars
  PROVE  MCSIInv'
<1> USE DEF M!vars
<1>1. PICK q \in [Nat -> MCSThreads \cup {NULL}], lo \in Nat \ {0}, hi \in Nat : MCSQueue(q, lo, hi)
  BY DEF MCSIInv
<1>2. M!TypeOK' /\ M!IdleNodeIsUnlocked' /\ \A u \in MCSThreads : m_pc'[u] = "swap" => m_next'[u] = NULL
  BY DEF MCSIInv, M!TypeOK, M!IdleNodeIsUnlocked
<1>3. MCSQueue(q, lo, hi)'
  BY <1>1 DEF MCSQueue, M!Queued, Joining
<1> QED
  BY <1>1, <1>2, <1>3 DEF MCSIInv, M!ConstantsAssumption

LEMMA MCSNextIInv == MCSIInv /\ [M!Next]_(M!vars) => MCSIInv'
<1> SUFFICES ASSUME MCSIInv, [M!Next]_(M!vars) PROVE MCSIInv'
  OBVIOUS
<1>1. ASSUME NEW t \in MCSThreads, M!Prepare(t) \/ M!Lock(t) PROVE MCSIInv'
  BY <1>1, OutsideStep, MCSSwapStep, MarkStep, LinkStep, FirstStep DEF M!Lock
<1>2. ASSUME NEW t \in MCSThreads, M!Unlock(t) PROVE MCSIInv'
  BY <1>2, OutsideStep, FirstStep, LeaveStep DEF M!Unlock
<1>3. CASE UNCHANGED M!vars
  BY <1>3, MCSStutterStep
<1> QED
  BY <1>1, <1>2, <1>3 DEF M!Next

LEMMA MCSIInvCorrect == M!Spec => []MCSIInv
<1>1. M!Init => MCSIInv
  BY MCSInitIInv, MCSAssumption
<1> QED
  BY <1>1, MCSNextIInv, PTL DEF M!Spec

(* MCSLock never lets two threads in. *)
THEOREM MCSMutualExclusionHolds == M!Spec => []MCSMutualExclusion
<1>1. ASSUME MCSIInv, NEW t \in MCSThreads, NEW u \in MCSThreads, M!Owns(t), M!Owns(u)
      PROVE  t = u
  <2>1. PICK q \in [Nat -> MCSThreads \cup {NULL}], lo \in Nat \ {0}, hi \in Nat : MCSQueue(q, lo, hi)
    BY <1>1 DEF MCSIInv
  <2> QED
    BY <1>1, <2>1, Positions
<1>2. MCSIInv => MCSMutualExclusion
  BY <1>1 DEF MCSMutualExclusion
<1> QED
  BY <1>2, MCSIInvCorrect, PTL

(* The type of the state is as stated: no pointer that MCSLock or MCSUnlock *)
(* follows is NULL. And although a thread marks whichever node is the tail, *)
(* the node of a thread that is about to lock is unlocked: nobody spins     *)
(* without a predecessor.                                                   *)
THEOREM IdleMCSNodeIsUnlockedHolds == M!Spec => []IdleMCSNodeIsUnlocked
<1>1. MCSIInv => IdleMCSNodeIsUnlocked
  BY DEF MCSIInv, IdleMCSNodeIsUnlocked
<1> QED
  BY <1>1, MCSIInvCorrect, PTL

-----------------------------------------------------------------------------
(* The order of the MCS queue, read off prev before a thread has told its   *)
(* predecessor and off next afterwards.                                     *)
MCSLine(s) ==
  /\ s \in Seq(MCSThreads)
  /\ \A i \in 1 .. Len(s) : M!Queued(s[i])
  /\ \A t \in MCSThreads : M!Queued(t) => \E i \in 1 .. Len(s) : s[i] = t
  /\ \A i, j \in 1 .. Len(s) : s[i] = s[j] => i = j
  /\ \A i \in 2 .. Len(s) : M!Ahead(s[i - 1], s[i])

(* The local prev is dead outside its use. *)
DeadPrev == \A t \in MCSThreads : m_prev[t] # NULL => Joining(t)

(* What the queue of the invariant says of Order, where no other sequence   *)
(* is a line.                                                               *)
MCSOrderFacts ==
  /\ MCSLine(M!Order)
  /\ \A s \in Seq(MCSThreads) : MCSLine(s) => M!Order = s
  /\ \A i, j \in 1 .. Len(M!Order) : M!Ahead(M!Order[i], M!Order[j]) => j = i + 1
  /\ Len(M!Order) = 0 => m_tail = NULL
  /\ Len(M!Order) # 0 => m_tail = M!Order[Len(M!Order)]
  /\ \A t \in MCSThreads :
       M!Owns(t) \/ (m_pc[t] = "spin" /\ ~m_locked[t]) => Len(M!Order) # 0 /\ M!Order[1] = t

(* Of two threads in the queue, one is ahead of the other if it is just     *)
(* ahead.                                                                   *)
LEMMA AheadInQueue ==
  ASSUME MCSIInv, DeadPrev, NEW q, NEW lo \in Nat \ {0}, NEW hi \in Nat, MCSQueue(q, lo, hi),
         NEW i \in lo .. hi, NEW j \in lo .. hi
  PROVE  M!Ahead(q[i], q[j]) <=> j = i + 1
<1> NULL \notin MCSThreads
  BY DEF MCSIInv, M!ConstantsAssumption
<1>1. q[i] \in MCSThreads /\ q[j] \in MCSThreads /\ M!Queued(q[i])
  BY DEF MCSQueue
<1>2. ASSUME m_prev[q[j]] = q[i] PROVE j = i + 1
  <2>1. Joining(q[j])
    BY <1>1, <1>2 DEF DeadPrev
  <2>2. j > lo
    BY <2>1 DEF MCSQueue
  <2>3. q[i] = q[j - 1] /\ j - 1 \in lo .. hi
    BY <1>2, <2>1, <2>2 DEF MCSQueue
  <2>4. i = j - 1
    BY <2>3 DEF MCSQueue
  <2> QED
    BY <2>4
<1>3. ASSUME m_next[q[i]] = q[j] PROVE j = i + 1
  <2>1. i # hi
    BY <1>1, <1>3 DEF MCSQueue
  <2>2. i + 1 \in lo .. hi /\ i + 1 > lo /\ (i + 1) - 1 = i
    BY <2>1
  <2>3. m_next[q[i]] = q[i + 1]
    BY <1>1, <1>3, <2>2 DEF MCSQueue
  <2>4. \A k, l \in lo .. hi : q[k] = q[l] => k = l
    BY DEF MCSQueue
  <2> QED
    BY <1>3, <2>2, <2>3, <2>4
<1>4. ASSUME j = i + 1 PROVE m_prev[q[j]] = q[i] \/ m_next[q[i]] = q[j]
  <2>1. j > lo /\ j - 1 = i
    BY <1>4
  <2> QED
    BY <2>1 DEF MCSQueue
<1> QED
  BY <1>1, <1>2, <1>3, <1>4 DEF M!Ahead

LEMMA MCSOrderIs == MCSIInv /\ DeadPrev => MCSOrderFacts
<1> SUFFICES ASSUME MCSIInv, DeadPrev PROVE MCSOrderFacts
  OBVIOUS
<1>1. PICK q \in [Nat -> MCSThreads \cup {NULL}], lo \in Nat \ {0}, hi \in Nat : MCSQueue(q, lo, hi)
  BY DEF MCSIInv
<1> DEFINE n == hi - lo + 1
<1> DEFINE s == [i \in 1 .. n |-> q[lo + i - 1]]
<1>2. n \in Nat /\ \A i \in 1 .. n : lo + i - 1 \in lo .. hi
  BY <1>1 DEF MCSQueue
<1>3. \A i \in lo .. hi : i - lo + 1 \in 1 .. n /\ lo + (i - lo + 1) - 1 = i
  OBVIOUS
<1>4. \A i \in 1 .. n : s[i] = q[lo + i - 1] /\ s[i] \in MCSThreads /\ M!Queued(s[i])
  BY <1>1, <1>2 DEF MCSQueue
<1>5. s \in Seq(MCSThreads) /\ Len(s) = n
  BY <1>2, <1>4
<1>6. \A i, j \in 1 .. n : s[i] = s[j] => i = j
  <2> SUFFICES ASSUME NEW i \in 1 .. n, NEW j \in 1 .. n, s[i] = s[j] PROVE i = j
    OBVIOUS
  <2>1. lo + i - 1 = lo + j - 1
    BY <1>1, <1>2, <1>4 DEF MCSQueue
  <2> QED
    BY <1>2, <2>1
<1>7. \A i, j \in 1 .. n : M!Ahead(s[i], s[j]) <=> j = i + 1
  <2> SUFFICES ASSUME NEW i \in 1 .. n, NEW j \in 1 .. n PROVE M!Ahead(s[i], s[j]) <=> j = i + 1
    OBVIOUS
  <2>1. M!Ahead(q[lo + i - 1], q[lo + j - 1]) <=> lo + j - 1 = (lo + i - 1) + 1
    BY <1>1, <1>2, AheadInQueue
  <2>2. lo + j - 1 = (lo + i - 1) + 1 <=> j = i + 1
    BY <1>2
  <2>3. s[i] = q[lo + i - 1] /\ s[j] = q[lo + j - 1]
    BY <1>4
  <2> HIDE DEF s, n
  <2> QED
    BY <2>1, <2>2, <2>3
<1>8. \A t \in MCSThreads : M!Queued(t) => \E i \in 1 .. n : s[i] = t
  <2> SUFFICES ASSUME NEW t \in MCSThreads, M!Queued(t) PROVE \E i \in 1 .. n : s[i] = t
    OBVIOUS
  <2>1. PICK i \in lo .. hi : q[i] = t
    BY <1>1 DEF MCSQueue
  <2>2. s[i - lo + 1] = t /\ i - lo + 1 \in 1 .. n
    BY <1>3, <1>4, <2>1
  <2> HIDE DEF s, n
  <2> QED
    BY <2>2
<1>9. /\ n = 0 => m_tail = NULL
      /\ n # 0 => m_tail = s[n]
  <2>1. n = 0 <=> lo > hi
    BY <1>1 DEF MCSQueue
  <2>2. n # 0 => n \in 1 .. n /\ lo + n - 1 = hi
    BY <1>2
  <2>3. n # 0 => s[n] = q[hi]
    BY <1>4, <2>2
  <2> HIDE DEF s, n
  <2> QED
    BY <1>1, <2>1, <2>3 DEF MCSQueue
<1>10. \A t \in MCSThreads :
         M!Owns(t) \/ (m_pc[t] = "spin" /\ ~m_locked[t]) => n # 0 /\ s[1] = t
  <2> SUFFICES ASSUME NEW t \in MCSThreads, M!Owns(t) \/ (m_pc[t] = "spin" /\ ~m_locked[t])
               PROVE  n # 0 /\ s[1] = t
    OBVIOUS
  <2>1. lo <= hi /\ t = q[lo]
    BY <1>1, Positions
  <2>2. n # 0 /\ 1 \in 1 .. n /\ lo + 1 - 1 = lo
    BY <2>1
  <2> QED
    BY <1>4, <2>1, <2>2
<1> DEFINE R == {p \in MCSThreads \X MCSThreads : M!Ahead(p[1], p[2])}
<1> DEFINE Q == {t \in MCSThreads : M!Queued(t)}
<1>11. \A t, u \in MCSThreads : <<t, u>> \in R <=> M!Ahead(t, u)
  OBVIOUS
<1> HIDE DEF s, n, R
<1>12. Leads(R, s, n)
  BY <1>4, <1>6, <1>7, <1>11 DEF Leads
<1>13. Members(s) = Q
  BY <1>4, <1>5, <1>8 DEF Members
<1>14. \A r \in [1 .. n -> Q] : Follows(R, r, n) <=> \A i \in 2 .. n : M!Ahead(r[i - 1], r[i])
  <2> SUFFICES ASSUME NEW r \in [1 .. n -> Q]
               PROVE  \A i \in 2 .. n : <<r[i - 1], r[i]>> \in R <=> M!Ahead(r[i - 1], r[i])
    BY DEF Follows
  <2>1. \A i \in 2 .. n : r[i] \in MCSThreads /\ r[i - 1] \in MCSThreads
    BY <1>2
  <2> QED
    BY <1>11, <2>1
<1>15. \A i \in 2 .. n : M!Ahead(s[i - 1], s[i])
  <2>1. \A i \in 2 .. n : i \in 1 .. n /\ i - 1 \in 1 .. n /\ i = (i - 1) + 1
    BY <1>2
  <2> QED
    BY <1>7, <2>1
<1> HIDE DEF Q
<1>16. /\ Cardinality(Q) = n /\ s \in [1 .. n -> Q]
       /\ \A t \in Q : \E i \in DOMAIN s : s[i] = t
       /\ \A i \in 2 .. n : M!Ahead(s[i - 1], s[i])
       /\ \A r \in [1 .. n -> Q] :
            /\ \A t \in Q : \E i \in DOMAIN r : r[i] = t
            /\ \A i \in 2 .. n : M!Ahead(r[i - 1], r[i])
            => r = s
  BY <1>5, <1>12, <1>13, <1>14, <1>15, OrderIsLine
<1>17. M!Order = CHOOSE r \in [1 .. n -> Q] :
                   /\ \A t \in Q : \E i \in DOMAIN r : r[i] = t
                   /\ \A i \in 2 .. n : M!Ahead(r[i - 1], r[i])
  <2>1. M!Cardinality(Q) = n
    BY <1>16 DEF M!Cardinality, Cardinality
  <2> QED
    BY <2>1 DEF M!Order, Q
<1>18. M!Order = s
  BY <1>16, <1>17
<1>19. MCSLine(s)
  BY <1>4, <1>5, <1>6, <1>8, <1>15 DEF MCSLine
<1>20. ASSUME NEW r \in Seq(MCSThreads), MCSLine(r) PROVE r = s
  <2> DEFINE m == Len(r)
  <2>1. Members(r) = Q
    BY <1>20 DEF MCSLine, Members, Q
  <2>2. r \in [1 .. m -> Q] /\ m \in Nat
    BY <2>1 DEF Members
  <2>3. m = n
    <3>1. r \in Bijection(1 .. m, Q)
      BY <1>20, <2>1, <2>2 DEF MCSLine, Members, Bijection, Injection, Surjection, IsInjective
    <3>2. ExistsBijection(1 .. m, Q)
      BY <3>1 DEF ExistsBijection
    <3> HIDE DEF m
    <3> QED
      BY <1>16, <2>2, <3>2, FS_CountingElements
  <2>4. \A t \in Q : \E i \in DOMAIN r : r[i] = t
    BY <1>20, <2>2 DEF MCSLine, Q
  <2>5. \A i \in 2 .. n : M!Ahead(r[i - 1], r[i])
    BY <1>20, <2>3 DEF MCSLine
  <2> HIDE DEF m
  <2> QED
    BY <1>16, <2>2, <2>3, <2>4, <2>5
<1> QED
  BY <1>5, <1>7, <1>9, <1>10, <1>18, <1>19, <1>20 DEF MCSOrderFacts

LEMMA DeadPrevStep == MCSIInv /\ DeadPrev /\ [M!Next]_(M!vars) => DeadPrev'
<1> SUFFICES ASSUME MCSIInv, DeadPrev, [M!Next]_(M!vars) PROVE DeadPrev'
  OBVIOUS
<1> USE DEF DeadPrev, Joining, M!Goto
<1> M!TypeOK
  BY DEF MCSIInv
<1>1. ASSUME NEW t \in MCSThreads, M!Prepare(t) \/ M!Lock(t) PROVE DeadPrev'
  BY <1>1 DEF M!TypeOK, M!Prepare, M!Lock, M!Swap, M!ReadTail, M!MarkTail, M!MarkOwn, M!Link, M!Acquire
<1>2. ASSUME NEW t \in MCSThreads, M!Unlock(t) PROVE DeadPrev'
  BY <1>2 DEF M!TypeOK, M!Unlock, M!FindSuccessor, M!FindNone, M!Free, M!FreeFails, M!StopWaiting,
              M!Pass, M!Clear
<1>3. CASE UNCHANGED M!vars
  BY <1>3 DEF M!vars
<1> QED
  BY <1>1, <1>2, <1>3 DEF M!Next

(* A thread joins the line at its end. *)
LEMMA MCSLineJoin ==
  ASSUME NEW t \in MCSThreads, MCSIInv, M!Swap(t), NEW q \in Seq(MCSThreads), MCSLine(q),
         Len(q) # 0 => m_tail = q[Len(q)]
  PROVE  /\ MCSLine(Append(q, t))'
         /\ \A i \in DOMAIN q : q[i] # t
<1> DEFINE n == Len(q)
<1> DEFINE r == Append(q, t)
<1>1. /\ n \in Nat /\ r \in Seq(MCSThreads) /\ Len(r) = n + 1 /\ r[n + 1] = t
      /\ \A i \in 1 .. n : r[i] = q[i] /\ q[i] \in MCSThreads /\ M!Queued(q[i])
      /\ DOMAIN q = 1 .. n
  BY DEF MCSLine
<1>2. /\ ~M!Queued(t) /\ M!Queued(t)'
      /\ \A u \in MCSThreads \ {t} : M!Queued(u)' <=> M!Queued(u)
      /\ m_next' = m_next
      /\ \A u \in MCSThreads : m_prev'[u] = IF u = t THEN m_tail ELSE m_prev[u]
  BY DEF M!Swap, M!Goto, M!Queued, MCSIInv, M!TypeOK
<1>3. \A i \in 1 .. n : q[i] # t
  BY <1>1, <1>2
<1>4. \A i \in 1 .. n + 1 : i # n + 1 => i \in 1 .. n
  BY <1>1
<1>5. \A i \in 1 .. n + 1 : M!Queued(r[i])'
  <2> SUFFICES ASSUME NEW i \in 1 .. n + 1 PROVE M!Queued(r[i])'
    OBVIOUS
  <2>1. CASE i = n + 1
    BY <2>1, <1>1, <1>2
  <2>2. CASE i # n + 1
    <3>1. i \in 1 .. n /\ r[i] = q[i] /\ q[i] \in MCSThreads \ {t} /\ M!Queued(q[i])
      BY <2>2, <1>1, <1>3, <1>4
    <3>2. M!Queued(q[i])'
      BY <3>1, <1>2
    <3> QED
      BY <3>1, <3>2
  <2> QED
    BY <2>1, <2>2
<1>6. \A u \in MCSThreads : M!Queued(u)' => \E i \in 1 .. n + 1 : r[i] = u
  <2> SUFFICES ASSUME NEW u \in MCSThreads, M!Queued(u)' PROVE \E i \in 1 .. n + 1 : r[i] = u
    OBVIOUS
  <2>1. CASE u = t
    <3>1. n + 1 \in 1 .. n + 1
      BY <1>1
    <3> QED
      BY <2>1, <3>1, <1>1
  <2>2. CASE u # t
    <3>1. PICK i \in 1 .. n : q[i] = u
      BY <2>2, <1>2 DEF MCSLine
    <3>2. i \in 1 .. n + 1 /\ r[i] = u
      BY <3>1, <1>1
    <3> HIDE DEF r
    <3> QED
      BY <3>2
  <2> QED
    BY <2>1, <2>2
<1>7. \A i, j \in 1 .. n + 1 : r[i] = r[j] => i = j
  <2>1. \A i, j \in 1 .. n : q[i] = q[j] => i = j
    BY DEF MCSLine
  <2> HIDE DEF n, r
  <2> QED
    BY <2>1, <1>1, <1>3, <1>4
<1>8. \A i \in 2 .. n + 1 : M!Ahead(r[i - 1], r[i])'
  <2> SUFFICES ASSUME NEW i \in 2 .. n + 1 PROVE M!Ahead(r[i - 1], r[i])'
    OBVIOUS
  <2>1. i - 1 \in 1 .. n /\ r[i - 1] = q[i - 1]
    BY <1>1
  <2>2. CASE i = n + 1
    <3>1. n # 0 /\ i - 1 = n
      BY <1>1, <2>2
    <3>2. m_prev'[r[i]] = r[i - 1]
      BY <2>1, <2>2, <3>1, <1>1, <1>2
    <3> QED
      BY <3>2 DEF M!Ahead
  <2>3. CASE i # n + 1
    <3>1. i \in 2 .. n /\ r[i] = q[i] /\ q[i] \in MCSThreads \ {t} /\ q[i - 1] \in MCSThreads \ {t}
      BY <2>1, <2>3, <1>1, <1>3
    <3>2. M!Ahead(q[i - 1], q[i])
      BY <3>1 DEF MCSLine
    <3>3. m_prev'[q[i]] = q[i - 1] \/ (M!Queued(q[i - 1])' /\ m_next'[q[i - 1]] = q[i])
      BY <3>1, <3>2, <1>2 DEF M!Ahead
    <3> HIDE DEF r
    <3> QED
      BY <2>1, <3>1, <3>3 DEF M!Ahead, M!Queued
  <2> QED
    BY <2>2, <2>3
<1>9. MCSLine(r)'
  <2>1. Len(r) = n + 1
    BY <1>1
  <2> HIDE DEF n, r
  <2> QED
    BY <2>1, <1>1, <1>5, <1>6, <1>7, <1>8 DEF MCSLine
<1> QED
  BY <1>1, <1>3, <1>9

(* The first thread leaves the line. *)
LEMMA MCSLineLeave ==
  ASSUME NEW t \in MCSThreads, MCSIInv, M!Free(t) \/ M!Pass(t),
         NEW q \in Seq(MCSThreads), MCSLine(q), Len(q) # 0, q[1] = t
  PROVE  MCSLine(Tail(q))'
<1> DEFINE n == Len(q)
<1> DEFINE r == Tail(q)
<1>2. /\ n \in Nat \ {0} /\ r \in Seq(MCSThreads) /\ Len(r) = n - 1
      /\ \A i \in 1 .. n - 1 : r[i] = q[i + 1] /\ i + 1 \in 1 .. n
      /\ \A i \in 1 .. n : q[i] \in MCSThreads /\ M!Queued(q[i])
  BY DEF MCSLine
<1>3. /\ ~M!Queued(t)' /\ \A u \in MCSThreads \ {t} : M!Queued(u)' <=> M!Queued(u)
      /\ m_next' = m_next /\ m_prev' = m_prev
  BY DEF M!Free, M!Pass, M!Goto, M!Queued, MCSIInv, M!TypeOK
<1>4. \A i, j \in 1 .. n : q[i] = q[j] => i = j
  BY DEF MCSLine
<1>5. \A i \in 1 .. n - 1 : r[i] # t
  <2> SUFFICES ASSUME NEW i \in 1 .. n - 1 PROVE r[i] # t
    OBVIOUS
  <2>1. i + 1 # 1 /\ 1 \in 1 .. n
    BY <1>2
  <2> QED
    BY <1>2, <1>4, <2>1
<1>6. \A i \in 1 .. n - 1 : r[i] \in MCSThreads \ {t} /\ M!Queued(r[i]) /\ M!Queued(r[i])'
  <2> SUFFICES ASSUME NEW i \in 1 .. n - 1
               PROVE  r[i] \in MCSThreads \ {t} /\ M!Queued(r[i]) /\ M!Queued(r[i])'
    OBVIOUS
  <2>1. r[i] = q[i + 1] /\ q[i + 1] \in MCSThreads \ {t} /\ M!Queued(q[i + 1])
    BY <1>2, <1>5
  <2>2. M!Queued(q[i + 1])'
    BY <1>3, <2>1
  <2> QED
    BY <2>1, <2>2
<1>7. \A u \in MCSThreads : M!Queued(u)' => \E i \in 1 .. n - 1 : r[i] = u
  <2> SUFFICES ASSUME NEW u \in MCSThreads, M!Queued(u)' PROVE \E i \in 1 .. n - 1 : r[i] = u
    OBVIOUS
  <2>1. u # t /\ M!Queued(u)
    BY <1>3
  <2>2. PICK i \in 1 .. n : q[i] = u
    BY <2>1 DEF MCSLine
  <2>3. i # 1
    BY <2>1, <2>2
  <2>4. i - 1 \in 1 .. n - 1 /\ (i - 1) + 1 = i
    BY <1>2, <2>3
  <2>5. r[i - 1] = u
    BY <1>2, <2>2, <2>4
  <2> HIDE DEF r
  <2> QED
    BY <2>4, <2>5
<1>8. \A i, j \in 1 .. n - 1 : r[i] = r[j] => i = j
  <2> SUFFICES ASSUME NEW i \in 1 .. n - 1, NEW j \in 1 .. n - 1, r[i] = r[j] PROVE i = j
    OBVIOUS
  <2>1. i + 1 = j + 1
    BY <1>2, <1>4
  <2> QED
    BY <2>1
<1>9. \A i \in 2 .. n - 1 : M!Ahead(r[i - 1], r[i])'
  <2> SUFFICES ASSUME NEW i \in 2 .. n - 1 PROVE M!Ahead(r[i - 1], r[i])'
    OBVIOUS
  <2>1. i + 1 \in 2 .. n /\ (i + 1) - 1 = i /\ (i - 1) + 1 = i /\ i - 1 \in 1 .. n - 1 /\ i \in 1 .. n - 1
    BY <1>2
  <2>2. M!Ahead(q[i], q[i + 1])
    BY <2>1 DEF MCSLine
  <2>3. r[i] = q[i + 1] /\ r[i - 1] = q[i] /\ M!Queued(r[i - 1])'
    BY <1>2, <1>6, <2>1
  <2>4. m_prev'[r[i]] = r[i - 1] \/ m_next'[r[i - 1]] = r[i]
    BY <1>3, <2>2, <2>3 DEF M!Ahead
  <2> HIDE DEF r
  <2> QED
    BY <2>3, <2>4 DEF M!Ahead
<1> HIDE DEF n, r
<1> QED
  BY <1>2, <1>6, <1>7, <1>8, <1>9 DEF MCSLine, r

(* Nothing else that a thread does moves the line: when it links itself,    *)
(* next says what prev has said so far.                                     *)
LEMMA MCSLineStays ==
  ASSUME NEW t \in MCSThreads, MCSIInv, MCSOrderFacts, NEW q \in Seq(MCSThreads), q = M!Order,
         \/ M!Prepare(t) \/ M!Clear(t) \/ M!ReadTail(t) \/ M!MarkTail(t) \/ M!MarkOwn(t)
         \/ M!Link(t) \/ M!Acquire(t) \/ M!FindSuccessor(t) \/ M!FindNone(t)
         \/ M!FreeFails(t) \/ M!StopWaiting(t)
  PROVE  MCSLine(q)'
<1> M!TypeOK
  BY DEF MCSIInv
<1> USE DEF M!Goto
<1> DEFINE Other == \/ M!ReadTail(t) \/ M!MarkTail(t) \/ M!MarkOwn(t) \/ M!Acquire(t)
                    \/ M!FindSuccessor(t) \/ M!FindNone(t) \/ M!FreeFails(t) \/ M!StopWaiting(t)
<1>1. \A u \in MCSThreads : M!Queued(u)' <=> M!Queued(u)
  BY DEF M!TypeOK, M!Queued, M!Prepare, M!Clear, M!ReadTail, M!MarkTail, M!MarkOwn, M!Link,
         M!Acquire, M!FindSuccessor, M!FindNone, M!FreeFails, M!StopWaiting
<1>2. ASSUME NEW u \in MCSThreads, NEW v \in MCSThreads, M!Queued(u), M!Queued(v)
      PROVE  M!Ahead(u, v)' <=> M!Ahead(u, v)
  <2>1. CASE M!Prepare(t) \/ M!Clear(t)
    <3>1. u # t /\ m_prev' = m_prev /\ m_next'[u] = m_next[u]
      BY <2>1, <1>2 DEF M!Prepare, M!Clear, M!Queued, M!TypeOK
    <3> QED
      BY <3>1, <1>1 DEF M!Ahead
  <2>2. CASE Other
    <3>1. m_prev' = m_prev /\ m_next' = m_next
      BY <2>2 DEF M!ReadTail, M!MarkTail, M!MarkOwn, M!Acquire, M!FindSuccessor, M!FindNone,
                  M!FreeFails, M!StopWaiting
    <3> QED
      BY <3>1, <1>1 DEF M!Ahead
  <2>3. CASE M!Link(t)
    <3>1. /\ m_prev[t] \in MCSThreads /\ m_pc[t] = "link"
          /\ \A x \in MCSThreads : m_prev'[x] = IF x = t THEN NULL ELSE m_prev[x]
          /\ \A x \in MCSThreads : m_next'[x] = IF x = m_prev[t] THEN t ELSE m_next[x]
      BY <2>3 DEF M!Link, M!TypeOK
    <3>2. NULL \notin MCSThreads
      BY DEF MCSIInv, M!ConstantsAssumption
    <3>3. CASE v = t
      BY <3>1, <3>2, <3>3, <1>1, <1>2 DEF M!Ahead
    <3>4. CASE v # t
      <4>1. M!Queued(t) /\ M!Ahead(m_prev[t], t)
        BY <3>1 DEF M!Queued, M!Ahead
      <4>2. m_prev[t] = u => ~M!Ahead(u, v)
        <5> SUFFICES ASSUME m_prev[t] = u, M!Ahead(u, v) PROVE FALSE
          OBVIOUS
        <5>1. PICK i \in 1 .. Len(q), j \in 1 .. Len(q), k \in 1 .. Len(q) :
                q[i] = u /\ q[j] = v /\ q[k] = t
          BY <1>2, <4>1 DEF MCSOrderFacts, MCSLine
        <5>2. j = i + 1 /\ k = i + 1
          BY <4>1, <5>1 DEF MCSOrderFacts
        <5> QED
          BY <3>4, <5>1, <5>2
      <4>3. m_prev[t] # u => (M!Ahead(u, v)' <=> M!Ahead(u, v))
        BY <3>1, <3>4, <1>1 DEF M!Ahead
      <4>4. m_prev[t] = u => ~M!Ahead(u, v)'
        <5> SUFFICES ASSUME m_prev[t] = u PROVE ~M!Ahead(u, v)'
          OBVIOUS
        <5>1. m_next'[u] = t /\ m_prev'[v] = m_prev[v] /\ m_prev[v] # u
          BY <3>1, <3>4, <4>2 DEF M!Ahead
        <5> QED
          BY <3>4, <5>1 DEF M!Ahead
      <4> QED
        BY <4>2, <4>3, <4>4
    <3> QED
      BY <3>3, <3>4
  <2> QED
    BY <2>1, <2>2, <2>3
<1>3. MCSLine(q)
  BY DEF MCSOrderFacts
<1>4. MCSLine(q)'
  <2>1. \A i \in 1 .. Len(q) : q[i] \in MCSThreads /\ M!Queued(q[i])
    BY <1>3 DEF MCSLine
  <2>2. \A i \in 1 .. Len(q) : M!Queued(q[i])'
    BY <2>1, <1>1
  <2>3. \A u \in MCSThreads : M!Queued(u)' => \E i \in 1 .. Len(q) : q[i] = u
    BY <1>1, <1>3 DEF MCSLine
  <2>4. \A i \in 2 .. Len(q) : M!Ahead(q[i - 1], q[i])'
    <3> SUFFICES ASSUME NEW i \in 2 .. Len(q) PROVE M!Ahead(q[i - 1], q[i])'
      OBVIOUS
    <3>1. i \in 1 .. Len(q) /\ i - 1 \in 1 .. Len(q) /\ M!Ahead(q[i - 1], q[i])
      BY <1>3 DEF MCSLine
    <3>2. PICK u \in MCSThreads, v \in MCSThreads :
            u = q[i - 1] /\ v = q[i] /\ M!Queued(u) /\ M!Queued(v)
      BY <2>1, <3>1
    <3>3. M!Ahead(u, v)'
      BY <1>2, <3>1, <3>2
    <3> QED
      BY <3>2, <3>3
  <2> QED
    BY <1>3, <2>2, <2>3, <2>4 DEF MCSLine
<1> QED
  BY <1>4

(* A SWAP is the abstract Join, the end of the spin loop Enter, the CAS that *)
(* frees the lock and the store that passes it on are Leave; the rest is    *)
(* how the threads tell each other their places.                            *)
LEMMA MCSNextRefinement ==
  ASSUME MCSIInv, MCSOrderFacts, MCSOrderFacts', [M!Next]_(M!vars)
  PROVE  [M!Abstract!Next]_(M!Abstract!vars)
<1> M!TypeOK
  BY DEF MCSIInv
<1> DEFINE Inside == {t \in MCSThreads : M!Owns(t)}
<1>0. PICK q \in Seq(MCSThreads) :
        /\ q = M!Order /\ MCSLine(q)
        /\ Len(q) # 0 => m_tail = q[Len(q)]
        /\ \A t \in MCSThreads :
             M!Owns(t) \/ (m_pc[t] = "spin" /\ ~m_locked[t]) => Len(q) # 0 /\ q[1] = t
  BY DEF MCSOrderFacts, MCSLine
<1>1. ASSUME NEW r \in Seq(MCSThreads), MCSLine(r)' PROVE M!Order' = r
  BY <1>1 DEF MCSOrderFacts
<1>2. ASSUME NEW t \in MCSThreads, M!Swap(t) PROVE M!Abstract!Join(t)
  <2>1. MCSLine(Append(q, t))' /\ \A i \in DOMAIN q : q[i] # t
    BY <1>0, <1>2, MCSLineJoin
  <2>2. M!Order' = Append(q, t)
    <3>1. Append(q, t) \in Seq(MCSThreads)
      OBVIOUS
    <3> QED
      BY <1>1, <2>1, <3>1
  <2>3. Inside' = Inside
    BY <1>2 DEF M!Swap, M!Goto, M!TypeOK, M!Owns
  <2> QED
    BY <1>0, <2>1, <2>2, <2>3 DEF M!Abstract!Join, M!Abstract!Joined
<1>3. ASSUME NEW t \in MCSThreads, M!Acquire(t) PROVE M!Abstract!Enter(t)
  <2>1. MCSLine(q)'
    BY <1>0, <1>3, MCSLineStays
  <2>2. M!Order' = q
    BY <1>1, <2>1
  <2>3. Len(q) # 0 /\ q[1] = t
    BY <1>0, <1>3 DEF M!Acquire, M!Goto
  <2>4. q # << >> /\ Head(q) = t
    BY <2>3
  <2>5. t \notin Inside /\ Inside' = Inside \cup {t}
    BY <1>3 DEF M!Acquire, M!Goto, M!TypeOK, M!Owns
  <2> QED
    BY <1>0, <2>2, <2>4, <2>5 DEF M!Abstract!Enter
<1>4. ASSUME NEW t \in MCSThreads, M!Free(t) \/ M!Pass(t) PROVE M!Abstract!Leave(t)
  <2>1. Len(q) # 0 /\ q[1] = t
    BY <1>0, <1>4 DEF M!Free, M!Pass, M!Goto, M!Owns
  <2>2. MCSLine(Tail(q))'
    BY <1>0, <1>4, <2>1, MCSLineLeave
  <2>3. M!Order' = Tail(q)
    <3>1. Tail(q) \in Seq(MCSThreads)
      BY <2>1
    <3> QED
      BY <1>1, <2>2, <3>1
  <2>4. t \in Inside /\ Inside' = Inside \ {t}
    BY <1>4 DEF M!Free, M!Pass, M!Goto, M!TypeOK, M!Owns
  <2> QED
    BY <1>0, <2>3, <2>4 DEF M!Abstract!Leave
<1>5. ASSUME NEW t \in MCSThreads,
             \/ M!Prepare(t) \/ M!Clear(t) \/ M!ReadTail(t) \/ M!MarkTail(t) \/ M!MarkOwn(t)
             \/ M!Link(t) \/ M!FindSuccessor(t) \/ M!FindNone(t)
             \/ M!FreeFails(t) \/ M!StopWaiting(t)
      PROVE  UNCHANGED M!Abstract!vars
  <2>1. MCSLine(q)'
    BY <1>0, <1>5, MCSLineStays
  <2>2. M!Order' = q
    BY <1>1, <2>1
  <2>3. Inside' = Inside
    BY <1>5 DEF M!Prepare, M!Clear, M!ReadTail, M!MarkTail, M!MarkOwn, M!Link, M!FindSuccessor,
                M!FindNone, M!FreeFails, M!StopWaiting, M!Goto, M!TypeOK, M!Owns
  <2> QED
    BY <1>0, <2>2, <2>3 DEF M!Abstract!vars
<1>6. CASE UNCHANGED M!vars
  <2>1. MCSLine(q)'
    BY <1>0, <1>6 DEF M!vars, MCSLine, M!Queued, M!Ahead
  <2>2. M!Order' = q
    BY <1>1, <2>1
  <2>3. Inside' = Inside
    BY <1>6 DEF M!vars, M!Owns
  <2> QED
    BY <1>0, <2>2, <2>3 DEF M!Abstract!vars
<1> QED
  BY <1>2, <1>3, <1>4, <1>5, <1>6 DEF M!Next, M!Lock, M!Unlock, M!Abstract!Next

(* The MCS lock is first come, first served: threads enter in the order of  *)
(* their SWAPs, each after the one before it has left, although a thread    *)
(* marks nodes of others and links itself late (mcs.c:5-41).                *)
THEOREM MCSIsQueueLock == M!Spec => M!ImplementsQueueLock
<1>1. M!Init => DeadPrev
  BY DEF M!Init, DeadPrev
<1>2. M!Init => MCSOrderFacts
  BY <1>1, MCSInitIInv, MCSAssumption, MCSOrderIs
<1>3. ASSUME M!Init, MCSOrderFacts PROVE M!Abstract!Init
  <2>1. \A t \in MCSThreads : ~M!Queued(t) /\ ~M!Owns(t)
    BY <1>3 DEF M!Init, M!Queued, M!Owns
  <2>2. PICK q \in Seq(MCSThreads) : q = M!Order /\ MCSLine(q)
    BY <1>3 DEF MCSOrderFacts, MCSLine
  <2>3. \A i \in 1 .. Len(q) : q[i] \in MCSThreads /\ M!Queued(q[i])
    BY <2>2 DEF MCSLine
  <2>4. Len(q) = 0
    <3>1. Len(q) \in Nat /\ (Len(q) # 0 => 1 \in 1 .. Len(q))
      OBVIOUS
    <3> QED
      BY <2>1, <2>3, <3>1
  <2>5. q = << >>
    BY <2>4
  <2>6. {t \in MCSThreads : M!Owns(t)} = {}
    BY <2>1
  <2> QED
    BY <2>2, <2>5, <2>6 DEF M!Abstract!Init
<1>4. M!Spec => [](MCSIInv /\ DeadPrev)
  BY <1>1, DeadPrevStep, MCSIInvCorrect, PTL DEF M!Spec
<1>5. MCSIInv /\ DeadPrev => MCSOrderFacts
  BY MCSOrderIs
<1>6. MCSIInv /\ MCSOrderFacts /\ MCSOrderFacts' /\ [M!Next]_(M!vars)
        => [M!Abstract!Next]_(M!Abstract!vars)
  BY MCSNextRefinement
<1> QED
  BY <1>2, <1>3, <1>4, <1>5, <1>6, PTL DEF M!Spec, M!ImplementsQueueLock, M!Abstract!Spec

-----------------------------------------------------------------------------
(*                        Both locks, side by side                         *)

(* The behaviours in which one of the two locks is used and the other stays *)
(* as it is initialised are behaviours of each.                             *)
LEMMA EachLockByItself == MCSpec => Spec /\ M!Spec
<1>1. MCInit => Init /\ M!Init
  BY DEF MCInit
<1>2. [MCNext]_<<which, vars, m_vars>> => [Next]_vars /\ [M!Next]_(M!vars)
  BY DEF MCNext, vars, m_vars, M!vars
<1> QED
  BY <1>1, <1>2, PTL DEF MCSpec, Spec, M!Spec

(* Both locks are first come, first served, for any sets of threads.        *)
THEOREM BothAreQueueLocks == MCSpec => ImplementQueueLocks
  BY EachLockByItself, CLHIsQueueLock, MCSIsQueueLock, PTL DEF ImplementQueueLocks
=============================================================================
