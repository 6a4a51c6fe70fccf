-------------------------- MODULE DSMSynch_proofs --------------------------
(***************************************************************************)
(* Proofs about DSM-Synch, for any finite number of threads, any requests, *)
(* any object and any help factor.                                         *)
(*                                                                         *)
(* The nodes that are linked in from Tail are a queue: q[lo] is the first, *)
(* the combiner's p if there is a combiner, and q[hi] is the last. Nothing *)
(* in the code holds this sequence, so the inductive invariant says that   *)
(* there is one; every step appends to it, removes its first element or    *)
(* leaves it as it is.                                                     *)
(***************************************************************************)
EXTENDS DSMSynch, FiniteSetTheorems, TLAPS

(* The request of t is in the queue and still to be served. *)
Waiting(t) == pc[t] \notin {"idle", "swap"} /\ ~completed[MyNode(t)]

(* The node t used for the call before. *)
OldNode(t) == <<t, Other(toggle[t])>>

(* Where a combiner is once it has served p and given it back.              *)
Searching == {"test", "testNext", "end", "cas", "wait", "handOver"}

(* What a thread knows of its own node. *)
OwnNodes ==
  \A t \in Threads :
    /\ pc[t] = "swap" => next[MyNode(t)] = NULL
    /\ pc[t] \in {"swap", "link"} => locked[MyNode(t)] /\ ~completed[MyNode(t)]
    /\ pc[t] \in {"check"} \cup Searching => ~locked[MyNode(t)]
    /\ pc[t] = "return" => completed[MyNode(t)]
    /\ pc[t] \notin Combining \cup {"return"} => counter[t] = 0
    /\ pc[t] = "apply" => counter[t] < HelpBound
    /\ pc[t] # "idle" => pid[MyNode(t)] = t

(* What a combiner knows of p. Its owner may have taken p back, and have    *)
(* called again, but with its other node, which is behind p in the queue.   *)
CombinerPosition ==
  \A t \in Threads :
    pc[t] \in Combining =>
      /\ p[t] \in Nodes
      /\ completed[p[t]] <=> pc[t] \notin {"apply", "complete"}
      /\ p[t] # MyNode(t) => completed[MyNode(t)] /\ ~locked[MyNode(t)]
      /\ p[t] # MyNode(t) /\ pc[t] \notin Searching => locked[p[t]]
      /\ pc[t] \in {"testNext", "handOver"} => next[p[t]] # NULL
      /\ \A u \in Threads : p[t] = OldNode(u) => pc[u] = "swap" \/ Waiting(u)

(* The right to combine is held by a combiner or by an unlocked node.       *)
OneGrant ==
  \A t, u \in Threads : pc[t] \in Combining /\ Waiting(u) /\ ~locked[MyNode(u)] => t = u

(* The nodes that can be in the queue. *)
Member(n) ==
  \/ \E u \in Threads : Waiting(u) /\ MyNode(u) = n
  \/ \E c \in Threads : pc[c] \in Combining /\ p[c] = n /\ completed[n]

Queue(q, lo, hi) ==
  /\ q \in [Nat -> Nodes \cup {NULL}] /\ lo \in Nat \ {0} /\ hi \in Nat /\ lo <= hi + 1
  /\ tail = IF lo > hi THEN NULL ELSE q[hi]
  /\ \A i \in lo .. hi : q[i] \in Nodes /\ Member(q[i])
  /\ \A i, j \in lo .. hi : q[i] = q[j] => i = j
  /\ \A u \in Threads : Waiting(u) => \E i \in lo .. hi : q[i] = MyNode(u)
  /\ \A t \in Threads : pc[t] \in Combining => lo <= hi /\ q[lo] = p[t]
  /\ lo <= hi => next[q[hi]] = NULL
  /\ \A i \in lo .. hi :
       i > lo => locked[q[i]] /\ ~completed[q[i]]
  /\ \A i \in lo .. hi, u \in Threads :
       q[i] = MyNode(u) /\ Waiting(u) =>
         IF pc[u] = "link" THEN i > lo /\ mypred[u] = q[i - 1] /\ next[q[i - 1]] = NULL
         ELSE i > lo => next[q[i - 1]] = q[i]

IInv ==
  /\ TypeOK /\ OwnNodes /\ SingleCombiner /\ CombinerPosition /\ OneGrant
  /\ \E q \in [Nat -> Nodes \cup {NULL}], lo \in Nat \ {0}, hi \in Nat : Queue(q, lo, hi)

-----------------------------------------------------------------------------
(* help_bound lets a combiner serve at least one request: its own. *)
LEMMA HelpBoundType == HelpBound \in Nat /\ (Threads # {} => HelpBound > 0)
<1>1. Cardinality(Threads) \in Nat /\ (Threads # {} => Cardinality(Threads) > 0)
  BY ConstantsAssumption, FS_CardinalityType, FS_EmptySet
<1>2. HelpFactor \in Nat \ {0}
  BY ConstantsAssumption
<1>3. \A i, j \in Nat : i * j \in Nat /\ (i > 0 /\ j > 0 => i * j > 0)
  OBVIOUS
<1> QED
  BY <1>1, <1>2, <1>3 DEF HelpBound

(* Nodes of different threads differ, and so do the two of one thread.      *)
LEMMA NodeFacts ==
  ASSUME TypeOK
  PROVE  /\ NULL \notin Nodes
         /\ \A t \in Threads : MyNode(t) \in Nodes /\ OldNode(t) \in Nodes
         /\ \A t, u \in Threads : MyNode(t) = MyNode(u) => t = u
         /\ \A t, u \in Threads : OldNode(t) = OldNode(u) => t = u
         /\ \A t, u \in Threads : MyNode(t) # OldNode(u)
  BY ConstantsAssumption DEF TypeOK, Nodes, MyNode, OldNode, Other

LEMMA InitIInv == Init => IInv
<1> SUFFICES ASSUME Init PROVE IInv
  OBVIOUS
<1>1. TypeOK
  BY HelpBoundType DEF Init, TypeOK, PCs, Nodes
<1>2. OwnNodes /\ SingleCombiner /\ CombinerPosition /\ OneGrant
  BY DEF Init, OwnNodes, SingleCombiner, CombinerPosition, OneGrant, Combining, Searching
<1>3. Queue([i \in Nat |-> NULL], 1, 0)
  BY DEF Init, Queue, Waiting, Combining
<1> QED
  BY <1>1, <1>2, <1>3 DEF IInv

(* The node that a call resets is out of reach of the others. *)
LEMMA OldNodeIsFree ==
  ASSUME IInv, NEW q, NEW lo, NEW hi, Queue(q, lo, hi), NEW t \in Threads, pc[t] = "idle"
  PROVE  /\ \A i \in lo .. hi : q[i] # OldNode(t)
         /\ \A u \in Threads : pc[u] \in Combining => p[u] # OldNode(t)
<1>1. \A u \in Threads : pc[u] \in Combining => p[u] # OldNode(t)
  BY DEF IInv, CombinerPosition, Waiting
<1>2. \A i \in lo .. hi : q[i] # OldNode(t)
  BY <1>1, NodeFacts DEF IInv, Queue, Member
<1> QED
  BY <1>1, <1>2

LEMMA CallStep ==
  ASSUME NEW t \in Threads, NEW a \in Args, IInv, Call(t, a)
  PROVE  IInv'
<1> TypeOK /\ OwnNodes /\ SingleCombiner /\ CombinerPosition /\ OneGrant
  BY DEF IInv
<1>0. PICK q \in [Nat -> Nodes \cup {NULL}], lo \in Nat \ {0}, hi \in Nat : Queue(q, lo, hi)
  BY DEF IInv
<1> DEFINE n == OldNode(t)
<1>1. /\ MyNode(t)' = n /\ OldNode(t)' = MyNode(t)
      /\ \A u \in Threads \ {t} : MyNode(u)' = MyNode(u) /\ OldNode(u)' = OldNode(u)
  BY DEF Call, MyNode, OldNode, Other, TypeOK
<1>2. /\ next' = [next EXCEPT ![n] = NULL] /\ pid' = [pid EXCEPT ![n] = t]
      /\ locked' = [locked EXCEPT ![n] = TRUE] /\ completed' = [completed EXCEPT ![n] = FALSE]
      /\ arg_ret' = [arg_ret EXCEPT ![n] = a] /\ toggle' = [toggle EXCEPT ![t] = Other(@)]
      /\ pc[t] = "idle" /\ pc' = [pc EXCEPT ![t] = "swap"]
      /\ UNCHANGED <<tail, mypred, p, counter>> /\ result' = [result EXCEPT ![t] = NULL]
  BY DEF Call, OldNode, Goto
<1>3. /\ n \in Nodes /\ \A u \in Threads : MyNode(u) \in Nodes /\ MyNode(u) # n
      /\ \A u \in Threads \ {t} : OldNode(u) # n /\ OldNode(u) # MyNode(t)
      /\ NULL \notin Nodes
  BY NodeFacts
<1>4. /\ \A i \in lo .. hi : q[i] # n
      /\ \A u \in Threads : pc[u] \in Combining => p[u] # n
  BY <1>0, <1>2, OldNodeIsFree
<1>5. \A u \in Threads : Waiting(u)' <=> Waiting(u)
  BY <1>1, <1>2, <1>3 DEF Waiting, TypeOK
<1>6. TypeOK'
  BY <1>2, <1>3 DEF TypeOK, PCs, Other
<1>7. OwnNodes'
  BY <1>1, <1>2, <1>3 DEF OwnNodes, TypeOK, Combining, Searching
<1>8. SingleCombiner'
  BY <1>2 DEF SingleCombiner, Combining, TypeOK
<1>9. CombinerPosition'
  BY <1>1, <1>2, <1>3, <1>4, <1>5 DEF CombinerPosition, TypeOK, Combining, Searching
<1>10. OneGrant'
  BY <1>1, <1>2, <1>3, <1>5 DEF OneGrant, TypeOK, Combining, Waiting
<1>11. Queue(q, lo, hi)'
  <2>1. \A u \in Threads : Waiting(u) => u # t
    BY <1>2 DEF Waiting
  <2>2. \A u \in Threads : pc'[u] \in Combining <=> pc[u] \in Combining
    BY <1>2 DEF Combining, TypeOK
  <2>3. \A i \in lo .. hi : /\ q[i] \in Nodes /\ next'[q[i]] = next[q[i]]
                            /\ locked'[q[i]] = locked[q[i]] /\ completed'[q[i]] = completed[q[i]]
    BY <1>0, <1>2, <1>4 DEF TypeOK, Queue
  <2>4. \A i \in lo .. hi : Member(q[i])'
    <3> SUFFICES ASSUME NEW i \in lo .. hi PROVE Member(q[i])'
      OBVIOUS
    <3>1. CASE \E u \in Threads : Waiting(u) /\ MyNode(u) = q[i]
      BY <3>1, <1>1, <1>5, <2>1 DEF Member
    <3>2. CASE \E c \in Threads : pc[c] \in Combining /\ p[c] = q[i] /\ completed[q[i]]
      BY <3>2, <1>2, <2>2, <2>3 DEF Member
    <3> QED
      BY <1>0, <3>1, <3>2 DEF Queue, Member
  <2>5. \A i \in lo .. hi, u \in Threads :
          q[i] = MyNode(u)' /\ Waiting(u)' =>
            IF pc'[u] = "link" THEN i > lo /\ mypred'[u] = q[i - 1] /\ next'[q[i - 1]] = NULL
            ELSE i > lo => next'[q[i - 1]] = q[i]
    <3> SUFFICES ASSUME NEW i \in lo .. hi, NEW u \in Threads, q[i] = MyNode(u)', Waiting(u)'
                 PROVE  IF pc'[u] = "link"
                        THEN i > lo /\ mypred'[u] = q[i - 1] /\ next'[q[i - 1]] = NULL
                        ELSE i > lo => next'[q[i - 1]] = q[i]
      OBVIOUS
    <3>1. u # t /\ q[i] = MyNode(u) /\ Waiting(u) /\ pc'[u] = pc[u] /\ mypred'[u] = mypred[u]
      BY <1>1, <1>2, <1>5, <2>1 DEF TypeOK
    <3>2. i > lo => i - 1 \in lo .. hi
      BY <1>0
    <3> QED
      BY <1>0, <2>3, <3>1, <3>2 DEF Queue
  <2> QED
    BY <1>0, <1>1, <1>2, <1>5, <2>1, <2>2, <2>3, <2>4, <2>5 DEF Queue
<1> QED
  BY <1>6, <1>7, <1>8, <1>9, <1>10, <1>11 DEF IInv

(* A thread joins the queue at its end, and combines if the queue was empty. *)
LEMMA SwapStep ==
  ASSUME NEW t \in Threads, IInv, Swap(t)
  PROVE  IInv'
<1> TypeOK /\ OwnNodes /\ SingleCombiner /\ CombinerPosition /\ OneGrant
  BY DEF IInv
<1>0. PICK q \in [Nat -> Nodes \cup {NULL}], lo \in Nat \ {0}, hi \in Nat : Queue(q, lo, hi)
  BY DEF IInv
<1> DEFINE n == MyNode(t)
<1> PICK r : r = [q EXCEPT ![hi + 1] = n]
  OBVIOUS
<1>1. \A u \in Threads : MyNode(u)' = MyNode(u) /\ OldNode(u)' = OldNode(u)
  BY DEF Swap, MyNode, OldNode
<1>2. /\ pc[t] = "swap" /\ pc' = [pc EXCEPT ![t] = IF tail = NULL THEN "apply" ELSE "link"]
      /\ tail' = n /\ mypred' = [mypred EXCEPT ![t] = tail]
      /\ p' = [p EXCEPT ![t] = IF tail = NULL THEN n ELSE NULL]
      /\ UNCHANGED <<next, locked, completed, arg_ret, pid, state, toggle, counter, result>>
  BY DEF Swap, Goto, nodeVars
<1>3. /\ NULL \notin Nodes /\ \A u \in Threads : MyNode(u) \in Nodes /\ MyNode(u) # OldNode(t)
      /\ \A u \in Threads \ {t} : MyNode(u) # n
      /\ \A u \in Threads : OldNode(u) # n
  BY NodeFacts
<1>4. locked[n] /\ ~completed[n] /\ next[n] = NULL
  BY <1>2 DEF OwnNodes
<1>5. \A i \in lo .. hi : q[i] # n
  BY <1>0, <1>2, <1>3, <1>4 DEF Queue, Member, Waiting
<1>6. Waiting(t)' /\ \A u \in Threads \ {t} : Waiting(u)' <=> Waiting(u)
  BY <1>1, <1>2, <1>4 DEF Waiting, TypeOK
<1>7. tail = NULL => /\ lo = hi + 1
                     /\ \A u \in Threads : pc[u] \notin Combining /\ ~Waiting(u)
  BY <1>0, <1>3 DEF Queue
<1>8. tail # NULL => lo <= hi /\ tail = q[hi]
  BY <1>0 DEF Queue
<1>9. TypeOK'
  BY <1>2, <1>3 DEF TypeOK, PCs, Combining
<1>10. OwnNodes'
  BY <1>1, <1>2, <1>4, HelpBoundType DEF OwnNodes, TypeOK, Combining, Searching
<1>11. SingleCombiner'
  BY <1>2, <1>7 DEF SingleCombiner, Combining, TypeOK
<1>12. CombinerPosition'
  <2> SUFFICES ASSUME NEW c \in Threads, pc'[c] \in Combining
               PROVE  /\ p'[c] \in Nodes
                      /\ completed'[p'[c]] <=> pc'[c] \notin {"apply", "complete"}
                      /\ p'[c] # MyNode(c)' => completed'[MyNode(c)'] /\ ~locked'[MyNode(c)']
                      /\ p'[c] # MyNode(c)' /\ pc'[c] \notin Searching => locked'[p'[c]]
                      /\ pc'[c] \in {"testNext", "handOver"} => next'[p'[c]] # NULL
                      /\ \A u \in Threads : p'[c] = OldNode(u)' => pc'[u] = "swap" \/ Waiting(u)'
    BY DEF CombinerPosition
  <2>1. CASE c = t
    BY <2>1, <1>1, <1>2, <1>3, <1>4 DEF TypeOK, Combining
  <2>2. CASE c # t
    <3>1. pc'[c] = pc[c] /\ p'[c] = p[c] /\ tail # NULL
      BY <2>2, <1>2, <1>7 DEF TypeOK
    <3>2. \A u \in Threads : pc[u] = "swap" \/ Waiting(u) => pc'[u] = "swap" \/ Waiting(u)'
      BY <1>2, <1>6 DEF TypeOK
    <3> QED
      BY <3>1, <3>2, <1>1, <1>2 DEF CombinerPosition
  <2> QED
    BY <2>1, <2>2
<1>13. OneGrant'
  BY <1>1, <1>2, <1>4, <1>6, <1>7 DEF OneGrant, TypeOK, Combining
<1>14. Queue(r, lo, hi + 1)'
  <2>1. /\ r \in [Nat -> Nodes \cup {NULL}] /\ r[hi + 1] = n
        /\ \A i \in lo .. hi : r[i] = q[i]
        /\ lo <= hi + 1
    BY <1>0, <1>3 DEF Queue
  <2>2. \A i \in lo .. hi + 1 : i # hi + 1 => i \in lo .. hi
    OBVIOUS
  <2>3. \A u \in Threads : pc[u] \in Combining => pc'[u] \in Combining
    BY <1>2 DEF Combining, TypeOK
  <2>4. \A i \in lo .. hi + 1 : Member(r[i])'
    <3>1. Member(r[hi + 1])'
      BY <1>1, <1>6, <2>1 DEF Member
    <3>2. ASSUME NEW i \in lo .. hi PROVE Member(q[i])'
      <4>1. CASE \E u \in Threads : Waiting(u) /\ MyNode(u) = q[i]
        BY <4>1, <1>1, <1>6 DEF Member
      <4>2. CASE \E c \in Threads : pc[c] \in Combining /\ p[c] = q[i] /\ completed[q[i]]
        <5>1. PICK c \in Threads : pc[c] \in Combining /\ p[c] = q[i] /\ completed[q[i]]
          BY <4>2
        <5>2. pc'[c] \in Combining /\ p'[c] = q[i] /\ completed'[q[i]]
          BY <5>1, <2>3, <1>2 DEF TypeOK, Combining
        <5> QED
          BY <5>2 DEF Member
      <4> QED
        BY <1>0, <4>1, <4>2 DEF Queue, Member
    <3>3. ASSUME NEW i \in lo .. hi + 1 PROVE Member(r[i])'
      <4>1. CASE i = hi + 1
        BY <4>1, <3>1
      <4>2. CASE i # hi + 1
        <5>1. i \in lo .. hi /\ r[i] = q[i]
          BY <4>2, <2>1
        <5> QED
          BY <5>1, <3>2
      <4> QED
        BY <4>1, <4>2
    <3> QED
      BY <3>3
  <2>5. \A i, j \in lo .. hi + 1 : r[i] = r[j] => i = j
    BY <1>0, <1>5, <2>1, <2>2 DEF Queue
  <2>6. \A u \in Threads : Waiting(u)' => \E i \in lo .. hi + 1 : r[i] = MyNode(u)'
    <3>1. hi + 1 \in lo .. hi + 1 /\ \A i \in lo .. hi : i \in lo .. hi + 1
      BY <2>1
    <3> QED
      BY <1>0, <1>1, <1>6, <2>1, <3>1 DEF Queue
  <2>7. \A u \in Threads : pc'[u] \in Combining => lo <= hi + 1 /\ r[lo] = p'[u]
    BY <1>0, <1>2, <1>7, <2>1 DEF Queue, TypeOK, Combining
  <2>8. \A i \in lo .. hi + 1 : i > lo => locked'[r[i]] /\ ~completed'[r[i]]
    BY <1>0, <1>2, <1>4, <2>1, <2>2 DEF Queue
  <2>9. \A i \in lo .. hi + 1, u \in Threads :
          r[i] = MyNode(u)' /\ Waiting(u)' =>
            IF pc'[u] = "link" THEN i > lo /\ mypred'[u] = r[i - 1] /\ next'[r[i - 1]] = NULL
            ELSE i > lo => next'[r[i - 1]] = r[i]
    <3> SUFFICES ASSUME NEW i \in lo .. hi + 1, NEW u \in Threads, r[i] = MyNode(u)', Waiting(u)'
                 PROVE  IF pc'[u] = "link"
                        THEN i > lo /\ mypred'[u] = r[i - 1] /\ next'[r[i - 1]] = NULL
                        ELSE i > lo => next'[r[i - 1]] = r[i]
      OBVIOUS
    <3>1. CASE i = hi + 1
      <4>1. u = t
        BY <3>1, <1>1, <1>3, <2>1
      <4>2. CASE tail = NULL
        BY <3>1, <4>1, <4>2, <1>2, <1>7 DEF TypeOK
      <4>3. CASE tail # NULL
        <5>1. i - 1 = hi /\ hi \in lo .. hi /\ i > lo
          BY <3>1, <4>3, <1>8
        <5> QED
          BY <5>1, <4>1, <4>3, <1>0, <1>2, <1>8, <2>1 DEF TypeOK, Queue
      <4> QED
        BY <4>2, <4>3
    <3>2. CASE i # hi + 1
      <4>1. i \in lo .. hi /\ (i > lo => i - 1 \in lo .. hi)
        BY <3>2
      <4>2. u # t
        BY <4>1, <1>1, <1>5, <2>1
      <4>3. Waiting(u) /\ q[i] = MyNode(u) /\ pc'[u] = pc[u] /\ mypred'[u] = mypred[u]
        BY <4>1, <4>2, <1>1, <1>2, <1>6, <2>1 DEF TypeOK
      <4> QED
        BY <4>1, <4>3, <1>0, <1>2, <2>1 DEF Queue
    <3> QED
      BY <3>1, <3>2
  <2>10. tail' = (IF lo > hi + 1 THEN NULL ELSE r[hi + 1]) /\ next'[r[hi + 1]] = NULL
    BY <1>2, <1>4, <2>1
  <2>11. hi + 1 \in Nat /\ lo <= hi + 1 + 1 /\ \A i \in lo .. hi + 1 : r[i] \in Nodes
    BY <1>0, <1>3, <2>1, <2>2 DEF Queue
  <2> QED
    BY <2>1, <2>4, <2>5, <2>6, <2>7, <2>8, <2>9, <2>10, <2>11 DEF Queue
<1> QED
  <2>1. r \in [Nat -> Nodes \cup {NULL}] /\ hi + 1 \in Nat
    BY <1>3
  <2> QED
    BY <2>1, <1>9, <1>10, <1>11, <1>12, <1>13, <1>14 DEF IInv

-----------------------------------------------------------------------------
(* Steps that leave the queue as it is, and those that take its first node  *)
(* away, which has been served.                                             *)
LEMMA SameQueue ==
  ASSUME NEW q \in [Nat -> Nodes \cup {NULL}], NEW lo \in Nat \ {0}, NEW hi \in Nat,
         Queue(q, lo, hi), TypeOK, tail' = tail,
         \A u \in Threads : MyNode(u)' = MyNode(u),
         \A u \in Threads : Waiting(u)' =>
            Waiting(u) /\ (pc'[u] = "link" <=> pc[u] = "link") /\ mypred'[u] = mypred[u],
         \A u \in Threads : Waiting(u) /\ MyNode(u) # q[lo] => Waiting(u)',
         lo <= hi => Member(q[lo])',
         \A u \in Threads : pc'[u] \in Combining => lo <= hi /\ p'[u] = q[lo],
         \A i \in lo .. hi : next'[q[i]] = next[q[i]],
         \A i \in lo .. hi : i > lo => locked'[q[i]] /\ ~completed'[q[i]]
  PROVE  Queue(q, lo, hi)'
<1>1. ASSUME NEW i \in lo .. hi, i > lo PROVE Member(q[i])'
  <2>1. lo \in lo .. hi /\ q[i] # q[lo] /\ ~completed[q[i]]
    BY <1>1 DEF Queue
  <2>2. PICK u \in Threads : Waiting(u) /\ MyNode(u) = q[i]
    BY <2>1 DEF Queue, Member
  <2> QED
    BY <2>1, <2>2 DEF Member
<1>2. \A i \in lo .. hi : Member(q[i])'
  BY <1>1
<1>3. \A i \in lo .. hi, u \in Threads :
        q[i] = MyNode(u)' /\ Waiting(u)' =>
          IF pc'[u] = "link" THEN i > lo /\ mypred'[u] = q[i - 1] /\ next'[q[i - 1]] = NULL
          ELSE i > lo => next'[q[i - 1]] = q[i]
  <2> SUFFICES ASSUME NEW i \in lo .. hi, NEW u \in Threads, q[i] = MyNode(u)', Waiting(u)'
               PROVE  IF pc'[u] = "link"
                      THEN i > lo /\ mypred'[u] = q[i - 1] /\ next'[q[i - 1]] = NULL
                      ELSE i > lo => next'[q[i - 1]] = q[i]
    OBVIOUS
  <2>1. i > lo => i - 1 \in lo .. hi
    OBVIOUS
  <2> QED
    BY <2>1 DEF Queue
<1>4. lo <= hi => hi \in lo .. hi
  OBVIOUS
<1> QED
  BY <1>2, <1>3, <1>4 DEF Queue

LEMMA FirstLeaves ==
  ASSUME NEW q \in [Nat -> Nodes \cup {NULL}], NEW lo \in Nat \ {0}, NEW hi \in Nat,
         Queue(q, lo, hi), TypeOK, lo <= hi, completed[q[lo]],
         tail' = (IF lo = hi THEN NULL ELSE tail),
         UNCHANGED <<next, mypred, completed>>,
         \A u \in Threads : MyNode(u)' = MyNode(u),
         \A u \in Threads : Waiting(u)' <=> Waiting(u),
         \A u \in Threads : pc'[u] = "link" <=> pc[u] = "link",
         \A u \in Threads : pc'[u] \in Combining => lo + 1 <= hi /\ p'[u] = q[lo + 1],
         lo < hi => next[q[lo]] # NULL,
         \A i \in lo + 1 .. hi : i > lo + 1 => locked'[q[i]]
  PROVE  Queue(q, lo + 1, hi)'
<1>0. /\ lo + 1 \in Nat \ {0} /\ lo + 1 <= hi + 1
      /\ \A i \in lo + 1 .. hi : i \in lo .. hi /\ i > lo /\ i - 1 \in lo .. hi
      /\ \A i \in lo .. hi : i \in lo + 1 .. hi \/ i = lo
  OBVIOUS
<1>1. ASSUME NEW i \in lo + 1 .. hi PROVE Member(q[i])'
  <2>1. ~completed[q[i]]
    BY <1>0 DEF Queue
  <2>2. PICK u \in Threads : Waiting(u) /\ MyNode(u) = q[i]
    BY <1>0, <2>1 DEF Queue, Member
  <2> QED
    BY <2>2 DEF Member
<1>2. \A u \in Threads : Waiting(u)' => \E i \in lo + 1 .. hi : q[i] = MyNode(u)'
  <2>1. \A u \in Threads : Waiting(u) => MyNode(u) # q[lo]
    BY DEF Waiting
  <2> QED
    BY <1>0, <2>1 DEF Queue
<1>3. \A i \in lo + 1 .. hi, u \in Threads :
        q[i] = MyNode(u)' /\ Waiting(u)' =>
          IF pc'[u] = "link" THEN i > lo + 1 /\ mypred'[u] = q[i - 1] /\ next'[q[i - 1]] = NULL
          ELSE i > lo + 1 => next'[q[i - 1]] = q[i]
  <2> SUFFICES ASSUME NEW i \in lo + 1 .. hi, NEW u \in Threads, q[i] = MyNode(u)', Waiting(u)'
               PROVE  IF pc'[u] = "link"
                      THEN i > lo + 1 /\ mypred'[u] = q[i - 1] /\ next'[q[i - 1]] = NULL
                      ELSE i > lo + 1 => next'[q[i - 1]] = q[i]
    OBVIOUS
  <2>1. IF pc[u] = "link" THEN mypred[u] = q[i - 1] /\ next[q[i - 1]] = NULL
        ELSE next[q[i - 1]] = q[i]
    BY <1>0 DEF Queue
  <2>2. pc[u] = "link" => i # lo + 1
    BY <1>0, <2>1
  <2> QED
    BY <2>1, <2>2
<1>4. /\ tail' = (IF lo + 1 > hi THEN NULL ELSE q[hi])
      /\ lo + 1 <= hi => next'[q[hi]] = NULL
  BY DEF Queue
<1>5. \A i \in lo + 1 .. hi : /\ q[i] \in Nodes
                             /\ i > lo + 1 => locked'[q[i]] /\ ~completed'[q[i]]
  BY <1>0 DEF Queue
<1>6. \A i, j \in lo + 1 .. hi : q[i] = q[j] => i = j
  BY <1>0 DEF Queue
<1> QED
  BY <1>0, <1>1, <1>2, <1>3, <1>4, <1>5, <1>6 DEF Queue

-----------------------------------------------------------------------------
(* The late thread is linked where the queue has it already.                *)
LEMMA LinkStep ==
  ASSUME NEW t \in Threads, IInv, Link(t)
  PROVE  IInv'
<1> TypeOK /\ OwnNodes /\ SingleCombiner /\ CombinerPosition /\ OneGrant
  BY DEF IInv
<1>0. PICK q \in [Nat -> Nodes \cup {NULL}], lo \in Nat \ {0}, hi \in Nat : Queue(q, lo, hi)
  BY DEF IInv
<1>1. \A u \in Threads : MyNode(u)' = MyNode(u) /\ OldNode(u)' = OldNode(u)
  BY DEF Link, MyNode, OldNode
<1>2. /\ pc[t] = "link" /\ pc' = [pc EXCEPT ![t] = "spin"]
      /\ next' = [next EXCEPT ![mypred[t]] = MyNode(t)]
      /\ mypred' = [mypred EXCEPT ![t] = NULL]
      /\ UNCHANGED <<tail, locked, completed, arg_ret, pid, state, toggle, p, counter, result>>
  BY DEF Link, Goto
<1>3. \A u \in Threads : Waiting(u)' <=> Waiting(u)
  BY <1>1, <1>2 DEF Waiting, TypeOK
<1>4. PICK k \in lo .. hi : q[k] = MyNode(t)
  BY <1>0, <1>2 DEF Queue, Waiting, OwnNodes
<1>5. Waiting(t)
  BY <1>2 DEF Waiting, OwnNodes
<1>6. k > lo /\ mypred[t] = q[k - 1] /\ next[q[k - 1]] = NULL
  BY <1>0, <1>2, <1>4, <1>5 DEF Queue
<1>7. k - 1 \in lo .. hi /\ q[k - 1] \in Nodes /\ Member(q[k - 1]) /\ MyNode(t) \in Nodes
  BY <1>0, <1>4, <1>6, NodeFacts DEF Queue
<1>8. NULL \notin Nodes /\ \A u \in Threads \ {t} : MyNode(u) # MyNode(t)
  BY NodeFacts
<1>9. \A u \in Threads : pc[u] = "swap" => q[k - 1] # MyNode(u)
  BY <1>7, NodeFacts DEF Member, Waiting, OwnNodes
<1>10. TypeOK'
  BY <1>2, <1>7 DEF TypeOK, PCs
<1>11. OwnNodes'
  BY <1>1, <1>2, <1>6, <1>9 DEF OwnNodes, TypeOK, Combining, Searching
<1>12. SingleCombiner'
  BY <1>2 DEF SingleCombiner, Combining, TypeOK
<1>13. CombinerPosition'
  BY <1>1, <1>2, <1>3, <1>6, <1>7, <1>8 DEF CombinerPosition, TypeOK, Combining, Searching
<1>14. OneGrant'
  BY <1>1, <1>2, <1>3 DEF OneGrant, TypeOK, Combining
<1>15. Queue(q, lo, hi)'
  <2>1. \A u \in Threads : pc'[u] \in Combining <=> pc[u] \in Combining
    BY <1>2 DEF Combining, TypeOK
  <2>2. \A i \in lo .. hi : Member(q[i])'
    BY <1>0, <1>1, <1>2, <1>3, <2>1 DEF Queue, Member
  <2>3. \A i \in lo .. hi : next'[q[i]] = IF i = k - 1 THEN MyNode(t) ELSE next[q[i]]
    BY <1>0, <1>2, <1>6, <1>7 DEF Queue, TypeOK
  <2>4. hi # k - 1 /\ (lo <= hi => next'[q[hi]] = NULL)
    BY <1>0, <1>4, <2>3 DEF Queue
  <2>5. \A i \in lo .. hi, u \in Threads :
          q[i] = MyNode(u)' /\ Waiting(u)' =>
            IF pc'[u] = "link" THEN i > lo /\ mypred'[u] = q[i - 1] /\ next'[q[i - 1]] = NULL
            ELSE i > lo => next'[q[i - 1]] = q[i]
    <3> SUFFICES ASSUME NEW i \in lo .. hi, NEW u \in Threads, q[i] = MyNode(u)', Waiting(u)'
                 PROVE  IF pc'[u] = "link"
                        THEN i > lo /\ mypred'[u] = q[i - 1] /\ next'[q[i - 1]] = NULL
                        ELSE i > lo => next'[q[i - 1]] = q[i]
      OBVIOUS
    <3>1. CASE i = k
      <4>1. u = t
        BY <3>1, <1>1, <1>4, <1>8
      <4> QED
        BY <3>1, <4>1, <1>2, <1>4, <1>7, <2>3 DEF TypeOK
    <3>2. CASE i # k
      <4>1. u # t /\ q[i] = MyNode(u) /\ Waiting(u)
        BY <3>2, <1>0, <1>1, <1>3, <1>4 DEF Queue
      <4>2. i > lo => i - 1 \in lo .. hi /\ i - 1 # k - 1
        BY <3>2
      <4>3. pc'[u] = pc[u] /\ mypred'[u] = mypred[u]
        BY <4>1, <1>2 DEF TypeOK
      <4> QED
        BY <4>1, <4>2, <4>3, <1>0, <2>3 DEF Queue
    <3> QED
      BY <3>1, <3>2
  <2> QED
    BY <1>0, <1>1, <1>2, <1>3, <2>1, <2>2, <2>4, <2>5 DEF Queue
<1> QED
  BY <1>0, <1>10, <1>11, <1>12, <1>13, <1>14, <1>15 DEF IInv

(* The steps that only look: the end of spinning, and the search for the    *)
(* next request or the next combiner.                                       *)
LEMMA MoveStep ==
  ASSUME NEW t \in Threads, NEW from, NEW to, IInv, Move(t, from, to),
         \/ from = "spin" /\ to = "check" /\ ~locked[MyNode(t)]
         \/ /\ from \in Searching /\ to \in Searching
            /\ to \in {"testNext", "handOver"} => next[p[t]] # NULL
  PROVE  IInv'
<1> TypeOK /\ OwnNodes /\ SingleCombiner /\ CombinerPosition /\ OneGrant
  BY DEF IInv
<1>0. PICK q \in [Nat -> Nodes \cup {NULL}], lo \in Nat \ {0}, hi \in Nat : Queue(q, lo, hi)
  BY DEF IInv
<1>1. \A u \in Threads : MyNode(u)' = MyNode(u) /\ OldNode(u)' = OldNode(u)
  BY DEF Move, localVars, MyNode, OldNode
<1>2. /\ pc[t] = from /\ pc' = [pc EXCEPT ![t] = to]
      /\ UNCHANGED <<tail, next, locked, completed, arg_ret, pid, state, toggle, mypred, p, counter,
                     result>>
  BY DEF Move, Goto, nodeVars, localVars
<1>3. \A u \in Threads : Waiting(u)' <=> Waiting(u)
  BY <1>1, <1>2 DEF Waiting, TypeOK, Searching
<1>4. \A u \in Threads : pc'[u] \in Combining <=> pc[u] \in Combining
  BY <1>2 DEF Combining, Searching, TypeOK
<1>5. TypeOK'
  BY <1>2 DEF TypeOK, PCs, Searching, Combining
<1>6. OwnNodes'
  BY <1>1, <1>2 DEF OwnNodes, TypeOK, Combining, Searching
<1>7. SingleCombiner'
  BY <1>4 DEF SingleCombiner
<1>8. CombinerPosition'
  BY <1>1, <1>2, <1>3, <1>4 DEF CombinerPosition, TypeOK, Combining, Searching
<1>9. OneGrant'
  BY <1>1, <1>2, <1>3, <1>4 DEF OneGrant
<1>10. Queue(q, lo, hi)'
  <2>1. lo <= hi => Member(q[lo])'
    BY <1>0, <1>1, <1>2, <1>3, <1>4 DEF Queue, Member
  <2>2. \A u \in Threads : pc'[u] = "link" <=> pc[u] = "link"
    BY <1>2 DEF TypeOK, Searching
  <2> QED
    BY <1>0, <1>1, <1>2, <1>3, <1>4, <2>1, <2>2, SameQueue DEF Queue
<1> QED
  BY <1>0, <1>5, <1>6, <1>7, <1>8, <1>9, <1>10 DEF IInv

(* A thread returns when its request has been served. *)
LEMMA ReturnStep ==
  ASSUME NEW t \in Threads, NEW from \in {"check", "return"}, IInv, Return(t, from),
         completed[MyNode(t)]
  PROVE  IInv'
<1> TypeOK /\ OwnNodes /\ SingleCombiner /\ CombinerPosition /\ OneGrant
  BY DEF IInv
<1>0. PICK q \in [Nat -> Nodes \cup {NULL}], lo \in Nat \ {0}, hi \in Nat : Queue(q, lo, hi)
  BY DEF IInv
<1>1. \A u \in Threads : MyNode(u)' = MyNode(u) /\ OldNode(u)' = OldNode(u)
  BY DEF Return, MyNode, OldNode
<1>2. /\ pc[t] = from /\ pc' = [pc EXCEPT ![t] = "idle"]
      /\ p' = [p EXCEPT ![t] = NULL] /\ counter' = [counter EXCEPT ![t] = 0]
      /\ UNCHANGED <<tail, next, locked, completed, arg_ret, pid, state, toggle, mypred>>
      /\ result' = [result EXCEPT ![t] = arg_ret[MyNode(t)]]
  BY DEF Return, Goto, nodeVars
<1>3. \A u \in Threads : Waiting(u)' <=> Waiting(u)
  BY <1>1, <1>2 DEF Waiting, TypeOK
<1>4. \A u \in Threads : /\ pc'[u] \in Combining <=> pc[u] \in Combining
                         /\ pc[u] \in Combining => u # t /\ pc'[u] = pc[u] /\ p'[u] = p[u]
  BY <1>2 DEF Combining, TypeOK
<1>5. TypeOK'
  BY <1>2, HelpBoundType DEF TypeOK, PCs
<1>6. OwnNodes'
  BY <1>1, <1>2 DEF OwnNodes, TypeOK, Combining, Searching
<1>7. SingleCombiner'
  BY <1>4 DEF SingleCombiner
<1>8. CombinerPosition'
  <2>1. \A u \in Threads : pc'[u] = "swap" <=> pc[u] = "swap"
    BY <1>2 DEF TypeOK
  <2> QED
    BY <1>1, <1>2, <1>3, <1>4, <2>1 DEF CombinerPosition
<1>9. OneGrant'
  BY <1>1, <1>2, <1>3, <1>4 DEF OneGrant
<1>10. Queue(q, lo, hi)'
  <2>1. lo <= hi => Member(q[lo])'
    BY <1>0, <1>1, <1>2, <1>3, <1>4 DEF Queue, Member
  <2>2. \A u \in Threads : pc'[u] = "link" <=> pc[u] = "link"
    BY <1>2 DEF TypeOK
  <2>3. \A u \in Threads : pc'[u] \in Combining => lo <= hi /\ p'[u] = q[lo]
    BY <1>0, <1>4 DEF Queue
  <2>4. \A i \in lo .. hi : /\ next'[q[i]] = next[q[i]]
                            /\ i > lo => locked'[q[i]] /\ ~completed'[q[i]]
    BY <1>0, <1>2 DEF Queue
  <2> QED
    BY <1>0, <1>1, <1>2, <1>3, <2>1, <2>2, <2>3, <2>4, SameQueue
<1> QED
  BY <1>0, <1>5, <1>6, <1>7, <1>8, <1>9, <1>10 DEF IInv

(* An unlocked thread whose request has not been served combines.           *)
LEMMA BecomeCombinerStep ==
  ASSUME NEW t \in Threads, IInv, BecomeCombiner(t)
  PROVE  IInv'
<1> TypeOK /\ OwnNodes /\ SingleCombiner /\ CombinerPosition /\ OneGrant
  BY DEF IInv
<1>0. PICK q \in [Nat -> Nodes \cup {NULL}], lo \in Nat \ {0}, hi \in Nat : Queue(q, lo, hi)
  BY DEF IInv
<1>1. \A u \in Threads : MyNode(u)' = MyNode(u) /\ OldNode(u)' = OldNode(u)
  BY DEF BecomeCombiner, MyNode, OldNode
<1>2. /\ pc[t] = "check" /\ pc' = [pc EXCEPT ![t] = "apply"] /\ ~completed[MyNode(t)]
      /\ p' = [p EXCEPT ![t] = MyNode(t)]
      /\ UNCHANGED <<tail, next, locked, completed, arg_ret, pid, state, toggle, mypred, counter,
                     result>>
  BY DEF BecomeCombiner, Goto, nodeVars
<1>3. \A u \in Threads : Waiting(u)' <=> Waiting(u)
  BY <1>1, <1>2 DEF Waiting, TypeOK
<1>4. Waiting(t) /\ ~locked[MyNode(t)]
  BY <1>2 DEF Waiting, OwnNodes
<1>5. \A u \in Threads : pc[u] \notin Combining
  BY <1>2, <1>4 DEF OneGrant, Combining
<1>6. \A u \in Threads : pc'[u] \in Combining => u = t
  BY <1>2, <1>5 DEF TypeOK
<1>7. MyNode(t) \in Nodes /\ \A u \in Threads : MyNode(t) # OldNode(u)
  BY NodeFacts
<1>8. lo <= hi /\ q[lo] = MyNode(t)
  BY <1>0, <1>4 DEF Queue
<1>9. \A u \in Threads : Waiting(u) /\ ~locked[MyNode(u)] => u = t
  BY <1>0, <1>8, NodeFacts DEF Queue
<1>10. TypeOK'
  BY <1>2, <1>7 DEF TypeOK, PCs, Combining
<1>11. OwnNodes'
  BY <1>1, <1>2, HelpBoundType DEF OwnNodes, TypeOK, Combining, Searching
<1>12. SingleCombiner'
  BY <1>6 DEF SingleCombiner
<1>13. CombinerPosition'
  BY <1>1, <1>2, <1>6, <1>7 DEF CombinerPosition, TypeOK
<1>14. OneGrant'
  BY <1>1, <1>2, <1>3, <1>6, <1>9 DEF OneGrant
<1>15. Queue(q, lo, hi)'
  <2>1. lo <= hi => Member(q[lo])'
    BY <1>1, <1>3, <1>4, <1>8 DEF Member
  <2>2. \A u \in Threads : pc'[u] = "link" <=> pc[u] = "link"
    BY <1>2 DEF TypeOK
  <2>3. \A u \in Threads : pc'[u] \in Combining => lo <= hi /\ p'[u] = q[lo]
    BY <1>2, <1>6, <1>8 DEF TypeOK
  <2>4. \A i \in lo .. hi : /\ next'[q[i]] = next[q[i]]
                            /\ i > lo => locked'[q[i]] /\ ~completed'[q[i]]
    BY <1>0, <1>2 DEF Queue
  <2> QED
    BY <1>0, <1>1, <1>2, <1>3, <2>1, <2>2, <2>3, <2>4, SameQueue
<1> QED
  BY <1>0, <1>10, <1>11, <1>12, <1>13, <1>14, <1>15 DEF IInv

-----------------------------------------------------------------------------
(* The combiner's steps.                                                    *)
LEMMA ApplyStep ==
  ASSUME NEW t \in Threads, IInv, Apply(t)
  PROVE  IInv'
<1> TypeOK /\ OwnNodes /\ SingleCombiner /\ CombinerPosition /\ OneGrant
  BY DEF IInv
<1>0. PICK q \in [Nat -> Nodes \cup {NULL}], lo \in Nat \ {0}, hi \in Nat : Queue(q, lo, hi)
  BY DEF IInv
<1>1. \A u \in Threads : MyNode(u)' = MyNode(u) /\ OldNode(u)' = OldNode(u)
  BY DEF Apply, localVars, MyNode, OldNode
<1>2. /\ pc[t] = "apply" /\ pc' = [pc EXCEPT ![t] = "complete"]
      /\ counter' = [counter EXCEPT ![t] = @ + 1]
      /\ arg_ret' = [arg_ret EXCEPT ![p[t]] = Result(state, arg_ret[p[t]], pid[p[t]])]
      /\ UNCHANGED <<tail, next, locked, completed, pid, toggle, mypred, p, result>>
  BY DEF Apply, Goto, nodeVars, localVars
<1>3. \A u \in Threads : Waiting(u)' <=> Waiting(u)
  BY <1>1, <1>2 DEF Waiting, TypeOK
<1>4. \A u \in Threads : pc'[u] \in Combining <=> pc[u] \in Combining
  BY <1>2 DEF Combining, TypeOK
<1>5. TypeOK'
  <2>1. counter[t] \in 0 .. HelpBound /\ counter[t] < HelpBound /\ HelpBound \in Nat
    BY <1>2, HelpBoundType DEF TypeOK, OwnNodes
  <2> QED
    BY <1>2, <2>1 DEF TypeOK, PCs, Combining
<1>6. OwnNodes'
  BY <1>1, <1>2 DEF OwnNodes, TypeOK, Combining, Searching
<1>7. SingleCombiner'
  BY <1>4 DEF SingleCombiner
<1>8. CombinerPosition'
  BY <1>1, <1>2, <1>3, <1>4 DEF CombinerPosition, TypeOK, Searching
<1>9. OneGrant'
  BY <1>1, <1>2, <1>3, <1>4 DEF OneGrant
<1>10. Queue(q, lo, hi)'
  <2>1. lo <= hi => Member(q[lo])'
    BY <1>0, <1>1, <1>2, <1>3, <1>4 DEF Queue, Member
  <2>2. \A u \in Threads : pc'[u] = "link" <=> pc[u] = "link"
    BY <1>2 DEF TypeOK
  <2>3. \A u \in Threads : pc'[u] \in Combining => lo <= hi /\ p'[u] = q[lo]
    BY <1>0, <1>2, <1>4 DEF Queue
  <2>4. \A i \in lo .. hi : /\ next'[q[i]] = next[q[i]]
                            /\ i > lo => locked'[q[i]] /\ ~completed'[q[i]]
    BY <1>0, <1>2 DEF Queue
  <2> QED
    BY <1>0, <1>1, <1>2, <1>3, <2>1, <2>2, <2>3, <2>4, SameQueue
<1> QED
  BY <1>0, <1>5, <1>6, <1>7, <1>8, <1>9, <1>10 DEF IInv

(* The request that is served is that of a waiting thread. *)
LEMMA FirstIsWaiting ==
  ASSUME IInv, NEW t \in Threads, pc[t] \in {"apply", "complete"}
  PROVE  \E u \in Threads : Waiting(u) /\ MyNode(u) = p[t] /\ pc[u] # "link"
<1>0. PICK q \in [Nat -> Nodes \cup {NULL}], lo \in Nat \ {0}, hi \in Nat : Queue(q, lo, hi)
  BY DEF IInv
<1>1. lo \in lo .. hi /\ q[lo] = p[t] /\ ~completed[p[t]]
  BY <1>0 DEF IInv, Queue, CombinerPosition, Combining
<1>2. PICK u \in Threads : Waiting(u) /\ MyNode(u) = q[lo]
  BY <1>0, <1>1 DEF Queue, Member
<1> QED
  BY <1>0, <1>1, <1>2 DEF Queue

LEMMA CompleteStep ==
  ASSUME NEW t \in Threads, IInv, Complete(t)
  PROVE  IInv'
<1> TypeOK /\ OwnNodes /\ SingleCombiner /\ CombinerPosition /\ OneGrant
  BY DEF IInv
<1>0. PICK q \in [Nat -> Nodes \cup {NULL}], lo \in Nat \ {0}, hi \in Nat : Queue(q, lo, hi)
  BY DEF IInv
<1>1. \A u \in Threads : MyNode(u)' = MyNode(u) /\ OldNode(u)' = OldNode(u)
  BY DEF Complete, localVars, MyNode, OldNode
<1>2. /\ pc[t] = "complete" /\ pc' = [pc EXCEPT ![t] = "unlock"]
      /\ completed' = [completed EXCEPT ![p[t]] = TRUE]
      /\ UNCHANGED <<tail, next, locked, arg_ret, pid, toggle, mypred, p, counter, result>>
  BY DEF Complete, Goto, nodeVars, localVars
<1>3. PICK w \in Threads : Waiting(w) /\ MyNode(w) = p[t] /\ pc[w] # "link"
  BY <1>2, FirstIsWaiting
<1>4. \A u \in Threads : pc'[u] \in Combining <=> pc[u] \in Combining
  BY <1>2 DEF Combining, TypeOK
<1>5. p[t] \in Nodes /\ lo <= hi /\ q[lo] = p[t]
  BY <1>0, <1>2 DEF Queue, CombinerPosition, Combining
<1>6. \A u \in Threads : /\ Waiting(u)' <=> Waiting(u) /\ u # w
                         /\ MyNode(u) \in Nodes /\ OldNode(u) # p[t]
                         /\ u # w => MyNode(u) # p[t]
  BY <1>1, <1>2, <1>3, <1>5, NodeFacts DEF Waiting, TypeOK
<1>7. \A u \in Threads : pc[u] \in Combining => u = t
  BY <1>2 DEF SingleCombiner, Combining
<1>8. TypeOK'
  BY <1>2 DEF TypeOK, PCs, Combining
<1>9. OwnNodes'
  BY <1>1, <1>2, <1>3, <1>5, <1>6 DEF OwnNodes, TypeOK, Combining, Searching, Waiting
<1>10. SingleCombiner'
  BY <1>4 DEF SingleCombiner
<1>11. CombinerPosition'
  <2>1. \A u \in Threads : pc'[u] \in Combining => u = t
    BY <1>4, <1>7
  <2>2. /\ p'[t] = p[t] /\ pc'[t] = "unlock" /\ completed'[p[t]]
        /\ p[t] # MyNode(t) => completed'[MyNode(t)] /\ ~locked[MyNode(t)] /\ locked[p[t]]
    BY <1>2, <1>5, <1>6 DEF TypeOK, CombinerPosition, Combining, Searching
  <2> QED
    BY <2>1, <2>2, <1>1, <1>2, <1>5, <1>6 DEF CombinerPosition, Combining
<1>12. OneGrant'
  BY <1>1, <1>2, <1>4, <1>6 DEF OneGrant
<1>13. Queue(q, lo, hi)'
  <2>1. lo <= hi => Member(q[lo])'
    <3>1. pc'[t] \in Combining /\ p'[t] = q[lo] /\ completed'[q[lo]]
      BY <1>2, <1>5 DEF TypeOK, Combining
    <3> QED
      BY <3>1 DEF Member
  <2>2. \A u \in Threads : pc'[u] = "link" <=> pc[u] = "link"
    BY <1>2 DEF TypeOK
  <2>3. \A u \in Threads : pc'[u] \in Combining => lo <= hi /\ p'[u] = q[lo]
    BY <1>0, <1>2, <1>4 DEF Queue
  <2>4. \A i \in lo .. hi : /\ next'[q[i]] = next[q[i]]
                            /\ i > lo => locked'[q[i]] /\ ~completed'[q[i]]
    <3>1. \A i \in lo .. hi : i > lo => q[i] # p[t]
      BY <1>0, <1>5 DEF Queue
    <3> QED
      BY <3>1, <1>0, <1>2 DEF Queue, TypeOK
  <2> QED
    BY <1>0, <1>1, <1>2, <1>5, <1>6, <2>1, <2>2, <2>3, <2>4, <1>3, SameQueue
<1> QED
  BY <1>0, <1>8, <1>9, <1>10, <1>11, <1>12, <1>13 DEF IInv

(* p is given back. *)
LEMMA UnlockStep ==
  ASSUME NEW t \in Threads, IInv, Unlock(t)
  PROVE  IInv'
<1> TypeOK /\ OwnNodes /\ SingleCombiner /\ CombinerPosition /\ OneGrant
  BY DEF IInv
<1>0. PICK q \in [Nat -> Nodes \cup {NULL}], lo \in Nat \ {0}, hi \in Nat : Queue(q, lo, hi)
  BY DEF IInv
<1>1. \A u \in Threads : MyNode(u)' = MyNode(u) /\ OldNode(u)' = OldNode(u)
  BY DEF Unlock, localVars, MyNode, OldNode
<1>2. /\ pc[t] = "unlock" /\ pc' = [pc EXCEPT ![t] = "test"]
      /\ locked' = [locked EXCEPT ![p[t]] = FALSE]
      /\ UNCHANGED <<tail, next, completed, arg_ret, pid, toggle, mypred, p, counter, result>>
  BY DEF Unlock, Goto, nodeVars, localVars
<1>3. \A u \in Threads : Waiting(u)' <=> Waiting(u)
  BY <1>1, <1>2 DEF Waiting, TypeOK
<1>4. \A u \in Threads : pc'[u] \in Combining <=> pc[u] \in Combining
  BY <1>2 DEF Combining, TypeOK
<1>5. p[t] \in Nodes /\ completed[p[t]] /\ lo <= hi /\ q[lo] = p[t]
  BY <1>0, <1>2 DEF Queue, CombinerPosition, Combining
<1>6. \A u \in Threads : pc[u] \in Combining => u = t
  BY <1>2 DEF SingleCombiner, Combining
<1>7. \A u \in Threads : Waiting(u) \/ pc[u] = "swap" => MyNode(u) # p[t]
  BY <1>5 DEF Waiting, OwnNodes
<1>8. MyNode(t) # p[t] => ~locked[MyNode(t)]
  BY <1>2 DEF CombinerPosition, Combining
<1>9. TypeOK'
  BY <1>2 DEF TypeOK, PCs, Combining
<1>10. OwnNodes'
  <2>1. MyNode(t) \in Nodes /\ ~locked'[MyNode(t)]
    BY <1>2, <1>5, <1>8, NodeFacts DEF TypeOK
  <2>2. \A u \in Threads : pc'[u] \in Searching => u = t
    BY <1>4, <1>6 DEF Searching, Combining
  <2> QED
    BY <2>1, <2>2, <1>1, <1>2, <1>5, <1>7 DEF OwnNodes, TypeOK, Combining, Searching
<1>11. SingleCombiner'
  BY <1>4 DEF SingleCombiner
<1>12. CombinerPosition'
  <2>1. \A u \in Threads : pc'[u] \in Combining => u = t
    BY <1>4, <1>6
  <2>2. /\ p'[t] = p[t] /\ pc'[t] = "test"
        /\ p[t] # MyNode(t) => completed[MyNode(t)] /\ ~locked'[MyNode(t)]
    BY <1>2, <1>5, <1>8, NodeFacts DEF TypeOK, CombinerPosition, Combining
  <2>3. \A u \in Threads : p[t] = OldNode(u) => pc'[u] = "swap" \/ Waiting(u)'
    BY <1>2, <1>3 DEF CombinerPosition, TypeOK, Combining
  <2> QED
    BY <2>1, <2>2, <2>3, <1>1, <1>2, <1>5 DEF CombinerPosition, Searching
<1>13. OneGrant'
  BY <1>1, <1>2, <1>3, <1>4, <1>7 DEF OneGrant, TypeOK
<1>14. Queue(q, lo, hi)'
  <2>1. lo <= hi => Member(q[lo])'
    BY <1>0, <1>1, <1>2, <1>3, <1>4 DEF Queue, Member
  <2>2. \A u \in Threads : pc'[u] = "link" <=> pc[u] = "link"
    BY <1>2 DEF TypeOK
  <2>3. \A u \in Threads : pc'[u] \in Combining => lo <= hi /\ p'[u] = q[lo]
    BY <1>0, <1>2, <1>4, <1>5 DEF Queue
  <2>4. \A i \in lo .. hi : /\ next'[q[i]] = next[q[i]]
                            /\ i > lo => locked'[q[i]] /\ ~completed'[q[i]]
    <3>1. \A i \in lo .. hi : i > lo => q[i] # p[t]
      BY <1>0, <1>5 DEF Queue
    <3> QED
      BY <3>1, <1>0, <1>2 DEF Queue, TypeOK
  <2> QED
    BY <1>0, <1>1, <1>2, <1>3, <2>1, <2>2, <2>3, <2>4, SameQueue
<1> QED
  BY <1>0, <1>9, <1>10, <1>11, <1>12, <1>13, <1>14 DEF IInv

(* What a combiner finds linked behind p is the second node of the queue.   *)
LEMMA NextInQueue ==
  ASSUME TypeOK, NEW q \in [Nat -> Nodes \cup {NULL}], NEW lo \in Nat \ {0}, NEW hi \in Nat,
         Queue(q, lo, hi), lo <= hi, next[q[lo]] # NULL
  PROVE  /\ lo < hi /\ next[q[lo]] = q[lo + 1] /\ q[lo + 1] \in Nodes
         /\ locked[q[lo + 1]] /\ ~completed[q[lo + 1]]
         /\ \E u \in Threads : Waiting(u) /\ MyNode(u) = q[lo + 1]
<1>1. lo < hi
  BY DEF Queue
<1>2. lo + 1 \in lo .. hi /\ lo + 1 > lo /\ (lo + 1) - 1 = lo
  BY <1>1
<1>3. q[lo + 1] \in Nodes /\ locked[q[lo + 1]] /\ ~completed[q[lo + 1]]
  BY <1>2 DEF Queue
<1>4. PICK u \in Threads : Waiting(u) /\ MyNode(u) = q[lo + 1]
  BY <1>2, <1>3 DEF Queue, Member
<1>5. next[q[lo]] = q[lo + 1]
  BY <1>2, <1>4 DEF Queue
<1> QED
  BY <1>1, <1>3, <1>4, <1>5

LEMMA VisitStep ==
  ASSUME NEW t \in Threads, IInv, Visit(t)
  PROVE  IInv'
<1> TypeOK /\ OwnNodes /\ SingleCombiner /\ CombinerPosition /\ OneGrant
  BY DEF IInv
<1>0. PICK q \in [Nat -> Nodes \cup {NULL}], lo \in Nat \ {0}, hi \in Nat : Queue(q, lo, hi)
  BY DEF IInv
<1>1. \A u \in Threads : MyNode(u)' = MyNode(u) /\ OldNode(u)' = OldNode(u)
  BY DEF Visit, localVars, MyNode, OldNode
<1>2. /\ pc[t] = "testNext" /\ pc' = [pc EXCEPT ![t] = "apply"]
      /\ p' = [p EXCEPT ![t] = next[p[t]]] /\ counter[t] < HelpBound
      /\ UNCHANGED <<tail, next, locked, completed, arg_ret, pid, toggle, mypred, counter, result>>
  BY DEF Visit, Goto, nodeVars, localVars
<1>3. \A u \in Threads : Waiting(u)' <=> Waiting(u)
  BY <1>1, <1>2 DEF Waiting, TypeOK
<1>4. \A u \in Threads : pc'[u] \in Combining => u = t
  BY <1>2 DEF SingleCombiner, Combining, TypeOK
<1>5. p[t] \in Nodes /\ completed[p[t]] /\ lo <= hi /\ q[lo] = p[t] /\ next[p[t]] # NULL
  BY <1>0, <1>2 DEF Queue, CombinerPosition, Combining
<1>6. /\ lo < hi /\ next[p[t]] = q[lo + 1] /\ q[lo + 1] \in Nodes
      /\ locked[q[lo + 1]] /\ ~completed[q[lo + 1]]
  BY <1>0, <1>5, NextInQueue
<1>7. PICK w \in Threads : Waiting(w) /\ MyNode(w) = q[lo + 1]
  BY <1>0, <1>5, NextInQueue
<1>8. /\ completed[MyNode(t)] /\ ~locked[MyNode(t)]
      /\ p'[t] = q[lo + 1] /\ pc'[t] = "apply"
      /\ \A u \in Threads : q[lo + 1] # OldNode(u)
  BY <1>2, <1>5, <1>6, <1>7, NodeFacts DEF TypeOK, CombinerPosition, Combining, OwnNodes, Searching
<1>9. TypeOK'
  BY <1>2, <1>6 DEF TypeOK, PCs, Combining
<1>10. OwnNodes'
  BY <1>1, <1>2 DEF OwnNodes, TypeOK, Combining, Searching
<1>11. SingleCombiner'
  BY <1>4 DEF SingleCombiner
<1>12. CombinerPosition'
  BY <1>1, <1>2, <1>4, <1>6, <1>8 DEF CombinerPosition
<1>13. OneGrant'
  BY <1>1, <1>2, <1>3, <1>4 DEF OneGrant, Combining
<1>14. Queue(q, lo + 1, hi)'
  <2>1. \A u \in Threads : pc'[u] = "link" <=> pc[u] = "link"
    BY <1>2 DEF TypeOK
  <2>2. \A u \in Threads : pc'[u] \in Combining => lo + 1 <= hi /\ p'[u] = q[lo + 1]
    BY <1>4, <1>6, <1>8
  <2>3. \A i \in lo + 1 .. hi : i > lo + 1 => locked'[q[i]]
    BY <1>0, <1>2 DEF Queue
  <2> QED
    BY <1>0, <1>1, <1>2, <1>3, <1>5, <1>6, <2>1, <2>2, <2>3, FirstLeaves
<1> QED
  <2>1. lo + 1 \in Nat \ {0}
    OBVIOUS
  <2> QED
    BY <2>1, <1>9, <1>10, <1>11, <1>12, <1>13, <1>14 DEF IInv

(* The CAS on Tail succeeds: p was the only node of the queue.              *)
LEMMA EmptyQueueStep ==
  ASSUME NEW t \in Threads, IInv, EmptyQueue(t)
  PROVE  IInv'
<1> TypeOK /\ OwnNodes /\ SingleCombiner /\ CombinerPosition /\ OneGrant
  BY DEF IInv
<1>0. PICK q \in [Nat -> Nodes \cup {NULL}], lo \in Nat \ {0}, hi \in Nat : Queue(q, lo, hi)
  BY DEF IInv
<1>1. \A u \in Threads : MyNode(u)' = MyNode(u) /\ OldNode(u)' = OldNode(u)
  BY DEF EmptyQueue, localVars, MyNode, OldNode
<1>2. /\ pc[t] = "cas" /\ pc' = [pc EXCEPT ![t] = "return"]
      /\ tail = p[t] /\ tail' = NULL
      /\ UNCHANGED <<next, locked, completed, arg_ret, pid, toggle, mypred, p, counter, result>>
  BY DEF EmptyQueue, Goto, nodeVars, localVars
<1>3. p[t] \in Nodes /\ completed[p[t]] /\ lo <= hi /\ q[lo] = p[t]
  BY <1>0, <1>2 DEF Queue, CombinerPosition, Combining
<1>4. \A u \in Threads : pc'[u] \notin Combining
  BY <1>2 DEF SingleCombiner, Combining, TypeOK
<1>5. completed[MyNode(t)]
  BY <1>2, <1>3 DEF CombinerPosition, Combining
<1>6. \A u \in Threads : Waiting(u)' <=> Waiting(u)
  BY <1>1, <1>2, <1>5 DEF Waiting, TypeOK
<1>7. lo = hi
  BY <1>0, <1>2, <1>3 DEF Queue
<1>8. TypeOK'
  BY <1>2 DEF TypeOK, PCs
<1>9. OwnNodes'
  BY <1>1, <1>2, <1>5 DEF OwnNodes, TypeOK, Combining, Searching
<1>10. SingleCombiner' /\ CombinerPosition' /\ OneGrant'
  BY <1>4 DEF SingleCombiner, CombinerPosition, OneGrant
<1>11. Queue(q, lo + 1, hi)'
  <2>1. \A u \in Threads : pc'[u] = "link" <=> pc[u] = "link"
    BY <1>2 DEF TypeOK
  <2> QED
    BY <1>0, <1>1, <1>2, <1>3, <1>4, <1>6, <1>7, <2>1, FirstLeaves
<1> QED
  <2>1. lo + 1 \in Nat \ {0}
    OBVIOUS
  <2> QED
    BY <2>1, <1>8, <1>9, <1>10, <1>11 DEF IInv

(* The node behind p is unlocked: its thread is the next combiner.          *)
LEMMA HandOverStep ==
  ASSUME NEW t \in Threads, IInv, HandOver(t)
  PROVE  IInv'
<1> TypeOK /\ OwnNodes /\ SingleCombiner /\ CombinerPosition /\ OneGrant
  BY DEF IInv
<1>0. PICK q \in [Nat -> Nodes \cup {NULL}], lo \in Nat \ {0}, hi \in Nat : Queue(q, lo, hi)
  BY DEF IInv
<1>1. \A u \in Threads : MyNode(u)' = MyNode(u) /\ OldNode(u)' = OldNode(u)
  BY DEF HandOver, localVars, MyNode, OldNode
<1>2. /\ pc[t] = "handOver" /\ pc' = [pc EXCEPT ![t] = "return"]
      /\ locked' = [locked EXCEPT ![next[p[t]]] = FALSE]
      /\ UNCHANGED <<tail, next, completed, arg_ret, pid, toggle, mypred, p, counter, result>>
  BY DEF HandOver, Goto, nodeVars, localVars
<1>3. p[t] \in Nodes /\ completed[p[t]] /\ lo <= hi /\ q[lo] = p[t] /\ next[p[t]] # NULL
  BY <1>0, <1>2 DEF Queue, CombinerPosition, Combining
<1>4. \A u \in Threads : pc'[u] \notin Combining
  BY <1>2 DEF SingleCombiner, Combining, TypeOK
<1>5. completed[MyNode(t)]
  BY <1>2, <1>3 DEF CombinerPosition, Combining
<1>6. \A u \in Threads : Waiting(u)' <=> Waiting(u)
  BY <1>1, <1>2, <1>5 DEF Waiting, TypeOK
<1>7. /\ lo < hi /\ next[p[t]] = q[lo + 1] /\ q[lo + 1] \in Nodes
      /\ ~completed[q[lo + 1]]
  BY <1>0, <1>3, NextInQueue
<1>8. PICK w \in Threads : Waiting(w) /\ MyNode(w) = q[lo + 1]
  BY <1>0, <1>3, NextInQueue
<1>9. pc[w] # "link"
  <2>1. lo + 1 \in lo .. hi /\ (lo + 1) - 1 = lo
    BY <1>7
  <2> QED
    BY <2>1, <1>0, <1>3, <1>8 DEF Queue
<1>10. \A u \in Threads : pc[u] \in {"swap", "link"} => MyNode(u) # q[lo + 1]
  BY <1>8, <1>9, NodeFacts DEF Waiting
<1>11. TypeOK'
  BY <1>2 DEF TypeOK, PCs
<1>12. OwnNodes'
  BY <1>1, <1>2, <1>4, <1>5, <1>7, <1>10 DEF OwnNodes, TypeOK, Combining, Searching
<1>13. SingleCombiner' /\ CombinerPosition' /\ OneGrant'
  BY <1>4 DEF SingleCombiner, CombinerPosition, OneGrant
<1>14. Queue(q, lo + 1, hi)'
  <2>1. \A u \in Threads : pc'[u] = "link" <=> pc[u] = "link"
    BY <1>2 DEF TypeOK
  <2>2. \A i \in lo + 1 .. hi : i > lo + 1 => locked'[q[i]]
    <3> SUFFICES ASSUME NEW i \in lo + 1 .. hi, i > lo + 1 PROVE locked'[q[i]]
      OBVIOUS
    <3>1. i \in lo .. hi /\ lo + 1 \in lo .. hi /\ i # lo + 1
      BY <1>7
    <3>2. q[i] \in Nodes /\ q[i] # q[lo + 1] /\ locked[q[i]]
      BY <3>1, <1>0 DEF Queue
    <3> QED
      BY <3>2, <1>2, <1>7 DEF TypeOK
  <2> QED
    BY <1>0, <1>1, <1>2, <1>3, <1>4, <1>6, <1>7, <2>1, <2>2, FirstLeaves
<1> QED
  <2>1. lo + 1 \in Nat \ {0}
    OBVIOUS
  <2> QED
    BY <2>1, <1>11, <1>12, <1>13, <1>14 DEF IInv

LEMMA StutterStep ==
  ASSUME IInv, UNCHANGED vars
  PROVE  IInv'
<1> USE DEF vars, nodeVars, localVars
<1> TypeOK /\ OwnNodes /\ SingleCombiner /\ CombinerPosition /\ OneGrant
  BY DEF IInv
<1>0. PICK q \in [Nat -> Nodes \cup {NULL}], lo \in Nat \ {0}, hi \in Nat : Queue(q, lo, hi)
  BY DEF IInv
<1>1. \A u \in Threads : MyNode(u)' = MyNode(u) /\ OldNode(u)' = OldNode(u)
  BY DEF MyNode, OldNode
<1>2. \A u \in Threads : Waiting(u)' <=> Waiting(u)
  BY <1>1 DEF Waiting
<1>3. TypeOK'
  BY DEF TypeOK
<1>4. OwnNodes' /\ SingleCombiner'
  BY <1>1 DEF OwnNodes, SingleCombiner
<1>5. CombinerPosition' /\ OneGrant'
  BY <1>1, <1>2 DEF CombinerPosition, OneGrant
<1>6. Queue(q, lo, hi)'
  <2>1. lo <= hi => Member(q[lo])'
    BY <1>0, <1>1, <1>2 DEF Queue, Member
  <2>2. \A u \in Threads : pc'[u] \in Combining => lo <= hi /\ p'[u] = q[lo]
    BY <1>0 DEF Queue
  <2>3. \A i \in lo .. hi : i > lo => locked'[q[i]] /\ ~completed'[q[i]]
    BY <1>0 DEF Queue
  <2> QED
    BY <1>0, <1>1, <1>2, <2>1, <2>2, <2>3, SameQueue
<1> QED
  BY <1>0, <1>3, <1>4, <1>5, <1>6 DEF IInv

LEMMA NextIInv == IInv /\ [Next]_vars => IInv'
<1> SUFFICES ASSUME IInv, [Next]_vars PROVE IInv'
  OBVIOUS
<1>1. ASSUME NEW t \in Threads, NEW a \in Args, Call(t, a) PROVE IInv'
  BY <1>1, CallStep
<1>2. ASSUME NEW t \in Threads, Step(t) PROVE IInv'
  <2>1. CASE Swap(t) \/ Link(t) \/ BecomeCombiner(t)
    BY <2>1, SwapStep, LinkStep, BecomeCombinerStep
  <2>2. CASE Apply(t) \/ Complete(t) \/ Unlock(t) \/ Visit(t) \/ EmptyQueue(t) \/ HandOver(t)
    BY <2>2, ApplyStep, CompleteStep, UnlockStep, VisitStep, EmptyQueueStep, HandOverStep
  <2>3. CASE StopSpinning(t)
    BY <2>3, MoveStep DEF StopSpinning
  <2>4. CASE FindNoNext(t) \/ StopCombining(t) \/ EndUnlinked(t) \/ EmptyQueueFails(t)
    BY <2>4, MoveStep DEF FindNoNext, StopCombining, EndUnlinked, EmptyQueueFails, Searching
  <2>5. CASE FindNext(t) \/ EndLinked(t) \/ StopWaiting(t)
    BY <2>5, MoveStep DEF FindNext, EndLinked, StopWaiting, Searching
  <2>6. CASE ReturnHelped(t)
    BY <2>6, ReturnStep DEF ReturnHelped
  <2>7. CASE ReturnCombiner(t)
    <3>1. completed[MyNode(t)]
      BY <2>7 DEF ReturnCombiner, Return, Goto, IInv, OwnNodes
    <3> QED
      BY <2>7, <3>1, ReturnStep DEF ReturnCombiner
  <2> QED
    BY <1>2, <2>1, <2>2, <2>3, <2>4, <2>5, <2>6, <2>7 DEF Step
<1>3. CASE UNCHANGED vars
  BY <1>3, StutterStep
<1> QED
  BY <1>1, <1>2, <1>3 DEF Next

LEMMA Inductive == Spec => []IInv
  BY InitIInv, NextIInv, PTL DEF Spec

-----------------------------------------------------------------------------
(* The type of the state is as stated, in every reachable state; counter    *)
(* never exceeds help_bound.                                                *)
THEOREM TypeCorrect == Spec => []TypeOK
<1>1. IInv => TypeOK
  BY DEF IInv
<1> QED
  BY <1>1, Inductive, PTL

(* No two threads ever combine at once.                                     *)
THEOREM CombinersExclude == Spec => []SingleCombiner
<1>1. IInv => SingleCombiner
  BY DEF IInv
<1> QED
  BY <1>1, Inductive, PTL

(* Two nodes per thread are enough: when a call resets a node, neither Tail *)
(* nor a thread that has yet to link itself nor the combiner can reach it.  *)
THEOREM ReuseIsSafe == Spec => []ReusedNodeIsFree
<1>1. ASSUME IInv, NEW t \in Threads, pc[t] = "idle"
      PROVE  /\ tail # OldNode(t)
             /\ \A u \in Threads :
                  /\ pc[u] = "link" => mypred[u] # OldNode(t)
                  /\ pc[u] \in Combining => p[u] # OldNode(t) /\ next[p[u]] # OldNode(t)
  <2>0. PICK q \in [Nat -> Nodes \cup {NULL}], lo \in Nat \ {0}, hi \in Nat : Queue(q, lo, hi)
    BY <1>1 DEF IInv
  <2>1. /\ \A i \in lo .. hi : q[i] # OldNode(t)
        /\ \A u \in Threads : pc[u] \in Combining => p[u] # OldNode(t)
    BY <1>1, <2>0, OldNodeIsFree
  <2>2. TypeOK /\ NULL # OldNode(t)
    BY <1>1, NodeFacts DEF IInv
  <2>3. tail # OldNode(t)
    BY <2>0, <2>1, <2>2 DEF Queue
  <2>4. ASSUME NEW u \in Threads, pc[u] = "link" PROVE mypred[u] # OldNode(t)
    <3>1. Waiting(u)
      BY <1>1, <2>4 DEF IInv, OwnNodes, Waiting
    <3>2. PICK i \in lo .. hi : q[i] = MyNode(u)
      BY <2>0, <3>1 DEF Queue
    <3>3. i > lo /\ mypred[u] = q[i - 1]
      BY <2>0, <2>4, <3>1, <3>2 DEF Queue
    <3>4. i - 1 \in lo .. hi
      BY <3>3
    <3> QED
      BY <2>1, <3>3, <3>4
  <2>5. ASSUME NEW u \in Threads, pc[u] \in Combining PROVE next[p[u]] # OldNode(t)
    <3>1. lo <= hi /\ q[lo] = p[u]
      BY <2>0, <2>5 DEF Queue
    <3>2. CASE next[p[u]] = NULL
      BY <2>2, <3>2
    <3>3. CASE next[p[u]] # NULL
      <4>1. lo < hi /\ next[p[u]] = q[lo + 1]
        BY <2>0, <2>2, <3>1, <3>3, NextInQueue
      <4>2. lo + 1 \in lo .. hi
        BY <4>1
      <4> QED
        BY <2>1, <4>1, <4>2
    <3> QED
      BY <3>2, <3>3
  <2> QED
    BY <2>1, <2>3, <2>4, <2>5
<1>2. IInv => ReusedNodeIsFree
  BY <1>1 DEF ReusedNodeIsFree, OldNode
<1> QED
  BY <1>2, Inductive, PTL

-----------------------------------------------------------------------------
(* The steps of DSMSynchApplyOp and those of the atomic object.             *)
op == [t \in Threads |-> AbstractOp(t)]

LEMMA InitRefinement == Init => Ob!Init
  BY DEF Init, Ob!Init, Ob!Idle, AbstractOp

LEMMA CallRefinement ==
  ASSUME NEW t \in Threads, NEW a \in Args, IInv, Call(t, a)
  PROVE  Ob!Call(t, a)
<1> TypeOK
  BY DEF IInv
<1> DEFINE n == OldNode(t)
<1>0. PICK q \in [Nat -> Nodes \cup {NULL}], lo \in Nat \ {0}, hi \in Nat : Queue(q, lo, hi)
  BY DEF IInv
<1>1. MyNode(t)' = n /\ \A u \in Threads \ {t} : MyNode(u)' = MyNode(u)
  BY DEF Call, MyNode, OldNode, Other, TypeOK
<1>2. /\ pc[t] = "idle" /\ pc' = [pc EXCEPT ![t] = "swap"] /\ p' = p
      /\ completed' = [completed EXCEPT ![n] = FALSE]
      /\ arg_ret' = [arg_ret EXCEPT ![n] = a]
  BY DEF Call, OldNode, Goto
<1>3. n \in Nodes /\ \A u \in Threads : MyNode(u) \in Nodes /\ MyNode(u) # n
  BY NodeFacts
<1>4. \A c \in Threads : pc[c] = "complete" => p[c] # n
  BY <1>0, <1>2, OldNodeIsFree DEF Combining
<1>5. \A c \in Threads : pc'[c] = "complete" <=> pc[c] = "complete"
  BY <1>2 DEF TypeOK
<1>6. ~Served(t)' /\ \A u \in Threads \ {t} : Served(u)' <=> Served(u)
  BY <1>1, <1>2, <1>3, <1>4, <1>5 DEF Served, TypeOK
<1>7. \A u \in Threads \ {t} : pc'[u] = pc[u] /\ arg_ret'[MyNode(u)'] = arg_ret[MyNode(u)]
  BY <1>1, <1>2, <1>3 DEF TypeOK
<1>8. pc'[t] = "swap" /\ arg_ret'[MyNode(t)'] = a
  BY <1>1, <1>2, <1>3 DEF TypeOK
<1>9. AbstractOp(t) = Ob!Idle /\ AbstractOp(t)' = Ob!Pending(a)
  BY <1>2, <1>6, <1>8 DEF AbstractOp, Ob!Idle, Ob!Pending
<1>10. \A u \in Threads \ {t} : AbstractOp(u)' = AbstractOp(u)
  BY <1>6, <1>7 DEF AbstractOp
<1>11. op[t] = Ob!Idle /\ op' = [op EXCEPT ![t] = Ob!Pending(a)]
  BY <1>9, <1>10 DEF op
<1> QED
  BY <1>11 DEF Ob!Call, Call, op

(* sfunc runs for the thread whose request is in p, with its pid. *)
LEMMA ApplyRefinement ==
  ASSUME NEW t \in Threads, IInv, Apply(t)
  PROVE  \E u \in Threads : Ob!Apply(u)
<1> TypeOK /\ OwnNodes /\ SingleCombiner
  BY DEF IInv
<1>1. PICK u \in Threads : Waiting(u) /\ MyNode(u) = p[t]
  BY FirstIsWaiting DEF Apply, Goto
<1>2. /\ pc[t] = "apply" /\ pc' = [pc EXCEPT ![t] = "complete"] /\ p' = p
      /\ completed' = completed /\ result' = result
      /\ \A v \in Threads : MyNode(v)' = MyNode(v)
  BY DEF Apply, Goto, MyNode
<1>3. MyNode(u) \in Nodes /\ \A v \in Threads \ {u} : MyNode(v) # MyNode(u)
  BY NodeFacts
<1>4. \A c \in Threads : pc[c] # "complete" /\ (pc'[c] = "complete" <=> c = t)
  BY <1>2 DEF SingleCombiner, Combining, TypeOK
<1>5. /\ ~Served(u) /\ Served(u)' /\ pc[u] # "idle" /\ pc'[u] # "idle"
      /\ \A v \in Threads \ {u} : Served(v)' <=> Served(v)
  BY <1>1, <1>2, <1>3, <1>4 DEF Served, Waiting, TypeOK
<1>6. pid[p[t]] = u
  BY <1>1, <1>5 DEF OwnNodes
<1> DEFINE a == arg_ret[MyNode(u)]
<1>7. /\ state' = NewState(state, a, u)
      /\ arg_ret' = [arg_ret EXCEPT ![MyNode(u)] = Result(state, a, u)]
  BY <1>1, <1>6 DEF Apply
<1>8. /\ arg_ret'[MyNode(u)'] = Result(state, a, u)
      /\ \A v \in Threads \ {u} : arg_ret'[MyNode(v)'] = arg_ret[MyNode(v)]
  BY <1>2, <1>3, <1>7 DEF TypeOK
<1>9. \A v \in Threads : pc'[v] = "idle" <=> pc[v] = "idle"
  BY <1>2 DEF TypeOK
<1>10. AbstractOp(u) = Ob!Pending(a) /\ AbstractOp(u)' = Ob!Done(Result(state, a, u))
  BY <1>5, <1>8 DEF AbstractOp, Ob!Pending, Ob!Done
<1>11. \A v \in Threads \ {u} : AbstractOp(v)' = AbstractOp(v)
  BY <1>5, <1>8, <1>9 DEF AbstractOp
<1>12. /\ op[u] = Ob!Pending(a)
       /\ op' = [op EXCEPT ![u] = Ob!Done(Result(state, a, u))]
  BY <1>10, <1>11 DEF op
<1>13. op[u].status = "pending" /\ op[u].arg = a
  BY <1>12 DEF Ob!Pending
<1>14. Ob!Apply(u)
  BY <1>2, <1>7, <1>12, <1>13 DEF Ob!Apply, op
<1> QED
  BY <1>14

(* A return gives the answer sfunc gave to the request of the thread. *)
LEMMA ReturnRefinement ==
  ASSUME NEW t \in Threads, NEW from \in {"check", "return"}, IInv,
         completed[MyNode(t)], Return(t, from)
  PROVE  Ob!Return(t)
<1> TypeOK
  BY DEF IInv
<1>1. /\ pc[t] = from /\ pc' = [pc EXCEPT ![t] = "idle"] /\ p' = [p EXCEPT ![t] = NULL]
      /\ completed' = completed /\ arg_ret' = arg_ret /\ state' = state
      /\ result' = [result EXCEPT ![t] = arg_ret[MyNode(t)]]
      /\ \A v \in Threads : MyNode(v)' = MyNode(v)
  BY DEF Return, Goto, nodeVars, MyNode
<1>2. \A c \in Threads : /\ pc'[c] = "complete" <=> pc[c] = "complete"
                         /\ pc[c] = "complete" => p'[c] = p[c]
  BY <1>1 DEF TypeOK
<1>3. Served(t) /\ \A v \in Threads : Served(v)' <=> Served(v)
  BY <1>1, <1>2 DEF Served
<1>4. pc'[t] = "idle" /\ \A v \in Threads \ {t} : pc'[v] = pc[v]
  BY <1>1 DEF TypeOK
<1>5. AbstractOp(t) = Ob!Done(arg_ret[MyNode(t)]) /\ AbstractOp(t)' = Ob!Idle
  BY <1>1, <1>3, <1>4 DEF AbstractOp, Ob!Done, Ob!Idle
<1>6. \A v \in Threads \ {t} : AbstractOp(v)' = AbstractOp(v)
  BY <1>1, <1>3, <1>4 DEF AbstractOp
<1>7. op[t] = Ob!Done(arg_ret[MyNode(t)]) /\ op' = [op EXCEPT ![t] = Ob!Idle]
  BY <1>5, <1>6 DEF op
<1>8. op[t].status = "done" /\ op[t].ret = arg_ret[MyNode(t)]
  BY <1>7 DEF Ob!Done
<1> QED
  BY <1>1, <1>7, <1>8 DEF Ob!Return, op

(* The other steps are invisible to the callers. *)
LEMMA OtherStepsStutter ==
  ASSUME NEW t \in Threads, IInv,
         \/ Swap(t) \/ Link(t) \/ StopSpinning(t) \/ BecomeCombiner(t)
         \/ Complete(t) \/ Unlock(t) \/ Visit(t) \/ EmptyQueue(t) \/ HandOver(t)
         \/ FindNoNext(t) \/ FindNext(t) \/ StopCombining(t) \/ EndLinked(t) \/ EndUnlinked(t)
         \/ EmptyQueueFails(t) \/ StopWaiting(t)
  PROVE  UNCHANGED <<state, op, result>>
<1> TypeOK /\ SingleCombiner
  BY DEF IInv
<1>1. UNCHANGED <<state, result, arg_ret, toggle>>
  BY DEF Swap, Link, StopSpinning, BecomeCombiner, Complete, Unlock, Visit, EmptyQueue, HandOver,
         FindNoNext, FindNext, StopCombining, EndLinked, EndUnlinked, EmptyQueueFails, StopWaiting,
         Move, nodeVars, localVars
<1>2. \A u \in Threads : MyNode(u)' = MyNode(u) /\ MyNode(u) \in Nodes
  BY <1>1, NodeFacts DEF MyNode
<1>3. \A u \in Threads : pc'[u] = "idle" <=> pc[u] = "idle"
  BY DEF Swap, Link, StopSpinning, BecomeCombiner, Complete, Unlock, Visit, EmptyQueue, HandOver,
         FindNoNext, FindNext, StopCombining, EndLinked, EndUnlinked, EmptyQueueFails, StopWaiting,
         Move, Goto, TypeOK
<1>4. \A u \in Threads : Served(u)' <=> Served(u)
  <2>1. CASE Complete(t)
    <3>1. /\ pc[t] = "complete" /\ pc' = [pc EXCEPT ![t] = "unlock"] /\ p' = p
          /\ completed' = [completed EXCEPT ![p[t]] = TRUE]
      BY <2>1 DEF Complete, Goto, localVars
    <3>2. \A c \in Threads : pc'[c] # "complete" /\ (pc[c] = "complete" <=> c = t)
      BY <3>1 DEF TypeOK, SingleCombiner, Combining
    <3>3. p[t] \in Nodes
      BY <3>1 DEF IInv, CombinerPosition, Combining
    <3>4. \A u \in Threads : completed'[MyNode(u)] <=> completed[MyNode(u)] \/ p[t] = MyNode(u)
      BY <1>2, <3>1, <3>3 DEF TypeOK
    <3> QED
      BY <1>2, <3>1, <3>2, <3>4 DEF Served
  <2>2. CASE ~Complete(t)
    <3>1. /\ completed' = completed
          /\ \A c \in Threads : /\ pc'[c] = "complete" <=> pc[c] = "complete"
                                /\ pc[c] = "complete" => p'[c] = p[c]
      BY <2>2 DEF Swap, Link, StopSpinning, BecomeCombiner, Unlock, Visit, EmptyQueue, HandOver,
         FindNoNext, FindNext, StopCombining, EndLinked, EndUnlinked, EmptyQueueFails, StopWaiting,
         Move, Goto, TypeOK, nodeVars, localVars
    <3> QED
      BY <1>2, <3>1 DEF Served
  <2> QED
    BY <2>1, <2>2
<1>5. \A u \in Threads : AbstractOp(u)' = AbstractOp(u)
  BY <1>1, <1>2, <1>3, <1>4 DEF AbstractOp
<1> QED
  BY <1>1, <1>5 DEF op

LEMMA NextRefinement == IInv /\ [Next]_vars => [Ob!Next]_(Ob!vars)
<1> SUFFICES ASSUME IInv, [Next]_vars PROVE [Ob!Next]_(Ob!vars)
  OBVIOUS
<1>1. ASSUME NEW t \in Threads, NEW a \in Args, Call(t, a) PROVE Ob!Next
  BY <1>1, CallRefinement DEF Ob!Next
<1>2. ASSUME NEW t \in Threads, Step(t) PROVE [Ob!Next]_(Ob!vars)
  <2>1. CASE Apply(t)
    BY <2>1, ApplyRefinement DEF Ob!Next
  <2>2. CASE ReturnHelped(t)
    BY <2>2, ReturnRefinement DEF ReturnHelped, Ob!Next
  <2>3. CASE ReturnCombiner(t)
    <3>1. completed[MyNode(t)]
      BY <2>3 DEF ReturnCombiner, Return, Goto, IInv, OwnNodes
    <3> QED
      BY <2>3, <3>1, ReturnRefinement DEF ReturnCombiner, Ob!Next
  <2> QED
    BY <1>2, <2>1, <2>2, <2>3, OtherStepsStutter DEF Step, Ob!vars, op
<1>3. CASE UNCHANGED vars
  <2>1. \A u \in Threads : AbstractOp(u)' = AbstractOp(u)
    BY <1>3 DEF vars, nodeVars, localVars, AbstractOp, Served, MyNode
  <2> QED
    BY <1>3, <2>1 DEF vars, Ob!vars
<1> QED
  BY <1>1, <1>2, <1>3 DEF Next

(* DSM-Synch is linearizable: every request takes effect exactly once, in   *)
(* the call of sfunc that a combiner makes for it, and the caller gets the  *)
(* answer of that call.                                                     *)
THEOREM Linearizable == Spec => ImplementsAtomicObject
  BY InitRefinement, NextRefinement, Inductive, PTL
     DEF Spec, ImplementsAtomicObject, Ob!Spec
=============================================================================
