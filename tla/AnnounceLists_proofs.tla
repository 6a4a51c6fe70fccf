------------------------ MODULE AnnounceLists_proofs ------------------------
(***************************************************************************)
(* Oyama's combining and flat combining keep every request on their lists  *)
(* and are linearizable, for any number of threads. A list is given by the *)
(* sequence of its nodes, from the last to the first, so that a push is an *)
(* Append; the push of one thread and the walk of the combiner are about   *)
(* the two ends of it. A node is written only while it is on no list.      *)
(***************************************************************************)
EXTENDS MCAnnounceLists, Sequences, FiniteSetTheorems, WellFoundedInduction, TLAPS

-----------------------------------------------------------------------------
(*                               Lists                                     *)

(* Any set of naturals has a least one. *)
LEMMA LeastNatural ==
  ASSUME NEW T, T \subseteq Nat, T # {}
  PROVE  \E n \in T : \A m \in T : n <= m
<1>1. \E x \in T : \A y \in T : ~ (<<y, x>> \in OpToRel(<, Nat))
  BY NatLessThanWellFounded, WFMin
<1>2. \A x, y \in T : x < y => <<x, y>> \in OpToRel(<, Nat)
  BY DEF OpToRel
<1>3. PICK x \in T : \A y \in T : ~ (y < x)
  BY <1>1, <1>2
<1>4. \A y \in T : x <= y
  BY <1>3
<1>. QED
  BY <1>4

(* The i-th node of s, counted from the end of the list, which is NULL.     *)
At(s, i) == IF i = 0 THEN NULL ELSE s[i]

(* s is the list that the links nx make from n on.                          *)
IsList(nx, n, s) ==
  /\ s \in Seq(Threads)
  /\ \A i, j \in 1 .. Len(s) : s[i] = s[j] => i = j
  /\ \A i \in 1 .. Len(s) : nx[s[i]] = At(s, i - 1)
  /\ n = At(s, Len(s))

Members(s) == {s[i] : i \in 1 .. Len(s)}

(* The first k + 1 nodes of s. *)
First(s, k) == {s[i] : i \in {m \in 1 .. Len(s) : m >= Len(s) - k}}

(* The equation of the function upTo of Oyama!List and FC!List. *)
IsUpTo(g, nx, n) ==
  g = [k \in 0 .. Cardinality(Threads) |->
         IF k = 0 THEN {n} \ {NULL}
         ELSE g[k - 1] \cup ({nx[u] : u \in g[k - 1]} \ {NULL})]

LEMMA NoNull == NULL \notin Threads /\ IsFiniteSet(Threads) /\ Cardinality(Threads) \in Nat
  BY ConstantsAssumption, FS_CardinalityType

(* A list has at most one node for each thread. *)
LEMMA ListIsShort ==
  ASSUME NEW nx, NEW n, NEW s, IsList(nx, n, s)
  PROVE  /\ Len(s) \in Nat /\ Len(s) <= Cardinality(Threads)
         /\ Members(s) \subseteq Threads
         /\ Cardinality(Members(s)) = Len(s)
<1>1. Len(s) \in Nat /\ s \in [1 .. Len(s) -> Threads]
  BY DEF IsList
<1>2. s \in [1 .. Len(s) -> Members(s)]
  BY <1>1 DEF Members
<1>3. s \in Bijection(1 .. Len(s), Members(s))
  BY <1>1, <1>2 DEF Bijection, Injection, Surjection, IsInjective, Members, IsList
<1>4. IsFiniteSet(1 .. Len(s)) /\ Cardinality(1 .. Len(s)) = Len(s)
  BY <1>1, FS_Interval
<1>5. Members(s) \subseteq Threads
  BY <1>1 DEF Members
<1>6. IsFiniteSet(Members(s)) /\ Cardinality(Members(s)) <= Cardinality(Threads)
  BY <1>5, NoNull, FS_Subset
<1>7. Cardinality(Members(s)) = Cardinality(1 .. Len(s))
  BY <1>3, <1>4, FS_Bijection DEF ExistsBijection
<1>. QED
  BY <1>1, <1>4, <1>5, <1>6, <1>7

(* One step along the links. *)
LEMMA FirstStep ==
  ASSUME NEW nx, NEW n, NEW s, IsList(nx, n, s), NEW k \in Nat
  PROVE  First(s, k + 1) = First(s, k) \cup ({nx[u] : u \in First(s, k)} \ {NULL})
<1>1. Len(s) \in Nat /\ \A i \in 1 .. Len(s) : s[i] \in Threads /\ s[i] # NULL
  BY NoNull DEF IsList
<1>2. ASSUME NEW u \in First(s, k), nx[u] # NULL
      PROVE  nx[u] \in First(s, k + 1)
  <2>1. PICK i \in 1 .. Len(s) : u = s[i] /\ i >= Len(s) - k
    BY DEF First
  <2>2. i # 1 /\ nx[u] = s[i - 1]
    BY <1>2, <2>1 DEF IsList, At
  <2>3. i - 1 \in 1 .. Len(s) /\ i - 1 >= Len(s) - (k + 1)
    BY <1>1, <2>1, <2>2
  <2>. QED
    BY <2>2, <2>3 DEF First
<1>3. ASSUME NEW v \in First(s, k + 1), v \notin First(s, k)
      PROVE  v # NULL /\ \E u \in First(s, k) : nx[u] = v
  <2>1. PICK i \in 1 .. Len(s) : v = s[i] /\ i >= Len(s) - (k + 1)
    BY DEF First
  <2>2. ~ (i >= Len(s) - k)
    BY <1>3, <2>1 DEF First
  <2>3. i + 1 \in 1 .. Len(s) /\ i + 1 >= Len(s) - k
    BY <1>1, <2>1, <2>2
  <2>4. s[i + 1] \in First(s, k)
    BY <2>3 DEF First
  <2>5. (i + 1) - 1 = i /\ i # 0
    BY <2>1
  <2>6. nx[s[i + 1]] = s[i]
    BY <2>3, <2>5 DEF IsList, At
  <2>. QED
    BY <1>1, <2>1, <2>4, <2>6
<1>4. First(s, k) \subseteq First(s, k + 1)
  BY <1>1 DEF First
<1>. QED
  BY <1>2, <1>3, <1>4

LEMMA FirstAtOnce ==
  ASSUME NEW nx, NEW n, NEW s, IsList(nx, n, s)
  PROVE  First(s, 0) = {n} \ {NULL}
<1>1. Len(s) \in Nat /\ \A i \in 1 .. Len(s) : s[i] \in Threads /\ s[i] # NULL
  BY NoNull DEF IsList
<1>2. First(s, 0) = {s[i] : i \in {m \in 1 .. Len(s) : m = Len(s)}}
  BY <1>1 DEF First
<1>3. CASE Len(s) = 0
  <2>1. n = NULL /\ First(s, 0) = {}
    BY <1>2, <1>3 DEF IsList, At
  <2>. QED
    BY <2>1
<1>4. CASE Len(s) # 0
  <2>1. Len(s) \in 1 .. Len(s) /\ n = s[Len(s)]
    BY <1>1, <1>4 DEF IsList, At
  <2>. QED
    BY <1>1, <1>2, <2>1
<1>. QED
  BY <1>3, <1>4

(* As many steps as there are threads reach the end of the list. *)
LEMMA UpToIs ==
  ASSUME NEW nx, NEW n, NEW s, IsList(nx, n, s), NEW g, IsUpTo(g, nx, n)
  PROVE  g[Cardinality(Threads)] = Members(s)
<1>. DEFINE C == Cardinality(Threads)
            T == {k \in 0 .. C : g[k] # First(s, k)}
<1>0. C \in Nat
  BY NoNull
<1>1. \A k \in 0 .. C : g[k] = IF k = 0 THEN {n} \ {NULL}
                                ELSE g[k - 1] \cup ({nx[u] : u \in g[k - 1]} \ {NULL})
  BY <1>0 DEF IsUpTo
<1>2. T = {}
  <2>. SUFFICES ASSUME T # {} PROVE FALSE
    OBVIOUS
  <2>1. PICK k \in T : \A m \in T : k <= m
    <3>1. T \subseteq Nat
      OBVIOUS
    <3>. HIDE DEF T
    <3>. QED
      BY <3>1, LeastNatural
  <2>2. k # 0
    BY <1>1, <2>1, FirstAtOnce
  <2>3. k - 1 \in 0 .. C /\ ~(k <= k - 1)
    BY <1>0, <2>1, <2>2
  <2>4. g[k - 1] = First(s, k - 1)
    BY <2>1, <2>3
  <2>5. k - 1 \in Nat /\ (k - 1) + 1 = k
    BY <2>1, <2>3
  <2>6. First(s, k) = First(s, k - 1) \cup ({nx[u] : u \in First(s, k - 1)} \ {NULL})
    BY <2>5, FirstStep
  <2>7. g[k] = g[k - 1] \cup ({nx[u] : u \in g[k - 1]} \ {NULL})
    BY <1>1, <2>1, <2>2
  <2>8. g[k] = First(s, k)
    BY <2>4, <2>6, <2>7
  <2>. QED
    BY <2>1, <2>8
<1>3. g[C] = First(s, C)
  BY <1>0, <1>2
<1>4. First(s, C) = Members(s)
  <2>1. Len(s) \in Nat /\ Len(s) <= C
    BY ListIsShort
  <2>2. \A m \in 1 .. Len(s) : m >= Len(s) - C
    BY <1>0, <2>1
  <2>. QED
    BY <2>2 DEF First, Members
<1>. QED
  BY <1>3, <1>4

LEMMA UpToExists ==
  ASSUME NEW nx, NEW n, NEW s, IsList(nx, n, s)
  PROVE  \E g : IsUpTo(g, nx, n)
<1>. DEFINE g == [k \in 0 .. Cardinality(Threads) |-> First(s, k)]
<1>1. \A k \in 0 .. Cardinality(Threads) :
        g[k] = IF k = 0 THEN {n} \ {NULL}
               ELSE g[k - 1] \cup ({nx[u] : u \in g[k - 1]} \ {NULL})
  <2>. SUFFICES ASSUME NEW k \in 0 .. Cardinality(Threads), k # 0
                PROVE  g[k] = g[k - 1] \cup ({nx[u] : u \in g[k - 1]} \ {NULL})
    BY FirstAtOnce, NoNull
  <2>1. k - 1 \in Nat /\ (k - 1) + 1 = k /\ k - 1 \in 0 .. Cardinality(Threads)
    BY NoNull
  <2>2. First(s, k) = First(s, k - 1) \cup ({nx[u] : u \in First(s, k - 1)} \ {NULL})
    BY <2>1, FirstStep
  <2>. QED
    BY <2>1, <2>2
<1>2. IsUpTo(g, nx, n)
  BY <1>1 DEF IsUpTo
<1>. QED
  BY <1>2

(* So List(n) is the members of the list from n on, in both modules. *)
LEMMA ListIs ==
  ASSUME NEW n, NEW s, IsList(next, n, s)
  PROVE  List(n) = Members(s)
<1>1. PICK g : IsUpTo(g, next, n)
  BY UpToExists
<1>2. g = [k \in 0 .. Cardinality(Threads) |->
             IF k = 0 THEN {n} \ {NULL}
             ELSE g[k - 1] \cup ({next[u] : u \in g[k - 1]} \ {NULL})]
  BY <1>1 DEF IsUpTo
<1>. DEFINE upTo == CHOOSE h : h = [k \in 0 .. Cardinality(Threads) |->
             IF k = 0 THEN {n} \ {NULL}
             ELSE h[k - 1] \cup ({next[u] : u \in h[k - 1]} \ {NULL})]
<1>3. IsUpTo(upTo, next, n)
  BY <1>2 DEF IsUpTo
<1>4. List(n) = upTo[Cardinality(Threads)]
  BY DEF List
<1>. HIDE DEF upTo
<1>. QED
  BY <1>3, <1>4, UpToIs

LEMMA FCardinality == F!Cardinality(Threads) = Cardinality(Threads)
  BY DEF F!Cardinality, Cardinality

LEMMA FListIs ==
  ASSUME NEW n, NEW s, IsList(f_next, n, s)
  PROVE  F!List(n) = Members(s)
<1>1. PICK g : IsUpTo(g, f_next, n)
  BY UpToExists
<1>2. g = [k \in 0 .. Cardinality(Threads) |->
             IF k = 0 THEN {n} \ {NULL}
             ELSE g[k - 1] \cup ({f_next[u] : u \in g[k - 1]} \ {NULL})]
  BY <1>1 DEF IsUpTo
<1>. DEFINE upTo == CHOOSE h : h = [k \in 0 .. Cardinality(Threads) |->
             IF k = 0 THEN {n} \ {NULL}
             ELSE h[k - 1] \cup ({f_next[u] : u \in h[k - 1]} \ {NULL})]
<1>3. IsUpTo(upTo, f_next, n)
  BY <1>2 DEF IsUpTo
<1>4. F!List(n) = upTo[Cardinality(Threads)]
  BY FCardinality DEF F!List
<1>. HIDE DEF upTo
<1>. QED
  BY <1>3, <1>4, UpToIs

(* The nodes of the list from n on, if the links make one.                  *)
HasList(nx, n) == \E s : IsList(nx, n, s)
ListOf(nx, n) == Members(CHOOSE s : IsList(nx, n, s))

LEMMA ListOfIs ==
  ASSUME NEW nx, NEW n, NEW s, IsList(nx, n, s)
  PROVE  HasList(nx, n) /\ ListOf(nx, n) = Members(s)
<1>. DEFINE r == CHOOSE r : IsList(nx, n, r)
<1>1. IsList(nx, n, r)
  OBVIOUS
<1>2. PICK g : IsUpTo(g, nx, n)
  BY UpToExists
<1>3. ListOf(nx, n) = Members(r)
  BY DEF ListOf
<1>. HIDE DEF r
<1>4. Members(r) = g[Cardinality(Threads)] /\ Members(s) = g[Cardinality(Threads)]
  BY <1>1, <1>2, UpToIs
<1>. QED
  BY <1>3, <1>4 DEF HasList

LEMMA ListIsListOf ==
  /\ \A n : HasList(next, n) => List(n) = ListOf(next, n)
  /\ \A n : HasList(f_next, n) => F!List(n) = ListOf(f_next, n)
<1>1. ASSUME NEW n, HasList(next, n) PROVE List(n) = ListOf(next, n)
  <2>1. PICK s : IsList(next, n, s)
    BY <1>1 DEF HasList
  <2>. QED
    BY <2>1, ListIs, ListOfIs
<1>2. ASSUME NEW n, HasList(f_next, n) PROVE F!List(n) = ListOf(f_next, n)
  <2>1. PICK s : IsList(f_next, n, s)
    BY <1>2 DEF HasList
  <2>. QED
    BY <2>1, FListIs, ListOfIs
<1>. QED
  BY <1>1, <1>2

LEMMA ListOfThreads ==
  ASSUME NEW nx, NEW n, HasList(nx, n)
  PROVE  /\ ListOf(nx, n) \subseteq Threads /\ IsFiniteSet(ListOf(nx, n))
         /\ Cardinality(ListOf(nx, n)) \in Nat
         /\ Cardinality(ListOf(nx, n)) <= Cardinality(Threads)
<1>1. PICK s : IsList(nx, n, s)
  BY DEF HasList
<1>2. ListOf(nx, n) = Members(s) /\ Members(s) \subseteq Threads
  BY <1>1, ListOfIs, ListIsShort
<1>. QED
  BY <1>2, NoNull, FS_Subset, FS_CardinalityType

LEMMA Nil ==
  ASSUME NEW nx
  PROVE  HasList(nx, NULL) /\ ListOf(nx, NULL) = {}
<1>1. IsList(nx, NULL, <<>>)
  BY DEF IsList, At
<1>2. Members(<<>>) = {}
  BY DEF Members
<1>. QED
  BY <1>1, <1>2, ListOfIs

(* A push. *)
LEMMA PushList ==
  ASSUME NEW nx, NEW n, HasList(nx, n), NEW t \in Threads, t \notin ListOf(nx, n), nx[t] = n
  PROVE  HasList(nx, t) /\ ListOf(nx, t) = ListOf(nx, n) \cup {t}
<1>1. PICK s : IsList(nx, n, s)
  BY DEF HasList
<1>2. ListOf(nx, n) = Members(s)
  BY <1>1, ListOfIs
<1>. DEFINE r == Append(s, t)
<1>3. /\ s \in Seq(Threads) /\ Len(s) \in Nat
      /\ \A i \in 1 .. Len(s) : s[i] # t
  BY <1>1, <1>2 DEF IsList, Members
<1>4. /\ r \in Seq(Threads) /\ Len(r) = Len(s) + 1 /\ r[Len(s) + 1] = t
      /\ \A i \in 1 .. Len(s) : r[i] = s[i]
  BY <1>3
<1>. HIDE DEF r
<1>5. \A i, j \in 1 .. Len(r) : r[i] = r[j] => i = j
  BY <1>1, <1>3, <1>4 DEF IsList
<1>6. ASSUME NEW i \in 1 .. Len(r) PROVE nx[r[i]] = At(r, i - 1)
  <2>1. CASE i \in 1 .. Len(s)
    <3>1. nx[s[i]] = At(s, i - 1)
      BY <1>1, <2>1 DEF IsList
    <3>2. i - 1 = 0 \/ i - 1 \in 1 .. Len(s)
      BY <1>3, <2>1
    <3>. QED
      BY <1>4, <2>1, <3>1, <3>2 DEF At
  <2>2. CASE i = Len(s) + 1
    <3>1. i - 1 = Len(s)
      BY <1>3, <2>2
    <3>2. Len(s) = 0 \/ Len(s) \in 1 .. Len(s)
      BY <1>3
    <3>3. nx[r[i]] = At(s, Len(s))
      BY <1>1, <1>4, <2>2 DEF IsList
    <3>. QED
      BY <1>4, <3>1, <3>2, <3>3 DEF At
  <2>. QED
    BY <1>3, <1>4, <2>1, <2>2
<1>7. t = At(r, Len(r))
  BY <1>3, <1>4 DEF At
<1>8. IsList(nx, t, r)
  BY <1>4, <1>5, <1>6, <1>7 DEF IsList
<1>9. Members(r) = Members(s) \cup {t}
  BY <1>3, <1>4 DEF Members
<1>. QED
  BY <1>2, <1>8, <1>9, ListOfIs

(* The first node leaves. *)
LEMMA PopList ==
  ASSUME NEW nx, NEW n, HasList(nx, n), n # NULL
  PROVE  /\ n \in ListOf(nx, n) /\ n \in Threads
         /\ HasList(nx, nx[n])
         /\ ListOf(nx, nx[n]) = ListOf(nx, n) \ {n}
<1>1. PICK s : IsList(nx, n, s)
  BY DEF HasList
<1>2. ListOf(nx, n) = Members(s)
  BY <1>1, ListOfIs
<1>3. /\ s \in Seq(Threads) /\ Len(s) \in Nat /\ Len(s) # 0 /\ n = s[Len(s)]
      /\ nx[n] = At(s, Len(s) - 1)
  <2>1. s \in Seq(Threads) /\ Len(s) \in Nat /\ Len(s) # 0 /\ n = s[Len(s)]
    BY <1>1 DEF IsList, At
  <2>2. Len(s) \in 1 .. Len(s)
    BY <2>1
  <2>. QED
    BY <1>1, <2>1, <2>2 DEF IsList
<1>. DEFINE m == Len(s) - 1
            r == SubSeq(s, 1, m)
<1>4. m \in Nat /\ Len(s) = m + 1
  BY <1>3
<1>5. r \in Seq(Threads) /\ Len(r) = m /\ \A i \in 1 .. m : r[i] = s[i]
  BY <1>3, <1>4
<1>. HIDE DEF r
<1>6. \A i, j \in 1 .. Len(r) : r[i] = r[j] => i = j
  BY <1>1, <1>4, <1>5 DEF IsList
<1>7. ASSUME NEW i \in 1 .. Len(r) PROVE nx[r[i]] = At(r, i - 1)
  <2>1. i \in 1 .. Len(s) /\ (i - 1 = 0 \/ i - 1 \in 1 .. m)
    BY <1>4, <1>5
  <2>. QED
    BY <1>1, <1>5, <2>1 DEF IsList, At
<1>8. nx[n] = At(r, Len(r))
  <2>1. m = 0 \/ m \in 1 .. m
    BY <1>4
  <2>. QED
    BY <1>3, <1>5, <2>1 DEF At
<1>9. IsList(nx, nx[n], r)
  BY <1>5, <1>6, <1>7, <1>8 DEF IsList
<1>10. \A i \in 1 .. Len(s) : s[i] = s[Len(s)] => i = Len(s)
  BY <1>1, <1>3 DEF IsList
<1>11. Members(r) = Members(s) \ {n}
  <2>1. \A i \in 1 .. Len(s) : i \in 1 .. m \/ i = Len(s)
    BY <1>3
  <2>2. \A i \in 1 .. m : i \in 1 .. Len(s) /\ i # Len(s)
    BY <1>3
  <2>. QED
    BY <1>3, <1>5, <1>10, <2>1, <2>2 DEF Members
<1>12. n \in Members(s) /\ n \in Threads
  <2>1. Len(s) \in 1 .. Len(s)
    BY <1>3
  <2>. QED
    BY <1>3, <2>1 DEF Members
<1>. QED
  BY <1>2, <1>9, <1>11, <1>12, ListOfIs

(* A node that is on no list may be written. *)
LEMMA SameList ==
  ASSUME NEW nx, NEW ny, NEW n, HasList(nx, n), \A u \in ListOf(nx, n) : ny[u] = nx[u]
  PROVE  HasList(ny, n) /\ ListOf(ny, n) = ListOf(nx, n)
<1>1. PICK s : IsList(nx, n, s)
  BY DEF HasList
<1>2. ListOf(nx, n) = Members(s)
  BY <1>1, ListOfIs
<1>3. IsList(ny, n, s)
  BY <1>1, <1>2 DEF IsList, Members
<1>. QED
  BY <1>2, <1>3, ListOfIs

-----------------------------------------------------------------------------
(*                          Oyama's combining                              *)

(* The combiner has detached a list and has not come to its end.            *)
Serving(c) == pc[c] \in {"visit", "apply", "complete"}

(* The first node it has still to serve; all of them; and the stack.        *)
Rest(c) == IF pc[c] = "complete" THEN tmp_next[c] ELSE p[c]
Left(c) == ListOf(next, Rest(c))
Stack == ListOf(next, tail)

(* t has pushed its node and has not returned. *)
InCall(t) == pc[t] \notin {"idle", "readTail", "push"}

Types ==
  /\ tail \in Threads \cup {NULL}
  /\ lock \in BOOLEAN
  /\ next \in [Threads -> Threads \cup {NULL}]
  /\ DOMAIN arg_ret = Threads
  /\ completed \in [Threads -> BOOLEAN]
  /\ pc \in [Threads -> PCs]
  /\ p \in [Threads -> Threads \cup {NULL}]
  /\ tmp_next \in [Threads -> Threads \cup {NULL}]
  /\ counter \in [Threads -> Nat]
  /\ DOMAIN result = Threads

(* The combiner has the lock. *)
Locked == \A c \in Threads : pc[c] \in Combining =>
            lock /\ \A d \in Threads : pc[d] \in Combining => d = c

Lists == HasList(next, tail) /\ \A c \in Threads : Serving(c) => HasList(next, Rest(c))

(* The requests announced are on the stack or with the combiner, and no     *)
(* other node is.                                                           *)
Placed ==
  /\ \A t \in Stack : Announced(t)
  /\ \A c \in Threads : Serving(c) => \A t \in Left(c) : Announced(t) /\ t \notin Stack
  /\ \A t \in Threads : Announced(t) =>
       t \in Stack \/ \E c \in Threads : Serving(c) /\ t \in Left(c)

(* Nobody's flag is up before its request is served.                        *)
Flags ==
  /\ \A t \in Threads : pc[t] \in {"readTail", "push"} => ~completed[t]
  /\ \A c \in Threads : pc[c] \in {"visit", "apply"} => p[c] # NULL
  /\ \A c \in Threads : pc[c] = "apply" => tmp_next[c] = next[p[c]]
  /\ \A c \in Threads : pc[c] = "complete" => p[c] # NULL /\ InCall(p[c]) /\ ~completed[p[c]]

(* A combiner serves itself: its request is on the first list it detaches,  *)
(* if the combiner before it has not served it.                             *)
Own ==
  \A c \in Threads :
    /\ Serving(c) \/ (pc[c] = "detach" /\ counter[c] > 0) => c \notin Stack
    /\ pc[c] \in {"release", "return"} => completed[c]

(* counter has room for the nodes that are left.                            *)
Bound == HelpBound + Cardinality(Threads) - 1
Counts ==
  \A c \in Threads :
    /\ counter[c] <= Bound
    /\ pc[c] \notin Combining \cup {"return"} => counter[c] = 0
    /\ pc[c] \in {"visit", "complete"} => counter[c] + Cardinality(Left(c)) <= Bound
    /\ pc[c] = "apply" => counter[c] + Cardinality(Left(c)) <= Bound + 1

OyamaIInv == Types /\ Locked /\ Lists /\ Placed /\ Flags /\ Own /\ Counts

-----------------------------------------------------------------------------
LEMMA BoundIsNat ==
  ASSUME NEW t \in Threads
  PROVE  /\ HelpBound \in Nat /\ HelpBound >= 1 /\ Bound \in Nat
         /\ HelpBound - 1 + Cardinality(Threads) <= Bound /\ HelpBound <= Bound
<1>1. Cardinality(Threads) \in Nat /\ Cardinality(Threads) # 0
  BY NoNull, FS_EmptySet
<1>2. PICK d \in Nat : HelpFactor = d + 1
  <2>1. HelpFactor \in Nat \ {0}
    BY ConstantsAssumption
  <2>2. HelpFactor - 1 \in Nat /\ HelpFactor = (HelpFactor - 1) + 1
    BY <2>1
  <2>. QED
    BY <2>2
<1>3. HelpBound = d * Cardinality(Threads) + Cardinality(Threads)
  BY <1>1, <1>2 DEF HelpBound
<1>4. d * Cardinality(Threads) \in Nat
  BY <1>1
<1>. QED
  BY <1>1, <1>3, <1>4 DEF Bound

LEMMA OyamaInit == Init => OyamaIInv
<1>. SUFFICES ASSUME Init PROVE OyamaIInv
  OBVIOUS
<1>1. Types
  BY DEF Init, Types, PCs
<1>2. Locked /\ Flags /\ Own
  BY DEF Init, Locked, Flags, Own, Combining, Serving
<1>3. HasList(next, tail) /\ Stack = {}
  BY Nil DEF Init, Stack
<1>4. Lists /\ Placed
  BY <1>3 DEF Init, Lists, Placed, Serving, Announced
<1>5. \A c \in Threads : Bound \in Nat
  BY BoundIsNat
<1>6. Counts
  BY <1>5 DEF Init, Counts, Combining
<1>. QED
  BY <1>1, <1>2, <1>4, <1>6 DEF OyamaIInv

(* t goes from one place to another, nobody else moves. *)
Moves(t, from, to) ==
  /\ pc[t] = from /\ pc'[t] = to
  /\ \A u \in Threads \ {t} : pc'[u] = pc[u]

LEMMA Moving ==
  ASSUME Types, NEW t \in Threads, NEW from, NEW to, Goto(t, from, to)
  PROVE  Moves(t, from, to)
  BY DEF Types, Goto, Moves

(* The type of the state, but for the bound of counter. *)
LEMMA OyamaTypes ==
  ASSUME Types, Flags, [Next]_vars
  PROVE  Types'
<1>. USE DEF Types, Goto, nodeVars, localVars
<1>1. ASSUME NEW t \in Threads, NEW a \in Args, Call(t, a) PROVE Types'
  BY <1>1 DEF Call, PCs
<1>2. ASSUME NEW t \in Threads, ReadTail(t) PROVE Types'
  BY <1>2 DEF ReadTail, PCs
<1>3. ASSUME NEW t \in Threads, Push(t) PROVE Types'
  BY <1>3 DEF Push, PCs
<1>4. ASSUME NEW t \in Threads, PushFails(t) PROVE Types'
  BY <1>4 DEF PushFails, PCs
<1>5. ASSUME NEW t \in Threads, Acquire(t) PROVE Types'
  BY <1>5 DEF Acquire, PCs, Combining
<1>6. ASSUME NEW t \in Threads, AcquireFails(t) \/ StopSpinning(t) \/ TryAgain(t) PROVE Types'
  BY <1>6 DEF AcquireFails, StopSpinning, TryAgain, PCs
<1>7. ASSUME NEW t \in Threads, ReturnHelped(t) \/ ReturnCombiner(t) PROVE Types'
  BY <1>7 DEF ReturnHelped, ReturnCombiner, Return, PCs
<1>8. ASSUME NEW t \in Threads, Detach(t) PROVE Types'
  BY <1>8 DEF Detach, PCs, Combining
<1>9. ASSUME NEW t \in Threads, StopCombining(t) PROVE Types'
  BY <1>9 DEF StopCombining, PCs, Combining
<1>10. ASSUME NEW t \in Threads, Visit(t) PROVE Types'
  <2>1. p[t] \in Threads
    BY <1>10 DEF Visit, Flags
  <2>. QED
    BY <1>10, <2>1 DEF Visit, PCs, Combining
<1>11. ASSUME NEW t \in Threads, Apply(t) PROVE Types'
  BY <1>11 DEF Apply, PCs, Combining
<1>12. ASSUME NEW t \in Threads, Complete(t) PROVE Types'
  BY <1>12 DEF Complete, PCs, Combining
<1>13. ASSUME NEW t \in Threads, Release(t) PROVE Types'
  BY <1>13 DEF Release, PCs, Combining
<1>14. CASE UNCHANGED vars
  BY <1>14 DEF vars
<1>. QED
  BY <1>1, <1>2, <1>3, <1>4, <1>5, <1>6, <1>7, <1>8, <1>9, <1>10, <1>11, <1>12, <1>13, <1>14
     DEF Next, Step

(* Steps that leave the lists alone, of threads without one. *)
LEMMA ListsStay ==
  ASSUME Types, NEW t \in Threads, NEW from, NEW to, Moves(t, from, to),
         from \notin {"visit", "apply", "complete"}, to \notin {"visit", "apply", "complete"},
         UNCHANGED <<tail, next, p, tmp_next>>
  PROVE  /\ Stack' = Stack
         /\ \A c \in Threads : /\ Serving(c)' <=> Serving(c)
                               /\ Rest(c)' = Rest(c)
                               /\ Left(c)' = Left(c)
<1>1. \A c \in Threads : Serving(c)' <=> Serving(c)
  BY DEF Serving, Moves
<1>2. \A c \in Threads : Rest(c)' = Rest(c)
  BY DEF Rest, Moves
<1>3. \A c \in Threads : Left(c)' = Left(c)
  BY <1>2 DEF Left
<1>. QED
  BY <1>1, <1>2, <1>3 DEF Stack

(* Such a step preserves what the invariant says of the lists, as long as   *)
(* it neither announces a request nor raises a flag.                        *)
LEMMA QuietStep ==
  ASSUME OyamaIInv, NEW t \in Threads, NEW from, NEW to, Moves(t, from, to),
         from \notin {"visit", "apply", "complete"}, to \notin {"visit", "apply", "complete"},
         UNCHANGED <<tail, next, p, tmp_next>>,
         InCall(t) => completed'[t] = completed[t],
         from \notin {"idle", "readTail", "push"} /\ to \in {"idle", "readTail", "push"}
           => completed[t],
         from \in {"idle", "readTail", "push"} => to \in {"idle", "readTail", "push"},
         \A u \in Threads \ {t} : completed'[u] = completed[u]
  PROVE  Lists' /\ Placed'
<1>. USE DEF OyamaIInv
<1>1. /\ Stack' = Stack
      /\ \A c \in Threads : /\ Serving(c)' <=> Serving(c)
                            /\ Rest(c)' = Rest(c)
                            /\ Left(c)' = Left(c)
  BY ListsStay
<1>2. Lists'
  BY <1>1 DEF Lists
<1>3. \A u \in Threads : Announced(u)' <=> Announced(u)
  BY DEF Announced, Served, Moves, InCall, Types
<1>4. Stack \subseteq Threads /\ \A c \in Threads : Serving(c) => Left(c) \subseteq Threads
  BY ListOfThreads DEF Lists, Stack, Left
<1>. HIDE DEF OyamaIInv
<1>5. Placed
  BY DEF OyamaIInv
<1>. QED
  BY <1>1, <1>2, <1>3, <1>4, <1>5 DEF Placed

LEMMA CallKeeps ==
  ASSUME OyamaIInv, NEW t \in Threads, NEW a \in Args, Call(t, a)
  PROVE  Locked' /\ Lists' /\ Placed' /\ Flags' /\ Own' /\ Counts'
<1>. USE DEF OyamaIInv
<1>1. Moves(t, "idle", "readTail")
  BY Moving DEF Call
<1>2. /\ UNCHANGED <<tail, lock, next, p, tmp_next, counter>>
      /\ \A u \in Threads \ {t} : completed'[u] = completed[u]
      /\ completed'[t] = FALSE
  BY DEF Call, localVars, Types
<1>3. /\ Stack' = Stack
      /\ \A c \in Threads : (Serving(c)' <=> Serving(c)) /\ Left(c)' = Left(c)
  BY <1>1, <1>2, ListsStay
<1>4. Lists' /\ Placed'
  BY <1>1, <1>2, QuietStep DEF InCall, Moves
<1>5. Locked'
  BY <1>1, <1>2 DEF Locked, Moves, Combining
<1>6. Flags'
  BY <1>1, <1>2 DEF Flags, Moves, InCall, Types
<1>7. Own'
  BY <1>1, <1>2, <1>3 DEF Own, Moves
<1>8. Counts'
  BY <1>1, <1>2, <1>3 DEF Counts, Moves, Combining, Bound
<1>. QED
  BY <1>4, <1>5, <1>6, <1>7, <1>8

(* The attempts that fail, the spinning, and the release of the lock.       *)
LEMMA WaitKeeps ==
  ASSUME OyamaIInv, NEW t \in Threads,
         PushFails(t) \/ AcquireFails(t) \/ StopSpinning(t) \/ TryAgain(t) \/ Release(t)
  PROVE  Locked' /\ Lists' /\ Placed' /\ Flags' /\ Own' /\ Counts'
<1>. USE DEF OyamaIInv
<1>1. /\ UNCHANGED <<tail, next, p, tmp_next, counter, completed>>
      /\ lock' = lock \/ Release(t)
  BY DEF PushFails, AcquireFails, StopSpinning, TryAgain, Release, nodeVars, localVars
<1>2. PICK from, to :
        /\ Moves(t, from, to)
        /\ \/ from = "push" /\ to = "readTail"
           \/ from \in {"try", "spin", "check"} /\ to \in {"spin", "check", "try"}
           \/ from = "release" /\ to = "return" /\ Release(t)
        /\ lock' = lock \/ from = "release"
  BY Moving, <1>1 DEF PushFails, AcquireFails, StopSpinning, TryAgain, Release
<1>3. /\ Stack' = Stack
      /\ \A c \in Threads : (Serving(c)' <=> Serving(c)) /\ Left(c)' = Left(c)
  BY <1>1, <1>2, ListsStay
<1>4. Lists' /\ Placed'
  BY <1>1, <1>2, QuietStep
<1>5. Locked'
  BY <1>1, <1>2 DEF Locked, Moves, Combining
<1>6. Flags'
  BY <1>1, <1>2 DEF Flags, Moves, InCall, Types
<1>7. Own'
  BY <1>1, <1>2, <1>3 DEF Own, Moves
<1>8. Counts'
  BY <1>1, <1>2, <1>3 DEF Counts, Moves, Combining, Bound
<1>. QED
  BY <1>4, <1>5, <1>6, <1>7, <1>8

(* Whoever gets the lock has its node on the stack, or has been served.     *)
LEMMA AcquireKeeps ==
  ASSUME OyamaIInv, NEW t \in Threads, Acquire(t)
  PROVE  Locked' /\ Lists' /\ Placed' /\ Flags' /\ Own' /\ Counts'
<1>. USE DEF OyamaIInv
<1>1. Moves(t, "try", "detach")
  BY Moving DEF Acquire
<1>2. UNCHANGED <<tail, next, p, tmp_next, counter, completed>> /\ lock' = TRUE /\ ~lock
  BY DEF Acquire, nodeVars, localVars
<1>3. /\ Stack' = Stack
      /\ \A c \in Threads : (Serving(c)' <=> Serving(c)) /\ Left(c)' = Left(c)
  BY <1>1, <1>2, ListsStay
<1>4. Lists' /\ Placed'
  BY <1>1, <1>2, QuietStep
<1>5. Locked'
  BY <1>1, <1>2 DEF Locked, Moves
<1>6. Flags'
  BY <1>1, <1>2 DEF Flags, Moves, InCall, Types
<1>7. counter[t] = 0
  BY <1>1 DEF Counts, Moves, Combining
<1>8. Own'
  BY <1>1, <1>2, <1>3, <1>7 DEF Own, Moves, Serving
<1>9. Counts'
  BY <1>1, <1>2, <1>3 DEF Counts, Moves, Combining, Bound
<1>. QED
  BY <1>4, <1>5, <1>6, <1>8, <1>9

LEMMA ReturnKeeps ==
  ASSUME OyamaIInv, NEW t \in Threads, ReturnHelped(t) \/ ReturnCombiner(t)
  PROVE  Locked' /\ Lists' /\ Placed' /\ Flags' /\ Own' /\ Counts'
<1>. USE DEF OyamaIInv
<1>1. PICK from \in {"check", "return"} : Moves(t, from, "idle") /\ Return(t, from)
  BY Moving DEF ReturnHelped, ReturnCombiner, Return
<1>2. /\ UNCHANGED <<tail, lock, next, p, tmp_next, completed>>
      /\ \A u \in Threads \ {t} : counter'[u] = counter[u]
      /\ counter'[t] = 0
  BY <1>1 DEF Return, nodeVars, localVars, Types
<1>3. /\ Stack' = Stack
      /\ \A c \in Threads : (Serving(c)' <=> Serving(c)) /\ Left(c)' = Left(c)
  BY <1>1, <1>2, ListsStay
<1>4. completed[t]
  BY DEF ReturnHelped, ReturnCombiner, Return, Goto, Own
<1>5. Lists' /\ Placed'
  BY <1>1, <1>2, <1>4, QuietStep
<1>6. Locked'
  BY <1>1, <1>2 DEF Locked, Moves, Combining
<1>7. Flags'
  <2>1. \A c \in Threads : pc[c] = "complete" => p[c] # t
    BY <1>4 DEF Flags
  <2>. QED
    BY <1>1, <1>2, <2>1 DEF Flags, Moves, InCall, Types
<1>8. Own'
  BY <1>1, <1>2, <1>3 DEF Own, Moves, Serving
<1>9. Counts'
  <2>1. Bound \in Nat
    BY BoundIsNat
  <2>. QED
    BY <1>1, <1>2, <1>3, <2>1 DEF Counts, Moves, Combining, Bound
<1>. QED
  BY <1>5, <1>6, <1>7, <1>8, <1>9

(* The combiner stops when the stack is empty or the bound is reached, so   *)
(* not before it has detached a list: it has been served.                   *)
LEMMA StopKeeps ==
  ASSUME OyamaIInv, NEW t \in Threads, StopCombining(t)
  PROVE  Locked' /\ Lists' /\ Placed' /\ Flags' /\ Own' /\ Counts'
<1>. USE DEF OyamaIInv
<1>1. Moves(t, "detach", "release")
  BY Moving DEF StopCombining
<1>2. UNCHANGED <<tail, next, p, tmp_next, counter, completed, lock>>
  BY DEF StopCombining, nodeVars, localVars
<1>3. /\ Stack' = Stack
      /\ \A c \in Threads : (Serving(c)' <=> Serving(c)) /\ Left(c)' = Left(c)
  BY <1>1, <1>2, ListsStay
<1>4. Lists' /\ Placed'
  BY <1>1, <1>2, QuietStep
<1>5. Locked'
  BY <1>1, <1>2 DEF Locked, Moves, Combining
<1>6. Flags'
  BY <1>1, <1>2 DEF Flags, Moves, InCall, Types
<1>7. completed[t]
  <2>1. t \notin Stack
    <3>1. CASE tail = NULL
      BY <3>1, Nil DEF Stack
    <3>2. CASE counter[t] >= HelpBound
      BY <1>1, <3>2, BoundIsNat DEF Own, Moves, Types
    <3>. QED
      BY <3>1, <3>2 DEF StopCombining
  <2>2. \A c \in Threads : ~Serving(c)
    BY <1>1 DEF Locked, Moves, Serving, Combining
  <2>3. ~Announced(t)
    BY <2>1, <2>2 DEF Placed
  <2>. QED
    BY <1>1, <2>2, <2>3 DEF Announced, Served, Moves, Serving
<1>8. Own'
  BY <1>1, <1>2, <1>3, <1>7 DEF Own, Moves, Serving
<1>9. Counts'
  BY <1>1, <1>2, <1>3 DEF Counts, Moves, Combining, Bound
<1>. QED
  BY <1>4, <1>5, <1>6, <1>8, <1>9

(* The node that is written is on no list yet. *)
LEMMA ReadTailKeeps ==
  ASSUME OyamaIInv, NEW t \in Threads, ReadTail(t)
  PROVE  Locked' /\ Lists' /\ Placed' /\ Flags' /\ Own' /\ Counts'
<1>. USE DEF OyamaIInv
<1>1. Moves(t, "readTail", "push")
  BY Moving DEF ReadTail
<1>2. /\ UNCHANGED <<tail, lock, p, tmp_next, counter, completed>>
      /\ \A u \in Threads \ {t} : next'[u] = next[u]
  BY DEF ReadTail, localVars, Types
<1>3. ~Announced(t)
  BY <1>1 DEF Announced, Moves
<1>4. /\ \A c \in Threads : Serving(c)' <=> Serving(c)
      /\ \A c \in Threads : Rest(c)' = Rest(c)
  BY <1>1, <1>2 DEF Serving, Moves, Rest
<1>5. HasList(next', tail) /\ ListOf(next', tail) = ListOf(next, tail)
  <2>1. HasList(next, tail) /\ ListOf(next, tail) \subseteq Threads
    BY ListOfThreads DEF Lists
  <2>2. \A u \in ListOf(next, tail) : next'[u] = next[u]
    BY <1>2, <1>3, <2>1 DEF Placed, Stack
  <2>. QED
    BY <2>1, <2>2, SameList
<1>6. ASSUME NEW c \in Threads, Serving(c)
      PROVE  HasList(next', Rest(c)) /\ ListOf(next', Rest(c)) = ListOf(next, Rest(c))
  <2>1. HasList(next, Rest(c)) /\ ListOf(next, Rest(c)) \subseteq Threads
    BY <1>6, ListOfThreads DEF Lists
  <2>2. \A u \in ListOf(next, Rest(c)) : next'[u] = next[u]
    BY <1>2, <1>3, <1>6, <2>1 DEF Placed, Left
  <2>. QED
    BY <2>1, <2>2, SameList
<1>7. Stack' = Stack /\ \A c \in Threads : Serving(c) => Left(c)' = Left(c)
  BY <1>2, <1>4, <1>5, <1>6 DEF Stack, Left
<1>8. Lists'
  BY <1>2, <1>4, <1>5, <1>6 DEF Lists
<1>9. Placed'
  <2>1. \A u \in Threads : Announced(u)' <=> Announced(u)
    BY <1>1, <1>2 DEF Announced, Served, Moves
  <2>2. Stack \subseteq Threads /\ \A c \in Threads : Serving(c) => Left(c) \subseteq Threads
    BY ListOfThreads DEF Lists, Stack, Left
  <2>. QED
    BY <1>4, <1>7, <2>1, <2>2 DEF Placed
<1>10. Locked'
  BY <1>1, <1>2 DEF Locked, Moves, Combining
<1>11. Flags'
  <2>1. ASSUME NEW c \in Threads, pc[c] = "apply" PROVE p[c] # t /\ p[c] \in Threads
    <3>1. p[c] # NULL /\ Rest(c) = p[c] /\ Serving(c)
      BY <2>1 DEF Flags, Rest, Serving
    <3>2. p[c] \in Left(c)
      BY <3>1, PopList DEF Lists, Left
    <3>. QED
      BY <1>3, <3>1, <3>2 DEF Placed, Types
  <2>. QED
    BY <1>1, <1>2, <2>1 DEF Flags, Moves, InCall, Types
<1>12. Own'
  BY <1>1, <1>2, <1>4, <1>7 DEF Own, Moves
<1>13. Counts'
  BY <1>1, <1>2, <1>7 DEF Counts, Moves, Combining, Bound, Serving
<1>. QED
  BY <1>8, <1>9, <1>10, <1>11, <1>12, <1>13

(* The CAS finds tail as the node was linked to it. *)
LEMMA PushKeeps ==
  ASSUME OyamaIInv, NEW t \in Threads, Push(t)
  PROVE  Locked' /\ Lists' /\ Placed' /\ Flags' /\ Own' /\ Counts'
<1>. USE DEF OyamaIInv
<1>1. Moves(t, "push", "try")
  BY Moving DEF Push
<1>2. /\ UNCHANGED <<lock, next, p, tmp_next, counter, completed>>
      /\ tail = next[t] /\ tail' = t
  BY DEF Push, localVars, nodeVars
<1>3. ~Announced(t)
  BY <1>1 DEF Announced, Moves
<1>4. /\ \A c \in Threads : Serving(c)' <=> Serving(c)
      /\ \A c \in Threads : Rest(c)' = Rest(c)
      /\ \A c \in Threads : Left(c)' = Left(c)
  <2>1. \A c \in Threads : Rest(c)' = Rest(c)
    BY <1>1, <1>2 DEF Moves, Rest
  <2>. QED
    BY <1>1, <1>2, <2>1 DEF Serving, Moves, Left
<1>5. HasList(next, t) /\ ListOf(next, t) = ListOf(next, tail) \cup {t}
  BY <1>2, <1>3, PushList DEF Lists, Placed, Stack
<1>6. Stack' = Stack \cup {t}
  BY <1>2, <1>5 DEF Stack
<1>7. Lists'
  BY <1>2, <1>4, <1>5 DEF Lists
<1>8. Placed'
  <2>1. \A u \in Threads \ {t} : Announced(u)' <=> Announced(u)
    BY <1>1, <1>2 DEF Announced, Served, Moves
  <2>2. Announced(t)'
    BY <1>1, <1>2 DEF Announced, Served, Moves, Flags, InCall
  <2>3. Stack \subseteq Threads /\ \A c \in Threads : Serving(c) => Left(c) \subseteq Threads
    BY ListOfThreads DEF Lists, Stack, Left
  <2>. QED
    BY <1>3, <1>4, <1>6, <2>1, <2>2, <2>3 DEF Placed
<1>9. Locked'
  BY <1>1, <1>2 DEF Locked, Moves, Combining
<1>10. Flags'
  BY <1>1, <1>2 DEF Flags, Moves, InCall, Types
<1>11. Own'
  BY <1>1, <1>2, <1>4, <1>6 DEF Own, Moves, Serving
<1>12. Counts'
  BY <1>1, <1>2, <1>4 DEF Counts, Moves, Combining, Bound
<1>. QED
  BY <1>7, <1>8, <1>9, <1>10, <1>11, <1>12

(* What was on the stack is all with the combiner now. *)
LEMMA DetachKeeps ==
  ASSUME OyamaIInv, NEW t \in Threads, Detach(t)
  PROVE  Locked' /\ Lists' /\ Placed' /\ Flags' /\ Own' /\ Counts'
<1>. USE DEF OyamaIInv
<1>1. Moves(t, "detach", "visit")
  BY Moving DEF Detach
<1>2. /\ UNCHANGED <<lock, next, tmp_next, counter, completed>>
      /\ counter[t] < HelpBound /\ tail # NULL /\ tail' = NULL
      /\ p'[t] = tail /\ \A u \in Threads \ {t} : p'[u] = p[u]
  BY DEF Detach, nodeVars, Types
<1>3. \A c \in Threads : pc[c] \in Combining => c = t
  BY <1>1 DEF Locked, Moves, Combining
<1>4. \A c \in Threads : ~Serving(c) /\ (Serving(c)' <=> c = t)
  BY <1>1, <1>3 DEF Serving, Moves, Combining
<1>5. Left(t)' = Stack
  <2>1. Rest(t)' = tail
    BY <1>1, <1>2 DEF Rest, Moves
  <2>. QED
    BY <1>2, <2>1 DEF Left, Stack
<1>6. Stack' = {}
  BY <1>2, Nil DEF Stack
<1>7. Lists'
  <2>1. Rest(t)' = tail
    BY <1>1, <1>2 DEF Rest, Moves
  <2>. QED
    BY <1>2, <1>4, <2>1, Nil DEF Lists
<1>8. Placed'
  <2>1. \A u \in Threads : Announced(u)' <=> Announced(u)
    BY <1>1, <1>2 DEF Announced, Served, Moves, Types
  <2>2. Stack \subseteq Threads
    BY ListOfThreads DEF Lists, Stack
  <2>. QED
    BY <1>4, <1>5, <1>6, <2>1, <2>2 DEF Placed
<1>9. Locked'
  BY <1>1, <1>2 DEF Locked, Moves, Combining
<1>10. Flags'
  BY <1>1, <1>2 DEF Flags, Moves, InCall, Types
<1>11. Own'
  BY <1>1, <1>2, <1>3, <1>4, <1>6 DEF Own, Moves
<1>12. Counts'
  <2>1. Cardinality(Stack) \in Nat /\ Cardinality(Stack) <= Cardinality(Threads)
    BY ListOfThreads DEF Lists, Stack
  <2>2. counter[t] + Cardinality(Left(t)') <= Bound
    BY <1>2, <1>5, <2>1, BoundIsNat, NoNull DEF Types
  <2>. QED
    BY <1>1, <1>2, <1>3, <2>2 DEF Counts, Moves, Combining, Bound
<1>. QED
  BY <1>7, <1>8, <1>9, <1>10, <1>11, <1>12

LEMMA VisitKeeps ==
  ASSUME OyamaIInv, NEW t \in Threads, Visit(t)
  PROVE  Locked' /\ Lists' /\ Placed' /\ Flags' /\ Own' /\ Counts'
<1>. USE DEF OyamaIInv
<1>1. Moves(t, "visit", "apply")
  BY Moving DEF Visit
<1>2. /\ UNCHANGED <<tail, lock, next, p, completed>>
      /\ counter'[t] = counter[t] + 1 /\ \A u \in Threads \ {t} : counter'[u] = counter[u]
      /\ tmp_next'[t] = next[p[t]] /\ \A u \in Threads \ {t} : tmp_next'[u] = tmp_next[u]
  BY DEF Visit, nodeVars, Types
<1>3. \A c \in Threads : pc[c] \in Combining => c = t
  BY <1>1 DEF Locked, Moves, Combining
<1>4. \A c \in Threads : (Serving(c) <=> c = t) /\ (Serving(c)' <=> c = t)
  BY <1>1, <1>3 DEF Serving, Moves, Combining
<1>5. Rest(t) = p[t] /\ Rest(t)' = p[t]
  BY <1>1, <1>2 DEF Rest, Moves
<1>6. Left(t)' = Left(t) /\ Stack' = Stack
  BY <1>2, <1>5 DEF Left, Stack
<1>7. Lists'
  BY <1>2, <1>4, <1>5 DEF Lists
<1>8. Placed'
  <2>1. \A u \in Threads : Announced(u)' <=> Announced(u)
    BY <1>1, <1>2 DEF Announced, Served, Moves
  <2>2. Stack \subseteq Threads /\ Left(t) \subseteq Threads
    BY <1>4, ListOfThreads DEF Lists, Stack, Left
  <2>. QED
    BY <1>4, <1>6, <2>1, <2>2 DEF Placed
<1>9. Locked'
  BY <1>1, <1>2 DEF Locked, Moves, Combining
<1>10. Flags'
  BY <1>1, <1>2 DEF Flags, Moves, InCall, Types
<1>11. Own'
  BY <1>1, <1>2, <1>3, <1>4, <1>6 DEF Own, Moves
<1>12. Counts'
  <2>1. p[t] \in Left(t)
    BY <1>1, <1>4, <1>5, PopList DEF Flags, Lists, Left, Moves
  <2>2. Cardinality(Left(t)) \in Nat /\ Cardinality(Left(t)) # 0
    BY <1>4, <2>1, ListOfThreads, FS_EmptySet DEF Lists, Left
  <2>3. counter[t] + Cardinality(Left(t)) <= Bound
    BY <1>1 DEF Counts, Moves
  <2>4. counter'[t] <= Bound /\ counter'[t] + Cardinality(Left(t)') <= Bound + 1
    BY <1>2, <1>6, <2>2, <2>3, BoundIsNat DEF Types
  <2>. QED
    BY <1>1, <1>2, <1>3, <2>4 DEF Counts, Moves, Combining, Bound
<1>. QED
  BY <1>7, <1>8, <1>9, <1>10, <1>11, <1>12

(* The request that is served is the first of those the combiner has.       *)
LEMMA ApplyKeeps ==
  ASSUME OyamaIInv, NEW t \in Threads, Apply(t)
  PROVE  Locked' /\ Lists' /\ Placed' /\ Flags' /\ Own' /\ Counts'
<1>. USE DEF OyamaIInv
<1>1. Moves(t, "apply", "complete")
  BY Moving DEF Apply
<1>2. UNCHANGED <<tail, lock, next, p, tmp_next, counter, completed>>
  BY DEF Apply, localVars
<1>3. \A c \in Threads : pc[c] \in Combining => c = t
  BY <1>1 DEF Locked, Moves, Combining
<1>4. \A c \in Threads : (Serving(c) <=> c = t) /\ (Serving(c)' <=> c = t)
  BY <1>1, <1>3 DEF Serving, Moves, Combining
<1>5. Rest(t) = p[t] /\ Rest(t)' = next[p[t]] /\ p[t] # NULL
  BY <1>1, <1>2 DEF Rest, Moves, Flags
<1>6. /\ p[t] \in Left(t) /\ p[t] \in Threads
      /\ HasList(next, next[p[t]])
      /\ ListOf(next, next[p[t]]) = ListOf(next, p[t]) \ {p[t]}
  BY <1>4, <1>5, PopList DEF Lists, Left
<1>7. Left(t)' = Left(t) \ {p[t]} /\ Stack' = Stack
  BY <1>2, <1>5, <1>6 DEF Left, Stack
<1>8. Lists'
  BY <1>2, <1>4, <1>5, <1>6 DEF Lists
<1>9. Announced(p[t]) /\ p[t] \notin Stack
  BY <1>4, <1>6 DEF Placed
<1>10. Placed'
  <2>1. \A u \in Threads : Announced(u)' <=> Announced(u) /\ u # p[t]
    <3>1. \A c \in Threads : pc[c] # "complete" /\ (pc'[c] = "complete" <=> c = t)
      BY <1>1, <1>3 DEF Moves, Combining
    <3>2. \A u \in Threads : Served(u)' <=> Served(u) \/ u = p[t]
      BY <1>2, <3>1 DEF Served
    <3>3. \A u \in Threads : InCall(u)' <=> InCall(u)
      BY <1>1 DEF InCall, Moves
    <3>. QED
      BY <3>2, <3>3 DEF Announced, InCall
  <2>2. Stack \subseteq Threads /\ Left(t) \subseteq Threads
    BY <1>4, ListOfThreads DEF Lists, Stack, Left
  <2>. QED
    BY <1>4, <1>7, <1>9, <2>1, <2>2 DEF Placed
<1>11. Locked'
  BY <1>1, <1>2 DEF Locked, Moves, Combining
<1>12. Flags'
  <2>1. InCall(p[t]) /\ ~completed[p[t]]
    BY <1>9 DEF Announced, Served, InCall
  <2>. QED
    BY <1>1, <1>2, <1>5, <2>1 DEF Flags, Moves, InCall, Types
<1>13. Own'
  BY <1>1, <1>2, <1>3, <1>4, <1>7 DEF Own, Moves
<1>14. Counts'
  <2>1. /\ Cardinality(Left(t)) \in Nat
        /\ Cardinality(Left(t)') = Cardinality(Left(t)) - 1
    BY <1>4, <1>6, <1>7, ListOfThreads, FS_RemoveElement DEF Lists, Left
  <2>2. counter[t] + Cardinality(Left(t)) <= Bound + 1
    BY <1>1 DEF Counts, Moves
  <2>3. counter[t] + Cardinality(Left(t)') <= Bound
    BY <2>1, <2>2, BoundIsNat DEF Types
  <2>. QED
    BY <1>1, <1>2, <1>3, <2>3 DEF Counts, Moves, Combining, Bound
<1>. QED
  BY <1>8, <1>10, <1>11, <1>12, <1>13, <1>14

LEMMA CompleteKeeps ==
  ASSUME OyamaIInv, NEW t \in Threads, Complete(t)
  PROVE  Locked' /\ Lists' /\ Placed' /\ Flags' /\ Own' /\ Counts'
<1>. USE DEF OyamaIInv
<1>. DEFINE to == IF tmp_next[t] = NULL THEN "detach" ELSE "visit"
<1>1. Moves(t, "complete", to)
  BY Moving DEF Complete
<1>2. /\ UNCHANGED <<tail, lock, next, counter>>
      /\ p'[t] = tmp_next[t] /\ \A u \in Threads \ {t} : p'[u] = p[u]
      /\ \A u \in Threads \ {t} : tmp_next'[u] = tmp_next[u]
      /\ p[t] \in Threads /\ InCall(p[t]) /\ ~completed[p[t]]
      /\ completed'[p[t]] = TRUE
      /\ \A u \in Threads \ {p[t]} : completed'[u] = completed[u]
  BY DEF Complete, Types, Goto, Flags
<1>3. \A c \in Threads : pc[c] \in Combining => c = t
  BY <1>1 DEF Locked, Moves, Combining
<1>4. \A c \in Threads : /\ Serving(c) <=> c = t
                         /\ Serving(c)' <=> c = t /\ tmp_next[t] # NULL
  BY <1>1, <1>3 DEF Serving, Moves, Combining
<1>5. Rest(t) = tmp_next[t] /\ Rest(t)' = tmp_next[t]
  BY <1>1, <1>2 DEF Rest, Moves
<1>6. Left(t)' = Left(t) /\ Stack' = Stack
  BY <1>2, <1>5 DEF Left, Stack
<1>7. Lists'
  BY <1>2, <1>4, <1>5 DEF Lists
<1>8. Placed'
  <2>1. \A u \in Threads : Announced(u)' <=> Announced(u)
    <3>1. \A c \in Threads : (pc[c] = "complete" <=> c = t) /\ pc'[c] # "complete"
      BY <1>1, <1>3 DEF Moves, Combining
    <3>2. \A u \in Threads : Served(u)' <=> Served(u)
      BY <1>2, <3>1 DEF Served
    <3>3. \A u \in Threads : InCall(u)' <=> InCall(u)
      BY <1>1 DEF InCall, Moves
    <3>. QED
      BY <3>2, <3>3 DEF Announced, InCall
  <2>2. Stack \subseteq Threads /\ Left(t) \subseteq Threads
    BY <1>4, ListOfThreads DEF Lists, Stack, Left
  <2>3. tmp_next[t] = NULL => Left(t) = {}
    BY <1>5, Nil DEF Left
  <2>. QED
    BY <1>4, <1>6, <2>1, <2>2, <2>3 DEF Placed
<1>9. Locked'
  BY <1>1, <1>2 DEF Locked, Moves, Combining
<1>10. Flags'
  BY <1>1, <1>2, <1>3 DEF Flags, Moves, InCall, Types, Combining
<1>11. Own'
  BY <1>1, <1>2, <1>3, <1>4, <1>6 DEF Own, Moves, Combining, Types
<1>12. Counts'
  BY <1>1, <1>2, <1>3, <1>6 DEF Counts, Moves, Combining, Bound
<1>. QED
  BY <1>7, <1>8, <1>9, <1>10, <1>11, <1>12

LEMMA OyamaNext == OyamaIInv /\ [Next]_vars => OyamaIInv'
<1>. SUFFICES ASSUME OyamaIInv, [Next]_vars PROVE OyamaIInv'
  OBVIOUS
<1>1. Types'
  BY OyamaTypes DEF OyamaIInv
<1>2. CASE Next
  <2>1. PICK t \in Threads : (\E a \in Args : Call(t, a)) \/ Step(t)
    BY <1>2 DEF Next
  <2>2. Locked' /\ Lists' /\ Placed' /\ Flags' /\ Own' /\ Counts'
    BY <2>1, CallKeeps, WaitKeeps, AcquireKeeps, ReturnKeeps, StopKeeps, ReadTailKeeps,
       PushKeeps, DetachKeeps, VisitKeeps, ApplyKeeps, CompleteKeeps DEF Step
  <2>. QED
    BY <1>1, <2>2 DEF OyamaIInv
<1>3. CASE UNCHANGED vars
  BY <1>3 DEF OyamaIInv, vars, nodeVars, localVars, Types, Locked, Lists, Placed, Flags, Own,
     Counts, Stack, Left, Rest, Serving, InCall, Announced, Served, Bound
<1>. QED
  BY <1>2, <1>3

LEMMA OyamaListed == OyamaIInv => TypeOK /\ RequestsAreListed
<1>. SUFFICES ASSUME OyamaIInv PROVE TypeOK /\ RequestsAreListed
  OBVIOUS
<1>. USE DEF OyamaIInv
<1>1. TypeOK
  <2>1. counter \in [Threads -> 0 .. HelpBound + Cardinality(Threads) - 1]
    <3>1. \A t \in Threads : counter[t] \in Nat /\ counter[t] <= Bound
      BY DEF Types, Counts
    <3>2. \A t \in Threads : counter[t] \in 0 .. HelpBound + Cardinality(Threads) - 1
      BY <3>1, BoundIsNat DEF Bound
    <3>. QED
      BY <3>2 DEF Types
  <2>. QED
    BY <2>1 DEF Types, TypeOK
<1>2. List(tail) = Stack /\ Stack \subseteq Threads
  BY ListIsListOf, ListOfThreads DEF Lists, Stack
<1>3. \A c \in Threads : Serving(c) => Detached(c) = Left(c) /\ Left(c) \subseteq Threads
  <2>. SUFFICES ASSUME NEW c \in Threads, Serving(c)
                PROVE  Detached(c) = Left(c) /\ Left(c) \subseteq Threads
    OBVIOUS
  <2>1. Detached(c) = List(Rest(c))
    BY DEF Detached, Rest, Serving
  <2>2. HasList(next, Rest(c))
    BY DEF Lists
  <2>. QED
    BY <2>1, <2>2, ListIsListOf, ListOfThreads DEF Left
<1>4. \A c \in Threads : ~Serving(c) => Detached(c) = {}
  BY DEF Detached, Serving
<1>5. \A t \in Threads : Announced(t) <=> t \in List(tail) \cup UNION {Detached(c) : c \in Threads}
  BY <1>2, <1>3, <1>4 DEF Placed
<1>6. List(tail) \cup UNION {Detached(c) : c \in Threads} \subseteq Threads
  BY <1>2, <1>3, <1>4
<1>7. \A c \in Threads : List(tail) \cap Detached(c) = {}
  BY <1>2, <1>3, <1>4 DEF Placed
<1>. QED
  BY <1>1, <1>5, <1>6, <1>7 DEF RequestsAreListed

-----------------------------------------------------------------------------
(* The calls of Oyama's object and those of the atomic object.              *)
op == [t \in Threads |-> AbstractOp(t)]

(* A request is served when sfunc runs for it, and stays so.                *)
LEMMA SameOps ==
  ASSUME Types, NEW t \in Threads, NEW from, NEW to, Moves(t, from, to),
         from # "idle", to # "idle", from # "complete", to # "complete",
         UNCHANGED <<completed, arg_ret, p>>
  PROVE  op' = op
<1>1. \A u \in Threads : Served(u)' <=> Served(u)
  BY DEF Served, Moves
<1>2. \A u \in Threads : pc'[u] = "idle" <=> pc[u] = "idle"
  BY DEF Moves
<1>3. \A u \in Threads : AbstractOp(u)' = AbstractOp(u)
  BY <1>1, <1>2 DEF AbstractOp
<1>. QED
  BY <1>3 DEF op

LEMMA CallRefines ==
  ASSUME OyamaIInv, NEW t \in Threads, NEW a \in Args, Call(t, a)
  PROVE  Ob!Call(t, a)
<1>. USE DEF OyamaIInv
<1>1. Moves(t, "idle", "readTail")
  BY Moving DEF Call
<1>2. /\ completed'[t] = FALSE /\ arg_ret'[t] = a /\ p' = p
      /\ \A u \in Threads \ {t} : completed'[u] = completed[u] /\ arg_ret'[u] = arg_ret[u]
  BY DEF Call, localVars, Types
<1>3. \A c \in Threads : pc[c] = "complete" => p[c] # t
  BY <1>1 DEF Flags, InCall, Moves
<1>4. AbstractOp(t) = [status |-> "idle"]
  BY <1>1 DEF AbstractOp, Moves
<1>5. AbstractOp(t)' = [status |-> "pending", arg |-> a]
  BY <1>1, <1>2, <1>3 DEF AbstractOp, Served, Moves
<1>6. \A u \in Threads \ {t} : AbstractOp(u)' = AbstractOp(u)
  <2>1. \A u \in Threads \ {t} : Served(u)' <=> Served(u)
    BY <1>1, <1>2 DEF Served, Moves
  <2>. QED
    BY <1>1, <1>2, <2>1 DEF AbstractOp, Moves
<1>7. op[t] = Ob!Idle /\ op' = [op EXCEPT ![t] = Ob!Pending(a)]
  BY <1>4, <1>5, <1>6 DEF op, Ob!Idle, Ob!Pending
<1>. QED
  BY <1>7 DEF Ob!Call, Call, op

LEMMA ApplyRefines ==
  ASSUME OyamaIInv, NEW t \in Threads, Apply(t)
  PROVE  p[t] \in Threads /\ Ob!Apply(p[t])
<1>. USE DEF OyamaIInv
<1>1. Moves(t, "apply", "complete")
  BY Moving DEF Apply
<1>2. PICK q \in Threads : q = p[t] /\ Serving(t) /\ q \in Left(t)
  <2>1. Serving(t) /\ Rest(t) = p[t] /\ p[t] # NULL
    BY <1>1 DEF Moves, Serving, Rest, Flags
  <2>. QED
    BY <2>1, PopList DEF Lists, Left
<1>3. pc[q] # "idle" /\ ~Served(q)
  BY <1>2 DEF Placed, Announced
<1>4. /\ UNCHANGED <<completed, p>>
      /\ state' = NewState(state, arg_ret[q], q)
      /\ arg_ret'[q] = Result(state, arg_ret[q], q)
      /\ \A u \in Threads \ {q} : arg_ret'[u] = arg_ret[u]
  BY <1>2 DEF Apply, localVars, Types
<1>5. \A c \in Threads : pc[c] # "complete" /\ (pc'[c] = "complete" <=> c = t)
  BY <1>1 DEF Moves, Combining, Locked
<1>6. \A u \in Threads : Served(u)' <=> Served(u) \/ u = q
  BY <1>2, <1>4, <1>5 DEF Served
<1>7. \A u \in Threads : pc'[u] = "idle" <=> pc[u] = "idle"
  BY <1>1 DEF Moves
<1>8. AbstractOp(q) = [status |-> "pending", arg |-> arg_ret[q]]
  BY <1>3 DEF AbstractOp
<1>9. AbstractOp(q)' = [status |-> "done", ret |-> Result(state, arg_ret[q], q)]
  <2>1. Served(q)' /\ pc'[q] # "idle"
    BY <1>2, <1>3, <1>6, <1>7
  <2>2. AbstractOp(q)' = [status |-> "done", ret |-> arg_ret'[q]]
    BY <1>4, <2>1 DEF AbstractOp
  <2>. QED
    BY <1>4, <2>2
<1>10. \A u \in Threads \ {q} : AbstractOp(u)' = AbstractOp(u)
  BY <1>4, <1>6, <1>7 DEF AbstractOp
<1>11. op[q] = [status |-> "pending", arg |-> arg_ret[q]]
  BY <1>2, <1>8 DEF op
<1>12. op[q].status = "pending" /\ op[q].arg = arg_ret[q]
  BY <1>11
<1>13. op' = [op EXCEPT ![q] = Ob!Done(Result(state, arg_ret[q], q))]
  BY <1>9, <1>10 DEF op, Ob!Done
<1>14. result' = result
  BY DEF Apply
<1>. QED
  BY <1>2, <1>4, <1>12, <1>13, <1>14 DEF Ob!Apply, op

LEMMA CompleteRefines ==
  ASSUME OyamaIInv, NEW t \in Threads, Complete(t)
  PROVE  UNCHANGED <<state, op, result>>
<1>. USE DEF OyamaIInv
<1>. DEFINE to == IF tmp_next[t] = NULL THEN "detach" ELSE "visit"
<1>1. Moves(t, "complete", to)
  BY Moving DEF Complete
<1>2. /\ UNCHANGED <<arg_ret, state, result>>
      /\ p[t] \in Threads /\ completed'[p[t]] = TRUE
      /\ \A u \in Threads \ {p[t]} : completed'[u] = completed[u]
  BY DEF Complete, Types, Goto, Flags
<1>3. \A c \in Threads : (pc[c] = "complete" <=> c = t) /\ pc'[c] # "complete"
  BY <1>1 DEF Moves, Combining, Locked
<1>4. \A u \in Threads : Served(u)' <=> Served(u)
  BY <1>2, <1>3 DEF Served
<1>5. \A u \in Threads : pc'[u] = "idle" <=> pc[u] = "idle"
  BY <1>1 DEF Moves
<1>6. \A u \in Threads : AbstractOp(u)' = AbstractOp(u)
  BY <1>2, <1>4, <1>5 DEF AbstractOp
<1>. QED
  BY <1>2, <1>6 DEF op

LEMMA ReturnRefines ==
  ASSUME OyamaIInv, NEW t \in Threads, ReturnHelped(t) \/ ReturnCombiner(t)
  PROVE  Ob!Return(t)
<1>. USE DEF OyamaIInv
<1>1. PICK from \in {"check", "return"} : Moves(t, from, "idle") /\ Return(t, from)
  BY Moving DEF ReturnHelped, ReturnCombiner, Return
<1>2. completed[t]
  BY DEF ReturnHelped, ReturnCombiner, Return, Goto, Own
<1>3. AbstractOp(t) = [status |-> "done", ret |-> arg_ret[t]]
  BY <1>1, <1>2 DEF AbstractOp, Served, Moves
<1>4. AbstractOp(t)' = [status |-> "idle"]
  BY <1>1 DEF AbstractOp, Moves
<1>5. \A u \in Threads \ {t} : AbstractOp(u)' = AbstractOp(u)
  <2>1. UNCHANGED <<completed, arg_ret, p>>
    BY <1>1 DEF Return, nodeVars
  <2>2. \A u \in Threads : Served(u)' <=> Served(u)
    BY <1>1, <2>1 DEF Served, Moves
  <2>. QED
    BY <1>1, <2>1, <2>2 DEF AbstractOp, Moves
<1>6. op[t] = [status |-> "done", ret |-> arg_ret[t]]
  BY <1>3 DEF op
<1>7. op[t].status = "done" /\ op[t].ret = arg_ret[t]
  BY <1>6
<1>8. op' = [op EXCEPT ![t] = Ob!Idle]
  BY <1>4, <1>5 DEF op, Ob!Idle
<1>9. result' = [result EXCEPT ![t] = op[t].ret] /\ UNCHANGED state
  BY <1>1, <1>7 DEF Return
<1>. QED
  BY <1>7, <1>8, <1>9 DEF Ob!Return, op

LEMMA OyamaRefines == OyamaIInv /\ [Next]_vars => [Ob!Next]_(Ob!vars)
<1>. SUFFICES ASSUME OyamaIInv, [Next]_vars PROVE [Ob!Next]_(Ob!vars)
  OBVIOUS
<1>1. ASSUME NEW t \in Threads, NEW a \in Args, Call(t, a) PROVE Ob!Next
  BY <1>1, CallRefines DEF Ob!Next
<1>2. ASSUME NEW t \in Threads,
             ReadTail(t) \/ Push(t) \/ PushFails(t) \/ Acquire(t) \/ AcquireFails(t)
             \/ StopSpinning(t) \/ TryAgain(t) \/ Visit(t) \/ StopCombining(t) \/ Release(t)
      PROVE  UNCHANGED <<state, op, result>>
  <2>1. PICK from, to : /\ Moves(t, from, to)
                        /\ from # "idle" /\ to # "idle" /\ from # "complete" /\ to # "complete"
    BY <1>2, Moving DEF OyamaIInv, ReadTail, Push, PushFails, Acquire, AcquireFails,
       StopSpinning, TryAgain, Visit, StopCombining, Release
  <2>2. UNCHANGED <<state, result, completed, arg_ret, p>>
    BY <1>2 DEF ReadTail, Push, PushFails, Acquire, AcquireFails, StopSpinning, TryAgain,
       Visit, StopCombining, Release, nodeVars, localVars
  <2>3. op' = op
    BY <2>1, <2>2, SameOps DEF OyamaIInv
  <2>. QED
    BY <2>2, <2>3
<1>3. ASSUME NEW t \in Threads, Detach(t)
      PROVE  UNCHANGED <<state, op, result>>
  <2>1. Moves(t, "detach", "visit")
    BY <1>3, Moving DEF OyamaIInv, Detach
  <2>2. /\ UNCHANGED <<state, result, completed, arg_ret>>
        /\ \A u \in Threads \ {t} : p'[u] = p[u]
    BY <1>3 DEF Detach, nodeVars, OyamaIInv, Types
  <2>3. \A u \in Threads : Served(u)' <=> Served(u)
    BY <2>1, <2>2 DEF Served, Moves
  <2>4. \A u \in Threads : AbstractOp(u)' = AbstractOp(u)
    BY <2>1, <2>2, <2>3 DEF AbstractOp, Moves
  <2>. QED
    BY <2>2, <2>4 DEF op
<1>4. ASSUME NEW t \in Threads, Apply(t) PROVE Ob!Next
  BY <1>4, ApplyRefines DEF Ob!Next
<1>5. ASSUME NEW t \in Threads, Complete(t) PROVE UNCHANGED <<state, op, result>>
  BY <1>5, CompleteRefines
<1>6. ASSUME NEW t \in Threads, ReturnHelped(t) \/ ReturnCombiner(t) PROVE Ob!Next
  BY <1>6, ReturnRefines DEF Ob!Next
<1>7. CASE UNCHANGED vars
  BY <1>7 DEF vars, nodeVars, localVars, op, AbstractOp, Served, Ob!vars
<1>. QED
  BY <1>1, <1>2, <1>3, <1>4, <1>5, <1>6, <1>7 DEF Next, Step, Ob!vars, op

LEMMA OyamaStarts == Init => Ob!Init
  BY DEF Init, Ob!Init, Ob!Idle, AbstractOp

(* The combining object of Oyama et al. is linearizable: each request takes *)
(* effect once, between call and return, when a combiner runs sfunc for it, *)
(* and its thread returns the answer, whoever the combiner was              *)
(* (oyama.c:15-60).                                                         *)
THEOREM OyamaIsLinearizable == Spec => ImplementsAtomicObject
<1>1. Spec => []OyamaIInv
  BY OyamaInit, OyamaNext, PTL DEF Spec
<1>. QED
  BY <1>1, OyamaStarts, OyamaRefines, PTL DEF Spec, ImplementsAtomicObject, Ob!Spec

-----------------------------------------------------------------------------
(*                            Flat combining                               *)

(* The request of t is on the list. *)
Enlisted(t) == f_active[t] /\ f_pc[t] \notin {"enlist", "push"}

(* The combiner goes through the list, from f_cur on.                       *)
Walking(t) == f_pc[t] \in {"scan", "finish"}
Ahead(t) == ListOf(f_next, f_cur[t])
Published == ListOf(f_next, f_head)

(* t has the lock. *)
HasLock(t) == f_owner[t] /\ f_pc[t] # "return"

FLocked ==
  \A t \in Threads :
    /\ HasLock(t) => f_lock /\ \A u \in Threads : HasLock(u) => u = t
    /\ f_pc[t] \in {"round", "scan", "finish"} => f_owner[t]
    /\ f_owner[t] => f_pc[t] \in {"enlist", "push", "round", "scan", "finish", "return"}

FLists ==
  /\ HasList(f_next, f_head)
  /\ \A t \in Threads : Walking(t) => HasList(f_next, f_cur[t])

FPlaced ==
  /\ Published = {t \in Threads : Enlisted(t)}
  /\ \A t \in Threads : Walking(t) => Ahead(t) \subseteq Published

(* A request is pending only during a call, and until it has been served.   *)
FFlags ==
  \A t \in Threads :
    /\ f_pc[t] \in {"push", "round", "scan", "finish"} => f_active[t]
    /\ f_pending[t] => f_pc[t] \notin {"idle", "publish", "return"}
    /\ f_pc[t] = "finish" => f_cur[t] # NULL /\ f_pending[f_cur[t]]

(* A combiner comes by its own request in the first round.                  *)
FOwn ==
  \A t \in Threads :
    /\ f_pc[t] = "round" /\ f_i[t] > 0 => ~f_pending[t]
    /\ Walking(t) /\ f_pending[t] => t \in Ahead(t)

FCounts ==
  \A t \in Threads :
    /\ f_pc[t] \notin {"round", "scan", "finish", "return"} => f_i[t] = 0
    /\ Walking(t) => f_i[t] < CombiningRounds

FCIInv == F!TypeOK /\ FLocked /\ FLists /\ FPlaced /\ FFlags /\ FOwn /\ FCounts

-----------------------------------------------------------------------------
LEMMA FConstants ==
  CombiningRounds \in Nat /\ CombiningRounds > 0 /\ 0 \in 0 .. CombiningRounds
  BY FCAssumption DEF F!ConstantsAssumption

LEMMA FCInit == F!Init => FCIInv
<1>. SUFFICES ASSUME F!Init PROVE FCIInv
  OBVIOUS
<1>1. F!TypeOK
  BY FConstants DEF F!Init, F!TypeOK, F!PCs
<1>2. FLocked /\ FFlags /\ FOwn /\ FCounts
  BY DEF F!Init, FLocked, FFlags, FOwn, FCounts, HasLock, Walking
<1>3. HasList(f_next, f_head) /\ Published = {}
  BY Nil DEF F!Init, Published
<1>4. FLists /\ FPlaced
  BY <1>3 DEF F!Init, FLists, FPlaced, Walking, Enlisted
<1>. QED
  BY <1>1, <1>2, <1>4 DEF FCIInv

FMoves(t, from, to) ==
  /\ f_pc[t] = from /\ f_pc'[t] = to
  /\ \A u \in Threads \ {t} : f_pc'[u] = f_pc[u]

LEMMA FMoving ==
  ASSUME F!TypeOK, NEW t \in Threads, NEW from, NEW to, F!Goto(t, from, to)
  PROVE  FMoves(t, from, to)
  BY DEF F!TypeOK, F!Goto, FMoves

LEMMA FCTypes ==
  ASSUME F!TypeOK, FCounts, FFlags, [F!Next]_(F!vars)
  PROVE  F!TypeOK'
<1>. USE DEF F!TypeOK, F!Goto, F!requestVars, F!localVars
<1>1. ASSUME NEW t \in Threads, NEW a \in Args, F!Call(t, a) PROVE F!TypeOK'
  BY <1>1 DEF F!Call, F!PCs
<1>2. ASSUME NEW t \in Threads, F!Publish(t) PROVE F!TypeOK'
  BY <1>2 DEF F!Publish, F!PCs
<1>3. ASSUME NEW t \in Threads, F!Acquire(t) PROVE F!TypeOK'
  BY <1>3 DEF F!Acquire, F!PCs
<1>4. ASSUME NEW t \in Threads, F!AcquireFails(t) \/ F!StopSpinning(t) \/ F!TryAgain(t)
      PROVE  F!TypeOK'
  BY <1>4 DEF F!AcquireFails, F!StopSpinning, F!TryAgain, F!PCs
<1>5. ASSUME NEW t \in Threads, F!ReturnHelped(t) \/ F!ReturnCombiner(t) PROVE F!TypeOK'
  BY <1>5, FConstants DEF F!ReturnHelped, F!ReturnCombiner, F!Return, F!PCs
<1>6. ASSUME NEW t \in Threads, F!ReadHead(t) PROVE F!TypeOK'
  BY <1>6 DEF F!ReadHead, F!PCs
<1>7. ASSUME NEW t \in Threads, F!Push(t) PROVE F!TypeOK'
  BY <1>7 DEF F!Push, F!PCs
<1>8. ASSUME NEW t \in Threads, F!PushFails(t) PROVE F!TypeOK'
  BY <1>8 DEF F!PushFails, F!PCs
<1>9. ASSUME NEW t \in Threads, F!StartRound(t) PROVE F!TypeOK'
  BY <1>9 DEF F!StartRound, F!PCs
<1>10. ASSUME NEW t \in Threads, F!Skip(t) PROVE F!TypeOK'
  BY <1>10 DEF F!Skip, F!PCs
<1>11. ASSUME NEW t \in Threads, F!Apply(t) PROVE F!TypeOK'
  BY <1>11 DEF F!Apply, F!PCs
<1>12. ASSUME NEW t \in Threads, F!Finish(t) PROVE F!TypeOK'
  BY <1>12 DEF F!Finish, F!PCs, FFlags
<1>13. ASSUME NEW t \in Threads, F!EndRound(t) PROVE F!TypeOK'
  <2>1. f_i[t] + 1 \in 0 .. CombiningRounds
    BY <1>13, FConstants DEF F!EndRound, FCounts, Walking
  <2>. QED
    BY <1>13, <2>1 DEF F!EndRound, F!PCs
<1>14. ASSUME NEW t \in Threads, F!Release(t) PROVE F!TypeOK'
  BY <1>14 DEF F!Release, F!PCs
<1>15. CASE UNCHANGED F!vars
  BY <1>15 DEF F!vars
<1>. QED
  BY <1>1, <1>2, <1>3, <1>4, <1>5, <1>6, <1>7, <1>8, <1>9, <1>10, <1>11, <1>12, <1>13, <1>14,
     <1>15 DEF F!Next, F!Step, F!FCEnqueueRequest

(* The list consists of threads. *)
LEMMA FListsOfThreads ==
  ASSUME FLists
  PROVE  Published \subseteq Threads /\ \A t \in Threads : Walking(t) => Ahead(t) \subseteq Threads
  BY ListOfThreads DEF FLists, Published, Ahead

(* Steps that leave the list alone, and with it who goes through it.        *)
LEMMA FQuietStep ==
  ASSUME FCIInv, NEW t \in Threads, NEW from, NEW to, FMoves(t, from, to),
         UNCHANGED <<f_head, f_next, f_active, f_cur>>,
         to \in {"scan", "finish"} => from \in {"scan", "finish"},
         f_active[t] => (to \in {"enlist", "push"} <=> from \in {"enlist", "push"})
  PROVE  /\ FLists' /\ FPlaced' /\ Published' = Published
         /\ \A u \in Threads : Ahead(u)' = Ahead(u)
<1>1. Published' = Published /\ \A u \in Threads : Ahead(u)' = Ahead(u)
  BY DEF Published, Ahead
<1>2. \A u \in Threads : Walking(u)' => Walking(u)
  BY DEF Walking, FMoves
<1>3. \A u \in Threads : Enlisted(u)' <=> Enlisted(u)
  BY DEF Enlisted, FMoves
<1>4. FLists'
  BY <1>2 DEF FCIInv, FLists
<1>5. FPlaced'
  BY <1>1, <1>2, <1>3 DEF FCIInv, FPlaced
<1>. QED
  BY <1>1, <1>4, <1>5

(* A combiner goes on to x. *)
LEMMA FAdvance ==
  ASSUME FCIInv, NEW t \in Threads, NEW from \in {"round", "scan", "finish"}, FMoves(t, from, "scan"),
         UNCHANGED <<f_head, f_next, f_active>>, \A u \in Threads \ {t} : f_cur'[u] = f_cur[u],
         NEW x, f_cur'[t] = x, HasList(f_next, x), ListOf(f_next, x) \subseteq Published
  PROVE  /\ FLists' /\ FPlaced' /\ Published' = Published
         /\ Ahead(t)' = ListOf(f_next, x)
         /\ \A u \in Threads \ {t} : Ahead(u)' = Ahead(u)
<1>1. /\ Published' = Published /\ Ahead(t)' = ListOf(f_next, x)
      /\ \A u \in Threads \ {t} : Ahead(u)' = Ahead(u)
  BY DEF Published, Ahead
<1>2. \A u \in Threads \ {t} : Walking(u)' => Walking(u)
  BY DEF Walking, FMoves
<1>3. \A u \in Threads : Enlisted(u)' <=> Enlisted(u)
  BY DEF Enlisted, FMoves
<1>4. FLists'
  BY <1>2 DEF FCIInv, FLists
<1>5. FPlaced'
  BY <1>1, <1>2, <1>3 DEF FCIInv, FPlaced
<1>. QED
  BY <1>1, <1>4, <1>5

LEMMA FCallKeeps ==
  ASSUME FCIInv, NEW t \in Threads, NEW a \in Args, F!Call(t, a)
  PROVE  FLocked' /\ FLists' /\ FPlaced' /\ FFlags' /\ FOwn' /\ FCounts'
<1>. USE DEF FCIInv
<1>1. FMoves(t, "idle", "publish")
  BY FMoving DEF F!Call
<1>2. UNCHANGED <<f_head, f_lock, f_next, f_active, f_pending, f_owner, f_i, f_cur>>
  BY DEF F!Call, F!localVars
<1>3. /\ FLists' /\ FPlaced' /\ \A u \in Threads : Ahead(u)' = Ahead(u)
  BY <1>1, <1>2, FQuietStep
<1>4. FLocked'
  BY <1>1, <1>2 DEF FLocked, HasLock, FMoves
<1>5. FFlags'
  BY <1>1, <1>2 DEF FFlags, FMoves
<1>6. FOwn' /\ FCounts'
  BY <1>1, <1>2, <1>3 DEF FOwn, FCounts, FMoves, Walking
<1>. QED
  BY <1>3, <1>4, <1>5, <1>6

(* The request is pending from here on; nobody is serving it.               *)
LEMMA FPublishKeeps ==
  ASSUME FCIInv, NEW t \in Threads, F!Publish(t)
  PROVE  FLocked' /\ FLists' /\ FPlaced' /\ FFlags' /\ FOwn' /\ FCounts'
<1>. USE DEF FCIInv
<1>1. FMoves(t, "publish", "try")
  BY FMoving DEF F!Publish
<1>2. /\ UNCHANGED <<f_head, f_lock, f_next, f_active, f_owner, f_i, f_cur>>
      /\ f_pending'[t] = TRUE /\ \A u \in Threads \ {t} : f_pending'[u] = f_pending[u]
  BY DEF F!Publish, F!localVars, F!TypeOK
<1>3. /\ FLists' /\ FPlaced' /\ \A u \in Threads : Ahead(u)' = Ahead(u)
  BY <1>1, <1>2, FQuietStep
<1>4. FLocked'
  BY <1>1, <1>2 DEF FLocked, HasLock, FMoves
<1>5. FFlags'
  BY <1>1, <1>2 DEF FFlags, FMoves, F!TypeOK
<1>6. FOwn' /\ FCounts'
  BY <1>1, <1>2, <1>3 DEF FOwn, FCounts, FMoves, Walking
<1>. QED
  BY <1>3, <1>4, <1>5, <1>6

LEMMA FAcquireKeeps ==
  ASSUME FCIInv, NEW t \in Threads, F!Acquire(t)
  PROVE  FLocked' /\ FLists' /\ FPlaced' /\ FFlags' /\ FOwn' /\ FCounts'
<1>. USE DEF FCIInv
<1>. DEFINE to == IF f_active[t] THEN "round" ELSE "enlist"
<1>1. FMoves(t, "try", to)
  BY FMoving DEF F!Acquire
<1>2. /\ UNCHANGED <<f_head, f_next, f_active, f_pending, f_i, f_cur>>
      /\ ~f_lock /\ f_lock' = TRUE
      /\ f_owner'[t] = TRUE /\ \A u \in Threads \ {t} : f_owner'[u] = f_owner[u]
  BY DEF F!Acquire, F!requestVars, F!TypeOK
<1>3. /\ FLists' /\ FPlaced' /\ \A u \in Threads : Ahead(u)' = Ahead(u)
  BY <1>1, <1>2, FQuietStep
<1>4. FLocked'
  BY <1>1, <1>2 DEF FLocked, HasLock, FMoves
<1>5. FFlags'
  BY <1>1, <1>2 DEF FFlags, FMoves
<1>6. f_i[t] = 0
  BY <1>1 DEF FCounts, FMoves
<1>7. FOwn' /\ FCounts'
  BY <1>1, <1>2, <1>3, <1>6 DEF FOwn, FCounts, FMoves, Walking
<1>. QED
  BY <1>3, <1>4, <1>5, <1>7

(* The waiting, and an attempt to put the request on the list that fails.   *)
LEMMA FWaitKeeps ==
  ASSUME FCIInv, NEW t \in Threads,
         F!AcquireFails(t) \/ F!StopSpinning(t) \/ F!TryAgain(t) \/ F!PushFails(t)
  PROVE  FLocked' /\ FLists' /\ FPlaced' /\ FFlags' /\ FOwn' /\ FCounts'
<1>. USE DEF FCIInv
<1>1. PICK from, to :
        /\ FMoves(t, from, to)
        /\ \/ from \in {"try", "spin", "check"} /\ to \in {"spin", "check", "try"}
           \/ from = "check" /\ to = "enlist" /\ ~f_active[t]
           \/ from = "push" /\ to = "enlist"
  BY FMoving DEF F!AcquireFails, F!StopSpinning, F!TryAgain, F!PushFails
<1>2. UNCHANGED <<f_head, f_lock, f_next, f_active, f_pending, f_owner, f_i, f_cur>>
  BY DEF F!AcquireFails, F!StopSpinning, F!TryAgain, F!PushFails, F!requestVars, F!localVars
<1>3. /\ FLists' /\ FPlaced' /\ \A u \in Threads : Ahead(u)' = Ahead(u)
  BY <1>1, <1>2, FQuietStep
<1>4. FLocked'
  BY <1>1, <1>2 DEF FLocked, HasLock, FMoves
<1>5. FFlags'
  BY <1>1, <1>2 DEF FFlags, FMoves
<1>6. FOwn' /\ FCounts'
  BY <1>1, <1>2, <1>3 DEF FOwn, FCounts, FMoves, Walking
<1>. QED
  BY <1>3, <1>4, <1>5, <1>6

LEMMA FReturnKeeps ==
  ASSUME FCIInv, NEW t \in Threads, F!ReturnHelped(t) \/ F!ReturnCombiner(t)
  PROVE  FLocked' /\ FLists' /\ FPlaced' /\ FFlags' /\ FOwn' /\ FCounts'
<1>. USE DEF FCIInv
<1>1. PICK from \in {"check", "return"} : FMoves(t, from, "idle") /\ F!Return(t, from)
  BY FMoving DEF F!ReturnHelped, F!ReturnCombiner, F!Return
<1>2. /\ UNCHANGED <<f_head, f_lock, f_next, f_active, f_pending, f_cur>>
      /\ f_owner'[t] = FALSE /\ \A u \in Threads \ {t} : f_owner'[u] = f_owner[u]
      /\ f_i'[t] = 0 /\ \A u \in Threads \ {t} : f_i'[u] = f_i[u]
  BY <1>1 DEF F!Return, F!requestVars, F!TypeOK
<1>3. /\ FLists' /\ FPlaced' /\ \A u \in Threads : Ahead(u)' = Ahead(u)
  BY <1>1, <1>2, FQuietStep
<1>4. FLocked'
  BY <1>1, <1>2 DEF FLocked, HasLock, FMoves
<1>5. ~f_pending[t]
  BY DEF F!ReturnHelped, F!ReturnCombiner, F!Return, F!Goto, FFlags
<1>6. FFlags'
  BY <1>1, <1>2, <1>5 DEF FFlags, FMoves
<1>7. FOwn' /\ FCounts'
  BY <1>1, <1>2, <1>3 DEF FOwn, FCounts, FMoves, Walking
<1>. QED
  BY <1>3, <1>4, <1>6, <1>7

(* The request that is being put on the list is not there yet.              *)
LEMMA FReadHeadKeeps ==
  ASSUME FCIInv, NEW t \in Threads, F!ReadHead(t)
  PROVE  FLocked' /\ FLists' /\ FPlaced' /\ FFlags' /\ FOwn' /\ FCounts'
<1>. USE DEF FCIInv
<1>1. FMoves(t, "enlist", "push")
  BY FMoving DEF F!ReadHead
<1>2. /\ UNCHANGED <<f_head, f_lock, f_pending, f_owner, f_i, f_cur>>
      /\ \A u \in Threads \ {t} : f_next'[u] = f_next[u]
      /\ f_active'[t] = TRUE /\ \A u \in Threads \ {t} : f_active'[u] = f_active[u]
  BY DEF F!ReadHead, F!localVars, F!TypeOK
<1>3. t \notin Published
  BY <1>1 DEF FPlaced, Enlisted, FMoves
<1>4. HasList(f_next', f_head) /\ ListOf(f_next', f_head) = ListOf(f_next, f_head)
  <2>1. HasList(f_next, f_head)
    BY DEF FLists
  <2>2. \A u \in ListOf(f_next, f_head) : f_next'[u] = f_next[u]
    BY <1>2, <1>3, FListsOfThreads DEF Published
  <2>. QED
    BY <2>1, <2>2, SameList
<1>5. ASSUME NEW u \in Threads, Walking(u)
      PROVE  HasList(f_next', f_cur[u]) /\ ListOf(f_next', f_cur[u]) = ListOf(f_next, f_cur[u])
  <2>1. HasList(f_next, f_cur[u])
    BY <1>5 DEF FLists
  <2>2. Ahead(u) \subseteq Published /\ Published \subseteq Threads
    BY <1>5, FListsOfThreads DEF FPlaced
  <2>3. \A v \in ListOf(f_next, f_cur[u]) : f_next'[v] = f_next[v]
    BY <1>2, <1>3, <2>2 DEF Ahead
  <2>. QED
    BY <2>1, <2>3, SameList
<1>6. \A u \in Threads : Walking(u)' <=> Walking(u)
  BY <1>1 DEF Walking, FMoves
<1>7. Published' = Published /\ \A u \in Threads : Walking(u) => Ahead(u)' = Ahead(u)
  BY <1>2, <1>4, <1>5 DEF Published, Ahead
<1>8. FLists'
  BY <1>2, <1>4, <1>5, <1>6 DEF FLists
<1>9. FPlaced'
  <2>1. \A u \in Threads : Enlisted(u)' <=> Enlisted(u)
    BY <1>1, <1>2 DEF Enlisted, FMoves
  <2>. QED
    BY <1>6, <1>7, <2>1 DEF FPlaced
<1>10. FLocked'
  BY <1>1, <1>2 DEF FLocked, HasLock, FMoves
<1>11. FFlags'
  BY <1>1, <1>2 DEF FFlags, FMoves
<1>12. FOwn' /\ FCounts'
  BY <1>1, <1>2, <1>6, <1>7 DEF FOwn, FCounts, FMoves, Walking
<1>. QED
  BY <1>8, <1>9, <1>10, <1>11, <1>12

LEMMA FPushKeeps ==
  ASSUME FCIInv, NEW t \in Threads, F!Push(t)
  PROVE  FLocked' /\ FLists' /\ FPlaced' /\ FFlags' /\ FOwn' /\ FCounts'
<1>. USE DEF FCIInv
<1>. DEFINE to == IF f_owner[t] THEN "round" ELSE "try"
<1>1. FMoves(t, "push", to)
  BY FMoving DEF F!Push
<1>2. /\ UNCHANGED <<f_lock, f_next, f_active, f_pending, f_owner, f_i, f_cur>>
      /\ f_head = f_next[t] /\ f_head' = t
  BY DEF F!Push, F!requestVars, F!localVars
<1>3. t \notin Published /\ f_active[t]
  BY <1>1 DEF FPlaced, Enlisted, FMoves, FFlags
<1>4. HasList(f_next, t) /\ ListOf(f_next, t) = ListOf(f_next, f_head) \cup {t}
  BY <1>2, <1>3, PushList DEF FLists, Published
<1>5. \A u \in Threads : Walking(u)' <=> Walking(u)
  BY <1>1 DEF Walking, FMoves
<1>6. Published' = Published \cup {t} /\ \A u \in Threads : Ahead(u)' = Ahead(u)
  BY <1>2, <1>4 DEF Published, Ahead
<1>7. FLists'
  BY <1>2, <1>4, <1>5 DEF FLists
<1>8. FPlaced'
  <2>1. \A u \in Threads : Enlisted(u)' <=> Enlisted(u) \/ u = t
    BY <1>1, <1>2, <1>3 DEF Enlisted, FMoves
  <2>. QED
    BY <1>5, <1>6, <2>1 DEF FPlaced
<1>9. FLocked'
  BY <1>1, <1>2 DEF FLocked, HasLock, FMoves
<1>10. FFlags'
  BY <1>1, <1>2 DEF FFlags, FMoves
<1>11. f_i[t] = 0
  BY <1>1 DEF FCounts, FMoves
<1>12. FOwn' /\ FCounts'
  BY <1>1, <1>2, <1>5, <1>6, <1>11 DEF FOwn, FCounts, FMoves, Walking
<1>. QED
  BY <1>7, <1>8, <1>9, <1>10, <1>12

(* The round begins at the head, so the combiner's own request is ahead.    *)
LEMMA FStartRoundKeeps ==
  ASSUME FCIInv, NEW t \in Threads, F!StartRound(t)
  PROVE  FLocked' /\ FLists' /\ FPlaced' /\ FFlags' /\ FOwn' /\ FCounts'
<1>. USE DEF FCIInv
<1>1. FMoves(t, "round", "scan")
  BY FMoving DEF F!StartRound
<1>2. /\ UNCHANGED <<f_head, f_lock, f_next, f_active, f_pending, f_owner, f_i>>
      /\ f_cur'[t] = f_head /\ \A u \in Threads \ {t} : f_cur'[u] = f_cur[u]
      /\ f_i[t] < CombiningRounds
  BY DEF F!StartRound, F!requestVars, F!TypeOK
<1>3. /\ FLists' /\ FPlaced'
      /\ Ahead(t)' = Published /\ \A u \in Threads \ {t} : Ahead(u)' = Ahead(u)
  BY <1>1, <1>2, FAdvance DEF FLists, Published
<1>4. FLocked'
  BY <1>1, <1>2 DEF FLocked, HasLock, FMoves
<1>5. FFlags'
  BY <1>1, <1>2 DEF FFlags, FMoves
<1>6. t \in Published
  BY <1>1 DEF FPlaced, Enlisted, FMoves, FFlags
<1>7. FOwn' /\ FCounts'
  BY <1>1, <1>2, <1>3, <1>6 DEF FOwn, FCounts, FMoves, Walking
<1>. QED
  BY <1>3, <1>4, <1>5, <1>7

(* A request that is not pending is passed, one that is is served first.    *)
LEMMA FSkipKeeps ==
  ASSUME FCIInv, NEW t \in Threads, F!Skip(t) \/ F!Finish(t)
  PROVE  FLocked' /\ FLists' /\ FPlaced' /\ FFlags' /\ FOwn' /\ FCounts'
<1>. USE DEF FCIInv
<1>1. PICK from \in {"scan", "finish"} : FMoves(t, from, "scan")
  BY FMoving DEF F!Skip, F!Finish
<1>2. PICK c \in Threads : c = f_cur[t]
  BY <1>1 DEF F!Skip, F!Finish, F!TypeOK, FFlags, FMoves, F!Goto
<1>3. /\ UNCHANGED <<f_head, f_lock, f_next, f_active, f_owner, f_i>>
      /\ f_cur'[t] = f_next[c] /\ \A u \in Threads \ {t} : f_cur'[u] = f_cur[u]
      /\ f_pending'[c] = FALSE /\ \A u \in Threads \ {c} : f_pending'[u] = f_pending[u]
  BY <1>2 DEF F!Skip, F!Finish, F!requestVars, F!TypeOK
<1>4. /\ HasList(f_next, f_next[c])
      /\ ListOf(f_next, f_next[c]) = Ahead(t) \ {c}
      /\ Ahead(t) \subseteq Published
  <2>1. Walking(t) /\ c # NULL
    BY <1>1, NoNull DEF Walking, FMoves
  <2>. QED
    BY <1>2, <2>1, PopList DEF FLists, Ahead, FPlaced
<1>5. /\ FLists' /\ FPlaced'
      /\ Ahead(t)' = Ahead(t) \ {c} /\ \A u \in Threads \ {t} : Ahead(u)' = Ahead(u)
  <2>1. ListOf(f_next, f_next[c]) \subseteq Published
    BY <1>4
  <2>. QED
    BY <1>1, <1>3, <1>4, <2>1, FAdvance
<1>6. \A u \in Threads : Walking(u) => u = t
  BY <1>1 DEF FLocked, HasLock, FMoves, Walking
<1>7. FLocked'
  BY <1>1, <1>3 DEF FLocked, HasLock, FMoves
<1>8. FFlags'
  BY <1>1, <1>3, <1>6 DEF FFlags, FMoves, F!TypeOK, Walking
<1>9. FOwn' /\ FCounts'
  BY <1>1, <1>3, <1>5, <1>6 DEF FOwn, FCounts, FMoves, Walking
<1>. QED
  BY <1>5, <1>7, <1>8, <1>9

LEMMA FApplyKeeps ==
  ASSUME FCIInv, NEW t \in Threads, F!Apply(t)
  PROVE  FLocked' /\ FLists' /\ FPlaced' /\ FFlags' /\ FOwn' /\ FCounts'
<1>. USE DEF FCIInv
<1>1. FMoves(t, "scan", "finish")
  BY FMoving DEF F!Apply
<1>2. /\ UNCHANGED <<f_head, f_lock, f_next, f_active, f_pending, f_owner, f_i, f_cur>>
      /\ f_cur[t] # NULL /\ f_pending[f_cur[t]]
  BY DEF F!Apply, F!localVars
<1>3. /\ FLists' /\ FPlaced' /\ \A u \in Threads : Ahead(u)' = Ahead(u)
  BY <1>1, <1>2, FQuietStep
<1>4. FLocked'
  BY <1>1, <1>2 DEF FLocked, HasLock, FMoves
<1>5. FFlags'
  BY <1>1, <1>2 DEF FFlags, FMoves
<1>6. FOwn' /\ FCounts'
  BY <1>1, <1>2, <1>3 DEF FOwn, FCounts, FMoves, Walking
<1>. QED
  BY <1>3, <1>4, <1>5, <1>6

(* At the end of the list no request is ahead, so the combiner's own is     *)
(* not pending any more; and there is a round before the lock is released.  *)
LEMMA FEndKeeps ==
  ASSUME FCIInv, NEW t \in Threads, F!EndRound(t) \/ F!Release(t)
  PROVE  FLocked' /\ FLists' /\ FPlaced' /\ FFlags' /\ FOwn' /\ FCounts'
<1>. USE DEF FCIInv
<1>1. /\ UNCHANGED <<f_head, f_next, f_active, f_pending, f_owner, f_cur>>
      /\ \A u \in Threads \ {t} : f_i'[u] = f_i[u]
  BY DEF F!EndRound, F!Release, F!requestVars, F!localVars, F!TypeOK
<1>2. PICK from, to :
        /\ FMoves(t, from, to)
        /\ \/ from = "scan" /\ to = "round" /\ f_lock' = f_lock
           \/ from = "round" /\ to = "return"
  BY FMoving DEF F!EndRound, F!Release
<1>3. /\ FLists' /\ FPlaced' /\ \A u \in Threads : Ahead(u)' = Ahead(u)
  BY <1>1, <1>2, FQuietStep
<1>4. FLocked'
  BY <1>1, <1>2 DEF FLocked, HasLock, FMoves
<1>5. ~f_pending[t]
  <2>1. CASE F!EndRound(t)
    <3>1. Walking(t) /\ f_cur[t] = NULL
      BY <2>1 DEF F!EndRound, F!Goto, Walking
    <3>. QED
      BY <3>1, Nil DEF FOwn, Ahead
  <2>2. CASE F!Release(t)
    <3>1. f_pc[t] = "round" /\ f_i[t] >= CombiningRounds /\ f_i[t] \in Nat
      BY <2>2, FConstants DEF F!Release, F!Goto, F!TypeOK
    <3>2. f_i[t] > 0
      BY <3>1, FConstants
    <3>. QED
      BY <3>1, <3>2 DEF FOwn
  <2>. QED
    BY <2>1, <2>2
<1>6. FFlags'
  BY <1>1, <1>2, <1>5 DEF FFlags, FMoves
<1>7. FOwn' /\ FCounts'
  BY <1>1, <1>2, <1>3, <1>5 DEF FOwn, FCounts, FMoves, Walking
<1>. QED
  BY <1>3, <1>4, <1>6, <1>7

LEMMA FCNext == FCIInv /\ [F!Next]_(F!vars) => FCIInv'
<1>. SUFFICES ASSUME FCIInv, [F!Next]_(F!vars) PROVE FCIInv'
  OBVIOUS
<1>1. F!TypeOK'
  BY FCTypes DEF FCIInv
<1>2. CASE F!Next
  <2>1. PICK t \in Threads : (\E a \in Args : F!Call(t, a)) \/ F!Step(t)
    BY <1>2 DEF F!Next
  <2>2. FLocked' /\ FLists' /\ FPlaced' /\ FFlags' /\ FOwn' /\ FCounts'
    BY <2>1, FCallKeeps, FPublishKeeps, FAcquireKeeps, FWaitKeeps, FReturnKeeps,
       FReadHeadKeeps, FPushKeeps, FStartRoundKeeps, FSkipKeeps, FApplyKeeps, FEndKeeps
       DEF F!Step, F!FCEnqueueRequest
  <2>. QED
    BY <1>1, <2>2 DEF FCIInv
<1>3. CASE UNCHANGED F!vars
  BY <1>3 DEF FCIInv, F!vars, F!requestVars, F!localVars, F!TypeOK, FLocked, FLists, FPlaced, FFlags, FOwn, FCounts,
     Published, Ahead, Walking, HasLock, Enlisted
<1>. QED
  BY <1>2, <1>3

LEMMA FCListed == FCIInv => F!TypeOK /\ F!EveryActiveRequestIsListed
<1>. SUFFICES ASSUME FCIInv PROVE F!TypeOK /\ F!EveryActiveRequestIsListed
  OBVIOUS
<1>1. F!List(f_head) = Published
  BY ListIsListOf DEF FCIInv, FLists, Published
<1>. QED
  BY <1>1 DEF FCIInv, FPlaced, Enlisted, F!EveryActiveRequestIsListed

-----------------------------------------------------------------------------
(* The calls of flat combining and those of the atomic object.              *)
f_op == [t \in Threads |-> F!AbstractOp(t)]

(* Steps of calls under way, which run sfunc for nobody.                    *)
LEMMA FSameOps ==
  ASSUME FCIInv, NEW t \in Threads, NEW from, NEW to, FMoves(t, from, to),
         from \notin {"idle", "publish", "finish"}, to \notin {"idle", "publish", "finish"},
         UNCHANGED <<f_pending, f_val>>, \A u \in Threads \ {t} : f_cur'[u] = f_cur[u]
  PROVE  f_op' = f_op
<1>1. \A u \in Threads : F!Served(u)' <=> F!Served(u)
  BY DEF F!Served, FMoves
<1>2. \A u \in Threads : f_pc'[u] = "idle" <=> f_pc[u] = "idle"
  BY DEF FMoves
<1>3. \A u \in Threads : F!AbstractOp(u)' = F!AbstractOp(u)
  BY <1>1, <1>2 DEF F!AbstractOp
<1>. QED
  BY <1>3 DEF f_op

LEMMA FCallRefines ==
  ASSUME FCIInv, NEW t \in Threads, NEW a \in Args, F!Call(t, a)
  PROVE  F!Ob!Call(t, a)
<1>. USE DEF FCIInv
<1>1. FMoves(t, "idle", "publish")
  BY FMoving DEF F!Call
<1>2. /\ UNCHANGED <<f_pending, f_cur>>
      /\ f_val'[t] = a /\ \A u \in Threads \ {t} : f_val'[u] = f_val[u]
  BY DEF F!Call, F!localVars, F!TypeOK
<1>3. F!AbstractOp(t) = [status |-> "idle"]
  BY <1>1 DEF F!AbstractOp, FMoves
<1>4. F!AbstractOp(t)' = [status |-> "pending", arg |-> a]
  BY <1>1, <1>2 DEF F!AbstractOp, F!Served, FMoves
<1>5. \A u \in Threads \ {t} : F!AbstractOp(u)' = F!AbstractOp(u)
  <2>1. \A u \in Threads \ {t} : F!Served(u)' <=> F!Served(u)
    BY <1>1, <1>2 DEF F!Served, FMoves
  <2>. QED
    BY <1>1, <1>2, <2>1 DEF F!AbstractOp, FMoves
<1>6. f_op[t] = F!Ob!Idle /\ f_op' = [f_op EXCEPT ![t] = F!Ob!Pending(a)]
  BY <1>3, <1>4, <1>5 DEF f_op, F!Ob!Idle, F!Ob!Pending
<1>. QED
  BY <1>6 DEF F!Ob!Call, F!Call, f_op

(* The request is announced already, and nobody is at it.                   *)
LEMMA FPublishRefines ==
  ASSUME FCIInv, NEW t \in Threads, F!Publish(t)
  PROVE  f_op' = f_op
<1>. USE DEF FCIInv
<1>1. FMoves(t, "publish", "try")
  BY FMoving DEF F!Publish
<1>2. /\ UNCHANGED <<f_val, f_cur>>
      /\ f_pending'[t] = TRUE /\ \A u \in Threads \ {t} : f_pending'[u] = f_pending[u]
  BY DEF F!Publish, F!localVars, F!TypeOK
<1>3. \A c \in Threads : f_pc[c] = "finish" => f_cur[c] # t
  BY <1>1 DEF FFlags, FMoves
<1>4. \A u \in Threads : F!Served(u)' <=> F!Served(u)
  BY <1>1, <1>2, <1>3 DEF F!Served, FMoves
<1>5. \A u \in Threads : F!AbstractOp(u)' = F!AbstractOp(u)
  BY <1>1, <1>2, <1>4 DEF F!AbstractOp, FMoves
<1>. QED
  BY <1>5 DEF f_op

LEMMA FApplyRefines ==
  ASSUME FCIInv, NEW t \in Threads, F!Apply(t)
  PROVE  \E q \in Threads : F!Ob!Apply(q)
<1>. USE DEF FCIInv
<1>1. FMoves(t, "scan", "finish")
  BY FMoving DEF F!Apply
<1>2. PICK q \in Threads : q = f_cur[t] /\ f_pending[q]
  BY DEF F!Apply, F!TypeOK
<1>3. \A c \in Threads : f_pc[c] # "finish" /\ (f_pc'[c] = "finish" <=> c = t)
  BY <1>1 DEF FMoves, FLocked, HasLock
<1>4. /\ UNCHANGED <<f_pending, f_cur>>
      /\ f_state' = NewState(f_state, f_val[q], NULL)
      /\ f_val'[q] = Result(f_state, f_val[q], NULL)
      /\ \A u \in Threads \ {q} : f_val'[u] = f_val[u]
      /\ f_result' = f_result
  BY <1>2 DEF F!Apply, F!localVars, F!TypeOK, StateOfAnyone, ResultOfAnyone
<1>5. f_pc[q] \notin {"idle", "publish"} /\ ~F!Served(q)
  BY <1>2, <1>3 DEF FFlags, F!Served
<1>6. \A u \in Threads : f_pc'[u] \in {"idle", "publish"} <=> f_pc[u] \in {"idle", "publish"}
  BY <1>1 DEF FMoves
<1>7. \A u \in Threads : F!Served(u)' <=> F!Served(u) \/ u = q
  BY <1>2, <1>3, <1>4, <1>5, <1>6 DEF F!Served
<1>8. \A u \in Threads : f_pc'[u] = "idle" <=> f_pc[u] = "idle"
  BY <1>1 DEF FMoves
<1>9. F!AbstractOp(q) = [status |-> "pending", arg |-> f_val[q]]
  BY <1>5 DEF F!AbstractOp
<1>10. F!AbstractOp(q)' = [status |-> "done", ret |-> Result(f_state, f_val[q], NULL)]
  <2>1. F!Served(q)' /\ f_pc'[q] # "idle"
    BY <1>5, <1>7, <1>8
  <2>2. F!AbstractOp(q)' = [status |-> "done", ret |-> f_val'[q]]
    BY <2>1 DEF F!AbstractOp
  <2>. QED
    BY <1>4, <2>2
<1>11. \A u \in Threads \ {q} : F!AbstractOp(u)' = F!AbstractOp(u)
  BY <1>4, <1>7, <1>8 DEF F!AbstractOp
<1>12. f_op[q] = [status |-> "pending", arg |-> f_val[q]]
  BY <1>9 DEF f_op
<1>13. f_op[q].status = "pending" /\ f_op[q].arg = f_val[q]
  BY <1>12
<1>14. f_op' = [f_op EXCEPT ![q] = F!Ob!Done(Result(f_state, f_val[q], NULL))]
  BY <1>10, <1>11 DEF f_op, F!Ob!Done
<1>. QED
  BY <1>4, <1>13, <1>14 DEF F!Ob!Apply, f_op, StateOfAnyone, ResultOfAnyone

LEMMA FFinishRefines ==
  ASSUME FCIInv, NEW t \in Threads, F!Finish(t)
  PROVE  f_op' = f_op
<1>. USE DEF FCIInv
<1>1. FMoves(t, "finish", "scan")
  BY FMoving DEF F!Finish
<1>2. PICK q \in Threads : q = f_cur[t]
  BY <1>1 DEF F!TypeOK, FFlags, FMoves
<1>3. \A c \in Threads : (f_pc[c] = "finish" <=> c = t) /\ f_pc'[c] # "finish"
  BY <1>1 DEF FMoves, FLocked, HasLock
<1>4. /\ f_val' = f_val
      /\ f_pending'[q] = FALSE /\ \A u \in Threads \ {q} : f_pending'[u] = f_pending[u]
  BY <1>2 DEF F!Finish, F!TypeOK
<1>5. f_pc[q] \notin {"idle", "publish"}
  BY <1>1, <1>2 DEF FFlags, FMoves
<1>6. \A u \in Threads : f_pc'[u] \in {"idle", "publish"} <=> f_pc[u] \in {"idle", "publish"}
  BY <1>1 DEF FMoves
<1>7. \A u \in Threads : F!Served(u)' <=> F!Served(u)
  BY <1>2, <1>3, <1>4, <1>5, <1>6 DEF F!Served
<1>8. \A u \in Threads : f_pc'[u] = "idle" <=> f_pc[u] = "idle"
  BY <1>1 DEF FMoves
<1>9. \A u \in Threads : F!AbstractOp(u)' = F!AbstractOp(u)
  BY <1>4, <1>7, <1>8 DEF F!AbstractOp
<1>. QED
  BY <1>9 DEF f_op

LEMMA FReturnRefines ==
  ASSUME FCIInv, NEW t \in Threads, F!ReturnHelped(t) \/ F!ReturnCombiner(t)
  PROVE  F!Ob!Return(t)
<1>. USE DEF FCIInv
<1>1. PICK from \in {"check", "return"} : FMoves(t, from, "idle") /\ F!Return(t, from)
  BY FMoving DEF F!ReturnHelped, F!ReturnCombiner, F!Return
<1>2. ~f_pending[t]
  BY DEF F!ReturnHelped, F!ReturnCombiner, F!Return, F!Goto, FFlags
<1>3. F!AbstractOp(t) = [status |-> "done", ret |-> f_val[t]]
  BY <1>1, <1>2 DEF F!AbstractOp, F!Served, FMoves
<1>4. F!AbstractOp(t)' = [status |-> "idle"]
  BY <1>1 DEF F!AbstractOp, FMoves
<1>5. \A u \in Threads \ {t} : F!AbstractOp(u)' = F!AbstractOp(u)
  <2>1. UNCHANGED <<f_pending, f_val, f_cur>>
    BY <1>1 DEF F!Return, F!requestVars
  <2>2. \A u \in Threads \ {t} : F!Served(u)' <=> F!Served(u)
    BY <1>1, <2>1 DEF F!Served, FMoves
  <2>. QED
    BY <1>1, <2>1, <2>2 DEF F!AbstractOp, FMoves
<1>6. f_op[t] = [status |-> "done", ret |-> f_val[t]]
  BY <1>3 DEF f_op
<1>7. f_op[t].status = "done" /\ f_op[t].ret = f_val[t]
  BY <1>6
<1>8. f_op' = [f_op EXCEPT ![t] = F!Ob!Idle]
  BY <1>4, <1>5 DEF f_op, F!Ob!Idle
<1>9. f_result' = [f_result EXCEPT ![t] = f_op[t].ret] /\ UNCHANGED f_state
  BY <1>1, <1>7 DEF F!Return
<1>. QED
  BY <1>7, <1>8, <1>9 DEF F!Ob!Return, f_op

LEMMA FCRefines == FCIInv /\ [F!Next]_(F!vars) => [F!Ob!Next]_(F!Ob!vars)
<1>. SUFFICES ASSUME FCIInv, [F!Next]_(F!vars) PROVE [F!Ob!Next]_(F!Ob!vars)
  OBVIOUS
<1>1. ASSUME NEW t \in Threads, NEW a \in Args, F!Call(t, a) PROVE F!Ob!Next
  BY <1>1, FCallRefines DEF F!Ob!Next
<1>2. ASSUME NEW t \in Threads, F!Publish(t) \/ F!Finish(t)
      PROVE  UNCHANGED <<f_state, f_op, f_result>>
  BY <1>2, FPublishRefines, FFinishRefines DEF F!Publish, F!Finish
<1>3. ASSUME NEW t \in Threads,
             F!Acquire(t) \/ F!AcquireFails(t) \/ F!StopSpinning(t) \/ F!TryAgain(t)
             \/ F!ReadHead(t) \/ F!Push(t) \/ F!PushFails(t) \/ F!StartRound(t) \/ F!Skip(t)
             \/ F!EndRound(t) \/ F!Release(t)
      PROVE  UNCHANGED <<f_state, f_op, f_result>>
  <2>1. PICK from, to :
          FMoves(t, from, to) /\ from \notin {"idle", "publish", "finish"}
                              /\ to \notin {"idle", "publish", "finish"}
    <3>1. CASE F!Acquire(t) \/ F!AcquireFails(t) \/ F!StopSpinning(t) \/ F!TryAgain(t)
      BY <3>1, FMoving DEF FCIInv, F!Acquire, F!AcquireFails, F!StopSpinning, F!TryAgain
    <3>2. CASE F!ReadHead(t) \/ F!Push(t) \/ F!PushFails(t) \/ F!StartRound(t)
      BY <3>2, FMoving DEF FCIInv, F!ReadHead, F!Push, F!PushFails, F!StartRound
    <3>3. CASE F!Skip(t) \/ F!EndRound(t) \/ F!Release(t)
      BY <3>3, FMoving DEF FCIInv, F!Skip, F!EndRound, F!Release
    <3>. QED
      BY <1>3, <3>1, <3>2, <3>3
  <2>2. /\ UNCHANGED <<f_state, f_result, f_pending, f_val>>
        /\ \A u \in Threads \ {t} : f_cur'[u] = f_cur[u]
    BY <1>3 DEF F!Acquire, F!AcquireFails, F!StopSpinning, F!TryAgain, F!ReadHead, F!Push,
       F!PushFails, F!StartRound, F!Skip, F!EndRound, F!Release, F!requestVars, F!localVars,
       FCIInv, F!TypeOK
  <2>3. f_op' = f_op
    BY <2>1, <2>2, FSameOps
  <2>. QED
    BY <2>2, <2>3
<1>4. ASSUME NEW t \in Threads, F!Apply(t) PROVE F!Ob!Next
  BY <1>4, FApplyRefines DEF F!Ob!Next
<1>5. ASSUME NEW t \in Threads, F!ReturnHelped(t) \/ F!ReturnCombiner(t) PROVE F!Ob!Next
  BY <1>5, FReturnRefines DEF F!Ob!Next
<1>6. CASE UNCHANGED F!vars
  BY <1>6 DEF F!vars, F!requestVars, F!localVars, F!AbstractOp, F!Served, F!Ob!vars
<1>. QED
  BY <1>1, <1>2, <1>3, <1>4, <1>5, <1>6
     DEF F!Next, F!Step, F!FCEnqueueRequest, F!Ob!vars, f_op

LEMMA FCStarts == F!Init => F!Ob!Init
  BY DEF F!Init, F!Ob!Init, F!Ob!Idle, F!AbstractOp

(* Flat combining is linearizable, for any sfunc that does not look at the  *)
(* pid: a request is served once although the combiner comes by several     *)
(* times and its thread may call again in between, and a combiner returns   *)
(* the answer to its own request, which it has come by, without looking     *)
(* whether it was served (fc.c:40-112).                                     *)
THEOREM FCIsLinearizable == F!Spec => F!ImplementsAtomicObject
<1>1. F!Spec => []FCIInv
  BY FCInit, FCNext, PTL DEF F!Spec
<1>. QED
  BY <1>1, FCStarts, FCRefines, PTL DEF F!Spec, F!ImplementsAtomicObject, F!Ob!Spec

-----------------------------------------------------------------------------
(*                      The two, side by side                              *)

(* The behaviours in which one of the two is used and the other stays as it *)
(* is initialised are behaviours of each.                                   *)
LEMMA EachByItself == MCSpec => Spec /\ F!Spec
<1>1. MCInit => Init /\ F!Init
  BY DEF MCInit
<1>2. [MCNext]_<<which, vars, f_vars>> => [Next]_vars /\ [F!Next]_(F!vars)
  BY DEF MCNext, vars, f_vars, F!vars, F!requestVars, F!localVars
<1>. QED
  BY <1>1, <1>2, PTL DEF MCSpec, Spec, F!Spec

LEMMA InvariantsHold == MCSpec => [](OyamaIInv /\ FCIInv)
<1>1. Spec => []OyamaIInv
  BY OyamaInit, OyamaNext, PTL DEF Spec
<1>2. F!Spec => []FCIInv
  BY FCInit, FCNext, PTL DEF F!Spec
<1>. QED
  BY <1>1, <1>2, EachByItself, PTL

(* No request is lost from the stack of Oyama's object or from the list of  *)
(* flat combining, and none is on it twice, for any number of threads: a    *)
(* combiner detaches the stack (oyama.c:36) or goes through the list        *)
(* (fc.c:82-94) while others push.                                          *)
THEOREM RequestsStayListedHolds == MCSpec => []RequestsStayListed
<1>1. OyamaIInv /\ FCIInv => RequestsStayListed
  BY OyamaListed, FCListed DEF RequestsStayListed
<1>. QED
  BY <1>1, InvariantsHold, PTL

(* Both are linearizable, for any number of threads and any sfunc, which    *)
(* with flat combining must not look at the pid.                            *)
THEOREM BothAreLinearizable == MCSpec => ImplementAtomicObject
<1>1. MCInit => Ob!Init /\ F!Ob!Init
  BY OyamaStarts, FCStarts DEF MCInit
<1>2. OyamaIInv /\ [MCNext]_<<which, vars, f_vars>>
        => [which = "Oyama" => Ob!Next]_<<which, Ob!vars>>
  <2>. SUFFICES ASSUME OyamaIInv, [MCNext]_<<which, vars, f_vars>>
                PROVE  [which = "Oyama" => Ob!Next]_<<which, Ob!vars>>
    OBVIOUS
  <2>1. which' = which /\ [Next]_vars
    BY DEF MCNext, vars
  <2>. QED
    BY <2>1, OyamaRefines
<1>3. FCIInv /\ [MCNext]_<<which, vars, f_vars>>
        => [which = "FC" => F!Ob!Next]_<<which, F!Ob!vars>>
  <2>. SUFFICES ASSUME FCIInv, [MCNext]_<<which, vars, f_vars>>
                PROVE  [which = "FC" => F!Ob!Next]_<<which, F!Ob!vars>>
    OBVIOUS
  <2>1. which' = which /\ [F!Next]_(F!vars)
    BY DEF MCNext, f_vars, F!vars, F!requestVars, F!localVars
  <2>. QED
    BY <2>1, FCRefines
<1>. QED
  BY <1>1, <1>2, <1>3, InvariantsHold, PTL DEF MCSpec, ImplementAtomicObject
=============================================================================
