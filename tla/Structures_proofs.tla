-------------------------- MODULE Structures_proofs -------------------------
(***************************************************************************)
(* The structures of MCStructures: the lock-free object, the emulated      *)
(* instructions, the stacks, queues and hash tables, for any threads, any  *)
(* numbers of nodes and cells and any serial function. (The run            *)
(* Structures checks the same on a small instance.)                        *)
(*                                                                         *)
(* LFUObject, Emulation: two loops around a CAS. All that the proofs need  *)
(* to know of a reachable state is its type: the CAS compares values, so   *)
(* when it succeeds, the new value has been computed from the value that   *)
(* is replaced, whatever has happened to it since it was read.             *)
(*                                                                         *)
(* LinkedStack, LFStack: there is a sequence of distinct nodes, r[1] ..    *)
(* r[m], held by no variable, that the links lead along. A node outside    *)
(* may be put on top and the top may be taken off. The nodes of a stack on *)
(* a combining object are recycled: those in the pools are not on the      *)
(* stack, and in one pool once. The nodes of the lock-free stack are not,  *)
(* so that what a pop has read below a node stays true.                    *)
(*                                                                         *)
(* MSQueue: the nodes ever linked are q[0], ... q[e]; head is q[h], tail   *)
(* is q[k], h <= k <= e <= k + 1. A node is private until it is linked and *)
(* is never freed, so a dequeue may go on reading nodes behind head. The   *)
(* CASes order what happens to head and to the last link; the read of NULL *)
(* is the moment of a dequeue that finds the queue empty.                  *)
(*                                                                         *)
(* LinkedQueue: the list from first on is q[0], ... q[e]. Last is q[e],    *)
(* except between the link of a node and the assignment of last. The       *)
(* two serial functions touch different nodes: the one of the dequeuer is  *)
(* in front of first, the one of the enqueuer outside or the last.         *)
(*                                                                         *)
(* HashTable: a chain has keys of its cell only, each once, and those are  *)
(* members; every operation replaces a chain by one made of its own keys   *)
(* and, if it inserts, of the key that was not in it.                      *)
(***************************************************************************)
EXTENDS MCStructures, Sequences, FiniteSetTheorems, SequenceTheorems, WellFoundedInduction, TLAPS

(* The steps of MCStructures are those of its components.                   *)
mc_vars == <<which, vars, q_vars, k_vars, m_vars, s_vars, c_vars, e_vars, h_vars>>

-----------------------------------------------------------------------------
(*                        The lock-free object                             *)

LEMMA LFUInit == Init => TypeOK
  BY DEF Init, TypeOK

LEMMA LFUNext == TypeOK /\ [Next]_vars => TypeOK'
<1> SUFFICES ASSUME TypeOK, [Next]_vars PROVE TypeOK'
  OBVIOUS
<1> USE DEF TypeOK
<1>1. ASSUME NEW t \in Threads, NEW a \in Args, Call(t, a) PROVE TypeOK'
  BY <1>1 DEF Call, Goto
<1>2. ASSUME NEW t \in Threads, Read(t) PROVE TypeOK'
  BY <1>2 DEF Read, Goto
<1>3. ASSUME NEW t \in Threads, TryInstall(t) PROVE TypeOK'
  BY <1>3 DEF TryInstall, Goto
<1>4. ASSUME NEW t \in Threads, Return(t) PROVE TypeOK'
  BY <1>4 DEF Return, Goto
<1>5. CASE UNCHANGED vars
  BY <1>5 DEF vars
<1> QED
  BY <1>1, <1>2, <1>3, <1>4, <1>5 DEF Next, Step

(* The type of the state is as stated, in every reachable state.            *)
THEOREM LFUTypeCorrect == Spec => []TypeOK
  BY LFUInit, LFUNext, PTL DEF Spec

-----------------------------------------------------------------------------
(* The steps of LFUObjectApplyOp and those of the atomic object.            *)
op == [t \in Threads |-> Served(t)]

LEMMA LFUInitRefinement == Init => Ob!Init
  BY DEF Init, Ob!Init, Ob!Idle, Served

(* A call is announced; a read of the state is no step of the object; the   *)
(* call takes effect when its CAS succeeds; and it returns its answer.      *)
LEMMA LFUCallRefinement ==
  ASSUME TypeOK, NEW t \in Threads, NEW a \in Args, Call(t, a)
  PROVE  Ob!Call(t, a)
<1>1. op[t] = Ob!Idle
  BY DEF op, Served, Call, Goto, Ob!Idle
<1>2. op' = [op EXCEPT ![t] = Ob!Pending(a)]
  BY DEF op, Served, Call, Goto, Ob!Pending, TypeOK
<1> QED
  BY <1>1, <1>2 DEF Call, Ob!Call, op

LEMMA LFUReadRefinement ==
  ASSUME TypeOK, NEW t \in Threads, Read(t)
  PROVE  UNCHANGED <<state, op, answer>>
<1>1. op' = op
  BY DEF op, Served, Read, Goto, TypeOK
<1> QED
  BY <1>1 DEF Read

LEMMA LFUInstallRefinement ==
  ASSUME TypeOK, NEW t \in Threads, TryInstall(t), state = old_state[t]
  PROVE  Ob!Apply(t)
<1>1. op[t] = [status |-> "pending", arg |-> request[t]]
  BY DEF op, Served, TryInstall, Goto
<1>2. \A u \in Threads : old_state'[u] = old_state[u]
  BY DEF TryInstall, TypeOK
<1>3. op' = [op EXCEPT ![t] = Ob!Done(Result(state, request[t], t))]
  BY <1>2 DEF op, Served, TryInstall, Goto, Ob!Done, TypeOK
<1>4. op[t].status = "pending" /\ op[t].arg = request[t]
  BY <1>1
<1>5. state' = NewState(state, request[t], t) /\ answer' = answer
  BY DEF TryInstall
<1> QED
  BY <1>3, <1>4, <1>5 DEF Ob!Apply, op

LEMMA LFUFailureRefinement ==
  ASSUME TypeOK, NEW t \in Threads, TryInstall(t), state # old_state[t]
  PROVE  UNCHANGED <<state, op, answer>>
<1>1. op' = op
  BY DEF op, Served, TryInstall, Goto, TypeOK
<1> QED
  BY <1>1 DEF TryInstall

LEMMA LFUReturnRefinement ==
  ASSUME TypeOK, NEW t \in Threads, Return(t)
  PROVE  Ob!Return(t)
<1>1. op[t] = [status |-> "done", ret |-> Result(old_state[t], request[t], t)]
  BY DEF op, Served, Return, Goto
<1>2. op' = [op EXCEPT ![t] = Ob!Idle]
  BY DEF op, Served, Return, Goto, Ob!Idle, TypeOK
<1>3. op[t].status = "done" /\ op[t].ret = Result(old_state[t], request[t], t)
  BY <1>1
<1> QED
  BY <1>2, <1>3 DEF Return, Ob!Return, op

LEMMA LFUNextRefinement == TypeOK /\ [Next]_vars => [Ob!Next]_(Ob!vars)
<1> SUFFICES ASSUME TypeOK, [Next]_vars PROVE [Ob!Next]_(Ob!vars)
  OBVIOUS
<1>1. ASSUME NEW t \in Threads, NEW a \in Args, Call(t, a) PROVE Ob!Next
  BY <1>1, LFUCallRefinement DEF Ob!Next
<1>2. ASSUME NEW t \in Threads, Read(t) PROVE UNCHANGED Ob!vars
  BY <1>2, LFUReadRefinement DEF Ob!vars, op
<1>3. ASSUME NEW t \in Threads, TryInstall(t) PROVE [Ob!Next]_(Ob!vars)
  <2>1. CASE state = old_state[t]
    BY <1>3, <2>1, LFUInstallRefinement DEF Ob!Next
  <2>2. CASE state # old_state[t]
    BY <1>3, <2>2, LFUFailureRefinement DEF Ob!vars, op
  <2> QED
    BY <2>1, <2>2
<1>4. ASSUME NEW t \in Threads, Return(t) PROVE Ob!Next
  BY <1>4, LFUReturnRefinement DEF Ob!Next
<1>5. CASE UNCHANGED vars
  BY <1>5 DEF vars, Ob!vars, Served
<1> QED
  BY <1>1, <1>2, <1>3, <1>4, <1>5 DEF Next, Step

(* The lock-free object is linearizable: every call takes effect once, at   *)
(* the CAS of its own thread that succeeds, and returns the answer sfunc    *)
(* gave on the state it replaced (lfuobject.c:16-27).                       *)
THEOREM LFUObjectIsLinearizable == Spec => ImplementsAtomicObject
  BY LFUInitRefinement, LFUNextRefinement, LFUTypeCorrect, PTL
     DEF Spec, ImplementsAtomicObject, Ob!Spec
-----------------------------------------------------------------------------
(*                      The emulated instructions                          *)

(* SWAP and Fetch&Add built from CAS, on words of any width and for any     *)
(* number of threads. The other modules, which take the processor's         *)
(* instructions as atomic steps, so hold for both builds.                   *)
EInv ==
  /\ e_word = [o \in E!Ops |-> e_word[o]]
  /\ e_pc \in [Callers -> {"out", "read", "check", "cas", "return"}]
  /\ e_call = [t \in Callers |-> e_call[t]]
  /\ e_old_val = [t \in Callers |-> e_old_val[t]]
  /\ e_answer = [t \in Callers |-> e_answer[t]]
  /\ \A t \in Callers : e_pc[t] # "out" => e_call[t] \in E!Ops \X Addends

LEMMA EInitInv == E!Init => EInv
  BY DEF E!Init, EInv

LEMMA ENextInv == EInv /\ [E!Next]_(E!vars) => EInv'
<1> SUFFICES ASSUME EInv, [E!Next]_(E!vars) PROVE EInv'
  OBVIOUS
<1> USE DEF EInv, E!Goto
<1>1. ASSUME NEW t \in Callers, NEW o \in E!Ops, NEW b \in Addends, E!Call(t, o, b) PROVE EInv'
  BY <1>1 DEF E!Call
<1>2. ASSUME NEW t \in Callers, E!Read(t) \/ E!Check(t) PROVE EInv'
  BY <1>2 DEF E!Read, E!Check
<1>3. ASSUME NEW t \in Callers, E!TryInstall(t) PROVE EInv'
  BY <1>3 DEF E!TryInstall
<1>4. ASSUME NEW t \in Callers, E!Return(t) PROVE EInv'
  BY <1>4 DEF E!Return
<1>5. CASE UNCHANGED E!vars
  BY <1>5 DEF E!vars
<1> QED
  BY <1>1, <1>2, <1>3, <1>4, <1>5 DEF E!Next, E!Step

LEMMA EInductive == E!Spec => []EInv
  BY EInitInv, ENextInv, PTL DEF E!Spec

-----------------------------------------------------------------------------
(* The steps of the loops and those of the atomic word.                     *)
e_op == [t \in Callers |-> E!Served(t)]

LEMMA EInitRefinement == E!Init => E!Atomic!Init
  BY DEF E!Init, E!Atomic!Init, E!Atomic!Idle, E!Served

LEMMA ECallRefinement ==
  ASSUME EInv, NEW t \in Callers, NEW o \in E!Ops, NEW b \in Addends, E!Call(t, o, b)
  PROVE  E!Atomic!Call(t, <<o, b>>)
<1>1. e_op[t] = E!Atomic!Idle
  BY DEF e_op, E!Served, E!Call, E!Goto, E!Atomic!Idle
<1>2. e_op' = [e_op EXCEPT ![t] = E!Atomic!Pending(<<o, b>>)]
  BY DEF e_op, E!Served, E!Call, E!Goto, E!Atomic!Pending, EInv
<1> QED
  BY <1>1, <1>2 DEF E!Call, E!Atomic!Call, e_op

LEMMA EReadRefinement ==
  ASSUME EInv, NEW t \in Callers, E!Read(t) \/ E!Check(t)
  PROVE  UNCHANGED <<e_word, e_op, e_answer>>
<1>1. e_op' = e_op
  BY DEF e_op, E!Served, E!Read, E!Check, E!Goto, EInv
<1> QED
  BY <1>1 DEF E!Read, E!Check

LEMMA EInstallRefinement ==
  ASSUME EInv, NEW t \in Callers, E!TryInstall(t), e_word[e_call[t][1]] = e_old_val[t]
  PROVE  E!Atomic!Apply(t)
<1>1. e_op[t] = [status |-> "pending", arg |-> e_call[t]]
  BY DEF e_op, E!Served, E!TryInstall, E!Goto
<1>2. e_op[t].status = "pending" /\ e_op[t].arg = e_call[t]
  BY <1>1
<1>3. e_op' = [e_op EXCEPT ![t] = E!Atomic!Done(E!OldWord(e_word, e_call[t], t))]
  BY DEF e_op, E!Served, E!TryInstall, E!Goto, E!Atomic!Done, E!OldWord, EInv
<1>4. e_word' = E!NewWords(e_word, e_call[t], t) /\ e_answer' = e_answer
  BY DEF E!TryInstall, E!NewWords
<1> QED
  BY <1>2, <1>3, <1>4 DEF E!Atomic!Apply, e_op

LEMMA EFailureRefinement ==
  ASSUME EInv, NEW t \in Callers, E!TryInstall(t), e_word[e_call[t][1]] # e_old_val[t]
  PROVE  UNCHANGED <<e_word, e_op, e_answer>>
<1>1. e_op' = e_op
  BY DEF e_op, E!Served, E!TryInstall, E!Goto, EInv
<1>2. e_word' = e_word
  BY DEF E!TryInstall, EInv
<1> QED
  BY <1>1, <1>2 DEF E!TryInstall

LEMMA EReturnRefinement ==
  ASSUME EInv, NEW t \in Callers, E!Return(t)
  PROVE  E!Atomic!Return(t)
<1>1. e_op[t] = [status |-> "done", ret |-> e_old_val[t]]
  BY DEF e_op, E!Served, E!Return, E!Goto
<1>2. e_op[t].status = "done" /\ e_op[t].ret = e_old_val[t]
  BY <1>1
<1>3. e_op' = [e_op EXCEPT ![t] = E!Atomic!Idle]
  BY DEF e_op, E!Served, E!Return, E!Goto, E!Atomic!Idle, EInv
<1> QED
  BY <1>2, <1>3 DEF E!Return, E!Atomic!Return, e_op

LEMMA ENextRefinement == EInv /\ [E!Next]_(E!vars) => [E!Atomic!Next]_(E!Atomic!vars)
<1> SUFFICES ASSUME EInv, [E!Next]_(E!vars) PROVE [E!Atomic!Next]_(E!Atomic!vars)
  OBVIOUS
<1>1. ASSUME NEW t \in Callers, NEW o \in E!Ops, NEW b \in Addends, E!Call(t, o, b)
      PROVE  E!Atomic!Next
  <2>1. <<o, b>> \in E!Ops \X Addends
    OBVIOUS
  <2> QED
    BY <1>1, <2>1, ECallRefinement DEF E!Atomic!Next
<1>2. ASSUME NEW t \in Callers, E!Read(t) \/ E!Check(t) PROVE UNCHANGED E!Atomic!vars
  BY <1>2, EReadRefinement DEF E!Atomic!vars, e_op
<1>3. ASSUME NEW t \in Callers, E!TryInstall(t) PROVE [E!Atomic!Next]_(E!Atomic!vars)
  <2>1. CASE e_word[e_call[t][1]] = e_old_val[t]
    BY <1>3, <2>1, EInstallRefinement DEF E!Atomic!Next
  <2>2. CASE e_word[e_call[t][1]] # e_old_val[t]
    BY <1>3, <2>2, EFailureRefinement DEF E!Atomic!vars, e_op
  <2> QED
    BY <2>1, <2>2
<1>4. ASSUME NEW t \in Callers, E!Return(t) PROVE E!Atomic!Next
  BY <1>4, EReturnRefinement DEF E!Atomic!Next
<1>5. CASE UNCHANGED E!vars
  BY <1>5 DEF E!vars, E!Atomic!vars, E!Served
<1> QED
  BY <1>1, <1>2, <1>3, <1>4, <1>5 DEF E!Next, E!Step

(* The loops of _SWAP, _FAA32 and _FAA64 (primitives.c:272-348) are atomic:  *)
(* each call takes effect once, at its own CAS that succeeds, and returns   *)
(* the value it has replaced, although the CAS compares values only and the *)
(* word may have changed back and forth since it was read.                  *)
THEOREM EmulationIsAtomic == E!Spec => E!ImplementsAtomicWord
  BY EInitRefinement, ENextRefinement, EInductive, PTL
     DEF E!Spec, E!ImplementsAtomicWord, E!Atomic!Spec

LEMMA EKeeps == EInv /\ [MCNext]_mc_vars => EInv'
<1>. SUFFICES ASSUME EInv, [MCNext]_mc_vars PROVE EInv'
  OBVIOUS
<1>1. [E!Next]_(E!vars)
  BY DEF MCNext, mc_vars, e_vars, E!vars
<1>. QED
  BY <1>1, ENextInv

LEMMA ERefines ==
  EInv /\ [MCNext]_mc_vars => [which = "Emulation" => E!Atomic!Next]_<<which, E!Atomic!vars>>
<1>. SUFFICES ASSUME EInv, [MCNext]_mc_vars
              PROVE  [which = "Emulation" => E!Atomic!Next]_<<which, E!Atomic!vars>>
  OBVIOUS
<1>1. which' = which /\ (which = "Emulation" => [E!Next]_(E!vars))
  BY DEF MCNext, mc_vars, e_vars, E!vars
<1>. QED
  BY <1>1, ENextRefinement

(* And so, where they are one of the components of MCStructures.            *)
THEOREM EmulatedWordsAreAtomicHolds == MCSpec => EmulatedWordsAreAtomic
<1>1. MCInit => EInv /\ E!Atomic!Init
  BY EInitInv, EInitRefinement DEF MCInit
<1>2. MCSpec => []EInv
  BY <1>1, EKeeps, PTL DEF MCSpec, mc_vars
<1>. QED
  BY <1>1, <1>2, ERefines, PTL DEF MCSpec, EmulatedWordsAreAtomic, mc_vars

-----------------------------------------------------------------------------
(*                        Lists and sequences                              *)

(* Any set of naturals has a least one. *)
LEMMA LeastNatural ==
  ASSUME NEW T, T \subseteq Nat, T # {}
  PROVE  \E n \in T : \A m \in T : n <= m
<1>1. \E x \in T : \A y \in T : ~ (<<y, x>> \in OpToRel(<, Nat))
  BY NatLessThanWellFounded, WFMin
<1>2. \A x, y \in T : x < y => <<x, y>> \in OpToRel(<, Nat)
  BY DEF OpToRel
<1>3. PICK x \in T : \A y \in T : ~ (y < x)
  BY <1>1, <1>2
<1>4. \A y \in T : x <= y
  BY <1>3
<1>. QED
  BY <1>4

(* r[lo], r[lo + 1], ... r[hi] are the nodes of the list that starts at x,  *)
(* along the links nx; it is empty when hi = lo - 1.                        *)
IsPath(r, lo, hi, x, nx) ==
  /\ lo \in Int /\ hi \in Int /\ lo <= hi + 1
  /\ x = IF lo > hi THEN NULL ELSE r[lo]
  /\ \A i \in lo .. hi : r[i] # NULL
  /\ \A i \in lo .. hi : nx[r[i]] = IF i = hi THEN NULL ELSE r[i + 1]

(* No node is twice in it.                                                  *)
IsSimple(r, lo, hi) == \A i, j \in lo .. hi : r[i] = r[j] => i = j

(* The equation of the functions Reached of the modules. *)
IsWalk(g, lo, top, x, nx) ==
  g = [i \in lo .. top |->
         IF i = lo THEN x ELSE IF g[i - 1] = NULL THEN NULL ELSE nx[g[i - 1]]]

Walked(r, lo, hi, top) == [i \in lo .. top |-> IF i <= hi THEN r[i] ELSE NULL]

LEMMA PathIsWalk ==
  ASSUME NEW r, NEW lo, NEW hi, NEW x, NEW nx, NEW top \in Int,
         IsPath(r, lo, hi, x, nx)
  PROVE  IsWalk(Walked(r, lo, hi, top), lo, top, x, nx)
<1>. DEFINE g == Walked(r, lo, hi, top)
<1>1. ASSUME NEW i \in lo .. top
      PROVE  g[i] = IF i = lo THEN x ELSE IF g[i - 1] = NULL THEN NULL ELSE nx[g[i - 1]]
  <2>1. CASE i = lo
    BY <1>1, <2>1 DEF Walked, IsPath
  <2>2. CASE i # lo
    <3>1. i - 1 \in lo .. top /\ i - 1 < i /\ (i - 1) + 1 = i
      BY <1>1, <2>2 DEF IsPath
    <3>2. g[i - 1] = IF i - 1 <= hi THEN r[i - 1] ELSE NULL
      BY <3>1 DEF Walked
    <3>3. g[i] = IF i <= hi THEN r[i] ELSE NULL
      BY <1>1 DEF Walked
    <3>4. i - 1 <= hi => /\ r[i - 1] # NULL
                         /\ nx[r[i - 1]] = IF i - 1 = hi THEN NULL ELSE r[i]
      BY <3>1 DEF IsPath
    <3>5. i <= hi <=> i - 1 <= hi /\ i - 1 # hi
      BY <1>1 DEF IsPath
    <3>. QED
      BY <2>2, <3>2, <3>3, <3>4, <3>5
  <2>. QED
    BY <2>1, <2>2
<1>2. g = [i \in lo .. top |->
             IF i = lo THEN x ELSE IF g[i - 1] = NULL THEN NULL ELSE nx[g[i - 1]]]
  BY <1>1 DEF Walked
<1>. QED
  BY <1>2 DEF IsWalk

LEMMA WalkIsPath ==
  ASSUME NEW r, NEW lo, NEW hi, NEW x, NEW nx, NEW top \in Int,
         IsPath(r, lo, hi, x, nx), lo \in Nat, NEW g, IsWalk(g, lo, top, x, nx)
  PROVE  g = Walked(r, lo, hi, top)
<1>. DEFINE w == Walked(r, lo, hi, top)
            T == {i \in lo .. top : g[i] # w[i]}
<1>1. \A i \in lo .. top :
        g[i] = IF i = lo THEN x ELSE IF g[i - 1] = NULL THEN NULL ELSE nx[g[i - 1]]
  BY DEF IsWalk
<1>2. \A i \in lo .. top :
        w[i] = IF i = lo THEN x ELSE IF w[i - 1] = NULL THEN NULL ELSE nx[w[i - 1]]
  <2>1. IsWalk(w, lo, top, x, nx)
    BY PathIsWalk
  <2>. HIDE DEF w
  <2>. QED
    BY <2>1 DEF IsWalk
<1>. HIDE DEF w
<1>3. T = {}
  <2>. SUFFICES ASSUME T # {} PROVE FALSE
    OBVIOUS
  <2>1. PICK i \in T : \A j \in T : i <= j
    <3>1. T \subseteq Nat
      BY DEF IsPath
    <3>. HIDE DEF T
    <3>. QED
      BY <3>1, LeastNatural
  <2>2. i # lo
    BY <1>1, <1>2, <2>1
  <2>3. i - 1 \in lo .. top /\ ~(i <= i - 1)
    BY <2>1, <2>2 DEF IsPath
  <2>4. g[i - 1] = w[i - 1]
    BY <2>1, <2>3
  <2>. QED
    BY <1>1, <1>2, <2>1, <2>2, <2>4
<1>4. \A i \in lo .. top : g[i] = w[i]
  BY <1>3
<1>5. w = [i \in lo .. top |-> IF i <= hi THEN r[i] ELSE NULL]
  BY DEF Walked, w
<1>6. \A i \in lo .. top : g[i] = IF i <= hi THEN r[i] ELSE NULL
  BY <1>4, <1>5
<1>7. g = [i \in lo .. top |-> IF i <= hi THEN r[i] ELSE NULL]
  BY <1>6 DEF IsWalk
<1>. QED
  BY <1>7 DEF Walked

(* A list without repetition is no longer than there are nodes.             *)
LEMMA PathIsShort ==
  ASSUME NEW r, NEW lo \in Int, NEW hi \in Int, NEW a \in Int, NEW b \in Int,
         IsSimple(r, lo, hi), \A i \in lo .. hi : r[i] \in a .. b, lo <= hi
  PROVE  hi - lo <= b - a
<1>. DEFINE f == [i \in lo .. hi |-> r[i]]
<1>1. f \in Injection(lo .. hi, a .. b)
  BY DEF Injection, IsInjective, IsSimple
<1>2. IsFiniteSet(a .. b) /\ IsFiniteSet(lo .. hi)
  BY FS_Interval
<1>3. Cardinality(lo .. hi) <= Cardinality(a .. b)
  BY <1>1, <1>2, FS_Injection
<1>4. Cardinality(lo .. hi) = hi - lo + 1
      /\ Cardinality(a .. b) = IF a > b THEN 0 ELSE b - a + 1
  BY FS_Interval
<1>. QED
  BY <1>3, <1>4

(* The number of nodes reached, from the first on or from the one behind.   *)
LEMMA CountIs ==
  ASSUME NEW r, NEW lo \in Int, NEW from \in Int, NEW hi \in Int, NEW x, NEW nx, NEW top \in Int,
         NEW last \in Int,
         IsPath(r, lo, hi, x, nx), lo <= from, hi <= last, last <= top, from <= hi + 1
  PROVE  Cardinality({i \in from .. last : Walked(r, lo, hi, top)[i] # NULL}) = hi - from + 1
<1>. DEFINE w == Walked(r, lo, hi, top)
<1>1. \A i \in from .. last : w[i] # NULL <=> i <= hi
  BY DEF Walked, IsPath
<1>2. {i \in from .. last : w[i] # NULL} = from .. hi
  BY <1>1
<1>3. Cardinality(from .. hi) = hi - from + 1
  BY FS_Interval
<1>. QED
  BY <1>2, <1>3

-----------------------------------------------------------------------------
(* Sequences as functions. *)
LEMMA FunctionIsSeq ==
  ASSUME NEW X, NEW m \in Nat, NEW f \in [1 .. m -> X]
  PROVE  f \in Seq(X) /\ Len(f) = m /\ (f = <<>> <=> m = 0)
<1>1. f \in Seq(X) /\ DOMAIN f = 1 .. m
  OBVIOUS
<1>2. Len(f) = m
  BY <1>1
<1>. QED
  BY <1>1, <1>2, EmptySeq

LEMMA PrependIs ==
  ASSUME NEW X, NEW m \in Nat, NEW f \in [1 .. m -> X], NEW v \in X
  PROVE  <<v>> \o f = [i \in 1 .. m + 1 |-> IF i = 1 THEN v ELSE f[i - 1]]
<1>. DEFINE g == [i \in 1 .. m + 1 |-> IF i = 1 THEN v ELSE f[i - 1]]
<1>1. f \in Seq(X) /\ Len(f) = m
  BY FunctionIsSeq
<1>2. <<v>> \in Seq(X) /\ Len(<<v>>) = 1 /\ <<v>>[1] = v
  OBVIOUS
<1>3. /\ <<v>> \o f \in Seq(X) /\ Len(<<v>> \o f) = 1 + m
      /\ \A i \in 1 .. 1 + m : (<<v>> \o f)[i] = IF i <= 1 THEN <<v>>[i] ELSE f[i - 1]
  BY <1>1, <1>2, ConcatProperties
<1>4. g \in [1 .. m + 1 -> X] /\ m + 1 \in Nat
  <2>1. \A i \in 1 .. m + 1 : i # 1 => i - 1 \in 1 .. m
    OBVIOUS
  <2>. QED
    BY <2>1
<1>5. g \in Seq(X) /\ Len(g) = m + 1
  BY <1>4, FunctionIsSeq
<1>6. \A i \in 1 .. 1 + m : (<<v>> \o f)[i] = g[i]
  BY <1>2, <1>3
<1>7. Len(<<v>> \o f) = Len(g) /\ 1 + m = m + 1
  BY <1>3, <1>5
<1>. HIDE DEF g
<1>8. <<v>> \o f = g
  BY <1>3, <1>5, <1>6, <1>7, SeqEqual
<1>. QED
  BY <1>8 DEF g

LEMMA AppendIs ==
  ASSUME NEW X, NEW m \in Nat, NEW f \in [1 .. m -> X], NEW v \in X
  PROVE  Append(f, v) = [i \in 1 .. m + 1 |-> IF i = m + 1 THEN v ELSE f[i]]
<1>1. f \in Seq(X) /\ Len(f) = m
  BY FunctionIsSeq
<1>2. /\ Append(f, v) \in Seq(X) /\ Len(Append(f, v)) = m + 1
      /\ \A i \in 1 .. m : Append(f, v)[i] = f[i]
      /\ Append(f, v)[m + 1] = v
  BY <1>1, AppendProperties
<1>3. Append(f, v) \in [1 .. m + 1 -> X]
  BY <1>2, LenProperties
<1>4. \A i \in 1 .. m + 1 : Append(f, v)[i] = IF i = m + 1 THEN v ELSE f[i]
  BY <1>2
<1>. QED
  BY <1>3, <1>4

LEMMA TailIs ==
  ASSUME NEW X, NEW m \in Nat, NEW f \in [1 .. m -> X], m > 0
  PROVE  /\ Head(f) = f[1]
         /\ Tail(f) = [i \in 1 .. m - 1 |-> f[i + 1]]
         /\ f # <<>>
<1>. DEFINE g == [i \in 1 .. m - 1 |-> f[i + 1]]
<1>1. f \in Seq(X) /\ Len(f) = m /\ f # <<>>
  BY FunctionIsSeq
<1>2. /\ Tail(f) \in Seq(X) /\ Len(Tail(f)) = m - 1
      /\ \A i \in 1 .. Len(Tail(f)) : Tail(f)[i] = f[i + 1]
  BY <1>1, HeadTailProperties
<1>3. g \in [1 .. m - 1 -> X] /\ m - 1 \in Nat
  OBVIOUS
<1>4. g \in Seq(X) /\ Len(g) = m - 1
  BY <1>3, FunctionIsSeq
<1>5. \A i \in 1 .. m - 1 : g[i] = f[i + 1]
  OBVIOUS
<1>. HIDE DEF g
<1>6. Tail(f) = g
  BY <1>2, <1>4, <1>5, SeqEqual
<1>. QED
  BY <1>1, <1>6 DEF g

-----------------------------------------------------------------------------
(*                              The pools                                  *)

(* A node is in one pool at most, and once. *)
InPools(pl, n) == \E t \in Threads : \E i \in 1 .. Len(pl[t]) : pl[t][i] = n

ArePools(pl) ==
  /\ pl \in [Threads -> Seq(Int)]
  /\ \A t, u \in Threads : \A i \in 1 .. Len(pl[t]) : \A j \in 1 .. Len(pl[u]) :
       pl[t][i] = pl[u][j] => t = u /\ i = j

IsTaken(pl, c, n, pm) ==
  ArePools(pl) /\ pl[c] # <<>> /\ n = Head(pl[c]) /\ pm = [pl EXCEPT ![c] = Tail(@)]

LEMMA PoolTake ==
  \A pl, n, pm : \A c \in Threads : IsTaken(pl, c, n, pm) =>
    ArePools(pm) /\ InPools(pl, n) /\ \A x : InPools(pm, x) => InPools(pl, x) /\ x # n
<1>. SUFFICES ASSUME NEW pl, NEW n, NEW pm, NEW c \in Threads, IsTaken(pl, c, n, pm)
              PROVE  /\ ArePools(pm) /\ InPools(pl, n)
                     /\ \A x : InPools(pm, x) => InPools(pl, x) /\ x # n
  OBVIOUS
<1>0. ArePools(pl) /\ pl[c] # <<>> /\ n = Head(pl[c]) /\ pm = [pl EXCEPT ![c] = Tail(@)]
  BY DEF IsTaken
<1>. USE <1>0
<1>. DEFINE s == pl[c]
<1>1. s \in Seq(Int)
  BY DEF ArePools
<1>2. /\ Head(s) = s[1] /\ 1 \in 1 .. Len(s)
      /\ Tail(s) \in Seq(Int) /\ Len(Tail(s)) = Len(s) - 1
      /\ \A i \in 1 .. Len(Tail(s)) : Tail(s)[i] = s[i + 1] /\ i + 1 \in 1 .. Len(s)
  <2>1. s # <<>>
    OBVIOUS
  <2>. HIDE DEF s
  <2>. QED
    BY ONLY <1>1, <2>1, HeadTailProperties, LenProperties, EmptySeq
<1>3. /\ pm \in [Threads -> Seq(Int)] /\ pm[c] = Tail(s)
      /\ \A u \in Threads : u # c => pm[u] = pl[u]
  BY <1>2 DEF ArePools
<1>. HIDE DEF s
<1>4. \A u \in Threads : \A i \in 1 .. Len(pm[u]) :
        \E j \in 1 .. Len(pl[u]) : j = (IF u = c THEN i + 1 ELSE i) /\ pm[u][i] = pl[u][j]
  <2>1. \A i \in 1 .. Len(pm[c]) : i + 1 \in 1 .. Len(pl[c]) /\ pm[c][i] = pl[c][i + 1]
    BY <1>2, <1>3 DEF s
  <2>. QED
    BY <1>3, <2>1
<1>5. ASSUME NEW u \in Threads, NEW v \in Threads, NEW i \in 1 .. Len(pm[u]),
             NEW j \in 1 .. Len(pm[v]), pm[u][i] = pm[v][j]
      PROVE  u = v /\ i = j
  <2>1. PICK a \in 1 .. Len(pl[u]) : a = (IF u = c THEN i + 1 ELSE i) /\ pm[u][i] = pl[u][a]
    BY <1>4
  <2>2. PICK b \in 1 .. Len(pl[v]) : b = (IF v = c THEN j + 1 ELSE j) /\ pm[v][j] = pl[v][b]
    BY <1>4
  <2>3. u = v /\ a = b
    BY <1>5, <2>1, <2>2 DEF ArePools
  <2>. QED
    BY <2>1, <2>2, <2>3
<1>6. ASSUME NEW x, InPools(pm, x)
      PROVE  InPools(pl, x) /\ x # n
  <2>1. PICK u \in Threads : \E i \in 1 .. Len(pm[u]) : pm[u][i] = x
    BY <1>6 DEF InPools
  <2>2. PICK i \in 1 .. Len(pm[u]) : pm[u][i] = x
    BY <2>1
  <2>3. PICK j \in 1 .. Len(pl[u]) : j = (IF u = c THEN i + 1 ELSE i) /\ x = pl[u][j]
    BY <1>4, <2>2
  <2>4. u # c \/ j # 1
    BY <2>3
  <2>5. x # n
    BY <1>2, <2>3, <2>4 DEF s, ArePools
  <2>. QED
    BY <2>3, <2>5 DEF InPools
<1>7. InPools(pl, n)
  BY <1>2 DEF s, InPools
<1>. QED
  BY <1>3, <1>5, <1>6, <1>7 DEF ArePools

IsGiven(pl, c, n, pm) ==
  ArePools(pl) /\ n \in Int /\ ~InPools(pl, n) /\ pm = [pl EXCEPT ![c] = <<n>> \o @]

LEMMA PoolGive ==
  \A pl, n, pm : \A c \in Threads : IsGiven(pl, c, n, pm) =>
    ArePools(pm) /\ \A x : InPools(pm, x) => InPools(pl, x) \/ x = n
<1>. SUFFICES ASSUME NEW pl, NEW n, NEW pm, NEW c \in Threads, IsGiven(pl, c, n, pm)
              PROVE  ArePools(pm) /\ \A x : InPools(pm, x) => InPools(pl, x) \/ x = n
  OBVIOUS
<1>0. ArePools(pl) /\ n \in Int /\ ~InPools(pl, n) /\ pm = [pl EXCEPT ![c] = <<n>> \o @]
  BY DEF IsGiven
<1>. USE <1>0
<1>. DEFINE s == pl[c]
            q == <<n>> \o s
<1>1. s \in Seq(Int) /\ <<n>> \in Seq(Int) /\ Len(<<n>>) = 1 /\ <<n>>[1] = n
  BY DEF ArePools
<1>2. /\ q \in Seq(Int) /\ Len(q) = Len(s) + 1 /\ Len(s) \in Nat
      /\ \A i \in 1 .. Len(q) : q[i] = IF i = 1 THEN n ELSE s[i - 1]
  <2>. HIDE DEF s
  <2>1. /\ q \in Seq(Int) /\ Len(q) = 1 + Len(s) /\ Len(s) \in Nat
        /\ \A i \in 1 .. 1 + Len(s) : q[i] = IF i <= 1 THEN <<n>>[i] ELSE s[i - 1]
    BY ONLY <1>1, ConcatProperties, LenProperties
  <2>. HIDE DEF q
  <2>. QED
    BY <1>1, <2>1
<1>3. /\ pm \in [Threads -> Seq(Int)]
      /\ pm[c] = q /\ \A u \in Threads : u # c => pm[u] = pl[u]
  <2>. HIDE DEF q
  <2>1. pm = [pl EXCEPT ![c] = q]
    BY DEF q, s
  <2>. QED
    BY <1>2, <2>1 DEF ArePools
<1>. HIDE DEF s, q
<1>4. ASSUME NEW u \in Threads, NEW i \in 1 .. Len(pm[u])
      PROVE  \/ u = c /\ i = 1 /\ pm[u][i] = n
             \/ \E a \in 1 .. Len(pl[u]) : /\ a = IF u = c THEN i - 1 ELSE i
                                           /\ pm[u][i] = pl[u][a]
  <2>1. CASE u # c
    BY <1>3, <2>1
  <2>2. CASE u = c /\ i = 1
    BY <1>2, <1>3, <2>2
  <2>3. CASE u = c /\ i # 1
    <3>1. i \in 1 .. Len(q) /\ i - 1 \in 1 .. Len(s)
      BY <1>2, <1>3, <2>3
    <3>2. pm[u][i] = s[i - 1]
      BY <1>2, <1>3, <2>3, <3>1
    <3>. QED
      BY <2>3, <3>1, <3>2 DEF s
  <2>. QED
    BY <2>1, <2>2, <2>3
<1>5. \A u \in Threads : \A a \in 1 .. Len(pl[u]) : pl[u][a] # n
  BY DEF InPools
<1>6. ASSUME NEW u \in Threads, NEW i \in 1 .. Len(pm[u]), pm[u][i] = n
      PROVE  u = c /\ i = 1
  BY <1>4, <1>5, <1>6
<1>7. ASSUME NEW u \in Threads, NEW v \in Threads, NEW i \in 1 .. Len(pm[u]),
             NEW j \in 1 .. Len(pm[v]), pm[u][i] = pm[v][j]
      PROVE  u = v /\ i = j
  <2>1. CASE pm[u][i] = n
    <3>1. pm[v][j] = n
      BY <1>7, <2>1
    <3>2. u = c /\ i = 1
      BY <1>6, <2>1
    <3>3. v = c /\ j = 1
      BY <1>6, <3>1
    <3>. QED
      BY <3>2, <3>3
  <2>2. CASE pm[u][i] # n
    <3>1. PICK a \in 1 .. Len(pl[u]) : a = (IF u = c THEN i - 1 ELSE i) /\ pm[u][i] = pl[u][a]
      BY <1>4, <2>2
    <3>2. PICK b \in 1 .. Len(pl[v]) : b = (IF v = c THEN j - 1 ELSE j) /\ pm[v][j] = pl[v][b]
      BY <1>4, <1>7, <2>2
    <3>3. u = v /\ a = b
      <4>1. pl[u][a] = pl[v][b]
        BY <1>7, <3>1, <3>2
      <4>. QED
        BY <4>1 DEF ArePools
    <3>. QED
      BY <3>1, <3>2, <3>3
  <2>. QED
    BY <2>1, <2>2
<1>8. ASSUME NEW x, InPools(pm, x)
      PROVE  InPools(pl, x) \/ x = n
  <2>1. PICK u \in Threads : \E i \in 1 .. Len(pm[u]) : pm[u][i] = x
    BY <1>8 DEF InPools
  <2>2. PICK i \in 1 .. Len(pm[u]) : pm[u][i] = x
    BY <2>1
  <2>. QED
    BY <1>4, <2>2 DEF InPools
<1>. QED
  BY <1>3, <1>7, <1>8 DEF ArePools
(* A stack r[1], ... r[m] with the node k on top, and without its top.      *)
OnTop(k, r, m) == [i \in 1 .. m + 1 |-> IF i = 1 THEN k ELSE r[i - 1]]
Below(r, m) == [i \in 1 .. m - 1 |-> r[i + 1]]

MayGoOnTop(k, r, m, x, nx, ny) ==
  /\ m \in Nat /\ IsPath(r, 1, m, x, nx) /\ IsSimple(r, 1, m)
  /\ k # NULL /\ ny[k] = x /\ \A i \in 1 .. m : r[i] # k /\ ny[r[i]] = nx[r[i]]

LEMMA OnTopIsPath ==
  \A k, r, m, x, nx, ny : MayGoOnTop(k, r, m, x, nx, ny) =>
    IsPath(OnTop(k, r, m), 1, m + 1, k, ny) /\ IsSimple(OnTop(k, r, m), 1, m + 1)
<1>. SUFFICES ASSUME NEW k, NEW r, NEW m, NEW x, NEW nx, NEW ny,
                     MayGoOnTop(k, r, m, x, nx, ny)
              PROVE  /\ IsPath(OnTop(k, r, m), 1, m + 1, k, ny)
                     /\ IsSimple(OnTop(k, r, m), 1, m + 1)
  OBVIOUS
<1>. USE DEF MayGoOnTop
<1>. DEFINE q == OnTop(k, r, m)
<1>1. m + 1 \in Nat /\ q[1] = k
      /\ \A i \in 2 .. m + 1 : i - 1 \in 1 .. m /\ q[i] = r[i - 1]
  BY DEF OnTop
<1>2. \A i \in 1 .. m + 1 : i = 1 \/ i \in 2 .. m + 1
  OBVIOUS
<1>3. IsSimple(q, 1, m + 1)
  <2>. HIDE DEF q
  <2>. QED
    BY <1>1, <1>2 DEF IsSimple
<1>4. \A i \in 1 .. m + 1 : q[i] # NULL
  BY <1>1, <1>2 DEF IsPath
<1>5. x = IF 1 = m + 1 THEN NULL ELSE q[2]
  <2>1. x = IF m = 0 THEN NULL ELSE r[1]
    BY DEF IsPath
  <2>. QED
    BY <1>1, <2>1
<1>6. ASSUME NEW i \in 2 .. m + 1
      PROVE  ny[q[i]] = IF i = m + 1 THEN NULL ELSE q[i + 1]
  <2>1. i - 1 \in 1 .. m /\ q[i] = r[i - 1] /\ (i - 1 = m <=> i = m + 1)
    BY <1>1
  <2>2. ny[r[i - 1]] = IF i - 1 = m THEN NULL ELSE r[(i - 1) + 1]
    BY <2>1 DEF IsPath
  <2>3. i # m + 1 => i + 1 \in 2 .. m + 1 /\ (i - 1) + 1 = (i + 1) - 1
    OBVIOUS
  <2>4. i # m + 1 => q[i + 1] = r[(i + 1) - 1]
    BY <1>1, <2>3
  <2>. QED
    BY <2>1, <2>2, <2>3, <2>4
<1>. HIDE DEF q
<1>7. \A i \in 1 .. m + 1 : ny[q[i]] = IF i = m + 1 THEN NULL ELSE q[i + 1]
  BY <1>1, <1>2, <1>5, <1>6
<1>8. k = IF 1 > m + 1 THEN NULL ELSE q[1]
  BY <1>1
<1>9. IsPath(q, 1, m + 1, k, ny)
  BY <1>1, <1>4, <1>7, <1>8 DEF IsPath
<1>. QED
  BY <1>3, <1>9 DEF q

LEMMA BelowIsPath ==
  ASSUME NEW r, NEW m \in Nat, NEW x, NEW nx, x # NULL,
         IsPath(r, 1, m, x, nx), IsSimple(r, 1, m)
  PROVE  /\ m >= 1 /\ m - 1 \in Nat /\ x = r[1]
         /\ \A i \in 1 .. m - 1 : /\ i + 1 \in 1 .. m
                                  /\ Below(r, m)[i] = r[i + 1] /\ Below(r, m)[i] # x
         /\ IsPath(Below(r, m), 1, m - 1, nx[x], nx) /\ IsSimple(Below(r, m), 1, m - 1)
<1>1. m >= 1 /\ m - 1 \in Nat /\ x = r[1]
  BY DEF IsPath
<1>. DEFINE q == Below(r, m)
<1>2. \A i \in 1 .. m - 1 : q[i] = r[i + 1] /\ i + 1 \in 1 .. m
  BY <1>1 DEF Below
<1>. HIDE DEF q
<1>3. \A i \in 1 .. m - 1 : q[i] # x
  BY <1>1, <1>2 DEF IsSimple
<1>4. IsSimple(q, 1, m - 1)
  BY <1>1, <1>2 DEF IsSimple
<1>5. nx[x] = IF m = 1 THEN NULL ELSE r[2]
  BY <1>1 DEF IsPath
<1>6. nx[x] = IF 1 > m - 1 THEN NULL ELSE q[1]
  BY <1>1, <1>2, <1>5
<1>7. ASSUME NEW i \in 1 .. m - 1
      PROVE  nx[q[i]] = IF i = m - 1 THEN NULL ELSE q[i + 1]
  <2>1. nx[r[i + 1]] = IF i + 1 = m THEN NULL ELSE r[(i + 1) + 1]
    BY <1>2 DEF IsPath
  <2>2. i + 1 = m <=> i = m - 1
    BY <1>1
  <2>3. i # m - 1 => q[i + 1] = r[(i + 1) + 1]
    BY <1>1, <1>2
  <2>. QED
    BY <1>2, <2>1, <2>2, <2>3
<1>8. \A i \in 1 .. m - 1 : q[i] # NULL
  BY <1>2 DEF IsPath
<1>9. IsPath(q, 1, m - 1, nx[x], nx)
  BY <1>1, <1>6, <1>7, <1>8 DEF IsPath
<1>. QED
  BY <1>1, <1>2, <1>3, <1>4, <1>9 DEF q

(* What the nodes of a stack hold, from the top down.                       *)
Held(r, m, vl) == [i \in 1 .. m |-> vl[r[i]]]

LEMMA HeldOnTop ==
  ASSUME NEW r, NEW m \in Nat, NEW vl, NEW k, NEW X, vl[k] \in X,
         \A i \in 1 .. m : vl[r[i]] \in X
  PROVE  Held(OnTop(k, r, m), m + 1, vl) = <<vl[k]>> \o Held(r, m, vl)
<1>. DEFINE f == Held(r, m, vl)
            v == vl[k]
<1>1. f \in [1 .. m -> X]
  BY DEF Held
<1>2. \A i \in 1 .. m + 1 : vl[OnTop(k, r, m)[i]] = IF i = 1 THEN v ELSE f[i - 1]
  <2>1. \A i \in 1 .. m + 1 : i # 1 => i - 1 \in 1 .. m
    OBVIOUS
  <2>. QED
    BY <2>1 DEF Held, OnTop
<1>3. Held(OnTop(k, r, m), m + 1, vl) = [i \in 1 .. m + 1 |-> IF i = 1 THEN v ELSE f[i - 1]]
  BY <1>2 DEF Held
<1>. HIDE DEF f, v
<1>4. v \in X
  BY DEF v
<1>5. <<v>> \o f = [i \in 1 .. m + 1 |-> IF i = 1 THEN v ELSE f[i - 1]]
  BY ONLY <1>1, <1>4, m \in Nat, PrependIs
<1>. QED
  BY <1>3, <1>5 DEF f, v

LEMMA HeldBelow ==
  ASSUME NEW r, NEW m \in Nat, NEW vl, NEW X, m >= 1, \A i \in 1 .. m : vl[r[i]] \in X
  PROVE  /\ Held(r, m, vl) # <<>> /\ Head(Held(r, m, vl)) = vl[r[1]]
         /\ Tail(Held(r, m, vl)) = Held(Below(r, m), m - 1, vl)
<1>. DEFINE f == Held(r, m, vl)
<1>1. f \in [1 .. m -> X] /\ f[1] = vl[r[1]]
  BY DEF Held
<1>2. \A i \in 1 .. m - 1 : vl[Below(r, m)[i]] = f[i + 1]
  BY DEF Held, Below
<1>3. Held(Below(r, m), m - 1, vl) = [i \in 1 .. m - 1 |-> f[i + 1]]
  BY <1>2 DEF Held
<1>. HIDE DEF f
<1>4. m > 0
  OBVIOUS
<1>5. Head(f) = f[1] /\ Tail(f) = [i \in 1 .. m - 1 |-> f[i + 1]] /\ f # <<>>
  BY ONLY <1>1, <1>4, m \in Nat, TailIs
<1>. QED
  BY <1>1, <1>3, <1>5 DEF f

(* The nodes that a walk along the links reaches are those of the list.     *)
LEMMA WalkCounts ==
  ASSUME NEW r, NEW m \in Nat, NEW x, NEW nx, NEW g, NEW N \in Nat,
         IsPath(r, 1, m, x, nx), IsSimple(r, 1, m), \A i \in 1 .. m : r[i] \in 1 .. N,
         IsWalk(g, 1, N + 1, x, nx)
  PROVE  /\ \A i \in 1 .. m : g[i] = r[i]
         /\ Cardinality({i \in 1 .. N : g[i] # NULL}) = m
<1>1. m <= N
  <2>1. m = 0 \/ m - 1 <= N - 1
    BY PathIsShort
  <2>. QED
    BY <2>1
<1>. DEFINE w == Walked(r, 1, m, N + 1)
<1>2. g = w
  BY WalkIsPath
<1>3. \A i \in 1 .. m : w[i] = r[i]
  BY <1>1 DEF Walked
<1>4. Cardinality({i \in 1 .. N : w[i] # NULL}) = m - 1 + 1
  BY <1>1, CountIs
<1>. HIDE DEF w
<1>. QED
  BY <1>2, <1>3, <1>4

LEMMA PathCanBeWalked ==
  \A r, m, x, nx : \A N \in Nat :
    m \in Nat /\ IsPath(r, 1, m, x, nx) => \E w : IsWalk(w, 1, N + 1, x, nx)
  BY PathIsWalk

-----------------------------------------------------------------------------
(*                The stacks on a combining object                         *)

LEMMA KConstants ==
  /\ LinkedNodes \in Nat \ {0} /\ NULL \notin 1 .. LinkedNodes
  /\ K!Source = [recycles |-> TRUE, empty |-> EMPTY_STACK]
  /\ KF!Source = [recycles |-> FALSE, empty |-> -1]
  BY StructuresAssumption DEF K!ConstantsAssumption, K!Source, KF!Source, K!CCStack, KF!FCStack

KIsOp(o) ==
  \/ o = K!Idle
  \/ \E v \in Values \cup {POP_OP} : o = K!Pending(v)
  \/ \E a : o = K!Done(a)

KTypes ==
  /\ k_used \in 0 .. LinkedNodes
  /\ k_next = [n \in 1 .. LinkedNodes |-> k_next[n]]
  /\ k_val = [n \in 1 .. LinkedNodes |-> k_val[n]]
  /\ k_op = [t \in Threads |-> k_op[t]] /\ k_answer = [t \in Threads |-> k_answer[t]]
  /\ \A t \in Threads : KIsOp(k_op[t])

KFree(n) == InPools(k_pool, n)

KPools == ArePools(k_pool) /\ \A n : KFree(n) => n \in 1 .. k_used

(* The stack is r[1], ... r[m], and no node of it is in a pool.             *)
KStack(r, m) ==
  /\ m \in Nat
  /\ IsPath(r, 1, m, k_top, k_next) /\ IsSimple(r, 1, m)
  /\ \A i \in 1 .. m : r[i] \in 1 .. k_used /\ k_val[r[i]] \in Values /\ ~KFree(r[i])

KIInv == KTypes /\ KPools /\ \E r, m : KStack(r, m)

KSame == k_val' = k_val /\ \E r, m : KStack(r, m) /\ KStack(r, m)'

LEMMA KInit == K!Init => KIInv
<1>. SUFFICES ASSUME K!Init PROVE KIInv
  OBVIOUS
<1>1. \A t \in Threads : k_pool[t] = <<>> /\ Len(k_pool[t]) = 0
  BY DEF K!Init
<1>2. k_pool \in [Threads -> Seq(Int)]
  BY DEF K!Init
<1>3. KTypes /\ KPools
  BY <1>1, <1>2, KConstants DEF K!Init, K!Nodes, KTypes, KPools, KIsOp, KFree, ArePools, InPools
<1>4. KStack(<<>>, 0)
  BY DEF K!Init, KStack, IsPath, IsSimple
<1>. QED
  BY <1>3, <1>4 DEF KIInv

(* Calls, returns and the empty stack leave the nodes alone. *)
LEMMA KCallKeeps ==
  ASSUME KIInv, NEW t \in Threads,
         \/ K!Return(t) \/ \E v \in Values \cup {POP_OP} : K!Call(t, v)
         \/ \E c \in Threads : K!PopEmpty(c, t) \/ KF!PopEmpty(c, t)
  PROVE  KIInv' /\ KSame
<1>. USE DEF K!Return, K!Call, K!PopEmpty, KF!PopEmpty
<1>1. k_op' = [u \in Threads |-> k_op'[u]] /\ k_answer' = [u \in Threads |-> k_answer'[u]]
      /\ \A u \in Threads : u # t => k_op'[u] = k_op[u]
  BY DEF KIInv, KTypes
<1>2. KIsOp(k_op'[t])
  <2>1. \/ k_op'[t] = K!Idle
        \/ \E v \in Values \cup {POP_OP} : k_op'[t] = K!Pending(v)
        \/ \E a : k_op'[t] = K!Done(a)
    BY DEF KIInv, KTypes, K!Idle, K!Pending, K!Done, KF!Done
  <2>. QED
    BY <2>1 DEF KIsOp
<1>4. UNCHANGED <<k_top, k_next, k_val, k_used, k_pool>>
  OBVIOUS
<1>3. KTypes'
  <2>1. \A u \in Threads : KIsOp(k_op'[u])
    BY <1>1, <1>2 DEF KIInv, KTypes
  <2>. QED
    BY <1>1, <1>4, <2>1 DEF KIInv, KTypes
<1>5. KPools' /\ \A r, m : KStack(r, m)' <=> KStack(r, m)
  BY <1>4 DEF KIInv, KPools, KStack, KFree
<1>. QED
  BY <1>3, <1>4, <1>5 DEF KIInv, KSame

(* The node that serialPushPop takes, out of the combiner's pool or a new   *)
(* one, is nowhere else.                                                    *)
KTaken(n) ==
  /\ n \in 1 .. LinkedNodes /\ n \in 1 .. k_used'
  /\ k_used' \in 0 .. LinkedNodes /\ k_used <= k_used'
  /\ \A r, m : KStack(r, m) => \A i \in 1 .. m : r[i] # n
  /\ KPools'
  /\ \A x : KFree(x)' => KFree(x) /\ x # n

LEMMA KTakes ==
  ASSUME KIInv, NEW c \in Threads, NEW t \in Threads, K!Push(c, t)
  PROVE  \E n : /\ k_next' = [k_next EXCEPT ![n] = k_top]
                /\ k_val' = [k_val EXCEPT ![n] = k_op[t].arg] /\ k_top' = n
                /\ KTaken(n)
<1>. USE KConstants
<1>1. PICK n \in 1 .. LinkedNodes :
        /\ IF k_pool[c] # <<>>
             THEN n = Head(k_pool[c]) /\ k_pool' = [k_pool EXCEPT ![c] = Tail(@)]
                  /\ k_used' = k_used
             ELSE n = k_used + 1 /\ k_used' = n /\ k_pool' = k_pool
        /\ k_next' = [k_next EXCEPT ![n] = k_top]
        /\ k_val' = [k_val EXCEPT ![n] = k_op[t].arg] /\ k_top' = n
  BY DEF K!Push, K!Nodes
<1>2. k_used \in Nat /\ k_used <= LinkedNodes /\ ArePools(k_pool)
      /\ \A x : KFree(x) => x \in 1 .. k_used
  BY DEF KIInv, KTypes, KPools
<1>3. CASE k_pool[c] = <<>>
  <2>1. n = k_used + 1 /\ k_used' = n /\ k_pool' = k_pool /\ n \in 1 .. k_used'
    BY <1>1, <1>2, <1>3
  <2>2. \A x : KFree(x)' => KFree(x) /\ x # n
    BY <1>2, <2>1 DEF KFree
  <2>3. KPools'
    BY <1>2, <2>1 DEF KPools, KFree
  <2>4. \A r, m : KStack(r, m) => \A i \in 1 .. m : r[i] # n
    BY <1>2, <2>1 DEF KStack
  <2>5. KTaken(n)
    BY <1>2, <2>1, <2>2, <2>3, <2>4 DEF KTaken
  <2>. QED
    BY <1>1, <2>5
<1>4. CASE k_pool[c] # <<>>
  <2>1. IsTaken(k_pool, c, n, k_pool') /\ k_used' = k_used
    BY <1>1, <1>2, <1>4 DEF IsTaken
  <2>2. ArePools(k_pool') /\ KFree(n) /\ \A x : KFree(x)' => KFree(x) /\ x # n
    BY <2>1, PoolTake DEF KFree
  <2>3. KPools' /\ n \in 1 .. k_used
    BY <1>2, <2>1, <2>2 DEF KPools
  <2>4. \A r, m : KStack(r, m) => \A i \in 1 .. m : r[i] # n
    BY <2>2 DEF KStack
  <2>5. KTaken(n)
    BY <1>2, <2>1, <2>2, <2>3, <2>4 DEF KTaken
  <2>. QED
    BY <1>1, <2>5
<1>. QED
  BY <1>3, <1>4

KPushed(t) ==
  /\ k_op[t].arg \in Values /\ k_op' = [k_op EXCEPT ![t] = K!Done(0)]
  /\ \E r, m, n : /\ KStack(r, m) /\ KStack(OnTop(n, r, m), m + 1)'
                  /\ k_val'[n] = k_op[t].arg /\ \A i \in 1 .. m : k_val'[r[i]] = k_val[r[i]]

LEMMA KPushKeeps ==
  ASSUME KIInv, NEW c \in Threads, NEW t \in Threads, K!Push(c, t)
  PROVE  KIInv' /\ KPushed(t)
<1>. USE KConstants
<1>1. PICK n \in 1 .. LinkedNodes :
        /\ n \in 1 .. k_used' /\ k_used' \in 0 .. LinkedNodes /\ k_used <= k_used'
        /\ k_next' = [k_next EXCEPT ![n] = k_top]
        /\ k_val' = [k_val EXCEPT ![n] = k_op[t].arg] /\ k_top' = n
        /\ \A r, m : KStack(r, m) => \A i \in 1 .. m : r[i] # n
        /\ KPools'
        /\ \A x : KFree(x)' => KFree(x) /\ x # n
  BY KTakes DEF KTaken
<1>2. k_op' = [k_op EXCEPT ![t] = K!Done(0)] /\ k_answer' = k_answer /\ k_op[t].arg # POP_OP
      /\ k_op[t].status = "pending"
  BY DEF K!Push, K!MayServe, K!PUSH_SUCCESS
<1>3. k_op[t].arg \in Values
  <2>1. k_op[t] # K!Idle /\ \A a : k_op[t] # K!Done(a)
    BY <1>2 DEF K!Idle, K!Done
  <2>2. PICK v \in Values \cup {POP_OP} : k_op[t] = K!Pending(v)
    BY <2>1 DEF KIInv, KTypes, KIsOp
  <2>. QED
    BY <1>2, <2>2 DEF K!Pending
<1>4. KTypes'
  <2>1. k_op' = [u \in Threads |-> k_op'[u]] /\ k_answer' = [u \in Threads |-> k_answer'[u]]
        /\ k_op'[t] = K!Done(0) /\ \A u \in Threads : u # t => k_op'[u] = k_op[u]
    BY <1>2 DEF KIInv, KTypes
  <2>3. KIsOp(K!Done(0))
    BY DEF KIsOp
  <2>4. \A u \in Threads : KIsOp(k_op'[u])
    BY <2>1, <2>3 DEF KIInv, KTypes
  <2>2. k_next' = [i \in 1 .. LinkedNodes |-> k_next'[i]]
        /\ k_val' = [i \in 1 .. LinkedNodes |-> k_val'[i]]
    BY <1>1 DEF KIInv, KTypes
  <2>. QED
    BY <1>1, <2>1, <2>2, <2>4 DEF KTypes
<1>5. PICK r, m : KStack(r, m)
  BY DEF KIInv
<1>6. /\ k_next'[n] = k_top /\ k_val'[n] = k_op[t].arg
      /\ \A i \in 1 .. LinkedNodes : i # n => k_next'[i] = k_next[i] /\ k_val'[i] = k_val[i]
  BY <1>1 DEF KIInv, KTypes
<1>13. \A i \in 1 .. k_used : i \in 1 .. LinkedNodes /\ i \in 1 .. k_used'
  BY <1>1 DEF KIInv, KTypes
<1>7. \A i \in 1 .. m : /\ r[i] \in 1 .. LinkedNodes /\ r[i] # n /\ r[i] \in 1 .. k_used'
                        /\ k_next'[r[i]] = k_next[r[i]] /\ k_val'[r[i]] = k_val[r[i]]
  <2>1. \A i \in 1 .. m : r[i] \in 1 .. k_used
    BY <1>5 DEF KStack
  <2>2. \A i \in 1 .. m : r[i] # n
    BY <1>1, <1>5
  <2>. QED
    BY <1>6, <1>13, <2>1, <2>2
<1>. DEFINE q == OnTop(n, r, m)
<1>8. m \in Nat /\ m + 1 \in Nat /\ q[1] = n
      /\ \A i \in 2 .. m + 1 : i - 1 \in 1 .. m /\ q[i] = r[i - 1]
  BY <1>5 DEF KStack, OnTop
<1>9. IsPath(q, 1, m + 1, n, k_next') /\ IsSimple(q, 1, m + 1)
  <2>1. m \in Nat /\ IsPath(r, 1, m, k_top, k_next) /\ IsSimple(r, 1, m)
    BY <1>5 DEF KStack
  <2>4. k_next'[n] = k_top
    BY <1>6
  <2>2. n # NULL
    OBVIOUS
  <2>3. /\ \A i \in 1 .. m : r[i] # n
        /\ \A i \in 1 .. m : k_next'[r[i]] = k_next[r[i]]
    BY <1>7
  <2>5. MayGoOnTop(n, r, m, k_top, k_next, k_next')
    BY <2>1, <2>2, <2>3, <2>4 DEF MayGoOnTop
  <2>. QED
    BY <2>5, OnTopIsPath
<1>. HIDE DEF q
<1>10. \A i \in 1 .. m + 1 : i = 1 \/ i \in 2 .. m + 1
  BY <1>8
<1>11. ASSUME NEW i \in 1 .. m + 1
       PROVE  q[i] \in 1 .. k_used' /\ k_val'[q[i]] \in Values /\ ~KFree(q[i])'
  <2>1. CASE i = 1
    BY <1>1, <1>3, <1>6, <1>8, <2>1
  <2>2. CASE i \in 2 .. m + 1
    <3>1. i - 1 \in 1 .. m /\ q[i] = r[i - 1]
      BY <1>8, <2>2
    <3>2. k_val[r[i - 1]] \in Values /\ ~KFree(r[i - 1])
      BY <1>5, <3>1 DEF KStack
    <3>. QED
      BY <1>1, <1>7, <3>1, <3>2
  <2>. QED
    BY <1>10, <2>1, <2>2
<1>12. KStack(q, m + 1)'
  <2>1. IsPath(q, 1, m + 1, k_top, k_next)'
    BY <1>1, <1>9 DEF IsPath
  <2>. QED
    BY <1>8, <1>9, <1>11, <2>1 DEF KStack, IsSimple
<1>. QED
  <2>1. KIInv'
    BY <1>1, <1>4, <1>12 DEF KIInv
  <2>2. /\ KStack(r, m) /\ KStack(OnTop(n, r, m), m + 1)'
        /\ k_val'[n] = k_op[t].arg /\ \A i \in 1 .. m : k_val'[r[i]] = k_val[r[i]]
    BY <1>5, <1>6, <1>7, <1>12 DEF q
  <2>. QED
    BY <1>2, <1>3, <2>1, <2>2 DEF KPushed

KPopped(t) ==
  \E r, m : /\ m >= 1 /\ k_top = r[1] /\ KStack(r, m) /\ KStack(Below(r, m), m - 1)'
            /\ \A i \in 1 .. m - 1 : k_val'[Below(r, m)[i]] = k_val[Below(r, m)[i]]

(* The node on top goes to the combiner's pool, or is left behind.          *)
KGiven(c) ==
  \/ k_pool' = [k_pool EXCEPT ![c] = <<k_top>> \o @] /\ k_val' = [k_val EXCEPT ![k_top] = NULL]
  \/ k_pool' = k_pool /\ k_val' = k_val

LEMMA KGives ==
  ASSUME KIInv, NEW c \in Threads, KGiven(c), k_top \in 1 .. k_used, ~KFree(k_top),
         k_used' = k_used
  PROVE  KPools' /\ \A x : KFree(x)' => KFree(x) \/ x = k_top
<1>1. ArePools(k_pool) /\ k_used \in Nat /\ \A x : KFree(x) => x \in 1 .. k_used
  BY DEF KIInv, KTypes, KPools
<1>2. ArePools(k_pool') /\ \A x : KFree(x)' => KFree(x) \/ x = k_top
  <2>1. CASE k_pool' = k_pool
    BY <1>1, <2>1 DEF KFree
  <2>2. CASE k_pool' = [k_pool EXCEPT ![c] = <<k_top>> \o @]
    <3>1. IsGiven(k_pool, c, k_top, k_pool')
      BY <1>1, <2>2 DEF IsGiven, KFree
    <3>. QED
      BY <3>1, PoolGive DEF KFree
  <2>. QED
    BY <2>1, <2>2 DEF KGiven
<1>. QED
  BY <1>1, <1>2 DEF KPools

LEMMA KPopKeeps ==
  ASSUME KIInv, NEW c \in Threads, NEW t \in Threads, K!Pop(c, t) \/ KF!Pop(c, t)
  PROVE  KIInv' /\ KPopped(t)
<1>. USE KConstants
<1>1. /\ KGiven(c) /\ k_top # NULL /\ k_top' = k_next[k_top]
      /\ k_op' = [k_op EXCEPT ![t] = K!Done(k_val[k_top])]
      /\ k_next' = k_next /\ k_used' = k_used /\ k_answer' = k_answer
  BY DEF K!Pop, KF!Pop, KGiven, K!Done, KF!Done
<1>2. PICK r, m : KStack(r, m)
  BY DEF KIInv
<1>3. m \in Nat /\ IsPath(r, 1, m, k_top, k_next) /\ IsSimple(r, 1, m)
  BY <1>2 DEF KStack
<1>. DEFINE q == Below(r, m)
<1>4. /\ m >= 1 /\ m - 1 \in Nat /\ k_top = r[1]
      /\ \A i \in 1 .. m - 1 : i + 1 \in 1 .. m /\ q[i] = r[i + 1] /\ q[i] # k_top
      /\ IsPath(q, 1, m - 1, k_next[k_top], k_next) /\ IsSimple(q, 1, m - 1)
  BY <1>1, <1>3, BelowIsPath
<1>. HIDE DEF q
<1>5. k_top \in 1 .. k_used /\ ~KFree(k_top)
  BY <1>2, <1>4 DEF KStack
<1>6. /\ KPools'
      /\ \A x : KFree(x)' => KFree(x) \/ x = k_top
  BY <1>1, <1>5, KGives
<1>7. /\ k_val' = [i \in 1 .. LinkedNodes |-> k_val'[i]]
      /\ \A i \in 1 .. LinkedNodes : i # k_top => k_val'[i] = k_val[i]
  BY <1>1 DEF KGiven, KIInv, KTypes
<1>8. KTypes'
  <2>1. k_op' = [u \in Threads |-> k_op'[u]] /\ k_op'[t] = K!Done(k_val[k_top])
        /\ \A u \in Threads : u # t => k_op'[u] = k_op[u]
    BY <1>1 DEF KIInv, KTypes
  <2>2. KIsOp(K!Done(k_val[k_top]))
    BY DEF KIsOp
  <2>3. \A u \in Threads : KIsOp(k_op'[u])
    BY <2>1, <2>2 DEF KIInv, KTypes
  <2>. QED
    BY <1>1, <1>6, <1>7, <2>1, <2>3 DEF KIInv, KTypes
<1>9. ASSUME NEW i \in 1 .. m - 1
      PROVE  /\ q[i] \in 1 .. k_used' /\ k_val'[q[i]] = k_val[q[i]] /\ k_val'[q[i]] \in Values
             /\ ~KFree(q[i])'
  <2>1. q[i] \in 1 .. k_used /\ k_val[q[i]] \in Values /\ ~KFree(q[i]) /\ q[i] # k_top
    BY <1>2, <1>4 DEF KStack
  <2>2. q[i] \in 1 .. LinkedNodes
    BY <2>1 DEF KIInv, KTypes
  <2>. QED
    BY <1>1, <1>6, <1>7, <2>1, <2>2
<1>10. KStack(q, m - 1)'
  <2>1. IsPath(q, 1, m - 1, k_top, k_next)'
    BY <1>1, <1>4 DEF IsPath
  <2>. QED
    BY <1>4, <1>9, <2>1 DEF KStack, IsSimple
<1>. QED
  <2>1. KIInv'
    BY <1>6, <1>8, <1>10 DEF KIInv
  <2>. QED
    BY <1>2, <1>4, <1>9, <1>10, <2>1 DEF KPopped, q

LEMMA KNext == KIInv /\ (K!Next \/ KF!Next \/ UNCHANGED k_vars) => KIInv'
<1>. SUFFICES ASSUME KIInv, K!Next \/ KF!Next \/ UNCHANGED k_vars PROVE KIInv'
  OBVIOUS
<1>1. CASE UNCHANGED k_vars
  <2>1. KTypes' /\ KPools' /\ \A r, m : KStack(r, m)' <=> KStack(r, m)
    BY <1>1 DEF k_vars, KIInv, KTypes, KPools, KStack, KFree
  <2>. QED
    BY <2>1 DEF KIInv
<1>2. CASE K!Next
  BY <1>2, KCallKeeps, KPushKeeps, KPopKeeps DEF K!Next
<1>3. CASE KF!Next
  <2>1. \A t \in Threads : (KF!Return(t) <=> K!Return(t))
                           /\ \A v : KF!Call(t, v) <=> K!Call(t, v)
    BY DEF KF!Return, K!Return, KF!Call, K!Call, KF!Idle, K!Idle, KF!Pending, K!Pending
  <2>2. \A c, t \in Threads : KF!Push(c, t) <=> K!Push(c, t)
    BY DEF KF!Push, K!Push, KF!MayServe, K!MayServe, KF!Nodes, K!Nodes, KF!Done, K!Done,
           KF!PUSH_SUCCESS, K!PUSH_SUCCESS
  <2>. QED
    BY <1>3, <2>1, <2>2, KCallKeeps, KPushKeeps, KPopKeeps DEF KF!Next
<1>. QED
  BY <1>1, <1>2, <1>3

LEMMA KContentIs ==
  \A r, m : KIInv /\ KStack(r, m) =>
    /\ K!Content = Held(r, m, k_val) /\ KF!Content = Held(r, m, k_val)
    /\ m \in Nat /\ \A i \in 1 .. m : k_val[r[i]] \in Values
<1>. SUFFICES ASSUME KIInv, NEW r, NEW m, KStack(r, m)
              PROVE  /\ K!Content = Held(r, m, k_val) /\ KF!Content = Held(r, m, k_val)
                     /\ m \in Nat /\ \A i \in 1 .. m : k_val[r[i]] \in Values
  OBVIOUS
<1>1. /\ m \in Nat /\ IsPath(r, 1, m, k_top, k_next) /\ IsSimple(r, 1, m)
      /\ \A i \in 1 .. m : r[i] \in 1 .. LinkedNodes /\ k_val[r[i]] \in Values
  BY KConstants DEF KStack, KIInv, KTypes
<1>2. PICK w : IsWalk(w, 1, LinkedNodes + 1, k_top, k_next)
  BY <1>1, KConstants, PathCanBeWalked
<1>3. IsWalk(K!Reached, 1, LinkedNodes + 1, k_top, k_next)
  BY <1>2, Zenon DEF K!Reached, IsWalk
<1>4. IsWalk(KF!Reached, 1, LinkedNodes + 1, k_top, k_next)
  BY <1>2, Zenon DEF KF!Reached, IsWalk
<1>5. /\ \A i \in 1 .. m : K!Reached[i] = r[i] /\ KF!Reached[i] = r[i]
      /\ Cardinality({i \in 1 .. LinkedNodes : K!Reached[i] # NULL}) = m
      /\ Cardinality({i \in 1 .. LinkedNodes : KF!Reached[i] # NULL}) = m
  BY <1>1, <1>3, <1>4, KConstants, WalkCounts
<1>6. K!Content = [i \in 1 .. m |-> k_val[K!Reached[i]]]
  <2>1. K!Cardinality({i \in 1 .. LinkedNodes : K!Reached[i] # NULL}) = m
    BY <1>5 DEF K!Cardinality, Cardinality
  <2>. QED
    BY <2>1 DEF K!Content, K!Nodes
<1>7. KF!Content = [i \in 1 .. m |-> k_val[KF!Reached[i]]]
  <2>1. KF!Cardinality({i \in 1 .. LinkedNodes : KF!Reached[i] # NULL}) = m
    BY <1>5 DEF KF!Cardinality, Cardinality
  <2>. QED
    BY <2>1 DEF KF!Content, KF!Nodes
<1>. QED
  BY <1>1, <1>5, <1>6, <1>7 DEF Held

LEMMA KContentWillBe ==
  (\A r, m : KIInv /\ KStack(r, m) =>
    /\ K!Content = Held(r, m, k_val) /\ KF!Content = Held(r, m, k_val)
    /\ m \in Nat /\ \A i \in 1 .. m : k_val[r[i]] \in Values)'
  BY KContentIs, PTL

LEMMA KStarts == K!Init => K!Lifo!Init /\ KF!Lifo!Init
<1>. SUFFICES ASSUME K!Init PROVE K!Lifo!Init /\ KF!Lifo!Init
  OBVIOUS
<1>1. KStack(<<>>, 0)
  BY DEF K!Init, KStack, IsPath, IsSimple
<1>2. K!Content = Held(<<>>, 0, k_val) /\ KF!Content = Held(<<>>, 0, k_val)
  BY <1>1, KInit, KContentIs
<1>3. Held(<<>>, 0, k_val) \in [1 .. 0 -> Values]
  BY DEF Held
<1>4. Held(<<>>, 0, k_val) = <<>>
  BY <1>3, FunctionIsSeq
<1>. QED
  BY <1>2, <1>4 DEF K!Init, K!Lifo!Init, KF!Lifo!Init, K!Idle, K!Lifo!Idle, KF!Lifo!Idle

LEMMA KContentStays ==
  ASSUME KIInv, KIInv', KSame
  PROVE  K!Content' = K!Content /\ KF!Content' = KF!Content
<1>1. PICK r, m : KStack(r, m) /\ KStack(r, m)' /\ k_val' = k_val
  BY DEF KSame
<1>2. K!Content = Held(r, m, k_val) /\ KF!Content = Held(r, m, k_val)
  BY <1>1, KContentIs
<1>3. K!Content' = Held(r, m, k_val') /\ KF!Content' = Held(r, m, k_val')
  BY <1>1, KContentWillBe DEF Held
<1>. QED
  BY <1>1, <1>2, <1>3

LEMMA KCallRefines ==
  ASSUME KIInv, NEW t \in Threads
  PROVE  /\ K!Return(t) => K!Lifo!Return(t) /\ KF!Lifo!Return(t)
         /\ \A v \in Values \cup {POP_OP} :
              K!Call(t, v) => K!Lifo!Call(t, v) /\ KF!Lifo!Call(t, v)
<1>1. ASSUME K!Return(t) PROVE K!Lifo!Return(t) /\ KF!Lifo!Return(t)
  <2>1. K!Content' = K!Content /\ KF!Content' = KF!Content
    BY <1>1, KCallKeeps, KContentStays
  <2>. QED
    BY <1>1, <2>1 DEF K!Return, K!Lifo!Return, KF!Lifo!Return, K!Idle, K!Lifo!Idle, KF!Lifo!Idle
<1>2. ASSUME NEW v \in Values \cup {POP_OP}, K!Call(t, v)
      PROVE  K!Lifo!Call(t, v) /\ KF!Lifo!Call(t, v)
  <2>1. K!Content' = K!Content /\ KF!Content' = KF!Content
    BY <1>2, KCallKeeps, KContentStays
  <2>. QED
    BY <1>2, <2>1 DEF K!Call, K!Lifo!Call, KF!Lifo!Call, K!Idle, K!Lifo!Idle, KF!Lifo!Idle,
       K!Pending, K!Lifo!Pending, KF!Lifo!Pending
<1>. QED
  BY <1>1, <1>2

LEMMA KPushRefines ==
  ASSUME KIInv, NEW c \in Threads, NEW t \in Threads, K!Push(c, t)
  PROVE  K!Lifo!Apply(t) /\ KF!Lifo!Apply(t)
<1>1. KIInv' /\ KPushed(t)
  BY KPushKeeps
<1>2. PICK r, m, n : /\ KStack(r, m) /\ KStack(OnTop(n, r, m), m + 1)'
                     /\ k_val'[n] = k_op[t].arg /\ \A i \in 1 .. m : k_val'[r[i]] = k_val[r[i]]
  BY <1>1 DEF KPushed
<1>. DEFINE v == k_op[t].arg
<1>3. /\ K!Content = Held(r, m, k_val) /\ KF!Content = Held(r, m, k_val)
      /\ m \in Nat /\ \A i \in 1 .. m : k_val[r[i]] \in Values
  BY <1>2, KContentIs
<1>4. /\ K!Content' = Held(OnTop(n, r, m), m + 1, k_val')
      /\ KF!Content' = Held(OnTop(n, r, m), m + 1, k_val')
  BY <1>1, <1>2, KContentWillBe DEF Held
<1>5. Held(r, m, k_val') = Held(r, m, k_val)
  BY <1>2 DEF Held
<1>6. Held(OnTop(n, r, m), m + 1, k_val') = <<k_val'[n]>> \o Held(r, m, k_val')
  <2>1. k_val'[n] \in Values /\ \A i \in 1 .. m : k_val'[r[i]] \in Values
    BY <1>1, <1>2, <1>3 DEF KPushed
  <2>. QED
    BY ONLY <1>3, <2>1, HeldOnTop
<1>7. K!Content' = <<v>> \o K!Content /\ KF!Content' = <<v>> \o KF!Content
  BY <1>2, <1>3, <1>4, <1>5, <1>6
<1>8. /\ v # POP_OP /\ k_op[t].status = "pending" /\ k_answer' = k_answer
      /\ k_op' = [k_op EXCEPT ![t] = K!Done(0)]
  BY <1>1 DEF K!Push, K!MayServe, KPushed
<1>. HIDE DEF v
<1>9. K!Lifo!Apply(t)
  BY <1>7, <1>8 DEF K!Lifo!Apply, K!StackState, K!StackResult, K!PUSH_SUCCESS, K!Done,
     K!Lifo!Done, v
<1>10. KF!Lifo!Apply(t)
  BY <1>7, <1>8 DEF KF!Lifo!Apply, KF!StackState, KF!StackResult, KF!PUSH_SUCCESS, K!Done,
     KF!Lifo!Done, v
<1>. QED
  BY <1>9, <1>10

LEMMA KPopRefines ==
  ASSUME KIInv, NEW c \in Threads, NEW t \in Threads
  PROVE  /\ K!Pop(c, t) \/ K!PopEmpty(c, t) => K!Lifo!Apply(t)
         /\ KF!Pop(c, t) \/ KF!PopEmpty(c, t) => KF!Lifo!Apply(t)
<1>1. ASSUME K!Pop(c, t) \/ KF!Pop(c, t)
      PROVE  /\ K!Content # <<>> /\ K!Content' = Tail(K!Content)
             /\ KF!Content # <<>> /\ KF!Content' = Tail(KF!Content)
             /\ k_val[k_top] = Head(K!Content) /\ k_val[k_top] = Head(KF!Content)
  <2>1. KIInv' /\ KPopped(t)
    BY <1>1, KPopKeeps
  <2>2. PICK r, m : /\ m >= 1 /\ k_top = r[1] /\ KStack(r, m) /\ KStack(Below(r, m), m - 1)'
                    /\ \A i \in 1 .. m - 1 : k_val'[Below(r, m)[i]] = k_val[Below(r, m)[i]]
    BY <2>1 DEF KPopped
  <2>3. /\ K!Content = Held(r, m, k_val) /\ KF!Content = Held(r, m, k_val)
        /\ m \in Nat /\ \A i \in 1 .. m : k_val[r[i]] \in Values
    BY <2>2, KContentIs
  <2>4. /\ K!Content' = Held(Below(r, m), m - 1, k_val')
        /\ KF!Content' = Held(Below(r, m), m - 1, k_val')
    BY <2>1, <2>2, KContentWillBe DEF Held
  <2>5. Held(Below(r, m), m - 1, k_val') = Held(Below(r, m), m - 1, k_val)
    BY <2>2 DEF Held
  <2>6. /\ Held(r, m, k_val) # <<>> /\ Head(Held(r, m, k_val)) = k_val[r[1]]
        /\ Tail(Held(r, m, k_val)) = Held(Below(r, m), m - 1, k_val)
    BY ONLY <2>2, <2>3, HeldBelow
  <2>. QED
    BY <2>2, <2>3, <2>4, <2>5, <2>6
<1>2. ASSUME K!PopEmpty(c, t) \/ KF!PopEmpty(c, t)
      PROVE  /\ K!Content = <<>> /\ K!Content' = K!Content
             /\ KF!Content = <<>> /\ KF!Content' = KF!Content
  <2>1. KIInv' /\ KSame /\ k_top = NULL
    BY <1>2, KCallKeeps DEF K!PopEmpty, KF!PopEmpty
  <2>2. PICK r, m : KStack(r, m)
    BY DEF KIInv
  <2>3. m \in Nat /\ m = 0
    <3>1. m \in Nat /\ (m > 0 => 1 \in 1 .. m)
      BY <2>2 DEF KStack
    <3>. QED
      BY <2>1, <2>2, <3>1 DEF KStack, IsPath
  <2>4. Held(r, 0, k_val) \in [1 .. 0 -> Values]
    BY DEF Held
  <2>5. Held(r, 0, k_val) = <<>>
    BY <2>4, FunctionIsSeq
  <2>. QED
    BY <2>1, <2>2, <2>3, <2>5, KContentIs, KContentStays
<1>3. ASSUME K!Pop(c, t) \/ K!PopEmpty(c, t) PROVE K!Lifo!Apply(t)
  <2>. USE <1>1, <1>2, <1>3 DEF K!Pop, K!PopEmpty, K!MayServe, K!Done, K!Lifo!Done,
           K!StackState, K!StackResult
  <2>1. K!Content' = K!StackState(K!Content, k_op[t].arg, t)
    OBVIOUS
  <2>2. k_op' = [k_op EXCEPT ![t] = K!Lifo!Done(K!StackResult(K!Content, k_op[t].arg, t))]
    OBVIOUS
  <2>3. k_op[t].status = "pending" /\ k_answer' = k_answer
    OBVIOUS
  <2>. QED
    BY ONLY <2>1, <2>2, <2>3 DEF K!Lifo!Apply
<1>4. ASSUME KF!Pop(c, t) \/ KF!PopEmpty(c, t) PROVE KF!Lifo!Apply(t)
  <2>. USE <1>1, <1>2, <1>4 DEF KF!Pop, KF!PopEmpty, KF!MayServe, KF!Done, KF!Lifo!Done,
           KF!StackState, KF!StackResult
  <2>1. KF!Content' = KF!StackState(KF!Content, k_op[t].arg, t)
    OBVIOUS
  <2>2. k_op' = [k_op EXCEPT ![t] = KF!Lifo!Done(KF!StackResult(KF!Content, k_op[t].arg, t))]
    OBVIOUS
  <2>3. k_op[t].status = "pending" /\ k_answer' = k_answer
    OBVIOUS
  <2>. QED
    BY ONLY <2>1, <2>2, <2>3 DEF KF!Lifo!Apply
<1>. QED
  BY <1>3, <1>4

-----------------------------------------------------------------------------
(*                         The lock-free stack                             *)

(* Nodes are pushed once: a node is private to its thread until the CAS of  *)
(* the push, and nothing is written to it thereafter.                       *)
STypes ==
  /\ s_used \in 0 .. LFNodes
  /\ s_next = [m \in 1 .. LFNodes |-> s_next[m]]
  /\ s_val = [m \in 1 .. LFNodes |-> s_val[m]]
  /\ s_pc = [t \in Threads |-> s_pc[t]] /\ s_n = [t \in Threads |-> s_n[t]]
  /\ s_old_top = [t \in Threads |-> s_old_top[t]]
  /\ s_old_next = [t \in Threads |-> s_old_next[t]]
  /\ s_answer = [t \in Threads |-> s_answer[t]]
  /\ \A m \in 1 .. s_used : s_val[m] \in Values
  /\ \A t \in Threads : s_pc[t] \in {"pushRead", "pushCAS", "pushed"} => s_answer[t] = NULL

SPrivate(m) == \E t \in Threads : s_n[t] = m

SPushing ==
  /\ \A t \in Threads : IF s_pc[t] \in {"pushRead", "pushCAS"} THEN s_n[t] \in 1 .. s_used
                                                               ELSE s_n[t] = NULL
  /\ \A t, u \in Threads : s_n[t] = s_n[u] /\ s_n[t] # NULL => t = u
  /\ \A t \in Threads : s_pc[t] = "pushCAS" => s_next[s_n[t]] = s_old_top[t]

(* What a pop has read still holds, on the stack or not.                    *)
SPopping ==
  \A t \in Threads :
    /\ s_pc[t] \in {"out", "pushRead", "pushCAS", "pushed", "popRead", "popNext", "popCAS",
                    "popped"}
    /\ s_pc[t] \in {"popNext", "popCAS"} => s_old_top[t] # NULL
    /\ s_pc[t] \in {"popNext", "popCAS", "popped"} /\ s_old_top[t] # NULL =>
         s_old_top[t] \in 1 .. s_used /\ ~SPrivate(s_old_top[t])
    /\ s_pc[t] = "popCAS" => s_old_next[t] = s_next[s_old_top[t]]

(* The stack is r[1], ... r[m].                                             *)
SStack(r, m) ==
  /\ m \in Nat
  /\ IsPath(r, 1, m, s_top, s_next) /\ IsSimple(r, 1, m)
  /\ \A i \in 1 .. m : r[i] \in 1 .. s_used /\ ~SPrivate(r[i])

SIInv == STypes /\ SPushing /\ SPopping /\ \E r, m : SStack(r, m)

(* What a step does to the stack. *)
SSame == \E r, m : SStack(r, m) /\ SStack(r, m)'
SPushed(k) ==
  \E r, m : SStack(r, m) /\ SStack(OnTop(k, r, m), m + 1)'
SPopped ==
  \E r, m : m >= 1 /\ s_top = r[1] /\ SStack(r, m) /\ SStack(Below(r, m), m - 1)'

LEMMA SConstants == LFNodes \in Nat /\ NULL \notin Values /\ NULL \notin 1 .. LFNodes
  BY StructuresAssumption DEF S!ConstantsAssumption

LEMMA SInit == S!Init => SIInv
<1>. SUFFICES ASSUME S!Init PROVE SIInv
  OBVIOUS
<1>1. STypes /\ SPushing /\ SPopping
  BY SConstants DEF S!Init, S!Nodes, STypes, SPushing, SPopping
<1>2. SStack(<<>>, 0)
  BY DEF S!Init, SStack, IsPath, IsSimple
<1>. QED
  BY <1>1, <1>2 DEF SIInv

(* The stack is not touched by what happens to private nodes. *)
LEMMA SStackStays ==
  ASSUME NEW r, NEW m, SStack(r, m), s_used \in Int, s_used' \in Int, s_used <= s_used',
         s_top' = s_top,
         \A i \in 1 .. m : s_next'[r[i]] = s_next[r[i]],
         \A i \in 1 .. m : ~SPrivate(r[i])'
  PROVE  SStack(r, m)'
<1>1. IsPath(r, 1, m, s_top, s_next)'
  BY DEF SStack, IsPath
<1>2. \A i \in 1 .. m : r[i] \in 1 .. s_used'
  BY DEF SStack
<1>. QED
  BY <1>1, <1>2 DEF SStack, IsSimple

LEMMA SPushKeeps ==
  ASSUME SIInv, NEW t \in Threads, NEW v \in Values, S!Push(t, v)
  PROVE  SIInv' /\ SSame
<1>. USE SConstants DEF S!Push, S!Goto, S!Nodes
<1>1. PICK r, m : SStack(r, m)
  BY DEF SIInv
<1>2. s_used \in Nat /\ s_used' = s_used + 1 /\ s_used' \in 1 .. LFNodes
  BY DEF SIInv, STypes
<1>3. /\ s_pc'[t] = "pushRead" /\ s_pc[t] = "out" /\ s_n'[t] = s_used + 1
      /\ \A u \in Threads : u # t => s_pc'[u] = s_pc[u] /\ s_n'[u] = s_n[u]
      /\ s_next' = s_next /\ s_old_top' = s_old_top /\ s_old_next' = s_old_next
      /\ s_top' = s_top
  BY <1>2 DEF SIInv, STypes
<1>4. STypes'
  <2>1. s_val'[s_used + 1] = v /\ \A i \in 1 .. s_used : s_val'[i] = s_val[i]
    BY <1>2 DEF SIInv, STypes
  <2>2. \A i \in 1 .. s_used : s_val[i] \in Values
    BY DEF SIInv, STypes
  <2>3. \A i \in 1 .. s_used' : i = s_used + 1 \/ i \in 1 .. s_used
    BY <1>2
  <2>4. \A i \in 1 .. s_used' : s_val'[i] \in Values
    BY <2>1, <2>2, <2>3
  <2>5. s_val' = [i \in 1 .. LFNodes |-> s_val'[i]]
    BY DEF SIInv, STypes
  <2>6. s_answer' = [u \in Threads |-> s_answer'[u]] /\ s_pc' = [u \in Threads |-> s_pc'[u]]
        /\ s_n' = [u \in Threads |-> s_n'[u]]
    BY DEF SIInv, STypes
  <2>. QED
    BY <1>2, <1>3, <2>4, <2>5, <2>6 DEF SIInv, STypes
<1>5. \A u \in Threads : s_n[u] # NULL => s_n[u] \in 1 .. s_used
  BY DEF SIInv, SPushing
<1>6. SPushing'
  BY <1>2, <1>3, <1>5 DEF SIInv, SPushing
<1>7. \A i \in 1 .. s_used : ~SPrivate(i) => ~SPrivate(i)'
  BY <1>2, <1>3 DEF SPrivate
<1>8. SPopping'
  <2>. SUFFICES ASSUME NEW u \in Threads
                PROVE  SPopping!(u)'
    BY DEF SPopping
  <2>1. u # t => s_pc'[u] = s_pc[u]
    BY <1>3
  <2>. QED
    BY <1>2, <1>3, <1>7, <2>1 DEF SIInv, SPopping
<1>9. SStack(r, m)'
  <2>1. \A i \in 1 .. m : ~SPrivate(r[i])'
    BY <1>1, <1>7 DEF SStack
  <2>. QED
    BY <1>1, <1>2, <1>3, <2>1, SStackStays
<1>. QED
  BY <1>1, <1>4, <1>6, <1>8, <1>9 DEF SIInv, SSame

LEMMA SPushReadKeeps ==
  ASSUME SIInv, NEW t \in Threads, S!PushRead(t)
  PROVE  SIInv' /\ SSame
<1>. USE SConstants DEF S!PushRead, S!Goto, S!Nodes
<1>1. PICK r, m : SStack(r, m)
  BY DEF SIInv
<1>2. s_used \in Nat /\ s_used' = s_used /\ s_used <= LFNodes
  BY DEF SIInv, STypes
<1>3. /\ s_pc'[t] = "pushCAS" /\ s_pc[t] = "pushRead" /\ s_n' = s_n /\ s_old_top'[t] = s_top
      /\ \A u \in Threads : u # t => s_pc'[u] = s_pc[u] /\ s_old_top'[u] = s_old_top[u]
      /\ s_old_next' = s_old_next /\ s_top' = s_top
  BY DEF SIInv, STypes
<1>4. s_n[t] \in 1 .. s_used /\ s_n[t] \in 1 .. LFNodes /\ s_n[t] # NULL
  BY <1>2, <1>3 DEF SIInv, SPushing
<1>5. s_next'[s_n[t]] = s_top /\ \A i \in 1 .. LFNodes : i # s_n[t] => s_next'[i] = s_next[i]
  BY <1>4 DEF SIInv, STypes
<1>6. STypes'
  BY DEF SIInv, STypes
<1>7. SPushing'
  <2>1. \A u \in Threads : s_pc'[u] = "pushCAS" => s_next'[s_n'[u]] = s_old_top'[u]
    <3>. SUFFICES ASSUME NEW u \in Threads, s_pc'[u] = "pushCAS", u # t
                  PROVE  s_next'[s_n[u]] = s_old_top'[u]
      BY <1>3, <1>5
    <3>1. s_pc[u] = "pushCAS" /\ s_old_top'[u] = s_old_top[u]
      BY <1>3
    <3>2. s_n[u] \in 1 .. s_used /\ s_n[u] # NULL
      BY <1>2, <3>1 DEF SIInv, SPushing
    <3>3. s_n[u] # s_n[t]
      BY <3>2 DEF SIInv, SPushing
    <3>. QED
      BY <1>2, <1>5, <3>1, <3>2, <3>3 DEF SIInv, SPushing
  <2>. QED
    BY <1>2, <1>3, <2>1 DEF SIInv, SPushing
<1>8. \A i : SPrivate(i)' <=> SPrivate(i)
  BY <1>3 DEF SPrivate
<1>9. SPopping'
  <2>. SUFFICES ASSUME NEW u \in Threads
                PROVE  SPopping!(u)'
    BY DEF SPopping
  <2>1. CASE u = t
    BY <1>3, <2>1
  <2>2. CASE u # t
    <3>1. s_pc'[u] = s_pc[u] /\ s_old_top'[u] = s_old_top[u] /\ s_old_next'[u] = s_old_next[u]
      BY <1>3, <2>2
    <3>2. s_pc[u] = "popCAS" => s_old_top[u] \in 1 .. LFNodes /\ s_old_top[u] # s_n[t]
      BY <1>2 DEF SIInv, SPopping, SPrivate
    <3>3. s_pc[u] = "popCAS" => s_next'[s_old_top[u]] = s_next[s_old_top[u]]
      BY <1>5, <3>2
    <3>. QED
      BY <1>2, <1>8, <3>1, <3>3 DEF SIInv, SPopping
  <2>. QED
    BY <2>1, <2>2
<1>10. SStack(r, m)'
  <2>1. \A i \in 1 .. m : r[i] # s_n[t] /\ r[i] \in 1 .. LFNodes
    BY <1>1, <1>2 DEF SStack, SPrivate
  <2>2. \A i \in 1 .. m : ~SPrivate(r[i])'
    BY <1>1, <1>8 DEF SStack
  <2>3. \A i \in 1 .. m : s_next'[r[i]] = s_next[r[i]]
    BY <1>5, <2>1
  <2>. QED
    BY <1>1, <1>2, <1>3, <2>2, <2>3, SStackStays
<1>. QED
  BY <1>1, <1>6, <1>7, <1>9, <1>10 DEF SIInv, SSame

LEMMA SPushCASKeeps ==
  ASSUME SIInv, NEW t \in Threads, S!PushCAS(t)
  PROVE  /\ SIInv'
         /\ IF s_top = s_old_top[t] THEN \E k : k = s_n[t] /\ SPushed(k) ELSE SSame
<1>. USE SConstants DEF S!PushCAS, S!Goto, S!Nodes
<1>1. PICK r, m : SStack(r, m)
  BY DEF SIInv
<1>2. s_used \in Nat /\ s_used' = s_used /\ s_used <= LFNodes
  BY DEF SIInv, STypes
<1>3. /\ s_pc[t] = "pushCAS" /\ s_old_top'[t] = NULL
      /\ \A u \in Threads : u # t => /\ s_pc'[u] = s_pc[u] /\ s_old_top'[u] = s_old_top[u]
                                     /\ s_n'[u] = s_n[u]
      /\ s_old_next' = s_old_next /\ s_next' = s_next
  BY DEF SIInv, STypes
<1>4. PICK k \in 1 .. s_used : k = s_n[t] /\ k # NULL
  BY <1>2, <1>3 DEF SIInv, SPushing
<1>5. CASE s_top # s_old_top[t]
  <2>1. s_top' = s_top /\ s_pc'[t] = "pushRead" /\ s_n' = s_n
    BY <1>5 DEF SIInv, STypes
  <2>. STypes'
    BY <1>2, <1>3, <2>1 DEF SIInv, STypes
  <2>2. SPushing'
    BY <1>2, <1>3, <2>1 DEF SIInv, SPushing
  <2>3. \A i : SPrivate(i)' <=> SPrivate(i)
    BY <2>1 DEF SPrivate
  <2>4. SPopping'
    BY <1>2, <1>3, <2>1, <2>3 DEF SIInv, SPopping
  <2>5. SStack(r, m)'
    <3>1. \A i \in 1 .. m : ~SPrivate(r[i])'
      BY <1>1, <2>3 DEF SStack
    <3>. QED
      BY <1>1, <1>2, <1>3, <2>1, <3>1, SStackStays
  <2>. QED
    BY <1>1, <1>5, <2>2, <2>4, <2>5 DEF SIInv, SSame
<1>6. CASE s_top = s_old_top[t]
  <2>1. s_top' = k /\ s_pc'[t] = "pushed" /\ s_n'[t] = NULL
    BY <1>4, <1>6 DEF SIInv, STypes
  <2>. STypes'
    BY <1>2, <1>3, <2>1 DEF SIInv, STypes
  <2>2. SPushing'
    BY <1>2, <1>3, <2>1 DEF SIInv, SPushing
  <2>3. \A i \in 1 .. s_used : SPrivate(i)' => SPrivate(i)
    BY <1>2, <1>3, <2>1 DEF SPrivate
  <2>4. ~SPrivate(k)'
    <3>. SUFFICES ASSUME NEW u \in Threads, s_n'[u] = k
                  PROVE  FALSE
      BY DEF SPrivate
    <3>. QED
      BY <1>3, <1>4, <2>1 DEF SIInv, SPushing
  <2>5. SPopping'
    BY <1>2, <1>3, <2>1, <2>3 DEF SIInv, SPopping
  <2>. DEFINE q == OnTop(k, r, m)
  <2>6. m \in Nat /\ m + 1 \in Nat /\ q[1] = k
        /\ \A i \in 2 .. m + 1 : i - 1 \in 1 .. m /\ q[i] = r[i - 1]
    BY <1>1 DEF SStack, OnTop
  <2>7. \A i \in 1 .. m : r[i] # k
    BY <1>1, <1>4 DEF SStack, SPrivate
  <2>8. \A i \in 1 .. m + 1 : i = 1 \/ i \in 2 .. m + 1
    BY <2>6
  <2>9. \A i \in 1 .. m + 1 : q[i] \in 1 .. s_used /\ ~SPrivate(q[i])'
    BY <1>1, <1>4, <2>3, <2>4, <2>6, <2>8 DEF SStack
  <2>10. s_next[k] = s_top
    BY <1>3, <1>4, <1>6 DEF SIInv, SPushing
  <2>11. MayGoOnTop(k, r, m, s_top, s_next, s_next)
    BY <1>1, <1>4, <2>7, <2>10 DEF MayGoOnTop, SStack
  <2>12. IsPath(q, 1, m + 1, k, s_next) /\ IsSimple(q, 1, m + 1)
    BY <2>11, OnTopIsPath
  <2>13. SStack(q, m + 1)'
    <3>. HIDE DEF q
    <3>. QED
      BY <1>2, <1>3, <2>1, <2>6, <2>9, <2>12 DEF SStack, IsPath, IsSimple
  <2>. QED
    BY <1>1, <1>4, <1>6, <2>2, <2>5, <2>13 DEF SIInv, SPushed
<1>. QED
  BY <1>5, <1>6

LEMMA SPopReadKeeps ==
  ASSUME SIInv, NEW t \in Threads, S!Pop(t) \/ S!PopRead(t)
  PROVE  SIInv' /\ SSame
<1>. USE SConstants DEF S!Pop, S!PopRead, S!Goto, S!Nodes
<1>1. PICK r, m : SStack(r, m)
  BY DEF SIInv
<1>2. s_used \in Nat /\ s_used' = s_used /\ s_used <= LFNodes
  BY DEF SIInv, STypes
<1>3. /\ s_top' = s_top /\ s_next' = s_next /\ s_n' = s_n /\ s_old_next' = s_old_next
      /\ \A u \in Threads : u # t => s_pc'[u] = s_pc[u] /\ s_old_top'[u] = s_old_top[u]
      /\ s_pc[t] \notin {"pushRead", "pushCAS"}
  BY DEF SIInv, STypes
<1>4. \/ s_pc'[t] = "popRead"
      \/ s_pc'[t] = "popped" /\ s_old_top'[t] = NULL
      \/ s_pc'[t] = "popNext" /\ s_old_top'[t] = s_top /\ s_top # NULL
  BY DEF SIInv, STypes
<1>5. STypes'
  BY DEF SIInv, STypes
<1>6. SPushing'
  BY <1>2, <1>3, <1>4 DEF SIInv, SPushing
<1>7. \A i : SPrivate(i)' <=> SPrivate(i)
  BY <1>3 DEF SPrivate
<1>8. s_top # NULL => s_top \in 1 .. s_used /\ ~SPrivate(s_top)
  <2>1. s_top # NULL => m >= 1 /\ s_top = r[1]
    BY <1>1 DEF SStack, IsPath
  <2>. QED
    BY <1>1, <2>1 DEF SStack
<1>9. SPopping'
  <2>. SUFFICES ASSUME NEW u \in Threads
                PROVE  SPopping!(u)'
    BY DEF SPopping
  <2>1. PICK k : k = s_old_top'[u]
    OBVIOUS
  <2>2. CASE u = t
    BY <1>2, <1>4, <1>7, <1>8, <2>1, <2>2
  <2>3. CASE u # t
    BY <1>2, <1>3, <1>7, <2>1, <2>3 DEF SIInv, SPopping
  <2>. QED
    BY <2>2, <2>3
<1>10. SStack(r, m)'
  <2>1. \A i \in 1 .. m : ~SPrivate(r[i])'
    BY <1>1, <1>7 DEF SStack
  <2>. QED
    BY <1>1, <1>2, <1>3, <2>1, SStackStays
<1>. QED
  BY <1>1, <1>5, <1>6, <1>9, <1>10 DEF SIInv, SSame

LEMMA SPopNextKeeps ==
  ASSUME SIInv, NEW t \in Threads, S!PopNext(t) \/ S!ReturnPush(t) \/ S!ReturnPop(t)
  PROVE  SIInv' /\ SSame
<1>. USE SConstants DEF S!PopNext, S!ReturnPush, S!ReturnPop, S!Goto, S!Nodes
<1>1. PICK r, m : SStack(r, m)
  BY DEF SIInv
<1>2. s_used \in Nat /\ s_used' = s_used /\ s_used <= LFNodes
  BY DEF SIInv, STypes
<1>3. /\ s_top' = s_top /\ s_next' = s_next /\ s_n' = s_n
      /\ \A u \in Threads : u # t => /\ s_pc'[u] = s_pc[u] /\ s_old_top'[u] = s_old_top[u]
                                     /\ s_old_next'[u] = s_old_next[u]
      /\ s_pc[t] \notin {"pushRead", "pushCAS"}
  BY DEF SIInv, STypes
<1>4. \/ s_pc'[t] = "out"
      \/ /\ s_pc'[t] = "popCAS" /\ s_pc[t] = "popNext" /\ s_old_top'[t] = s_old_top[t]
         /\ s_old_next'[t] = s_next[s_old_top[t]]
  BY DEF SIInv, STypes
<1>5. STypes'
  BY DEF SIInv, STypes
<1>6. SPushing'
  BY <1>2, <1>3, <1>4 DEF SIInv, SPushing
<1>7. \A i : SPrivate(i)' <=> SPrivate(i)
  BY <1>3 DEF SPrivate
<1>9. SPopping'
  <2>. SUFFICES ASSUME NEW u \in Threads
                PROVE  SPopping!(u)'
    BY DEF SPopping
  <2>1. PICK k : k = s_old_top'[u]
    OBVIOUS
  <2>2. CASE u = t
    BY <1>2, <1>3, <1>4, <1>7, <2>1, <2>2 DEF SIInv, SPopping
  <2>3. CASE u # t
    BY <1>2, <1>3, <1>7, <2>1, <2>3 DEF SIInv, SPopping
  <2>. QED
    BY <2>2, <2>3
<1>10. SStack(r, m)'
  <2>1. \A i \in 1 .. m : ~SPrivate(r[i])'
    BY <1>1, <1>7 DEF SStack
  <2>. QED
    BY <1>1, <1>2, <1>3, <2>1, SStackStays
<1>. QED
  BY <1>1, <1>5, <1>6, <1>9, <1>10 DEF SIInv, SSame

LEMMA SPopCASKeeps ==
  ASSUME SIInv, NEW t \in Threads, S!PopCAS(t)
  PROVE  SIInv' /\ IF s_top = s_old_top[t] THEN SPopped ELSE SSame
<1>. USE SConstants DEF S!PopCAS, S!Goto, S!Nodes
<1>1. PICK r, m : SStack(r, m)
  BY DEF SIInv
<1>2. s_used \in Nat /\ s_used' = s_used /\ s_used <= LFNodes
  BY DEF SIInv, STypes
<1>3. /\ s_next' = s_next /\ s_n' = s_n /\ s_pc[t] = "popCAS"
      /\ \A u \in Threads : u # t => /\ s_pc'[u] = s_pc[u] /\ s_old_top'[u] = s_old_top[u]
                                     /\ s_old_next'[u] = s_old_next[u]
  BY DEF SIInv, STypes
<1>4. \/ s_pc'[t] = "popRead" /\ s_top' = s_top /\ s_top # s_old_top[t]
      \/ /\ s_pc'[t] = "popped" /\ s_old_top'[t] = s_old_top[t]
         /\ s_top = s_old_top[t] /\ s_top' = s_old_next[t]
  BY DEF SIInv, STypes
<1>5. STypes'
  BY DEF SIInv, STypes
<1>6. SPushing'
  BY <1>2, <1>3, <1>4 DEF SIInv, SPushing
<1>7. \A i : SPrivate(i)' <=> SPrivate(i)
  BY <1>3 DEF SPrivate
<1>8. SPopping'
  <2>. SUFFICES ASSUME NEW u \in Threads
                PROVE  SPopping!(u)'
    BY DEF SPopping
  <2>1. PICK k : k = s_old_top'[u]
    OBVIOUS
  <2>2. CASE u = t
    BY <1>2, <1>3, <1>4, <1>7, <2>1, <2>2 DEF SIInv, SPopping
  <2>3. CASE u # t
    BY <1>2, <1>3, <1>7, <2>1, <2>3 DEF SIInv, SPopping
  <2>. QED
    BY <2>2, <2>3
<1>9. CASE s_top # s_old_top[t]
  <2>1. \A i \in 1 .. m : ~SPrivate(r[i])'
    BY <1>1, <1>7 DEF SStack
  <2>2. SStack(r, m)'
    BY <1>1, <1>2, <1>3, <1>4, <1>9, <2>1, SStackStays
  <2>. QED
    BY <1>1, <1>5, <1>6, <1>8, <1>9, <2>2 DEF SIInv, SSame
<1>10. CASE s_top = s_old_top[t]
  <2>1. s_top # NULL /\ s_top' = s_next[s_top]
    BY <1>3, <1>4, <1>10 DEF SIInv, SPopping
  <2>. DEFINE q == Below(r, m)
  <2>2. m \in Nat /\ IsPath(r, 1, m, s_top, s_next) /\ IsSimple(r, 1, m)
    BY <1>1 DEF SStack
  <2>3. /\ m >= 1 /\ m - 1 \in Nat /\ s_top = r[1]
        /\ \A i \in 1 .. m - 1 : i + 1 \in 1 .. m /\ q[i] = r[i + 1]
        /\ IsPath(q, 1, m - 1, s_top', s_next) /\ IsSimple(q, 1, m - 1)
    BY <2>1, <2>2, BelowIsPath
  <2>. HIDE DEF q
  <2>4. \A i \in 1 .. m - 1 : q[i] \in 1 .. s_used /\ ~SPrivate(q[i])'
    BY <1>1, <1>7, <2>3 DEF SStack
  <2>7. SStack(q, m - 1)'
    BY <1>2, <1>3, <2>3, <2>4 DEF SStack, IsPath, IsSimple
  <2>. QED
    BY <1>1, <1>5, <1>6, <1>8, <1>10, <2>3, <2>7 DEF SIInv, SPopped, q
<1>. QED
  BY <1>9, <1>10

LEMMA SNext == SIInv /\ [S!Next]_(S!vars) => SIInv'
<1>. SUFFICES ASSUME SIInv, [S!Next]_(S!vars) PROVE SIInv'
  OBVIOUS
<1>1. CASE UNCHANGED S!vars
  <2>1. STypes' /\ SPushing' /\ SPopping' /\ \A r, m : SStack(r, m)' <=> SStack(r, m)
    BY <1>1 DEF S!vars, SIInv, STypes, SPushing, SPopping, SPrivate, SStack
  <2>. QED
    BY <2>1 DEF SIInv
<1>2. CASE S!Next
  BY <1>2, SPushKeeps, SPushReadKeeps, SPushCASKeeps, SPopReadKeeps, SPopNextKeeps,
     SPopCASKeeps DEF S!Next, S!Step
<1>. QED
  BY <1>1, <1>2

LEMMA SContentIs ==
  \A r, m : SIInv /\ SStack(r, m) =>
    /\ S!Content = Held(r, m, s_val)
    /\ m \in Nat /\ \A i \in 1 .. m : s_val[r[i]] \in Values
<1>. SUFFICES ASSUME SIInv, NEW r, NEW m, SStack(r, m)
              PROVE  /\ S!Content = Held(r, m, s_val)
                     /\ m \in Nat /\ \A i \in 1 .. m : s_val[r[i]] \in Values
  OBVIOUS
<1>1. /\ m \in Nat /\ IsPath(r, 1, m, s_top, s_next) /\ IsSimple(r, 1, m)
      /\ \A i \in 1 .. m : r[i] \in 1 .. LFNodes /\ s_val[r[i]] \in Values
  <2>1. \A k \in 1 .. s_used : k \in 1 .. LFNodes /\ s_val[k] \in Values
    <3>1. s_used \in 0 .. LFNodes /\ LFNodes \in Nat /\ \A k \in 1 .. s_used : s_val[k] \in Values
      BY SConstants DEF SIInv, STypes
    <3>. QED
      BY ONLY <3>1
  <2>. QED
    BY <2>1 DEF SStack
<1>2. PICK w : IsWalk(w, 1, LFNodes + 1, s_top, s_next)
  BY <1>1, SConstants, PathCanBeWalked
<1>3. IsWalk(S!Reached, 1, LFNodes + 1, s_top, s_next)
  BY <1>2, Zenon DEF S!Reached, IsWalk
<1>4. /\ \A i \in 1 .. m : S!Reached[i] = r[i]
      /\ Cardinality({i \in 1 .. LFNodes : S!Reached[i] # NULL}) = m
  BY <1>1, <1>3, SConstants, WalkCounts
<1>5. S!Cardinality({i \in 1 .. LFNodes : S!Reached[i] # NULL}) = m
  BY <1>4 DEF S!Cardinality, Cardinality
<1>6. S!Content = [i \in 1 .. m |-> s_val[S!Reached[i]]]
  BY <1>5 DEF S!Content, S!Nodes
<1>. QED
  BY <1>1, <1>4, <1>6 DEF Held

LEMMA SContentWillBe ==
  (\A r, m : SIInv /\ SStack(r, m) =>
    /\ S!Content = Held(r, m, s_val)
    /\ m \in Nat /\ \A i \in 1 .. m : s_val[r[i]] \in Values)'
  BY SContentIs, PTL

LEMMA SContentStays ==
  ASSUME SIInv, SIInv', NEW r, NEW m, SStack(r, m), SStack(r, m)',
         \A i \in 1 .. s_used : s_val'[i] = s_val[i]
  PROVE  S!Content' = S!Content
<1>1. S!Content = Held(r, m, s_val)
  BY SContentIs
<1>2. S!Content' = [i \in 1 .. m |-> s_val'[r[i]]]
  BY SContentWillBe DEF Held
<1>3. \A i \in 1 .. m : s_val'[r[i]] = s_val[r[i]]
  BY DEF SStack
<1>. QED
  BY <1>1, <1>2, <1>3 DEF Held

s_op == [t \in Threads |-> S!Served(t)]

LEMMA SServedStays ==
  ASSUME SIInv, NEW u \in Threads, s_pc'[u] = s_pc[u], s_n'[u] = s_n[u],
         s_old_top'[u] = s_old_top[u], \A i \in 1 .. s_used : s_val'[i] = s_val[i]
  PROVE  S!Served(u)' = S!Served(u)
<1>1. s_pc[u] \in {"pushRead", "pushCAS"} => s_val'[s_n[u]] = s_val[s_n[u]]
  BY DEF SIInv, SPushing
<1>2. s_pc[u] = "popped" => S!Popped(u)' = S!Popped(u)
  BY DEF SIInv, SPopping, S!Popped
<1>. QED
  BY <1>1, <1>2 DEF S!Served

LEMMA SOpIs ==
  ASSUME NEW t \in Threads, \A u \in Threads : u # t => S!Served(u)' = S!Served(u)
  PROVE  s_op' = [s_op EXCEPT ![t] = S!Served(t)']
  BY DEF s_op

LEMMA SStarts == S!Init => S!Lifo!Init
<1>. SUFFICES ASSUME S!Init PROVE S!Lifo!Init
  OBVIOUS
<1>1. SStack(<<>>, 0)
  BY DEF S!Init, SStack, IsPath, IsSimple
<1>2. S!Content = Held(<<>>, 0, s_val)
  BY <1>1, SInit, SContentIs
<1>3. Held(<<>>, 0, s_val) \in [1 .. 0 -> Values]
  BY DEF Held
<1>4. S!Content = <<>>
  BY <1>2, <1>3, FunctionIsSeq
<1>. QED
  BY <1>4 DEF S!Init, S!Lifo!Init, S!Served, S!Lifo!Idle

LEMMA SCallRefines ==
  ASSUME SIInv, NEW t \in Threads,
         NEW a, \/ a = <<"pop", NULL>> /\ S!Pop(t)
                \/ \E v \in Values : a = <<"push", v>> /\ S!Push(t, v)
  PROVE  S!Lifo!Call(t, a)
<1>. USE SConstants DEF S!Push, S!Pop, S!Goto, S!Nodes
<1>1. SIInv' /\ SSame
  BY SPushKeeps, SPopReadKeeps
<1>2. \A u \in Threads : u # t => /\ s_pc'[u] = s_pc[u] /\ s_n'[u] = s_n[u]
                                  /\ s_old_top'[u] = s_old_top[u]
  BY DEF SIInv, STypes
<1>3. \A i \in 1 .. s_used : s_val'[i] = s_val[i]
  BY DEF SIInv, STypes
<1>4. \A u \in Threads : u # t => S!Served(u)' = S!Served(u)
  BY <1>2, <1>3, SServedStays
<1>5. S!Served(t) = S!Lifo!Idle
  BY DEF S!Served, S!Lifo!Idle
<1>6. S!Served(t)' = S!Lifo!Pending(a)
  <2>1. CASE a = <<"pop", NULL>> /\ S!Pop(t)
    <3>1. s_pc'[t] = "popRead"
      BY <2>1 DEF SIInv, STypes
    <3>. QED
      BY <2>1, <3>1 DEF S!Served, S!Lifo!Pending
  <2>2. ASSUME NEW v \in Values, a = <<"push", v>>, S!Push(t, v)
        PROVE  S!Served(t)' = S!Lifo!Pending(a)
    <3>1. s_pc'[t] = "pushRead" /\ s_n'[t] = s_used + 1 /\ s_val'[s_used + 1] = v
      BY <2>2 DEF SIInv, STypes
    <3>. QED
      BY <2>2, <3>1 DEF S!Served, S!Lifo!Pending
  <2>. QED
    BY <2>1, <2>2
<1>7. s_op[t] = S!Lifo!Idle /\ s_op' = [s_op EXCEPT ![t] = S!Lifo!Pending(a)]
  BY <1>4, <1>5, <1>6, SOpIs DEF s_op
<1>8. S!Content' = S!Content
  BY <1>1, <1>3, SContentStays DEF SSame
<1>9. s_answer' = [s_answer EXCEPT ![t] = NULL]
  OBVIOUS
<1>. QED
  BY <1>7, <1>8, <1>9 DEF S!Lifo!Call, s_op

(* A read of the stack, or a CAS that fails, is no step of the object.      *)
LEMMA SQuietRefines ==
  ASSUME SIInv, NEW t \in Threads,
         \/ S!PushRead(t)
         \/ S!PushCAS(t) /\ s_top # s_old_top[t]
         \/ S!PopRead(t) /\ s_top # NULL
         \/ S!PopNext(t)
         \/ S!PopCAS(t) /\ s_top # s_old_top[t]
  PROVE  UNCHANGED S!Lifo!vars
<1>. USE SConstants DEF S!PushRead, S!PushCAS, S!PopRead, S!PopNext, S!PopCAS, S!Goto, S!Nodes
<1>1. SIInv' /\ SSame
  BY SPushReadKeeps, SPushCASKeeps, SPopReadKeeps, SPopNextKeeps, SPopCASKeeps
<1>2. \A u \in Threads : u # t => /\ s_pc'[u] = s_pc[u] /\ s_n'[u] = s_n[u]
                                  /\ s_old_top'[u] = s_old_top[u]
  BY DEF SIInv, STypes
<1>3. s_val' = s_val /\ s_answer' = s_answer
  OBVIOUS
<1>4. \A u \in Threads : u # t => S!Served(u)' = S!Served(u)
  BY <1>2, <1>3, SServedStays
<1>5. S!Served(t)' = S!Served(t)
  <2>1. \/ /\ s_pc[t] \in {"pushRead", "pushCAS"} /\ s_pc'[t] \in {"pushRead", "pushCAS"}
           /\ s_n'[t] = s_n[t]
        \/ /\ s_pc[t] \in {"popRead", "popNext", "popCAS"}
           /\ s_pc'[t] \in {"popRead", "popNext", "popCAS"}
    BY DEF SIInv, STypes
  <2>. QED
    BY <1>3, <2>1 DEF S!Served
<1>6. s_op' = s_op
  BY <1>4, <1>5 DEF s_op
<1>7. S!Content' = S!Content
  BY <1>1, <1>3, SContentStays DEF SSame
<1>. QED
  BY <1>3, <1>6, <1>7 DEF S!Lifo!vars, s_op

LEMMA SPushRefines ==
  ASSUME SIInv, NEW t \in Threads, S!PushCAS(t), s_top = s_old_top[t]
  PROVE  S!Lifo!Apply(t)
<1>. USE SConstants DEF S!PushCAS, S!Goto, S!Nodes
<1>1. SIInv' /\ \E k : k = s_n[t] /\ SPushed(k)
  BY SPushCASKeeps
<1>2. PICK k, r, m : k = s_n[t] /\ SStack(r, m) /\ SStack(OnTop(k, r, m), m + 1)'
  BY <1>1 DEF SPushed
<1>. DEFINE v == s_val[k]
<1>3. \A u \in Threads : u # t => /\ s_pc'[u] = s_pc[u] /\ s_n'[u] = s_n[u]
                                  /\ s_old_top'[u] = s_old_top[u]
  BY DEF SIInv, STypes
<1>4. s_val' = s_val /\ s_answer' = s_answer /\ s_pc'[t] = "pushed"
  BY DEF SIInv, STypes
<1>5. /\ S!Content = Held(r, m, s_val)
      /\ m \in Nat /\ \A i \in 1 .. m : s_val[r[i]] \in Values
  BY <1>2, SContentIs
<1>6. S!Content' = Held(OnTop(k, r, m), m + 1, s_val)
  BY <1>1, <1>2, <1>4, SContentWillBe DEF Held
<1>7. s_val[k] \in Values
  BY <1>2 DEF SIInv, SPushing, STypes
<1>8. Held(OnTop(k, r, m), m + 1, s_val) = <<s_val[k]>> \o Held(r, m, s_val)
  BY ONLY <1>5, <1>7, HeldOnTop
<1>9. S!Content' = <<v>> \o S!Content
  BY <1>5, <1>6, <1>8
<1>10. S!Served(t) = [status |-> "pending", arg |-> <<"push", v>>]
  BY <1>2 DEF S!Served
<1>11. S!Served(t)' = S!Lifo!Done(NULL)
  BY <1>4 DEF S!Served, S!Lifo!Done
<1>12. \A u \in Threads : u # t => S!Served(u)' = S!Served(u)
  BY <1>3, <1>4, SServedStays
<1>13. /\ s_op[t].status = "pending" /\ s_op[t].arg = <<"push", v>>
       /\ s_op' = [s_op EXCEPT ![t] = S!Lifo!Done(NULL)]
  BY <1>10, <1>11, <1>12, SOpIs DEF s_op
<1>14. /\ S!StackState(S!Content, <<"push", v>>, t) = <<v>> \o S!Content
       /\ S!StackResult(S!Content, <<"push", v>>, t) = NULL
  BY DEF S!StackState, S!StackResult
<1>. HIDE DEF v
<1>. QED
  BY <1>4, <1>9, <1>13, <1>14 DEF S!Lifo!Apply, s_op

(* The top is popped by the CAS; the empty stack is seen by the read.       *)
LEMMA SPopRefines ==
  ASSUME SIInv, NEW t \in Threads,
         \/ S!PopCAS(t) /\ s_top = s_old_top[t]
         \/ S!PopRead(t) /\ s_top = NULL
  PROVE  S!Lifo!Apply(t)
<1>. USE SConstants DEF S!PopCAS, S!PopRead, S!Goto, S!Nodes
<1>1. \A u \in Threads : u # t => /\ s_pc'[u] = s_pc[u] /\ s_n'[u] = s_n[u]
                                  /\ s_old_top'[u] = s_old_top[u]
  BY DEF SIInv, STypes
<1>2. s_val' = s_val /\ s_answer' = s_answer /\ s_pc'[t] = "popped" /\ s_old_top'[t] = s_top
  BY DEF SIInv, STypes
<1>. DEFINE a == <<"pop", NULL>>
            ret == IF s_top = NULL THEN EMPTY_STACK ELSE s_val[s_top]
<1>3. S!Served(t) = [status |-> "pending", arg |-> a]
  BY DEF S!Served
<1>4. S!Served(t)' = S!Lifo!Done(ret)
  BY <1>2 DEF S!Served, S!Lifo!Done, S!Popped
<1>5. \A u \in Threads : u # t => S!Served(u)' = S!Served(u)
  BY <1>1, <1>2, SServedStays
<1>6. /\ s_op[t].status = "pending" /\ s_op[t].arg = a
      /\ s_op' = [s_op EXCEPT ![t] = S!Lifo!Done(ret)]
  BY <1>3, <1>4, <1>5, SOpIs DEF s_op
<1>7. /\ S!Content' = S!StackState(S!Content, a, t)
      /\ ret = S!StackResult(S!Content, a, t)
  <2>1. CASE S!PopCAS(t) /\ s_top = s_old_top[t]
    <3>1. SIInv' /\ SPopped
      BY <2>1, SPopCASKeeps
    <3>2. PICK r, m : /\ m >= 1 /\ s_top = r[1]
                      /\ SStack(r, m) /\ SStack(Below(r, m), m - 1)'
      BY <3>1 DEF SPopped
    <3>3. /\ S!Content = Held(r, m, s_val)
          /\ m \in Nat /\ \A i \in 1 .. m : s_val[r[i]] \in Values
      BY <3>2, SContentIs
    <3>4. S!Content' = Held(Below(r, m), m - 1, s_val)
      BY <1>2, <3>1, <3>2, SContentWillBe DEF Held
    <3>5. /\ Held(r, m, s_val) # <<>> /\ Head(Held(r, m, s_val)) = s_val[r[1]]
          /\ Tail(Held(r, m, s_val)) = Held(Below(r, m), m - 1, s_val)
      BY ONLY <3>2, <3>3, HeldBelow
    <3>6. s_top # NULL
      <4>1. 1 \in 1 .. m
        BY <3>2, <3>3
      <4>. QED
        BY <3>2, <4>1 DEF SStack, IsPath
    <3>. QED
      BY <3>2, <3>3, <3>4, <3>5, <3>6 DEF S!StackState, S!StackResult
  <2>2. CASE S!PopRead(t) /\ s_top = NULL
    <3>1. SIInv' /\ SSame
      BY <2>2, SPopReadKeeps
    <3>2. PICK r, m : SStack(r, m) /\ SStack(r, m)'
      BY <3>1 DEF SSame
    <3>3. S!Content' = S!Content
      BY <1>2, <3>1, <3>2, SContentStays
    <3>4. m = 0
      <4>1. m \in Nat /\ (m > 0 => 1 \in 1 .. m)
        BY <3>2 DEF SStack
      <4>. QED
        BY <2>2, <3>2, <4>1 DEF SStack, IsPath
    <3>5. S!Content = Held(r, 0, s_val)
      BY <3>2, <3>4, SContentIs
    <3>6. Held(r, 0, s_val) \in [1 .. 0 -> Values]
      BY DEF Held
    <3>7. S!Content = <<>>
      BY <3>5, <3>6, FunctionIsSeq
    <3>. QED
      BY <2>2, <3>3, <3>7 DEF S!StackState, S!StackResult
  <2>. QED
    BY <2>1, <2>2
<1>. HIDE DEF a, ret
<1>. QED
  BY <1>2, <1>6, <1>7 DEF S!Lifo!Apply, s_op

LEMMA SReturnRefines ==
  ASSUME SIInv, NEW t \in Threads, S!ReturnPush(t) \/ S!ReturnPop(t)
  PROVE  S!Lifo!Return(t)
<1>. USE SConstants DEF S!ReturnPush, S!ReturnPop, S!Goto, S!Nodes
<1>1. SIInv' /\ SSame
  BY SPopNextKeeps
<1>2. \A u \in Threads : u # t => /\ s_pc'[u] = s_pc[u] /\ s_n'[u] = s_n[u]
                                  /\ s_old_top'[u] = s_old_top[u]
  BY DEF SIInv, STypes
<1>3. s_val' = s_val /\ s_pc'[t] = "out"
  BY DEF SIInv, STypes
<1>4. \A u \in Threads : u # t => S!Served(u)' = S!Served(u)
  BY <1>2, <1>3, SServedStays
<1>5. S!Served(t)' = S!Lifo!Idle
  BY <1>3 DEF S!Served, S!Lifo!Idle
<1>6. S!Served(t).status = "done" /\ s_answer' = [s_answer EXCEPT ![t] = S!Served(t).ret]
  <2>1. CASE S!ReturnPop(t)
    BY <2>1 DEF S!Served
  <2>2. CASE S!ReturnPush(t)
    BY <2>2 DEF S!Served, SIInv, STypes
  <2>. QED
    BY <2>1, <2>2
<1>7. /\ s_op[t].status = "done" /\ s_answer' = [s_answer EXCEPT ![t] = s_op[t].ret]
      /\ s_op' = [s_op EXCEPT ![t] = S!Lifo!Idle]
  BY <1>4, <1>5, <1>6, SOpIs DEF s_op
<1>8. S!Content' = S!Content
  BY <1>1, <1>3, SContentStays DEF SSame
<1>. QED
  BY <1>7, <1>8 DEF S!Lifo!Return, s_op

LEMMA SRefines == SIInv /\ [S!Next]_(S!vars) => [S!Lifo!Next]_(S!Lifo!vars)
<1>. SUFFICES ASSUME SIInv, [S!Next]_(S!vars) PROVE [S!Lifo!Next]_(S!Lifo!vars)
  OBVIOUS
<1>1. CASE UNCHANGED S!vars
  <2>1. S!Reached' = S!Reached
    BY <1>1 DEF S!vars, S!Reached
  <2>2. S!Content' = S!Content
    BY <1>1, <2>1 DEF S!vars, S!Content
  <2>. QED
    BY <1>1, <2>2 DEF S!vars, S!Lifo!vars, S!Served, S!Popped
<1>2. ASSUME NEW t \in Threads, S!Pop(t) PROVE S!Lifo!Next
  BY <1>2, SCallRefines DEF S!Lifo!Next
<1>3. ASSUME NEW t \in Threads, NEW v \in Values, S!Push(t, v) PROVE S!Lifo!Next
  <2>1. S!Lifo!Call(t, <<"push", v>>)
    BY <1>3, SCallRefines
  <2>2. <<"push", v>> \in ({"push"} \X Values) \cup {<<"pop", NULL>>}
    OBVIOUS
  <2>. QED
    BY <2>1, <2>2 DEF S!Lifo!Next
<1>4. ASSUME NEW t \in Threads, S!ReturnPush(t) \/ S!ReturnPop(t) PROVE S!Lifo!Next
  BY <1>4, SReturnRefines DEF S!Lifo!Next
<1>5. ASSUME NEW t \in Threads, S!PushCAS(t) PROVE [S!Lifo!Next]_(S!Lifo!vars)
  BY <1>5, SPushRefines, SQuietRefines DEF S!Lifo!Next
<1>6. ASSUME NEW t \in Threads, S!PopCAS(t) \/ S!PopRead(t)
      PROVE  [S!Lifo!Next]_(S!Lifo!vars)
  BY <1>6, SPopRefines, SQuietRefines DEF S!Lifo!Next
<1>7. ASSUME NEW t \in Threads, S!PushRead(t) \/ S!PopNext(t) PROVE UNCHANGED S!Lifo!vars
  BY <1>7, SQuietRefines
<1>. QED
  BY <1>1, <1>2, <1>3, <1>4, <1>5, <1>6, <1>7 DEF S!Next, S!Step

(* The lock-free stack is linearizable and last in, first out, for any      *)
(* threads: the CAS that pops compares the top only, and not what is below  *)
(* it, but a node that has left the top never comes back                    *)
(* (lfstack.c:13-40).                                                       *)
THEOREM LFStackIsLifo == S!Spec => S!ImplementsLifo
<1>1. S!Spec => []SIInv
  BY SInit, SNext, PTL DEF S!Spec
<1>. QED
  BY <1>1, SStarts, SRefines, PTL DEF S!Spec, S!ImplementsLifo, S!Lifo!Spec

-----------------------------------------------------------------------------
(*                     The stacks side by side                             *)

LEMMA StacksKeep == (KIInv /\ SIInv) /\ [MCNext]_mc_vars => (KIInv /\ SIInv)'
<1>. SUFFICES ASSUME KIInv, SIInv, [MCNext]_mc_vars PROVE KIInv' /\ SIInv'
  OBVIOUS
<1>1. K!Next \/ KF!Next \/ UNCHANGED k_vars
  BY DEF MCNext, mc_vars
<1>2. S!Next \/ UNCHANGED s_vars
  BY DEF MCNext, mc_vars
<1>. QED
  BY <1>1, <1>2, KNext, SNext DEF s_vars, S!vars

LEMMA StacksRefine ==
  (KIInv /\ SIInv) /\ [MCNext]_mc_vars =>
    /\ [which = "CCStack" => K!Lifo!Next]_<<which, K!Lifo!vars>>
    /\ [which = "FCStack" => KF!Lifo!Next]_<<which, KF!Lifo!vars>>
    /\ [which = "LFStack" => S!Lifo!Next]_<<which, S!Lifo!vars>>
<1>. SUFFICES ASSUME KIInv, SIInv, [MCNext]_mc_vars
              PROVE  /\ [which = "CCStack" => K!Lifo!Next]_<<which, K!Lifo!vars>>
                     /\ [which = "FCStack" => KF!Lifo!Next]_<<which, KF!Lifo!vars>>
                     /\ [which = "LFStack" => S!Lifo!Next]_<<which, S!Lifo!vars>>
  OBVIOUS
<1>1. /\ which' = which
      /\ which = "CCStack" => K!Next \/ UNCHANGED k_vars
      /\ which = "FCStack" => KF!Next \/ UNCHANGED k_vars
      /\ which = "LFStack" => [S!Next]_(S!vars)
  BY DEF MCNext, mc_vars, s_vars, S!vars
<1>2. UNCHANGED k_vars => UNCHANGED K!Lifo!vars /\ UNCHANGED KF!Lifo!vars
  BY DEF k_vars, K!Lifo!vars, KF!Lifo!vars, K!Content, KF!Content, K!Reached, KF!Reached
<1>3. K!Next => K!Lifo!Next
  BY KCallRefines, KPushRefines, KPopRefines DEF K!Next, K!Lifo!Next
<1>4. KF!Next => KF!Lifo!Next
  <2>1. \A t \in Threads : (KF!Return(t) => K!Return(t))
                           /\ \A v : KF!Call(t, v) => K!Call(t, v)
    BY DEF KF!Return, K!Return, KF!Call, K!Call, KF!Idle, K!Idle, KF!Pending, K!Pending
  <2>2. \A c, t \in Threads : KF!Push(c, t) => K!Push(c, t)
    BY DEF KF!Push, K!Push, KF!MayServe, K!MayServe, KF!Nodes, K!Nodes, KF!Done, K!Done,
           KF!PUSH_SUCCESS, K!PUSH_SUCCESS
  <2>. QED
    BY <2>1, <2>2, KCallRefines, KPushRefines, KPopRefines DEF KF!Next, KF!Lifo!Next
<1>5. [S!Next]_(S!vars) => [S!Lifo!Next]_(S!Lifo!vars)
  BY SRefines
<1>. QED
  BY <1>1, <1>2, <1>3, <1>4, <1>5

(* The stacks on a combining object (ccstack.c:20-53, fcstack.c:21-49) and  *)
(* the lock-free stack (lfstack.c:13-40) are linearizable and last in,      *)
(* first out, however many threads and nodes there are.                     *)
THEOREM StacksAreLifoHolds == MCSpec => StacksAreLifo
<1>1. MCInit => K!Init /\ S!Init
  BY DEF MCInit
<1>2. MCInit => KIInv /\ SIInv
  BY <1>1, KInit, SInit
<1>3. MCInit => K!Lifo!Init /\ KF!Lifo!Init /\ S!Lifo!Init
  BY <1>1, KStarts, SStarts
<1>4. MCSpec => [](KIInv /\ SIInv)
  BY <1>2, StacksKeep, PTL DEF MCSpec, mc_vars
<1>. QED
  BY <1>3, <1>4, StacksRefine, PTL DEF MCSpec, StacksAreLifo, mc_vars
-----------------------------------------------------------------------------
(*                           The hash tables                               *)

(* The chains are sequences of keys, and a request that waits for its cell  *)
(* goes to the one of its key.                                              *)
HTypes ==
  /\ h_cells \in [H!Cells -> Seq(Keys)]
  /\ \A t \in Threads : h_pc[t] = "called" =>
       /\ h_announce[t].key \in Keys
       /\ h_announce[t].cell = h_announce[t].key % TableSize
  /\ h_pc = [t \in Threads |-> h_pc[t]] /\ h_announce = [t \in Threads |-> h_announce[t]]

(* A chain of the cell c: its keys differ, belong to the cell and are in.   *)
HChain(s, c, in) ==
  /\ s \in Seq(Keys)
  /\ \A i, j \in 1 .. Len(s) : s[i] = s[j] => i = j
  /\ \A i \in 1 .. Len(s) : s[i] % TableSize = c /\ s[i] \in in

HIInv == HTypes /\ \A c \in H!Cells : HChain(h_cells[c], c, h_members)

(* The three operations on one chain. *)
LEMMA HInsertKeeps ==
  \A s, c, in : \A k \in Keys : HChain(s, c, in) /\ k % TableSize = c =>
    HChain(IF \E i \in 1 .. Len(s) : s[i] = k THEN s ELSE <<k>> \o s, c, in \cup {k})
<1>. SUFFICES ASSUME NEW s, NEW c, NEW in, NEW k \in Keys, HChain(s, c, in), k % TableSize = c
              PROVE  HChain(IF \E i \in 1 .. Len(s) : s[i] = k THEN s ELSE <<k>> \o s, c,
                            in \cup {k})
  OBVIOUS
<1>1. CASE \E i \in 1 .. Len(s) : s[i] = k
  BY <1>1 DEF HChain
<1>2. CASE \A i \in 1 .. Len(s) : s[i] # k
  <2>. DEFINE q == <<k>> \o s
  <2>1. s \in Seq(Keys) /\ <<k>> \in Seq(Keys) /\ Len(<<k>>) = 1 /\ <<k>>[1] = k
    BY DEF HChain
  <2>2. /\ q \in Seq(Keys) /\ Len(q) = 1 + Len(s) /\ Len(s) \in Nat
        /\ \A i \in 1 .. 1 + Len(s) : q[i] = IF i <= 1 THEN <<k>>[i] ELSE s[i - 1]
    BY ONLY <2>1, ConcatProperties, LenProperties
  <2>. HIDE DEF q
  <2>3. \A i \in 1 .. Len(q) :
          \/ i = 1 /\ q[i] = k
          \/ i - 1 \in 1 .. Len(s) /\ q[i] = s[i - 1]
    BY <2>1, <2>2
  <2>4. ASSUME NEW i \in 1 .. Len(q), NEW j \in 1 .. Len(q), q[i] = q[j]
        PROVE  i = j
    <3>1. CASE q[i] = k
      BY <1>2, <2>3, <2>4, <3>1
    <3>2. CASE q[i] # k
      <4>1. /\ i - 1 \in 1 .. Len(s) /\ q[i] = s[i - 1]
            /\ j - 1 \in 1 .. Len(s) /\ q[j] = s[j - 1]
        BY <2>3, <2>4, <3>2
      <4>2. i - 1 = j - 1
        BY <2>4, <4>1 DEF HChain
      <4>. QED
        BY <2>2, <4>2
    <3>. QED
      BY <3>1, <3>2
  <2>5. \A i \in 1 .. Len(q) : q[i] % TableSize = c /\ q[i] \in in \cup {k}
    BY <2>3 DEF HChain
  <2>. QED
    BY <1>2, <2>2, <2>4, <2>5 DEF HChain, q
<1>. QED
  BY <1>1, <1>2

(* What is left of a chain, in its order, by either branch of the deletion. *)
LEMMA HDeleteKeeps ==
  \A s, c, in : \A k : \A i \in 1 .. Len(s) : HChain(s, c, in) /\ s[i] = k =>
    HChain(H!Unlink(s, i), c, in \ {k})
<1>. SUFFICES ASSUME NEW s, NEW c, NEW in, NEW k, NEW i \in 1 .. Len(s), HChain(s, c, in),
                     s[i] = k
              PROVE  HChain(H!Unlink(s, i), c, in \ {k})
  OBVIOUS
<1>. DEFINE n == Len(s)
            q == H!Unlink(s, i)
<1>1. s \in Seq(Keys) /\ n \in Nat /\ \A j \in 1 .. n : s[j] \in Keys
  BY DEF HChain
<1>2. /\ SubSeq(s, i + 1, n) \in Seq(Keys) /\ Len(SubSeq(s, i + 1, n)) = n - i
      /\ \A j \in 1 .. n - i : SubSeq(s, i + 1, n)[j] = s[i + j]
  <2>1. \A j \in i + 1 .. n : s[j] \in Keys
    BY <1>1
  <2>. HIDE DEF n
  <2>2. i \in Int /\ i + 1 \in Int /\ n \in Int /\ i <= n
    BY <1>1 DEF n
  <2>. DEFINE b == SubSeq(s, i + 1, n)
  <2>3. /\ b \in Seq(Keys) /\ Len(b) = IF i + 1 <= n THEN n - (i + 1) + 1 ELSE 0
        /\ \A j \in 1 .. n - (i + 1) + 1 : b[j] = s[i + 1 + j - 1]
    BY ONLY <2>1, <2>2, SubSeqProperties
  <2>. HIDE DEF b
  <2>4. Len(b) = n - i /\ n - (i + 1) + 1 = n - i
    BY <2>2, <2>3
  <2>5. \A j \in 1 .. n - i : b[j] = s[i + j]
    BY <2>2, <2>3, <2>4
  <2>. QED
    BY <2>3, <2>4, <2>5 DEF b
<1>3. \E f : /\ q \in Seq(Keys) /\ \A a \in 1 .. Len(q) : f[a] \in 1 .. n /\ f[a] # i
             /\ \A a \in 1 .. Len(q) : q[a] = s[f[a]]
             /\ \A a, b \in 1 .. Len(q) : f[a] = f[b] => a = b
  <2>1. CASE i > 2
    <3>. DEFINE p == SubSeq(s, 1, i - 1)
                b == SubSeq(s, i + 1, n)
    <3>1. p \in Seq(Keys) /\ Len(p) = i - 1 /\ \A j \in 1 .. i - 1 : p[j] = s[j]
      <4>1. \A j \in 1 .. i - 1 : s[j] \in Keys
        BY <1>1
      <4>2. i \in Int /\ i - 1 \in Int /\ 1 <= i - 1
        BY <2>1
      <4>3. /\ p \in Seq(Keys) /\ Len(p) = IF 1 <= i - 1 THEN i - 1 - 1 + 1 ELSE 0
            /\ \A j \in 1 .. i - 1 - 1 + 1 : p[j] = s[1 + j - 1]
        BY ONLY <4>1, <4>2, SubSeqProperties
      <4>. HIDE DEF p
      <4>. QED
        BY <4>2, <4>3
    <3>2. b \in Seq(Keys) /\ Len(b) = n - i /\ \A j \in 1 .. n - i : b[j] = s[i + j]
      BY <1>2
    <3>3. q = p \o b
      BY <2>1 DEF H!Unlink, H!RemoveAt
    <3>. HIDE DEF q, p, b
    <3>4. /\ q \in Seq(Keys) /\ Len(q) = Len(p) + Len(b)
          /\ \A a \in 1 .. Len(p) + Len(b) : q[a] = IF a <= Len(p) THEN p[a] ELSE b[a - Len(p)]
      BY ONLY <3>1, <3>2, <3>3, ConcatProperties
    <3>. DEFINE f == [a \in 1 .. n - 1 |-> IF a < i THEN a ELSE a + 1]
    <3>5. Len(q) = n - 1
      BY <1>1, <3>1, <3>2, <3>4
    <3>. HIDE DEF n
    <3>6. \A a \in 1 .. Len(q) : f[a] \in 1 .. n /\ f[a] # i
      BY <1>1, <3>5 DEF n
    <3>7. \A a, d \in 1 .. Len(q) : f[a] = f[d] => a = d
      BY <1>1, <3>5
    <3>8. ASSUME NEW a \in 1 .. Len(q) PROVE q[a] = s[f[a]]
      <4>1. CASE a < i
        BY <1>1, <3>1, <3>2, <3>4, <3>5, <4>1
      <4>2. CASE ~(a < i)
        <5>1. a - (i - 1) \in 1 .. n - i /\ i + (a - (i - 1)) = a + 1
          BY <1>1, <3>5, <4>2
        <5>2. q[a] = b[a - (i - 1)]
          BY <1>1, <3>1, <3>2, <3>4, <3>5, <4>2
        <5>. QED
          BY <3>2, <3>5, <4>2, <5>1, <5>2
      <4>. QED
        BY <4>1, <4>2
    <3>. HIDE DEF f
    <3>. QED
      BY <3>4, <3>6, <3>7, <3>8
  <2>2. CASE ~(i > 2)
    <3>1. q = SubSeq(s, i + 1, n)
      BY <2>2 DEF H!Unlink
    <3>. HIDE DEF q, n
    <3>2. q \in Seq(Keys) /\ Len(q) = n - i /\ \A j \in 1 .. n - i : q[j] = s[i + j]
      BY <1>2, <3>1
    <3>. DEFINE f == [a \in 1 .. n - i |-> i + a]
    <3>3. \A a \in 1 .. Len(q) : f[a] \in 1 .. n /\ f[a] # i /\ q[a] = s[f[a]]
      BY <1>1, <3>2 DEF n
    <3>4. \A a, b \in 1 .. Len(q) : f[a] = f[b] => a = b
      BY <1>1, <3>2 DEF n
    <3>. HIDE DEF f
    <3>. QED
      BY <3>2, <3>3, <3>4
  <2>. QED
    BY <2>1, <2>2
<1>. HIDE DEF q
<1>4. PICK f : /\ q \in Seq(Keys) /\ \A a \in 1 .. Len(q) : f[a] \in 1 .. n /\ f[a] # i
               /\ \A a \in 1 .. Len(q) : q[a] = s[f[a]]
               /\ \A a, b \in 1 .. Len(q) : f[a] = f[b] => a = b
  BY <1>3
<1>5. HChain(q, c, in \ {k})
  <2>1. \A a, b \in 1 .. Len(q) : q[a] = q[b] => a = b
    BY <1>4 DEF HChain
  <2>2. \A a \in 1 .. Len(q) : q[a] % TableSize = c /\ q[a] \in in /\ q[a] # k
    BY <1>4 DEF HChain
  <2>. QED
    BY <1>4, <2>1, <2>2 DEF HChain
<1>. QED
  BY <1>5 DEF q

LEMMA HInit == H!Init => HIInv
<1>. SUFFICES ASSUME H!Init PROVE HIInv
  OBVIOUS
<1>1. \A c \in H!Cells : h_cells[c] = <<>>
  BY DEF H!Init
<1>2. \A c \in H!Cells : HChain(h_cells[c], c, h_members)
  <2>1. <<>> \in Seq(Keys) /\ Len(<<>>) = 0
    OBVIOUS
  <2>2. \A c : HChain(<<>>, c, h_members)
    BY <2>1 DEF HChain
  <2>. QED
    BY <1>1, <2>2
<1>3. HTypes
  BY DEF H!Init, HTypes
<1>. QED
  BY <1>2, <1>3 DEF HIInv

LEMMA HCallKeeps ==
  ASSUME HIInv, NEW t \in Threads,
         H!Return(t) \/ \E o \in H!Ops, key \in Keys : H!Announce(t, o, key)
  PROVE  HIInv'
<1>1. h_cells' = h_cells /\ h_members' = h_members
  BY DEF H!Return, H!Announce
<1>2. HTypes'
  <2>1. /\ h_pc' = [u \in Threads |-> h_pc'[u]]
        /\ h_announce' = [u \in Threads |-> h_announce'[u]]
        /\ \A u \in Threads : u # t => h_pc'[u] = h_pc[u] /\ h_announce'[u] = h_announce[u]
    BY DEF HIInv, HTypes, H!Return, H!Announce
  <2>2. h_pc'[t] = "called" => /\ h_announce'[t].key \in Keys
                               /\ h_announce'[t].cell = h_announce'[t].key % TableSize
    BY DEF HIInv, HTypes, H!Return, H!Announce, H!hash_func
  <2>. QED
    BY <1>1, <2>1, <2>2 DEF HIInv, HTypes
<1>. QED
  BY <1>1, <1>2 DEF HIInv

(* A request is served on its own cell: the keys of the other cells differ  *)
(* from its key.                                                            *)
LEMMA HOthersKeep ==
  \A s, c : \A k \in Keys : HChain(s, c, h_members) /\ c # k % TableSize =>
    HChain(s, c, h_members \cup {k}) /\ HChain(s, c, h_members \ {k})
  BY DEF HChain

LEMMA HServeKeeps ==
  ASSUME HIInv, NEW c \in Threads, NEW t \in Threads,
         \/ H!Insert(c, t) \/ H!Delete(c, t) \/ H!Search(c, t)
         \/ HD!Insert(c, t) \/ HD!Delete(c, t) \/ HD!Search(c, t)
  PROVE  HIInv'
<1>1. /\ h_pc[t] = "called" /\ h_pc' = [h_pc EXCEPT ![t] = "done"]
      /\ h_announce' = h_announce
  BY DEF H!Insert, H!Delete, H!Search, HD!Insert, HD!Delete, HD!Search, H!Serves, HD!Serves
<1>. DEFINE k == h_announce[t].key
            d == h_announce[t].cell
            s == h_cells[d]
            found == \E i \in 1 .. Len(s) : s[i] = k
<1>2. k \in Keys /\ d = k % TableSize
  BY <1>1 DEF HIInv, HTypes
<1>3. \/ /\ h_cells' = [h_cells EXCEPT ![d] = IF found THEN s ELSE <<k>> \o s]
         /\ h_members' = h_members \cup {k}
      \/ /\ h_cells' = [h_cells EXCEPT ![d] =
                          IF found THEN H!Unlink(s, CHOOSE i \in 1 .. Len(s) : s[i] = k) ELSE s]
         /\ h_members' = h_members \ {k}
      \/ h_cells' = h_cells /\ h_members' = h_members
  BY Zenon DEF H!Insert, H!Delete, H!Search, HD!Insert, HD!Delete, HD!Search,
     H!Found, HD!Found, H!Chain, HD!Chain, H!Contains, HD!Contains, H!Unlink, HD!Unlink,
     H!RemoveAt, HD!RemoveAt
<1>. HIDE DEF k, d
<1>4. ASSUME NEW e \in H!Cells PROVE HChain(h_cells'[e], e, h_members')
  <2>1. HChain(h_cells[e], e, h_members) /\ h_cells \in [H!Cells -> Seq(Keys)]
    BY DEF HIInv, HTypes
  <2>2. CASE e # d
    <3>1. h_cells'[e] = h_cells[e]
      BY <1>3, <2>1, <2>2
    <3>. QED
      <4>1. HChain(h_cells[e], e, h_members \cup {k}) /\ HChain(h_cells[e], e, h_members \ {k})
        BY <1>2, <2>1, <2>2, HOthersKeep
      <4>. QED
        BY <1>3, <2>1, <3>1, <4>1
  <2>3. CASE e = d
    <3>1. HChain(s, d, h_members)
      BY <2>1, <2>3
    <3>2. CASE /\ h_cells' = [h_cells EXCEPT ![d] = IF found THEN s ELSE <<k>> \o s]
               /\ h_members' = h_members \cup {k}
      <4>1. h_cells'[e] = IF found THEN s ELSE <<k>> \o s
        BY <2>1, <2>3, <3>2
      <4>. HIDE DEF s
      <4>2. HChain(IF found THEN s ELSE <<k>> \o s, d, h_members \cup {k})
        BY <1>2, <3>1, HInsertKeeps
      <4>. QED
        BY <2>3, <3>2, <4>1, <4>2
    <3>3. CASE /\ h_cells' = [h_cells EXCEPT ![d] =
                    IF found THEN H!Unlink(s, CHOOSE i \in 1 .. Len(s) : s[i] = k) ELSE s]
               /\ h_members' = h_members \ {k}
      <4>. DEFINE i == CHOOSE j \in 1 .. Len(s) : s[j] = k
      <4>1. h_cells'[e] = IF found THEN H!Unlink(s, i) ELSE s
        BY <2>1, <2>3, <3>3
      <4>. HIDE DEF s
      <4>2. CASE found
        <5>1. i \in 1 .. Len(s) /\ s[i] = k
          BY <4>2
        <5>. HIDE DEF i
        <5>2. HChain(H!Unlink(s, i), d, h_members \ {k})
          BY <3>1, <5>1, HDeleteKeeps
        <5>. QED
          BY <2>3, <3>3, <4>1, <4>2, <5>2
      <4>3. CASE ~found
        <5>1. HChain(s, d, h_members \ {k})
          BY <3>1, <4>3 DEF HChain
        <5>. QED
          BY <2>3, <3>3, <4>1, <4>3, <5>1
      <4>. QED
        BY <4>2, <4>3
    <3>4. CASE h_cells' = h_cells /\ h_members' = h_members
      BY <2>1, <3>4
    <3>. QED
      BY <1>3, <3>2, <3>3, <3>4
  <2>. QED
    BY <2>2, <2>3
<1>5. HTypes'
  <2>1. h_cells' \in [H!Cells -> Seq(Keys)]
    <3>1. h_cells' = [e \in H!Cells |-> h_cells'[e]]
      BY <1>3 DEF HIInv, HTypes
    <3>2. \A e \in H!Cells : h_cells'[e] \in Seq(Keys)
      BY <1>4 DEF HChain
    <3>. QED
      BY <3>1, <3>2
  <2>2. /\ h_pc' = [u \in Threads |-> h_pc'[u]] /\ h_pc'[t] = "done"
        /\ \A u \in Threads : u # t => h_pc'[u] = h_pc[u]
    BY <1>1 DEF HIInv, HTypes
  <2>. QED
    BY <1>1, <2>1, <2>2 DEF HIInv, HTypes
<1>. QED
  BY <1>4, <1>5 DEF HIInv

LEMMA HNext == HIInv /\ [MCNext]_mc_vars => HIInv'
<1>. SUFFICES ASSUME HIInv, [MCNext]_mc_vars PROVE HIInv'
  OBVIOUS
<1>1. H!Next \/ HD!Next \/ UNCHANGED h_vars
  BY DEF MCNext, mc_vars
<1>2. CASE UNCHANGED h_vars
  BY <1>2 DEF h_vars, HIInv, HTypes
<1>3. CASE H!Next
  BY <1>3, HCallKeeps, HServeKeeps DEF H!Next
<1>4. CASE HD!Next
  <2>1. \A t \in Threads : (HD!Return(t) => H!Return(t))
                           /\ \A o, k : HD!Announce(t, o, k) => H!Announce(t, o, k)
    BY DEF HD!Return, H!Return, HD!Announce, H!Announce, HD!hash_func, H!hash_func
  <2>2. HD!Ops = H!Ops
    BY DEF HD!Ops, H!Ops
  <2>. QED
    BY <1>4, <2>1, <2>2, HCallKeeps, HServeKeeps DEF HD!Next
<1>. QED
  BY <1>1, <1>2, <1>3, <1>4

(* Whatever the number of cells and threads, a key has one node at most, in *)
(* the cell of its hash and only while it is a member, although a deletion  *)
(* may take other nodes along (clhhash.c:31-95).                            *)
THEOREM KeysHaveOneNodeHolds == MCSpec => []KeysHaveOneNode
<1>1. MCInit => HIInv
  BY HInit DEF MCInit
<1>2. HIInv => KeysHaveOneNode
  BY DEF HIInv, HChain, KeysHaveOneNode, H!OneNodePerMember, HD!OneNodePerMember,
     H!Cells, HD!Cells, H!hash_func, HD!hash_func
<1>. QED
  BY <1>1, <1>2, HNext, PTL DEF MCSpec, mc_vars

(* A queue: the list q[0], ... q[e] of the nodes ever linked, from its node *)
(* q[h] on, and with a node more.                                           *)
From(q, h, e) == [i \in 0 .. e - h |-> q[h + i]]
Extended(q, e, p) == [i \in 0 .. e + 1 |-> IF i = e + 1 THEN p ELSE q[i]]

IsList(q, e, nx) == e \in Nat /\ IsPath(q, 0, e, q[0], nx) /\ IsSimple(q, 0, e)

LEMMA ListLinks ==
  \A q, e, nx : IsList(q, e, nx) =>
    \A i \in 0 .. e : q[i] # NULL /\ nx[q[i]] = IF i = e THEN NULL ELSE q[i + 1]
  BY DEF IsList, IsPath

LEMMA FromIsList ==
  \A q, e, nx, h : IsList(q, e, nx) /\ h \in 0 .. e => IsList(From(q, h, e), e - h, nx)
<1>. SUFFICES ASSUME NEW q, NEW e, NEW nx, NEW h, IsList(q, e, nx), h \in 0 .. e
              PROVE  IsList(From(q, h, e), e - h, nx)
  OBVIOUS
<1>. DEFINE r == From(q, h, e)
<1>1. e \in Nat /\ h \in Nat /\ e - h \in Nat
  BY DEF IsList
<1>2. \A i \in 0 .. e - h : r[i] = q[h + i] /\ h + i \in 0 .. e
  BY <1>1 DEF From
<1>. HIDE DEF r
<1>3. IsSimple(r, 0, e - h)
  BY <1>1, <1>2 DEF IsList, IsSimple
<1>4. ASSUME NEW i \in 0 .. e - h
      PROVE  r[i] # NULL /\ nx[r[i]] = IF i = e - h THEN NULL ELSE r[i + 1]
  <2>1. q[h + i] # NULL /\ nx[q[h + i]] = IF h + i = e THEN NULL ELSE q[h + i + 1]
    BY <1>2, ListLinks
  <2>2. i # e - h => i + 1 \in 0 .. e - h /\ h + (i + 1) = h + i + 1
    BY <1>1
  <2>. QED
    BY <1>1, <1>2, <2>1, <2>2
<1>5. IsPath(r, 0, e - h, r[0], nx)
  BY <1>1, <1>4 DEF IsPath
<1>. QED
  BY <1>1, <1>3, <1>5 DEF IsList, r

(* A node p that is nowhere in the list is linked behind its last one.      *)
MayGoLast(q, e, nx, ny, p) ==
  /\ IsList(q, e, nx) /\ p # NULL /\ \A i \in 0 .. e : q[i] # p
  /\ ny[q[e]] = p /\ ny[p] = NULL /\ \A i \in 0 .. e - 1 : ny[q[i]] = nx[q[i]]

LEMMA ExtendedIsList ==
  \A q, e, nx, ny, p : MayGoLast(q, e, nx, ny, p) =>
    /\ IsList(Extended(q, e, p), e + 1, ny)
    /\ Extended(q, e, p)[e + 1] = p /\ \A i \in 0 .. e : Extended(q, e, p)[i] = q[i]
<1>. SUFFICES ASSUME NEW q, NEW e, NEW nx, NEW ny, NEW p, MayGoLast(q, e, nx, ny, p)
              PROVE  /\ IsList(Extended(q, e, p), e + 1, ny)
                     /\ Extended(q, e, p)[e + 1] = p
                     /\ \A i \in 0 .. e : Extended(q, e, p)[i] = q[i]
  OBVIOUS
<1>. DEFINE r == Extended(q, e, p)
<1>1. e \in Nat /\ e + 1 \in Nat
  BY DEF MayGoLast, IsList
<1>2. r[e + 1] = p /\ \A i \in 0 .. e : r[i] = q[i]
  BY <1>1 DEF Extended
<1>. HIDE DEF r
<1>3. \A i \in 0 .. e + 1 : i = e + 1 \/ i \in 0 .. e
  BY <1>1
<1>4. IsSimple(r, 0, e + 1)
  BY <1>1, <1>2, <1>3 DEF MayGoLast, IsList, IsSimple
<1>5. ASSUME NEW i \in 0 .. e + 1
      PROVE  r[i] # NULL /\ ny[r[i]] = IF i = e + 1 THEN NULL ELSE r[i + 1]
  <2>1. CASE i = e + 1
    BY <1>2, <2>1 DEF MayGoLast
  <2>2. CASE i = e
    BY <1>1, <1>2, <2>2, ListLinks DEF MayGoLast
  <2>3. CASE i \in 0 .. e - 1
    <3>1. i \in 0 .. e /\ i + 1 \in 0 .. e /\ i # e
      BY <1>1, <2>3
    <3>2. q[i] # NULL /\ nx[q[i]] = q[i + 1]
      BY <3>1, ListLinks DEF MayGoLast
    <3>. QED
      BY <1>1, <1>2, <2>3, <3>1, <3>2 DEF MayGoLast
  <2>. QED
    BY <1>1, <2>1, <2>2, <2>3
<1>6. IsPath(r, 0, e + 1, r[0], ny)
  BY <1>1, <1>5 DEF IsPath
<1>. QED
  BY <1>1, <1>2, <1>4, <1>6 DEF IsList, r

(* The list depends on the links of its own nodes only. *)
LEMMA ListStays ==
  \A q, e, nx, ny : IsList(q, e, nx) /\ (\A i \in 0 .. e : ny[q[i]] = nx[q[i]]) =>
    IsList(q, e, ny)
<1>. SUFFICES ASSUME NEW q, NEW e, NEW nx, NEW ny, IsList(q, e, nx),
                     \A i \in 0 .. e : ny[q[i]] = nx[q[i]]
              PROVE  IsList(q, e, ny)
  OBVIOUS
<1>1. IsPath(q, 0, e, q[0], ny)
  BY DEF IsList, IsPath
<1>. QED
  BY <1>1 DEF IsList

Behind(g, N) == {i \in 1 .. N + 1 : g[i] # NULL}
IsOf(q, e, N) == \A i \in 0 .. e : q[i] \in 0 .. N

(* A walk from q[h] reaches the nodes from there on, and then NULL. *)
WalksFrom(q, e, nx, h, g, N) ==
  /\ IsList(q, e, nx) /\ h \in 0 .. e /\ IsOf(q, e, N) /\ N \in Nat
  /\ \E x : x = q[h] /\ IsWalk(g, 0, N + 1, x, nx)
ReachesEnd(q, e, h, g, N) ==
  /\ e <= N
  /\ \A i \in 0 .. N + 1 : g[i] = IF i <= e - h THEN q[h + i] ELSE NULL
  /\ Cardinality(Behind(g, N)) = e - h

LEMMA ListWalk ==
  \A q, e, nx, h, g, N : WalksFrom(q, e, nx, h, g, N) => ReachesEnd(q, e, h, g, N)
<1>. SUFFICES ASSUME NEW q, NEW e, NEW nx, NEW h, NEW g, NEW N,
                     WalksFrom(q, e, nx, h, g, N)
              PROVE  ReachesEnd(q, e, h, g, N)
  OBVIOUS
<1>0. /\ IsList(q, e, nx) /\ h \in 0 .. e /\ IsOf(q, e, N) /\ N \in Nat
      /\ IsWalk(g, 0, N + 1, q[h], nx)
  BY DEF WalksFrom
<1>. USE <1>0
<1>1. e \in Nat /\ h \in Nat /\ e - h \in Nat
  BY DEF IsList
<1>2. e <= N
  <2>1. IsSimple(q, 0, e) /\ 0 \in Int /\ e \in Int /\ N \in Int /\ 0 <= e
    BY <1>1 DEF IsList
  <2>3. \A i \in 0 .. e : q[i] \in 0 .. N
    BY DEF IsOf
  <2>2. e - 0 <= N - 0
    BY ONLY <2>1, <2>3, PathIsShort
  <2>. QED
    BY <1>1, <2>2
<1>. DEFINE r == From(q, h, e)
            d == e - h
            w == Walked(r, 0, d, N + 1)
<1>3. IsPath(r, 0, d, q[h], nx)
  <2>1. r[0] = q[h]
    BY <1>1 DEF From
  <2>2. IsPath(r, 0, d, r[0], nx)
    BY FromIsList DEF IsList
  <2>. QED
    BY <2>1, <2>2
<1>4. g = w
  <2>1. N + 1 \in Int /\ 0 \in Nat
    OBVIOUS
  <2>. HIDE DEF r, d
  <2>. QED
    BY ONLY <1>0, <1>3, <2>1, WalkIsPath
<1>5. \A i \in 0 .. N + 1 : g[i] = IF i <= e - h THEN q[h + i] ELSE NULL
  <2>1. \A i \in 0 .. N + 1 : w[i] = IF i <= d THEN r[i] ELSE NULL
    BY DEF Walked
  <2>2. \A i \in 0 .. N + 1 : i <= d => r[i] = q[h + i]
    BY <1>1 DEF From
  <2>. HIDE DEF w
  <2>. QED
    BY <1>4, <2>1, <2>2
<1>6. Cardinality(Behind(w, N)) = d - 1 + 1
  <2>1. 1 \in Int /\ N + 1 \in Int /\ 0 <= 1 /\ d <= N + 1 /\ N + 1 <= N + 1 /\ 1 <= d + 1
        /\ 0 \in Int /\ d \in Int
    BY <1>1, <1>2
  <2>. HIDE DEF r, d
  <2>. QED
    BY ONLY <1>3, <2>1, CountIs DEF Behind
<1>. HIDE DEF w
<1>. QED
  BY <1>1, <1>2, <1>4, <1>5, <1>6 DEF ReachesEnd

StartsIn(q, e, nx, h, x, N) ==
  IsList(q, e, nx) /\ h \in 0 .. e /\ x = q[h] /\ N \in Nat

LEMMA ListCanBeWalked ==
  \A q, e, nx, h, x, N : StartsIn(q, e, nx, h, x, N) => \E w : IsWalk(w, 0, N + 1, x, nx)
<1>. SUFFICES ASSUME NEW q, NEW e, NEW nx, NEW h, NEW x, NEW N, StartsIn(q, e, nx, h, x, N)
              PROVE  \E w : IsWalk(w, 0, N + 1, q[h], nx)
  BY DEF StartsIn
<1>0. IsList(q, e, nx) /\ h \in 0 .. e /\ N \in Nat
  BY DEF StartsIn
<1>. USE <1>0
<1>1. IsPath(From(q, h, e), 0, e - h, q[h], nx)
  <2>1. From(q, h, e)[0] = q[h]
    BY DEF From, IsList
  <2>. QED
    BY <2>1, FromIsList DEF IsList
<1>2. N + 1 \in Int
  OBVIOUS
<1>3. IsWalk(Walked(From(q, h, e), 0, e - h, N + 1), 0, N + 1, q[h], nx)
  BY ONLY <1>1, <1>2, PathIsWalk
<1>. QED
  BY <1>3

-----------------------------------------------------------------------------
(*                      The Michael-Scott queue                            *)

MTypes ==
  /\ m_next = [n \in 0 .. MSNodes |-> m_next[n]]
  /\ m_val = [n \in 0 .. MSNodes |-> m_val[n]]
  /\ m_pc = [t \in Threads |-> m_pc[t]] /\ m_answer = [t \in Threads |-> m_answer[t]]
  /\ m_my = [t \in Threads |-> m_my[t]]
  /\ \A t \in Threads :
       m_my[t] = [p |-> m_my[t].p, first |-> m_my[t].first, last |-> m_my[t].last,
                  next |-> m_my[t].next, ret |-> m_my[t].ret]

(* A node that nobody has taken yet leads nowhere.                          *)
MFresh == \A n \in 1 .. MSNodes : m_val[n] = NULL => m_next[n] = NULL

(* A node is private to its thread until it is linked.                      *)
MHolds(t) == m_pc[t] \in {"enqTail", "enqNext", "enqCheck", "enqHelp", "link"}

MPrivate ==
  /\ \A t \in Threads : MHolds(t) =>
       /\ m_my[t].p \in 1 .. MSNodes /\ m_val[m_my[t].p] \in Values
       /\ m_next[m_my[t].p] = NULL
  /\ \A t, u \in Threads : MHolds(t) /\ MHolds(u) /\ m_my[t].p = m_my[u].p => t = u
  /\ \A t \in Threads : MHolds(t) \/ m_pc[t] = "swing" => m_answer[t] = NULL

(* What a thread has read: no link that is set changes.                     *)
MHasRead(t) ==
  /\ (m_pc[t] = "enqCheck" /\ m_my[t].next # NULL) \/ m_pc[t] = "enqHelp" =>
       m_my[t].next # NULL /\ m_next[m_my[t].last] = m_my[t].next
  /\ m_pc[t] = "swing" => m_my[t].p # NULL /\ m_next[m_my[t].last] = m_my[t].p
  /\ (m_pc[t] = "deqCheck" /\ m_my[t].next # NULL) \/ m_pc[t] \in {"deqHelp", "unlink"} =>
       m_my[t].next # NULL /\ m_next[m_my[t].first] = m_my[t].next
  /\ (m_pc[t] = "deqCheck" /\ m_my[t].next = NULL) \/ m_pc[t] = "deqHelp" =>
       m_my[t].first = m_my[t].last
  /\ m_pc[t] = "unlink" => m_my[t].first # m_my[t].last

(* The nodes linked so far are q[0], ... q[e]: head is q[h], and tail q[k]. *)
MList(q, e, h, k) ==
  /\ h \in Nat /\ k \in Nat /\ e \in Nat /\ h <= k /\ k <= e /\ e <= k + 1
  /\ IsList(q, e, m_next) /\ IsOf(q, e, MSNodes)
  /\ m_head = q[h] /\ m_tail = q[k] /\ q[0] = 0
  /\ \A i \in 1 .. e : m_val[q[i]] \in Values
  /\ \A t \in Threads : MHolds(t) => \A i \in 0 .. e : q[i] # m_my[t].p

(* A thread has read last after first, and both have only moved on.         *)
MPlaces(q, h, k, t) ==
  /\ m_pc[t] \in {"enqNext", "enqCheck", "enqHelp", "link", "swing"} =>
       \E j \in 0 .. k : q[j] = m_my[t].last
  /\ m_pc[t] = "deqTail" => \E i \in 0 .. h : q[i] = m_my[t].first
  /\ m_pc[t] \in {"deqNext", "deqCheck", "deqHelp", "unlink"} =>
       \E i \in 0 .. h, j \in 0 .. k : i <= j /\ q[i] = m_my[t].first /\ q[j] = m_my[t].last

MQueue(q, e, h, k) == MList(q, e, h, k) /\ \A t \in Threads : MPlaces(q, h, k, t)

MIInv ==
  /\ MTypes /\ MFresh /\ MPrivate /\ \A t \in Threads : MHasRead(t)
  /\ \E q, e, h, k : MQueue(q, e, h, k)

LEMMA MConstants == MSNodes \in Nat /\ NULL \notin Values /\ NULL \notin 0 .. MSNodes
  BY StructuresAssumption DEF M!ConstantsAssumption

LEMMA MInit == M!Init => MIInv
<1>. SUFFICES ASSUME M!Init PROVE MIInv
  OBVIOUS
<1>. USE MConstants
<1>1. MTypes
  BY DEF M!Init, M!Nodes, M!Fresh, MTypes
<1>2. MFresh /\ MPrivate /\ \A t \in Threads : MHasRead(t)
  BY DEF M!Init, M!Nodes, MFresh, MPrivate, MHolds, MHasRead
<1>. DEFINE q == [i \in 0 .. 0 |-> 0]
<1>3. q[0] = 0 /\ \A i \in 0 .. 0 : i = 0
  OBVIOUS
<1>. HIDE DEF q
<1>4. m_next[0] = NULL
  BY DEF M!Init, M!Nodes
<1>5. IsList(q, 0, m_next)
  BY <1>3, <1>4 DEF IsList, IsPath, IsSimple
<1>6. MList(q, 0, 0, 0)
  BY <1>3, <1>5 DEF M!Init, MList, IsOf, MHolds
<1>7. \A t \in Threads : MPlaces(q, 0, 0, t)
  BY DEF M!Init, MPlaces
<1>. QED
  BY <1>1, <1>2, <1>6, <1>7 DEF MIInv, MQueue

(* Of the locals, a step changes those of one thread. *)
MOthersStay(t) ==
  \A u \in Threads : u # t => /\ m_pc'[u] = m_pc[u] /\ m_my'[u] = m_my[u]
                              /\ m_answer'[u] = m_answer[u]

Local(p, first, last, next, ret) ==
  [p |-> p, first |-> first, last |-> last, next |-> next, ret |-> ret]

MMoves(t, to, local, a) ==
  /\ m_pc' = [m_pc EXCEPT ![t] = to] /\ m_my' = [m_my EXCEPT ![t] = local]
  /\ m_answer' = [m_answer EXCEPT ![t] = a]
  /\ m_next' = [n \in 0 .. MSNodes |-> m_next'[n]]
  /\ m_val' = [n \in 0 .. MSNodes |-> m_val'[n]]

LEMMA MTypesKeep ==
  MTypes => \A t \in Threads : \A to, p, first, last, next, ret, a :
    MMoves(t, to, Local(p, first, last, next, ret), a) =>
      /\ MTypes' /\ MOthersStay(t) /\ m_pc'[t] = to /\ m_answer'[t] = a
      /\ m_my'[t].p = p /\ m_my'[t].first = first /\ m_my'[t].last = last
      /\ m_my'[t].next = next /\ m_my'[t].ret = ret
<1>. SUFFICES ASSUME MTypes, NEW t \in Threads, NEW to, NEW p, NEW first, NEW last, NEW next,
                     NEW ret, NEW a, MMoves(t, to, Local(p, first, last, next, ret), a)
              PROVE  /\ MTypes' /\ MOthersStay(t) /\ m_pc'[t] = to /\ m_answer'[t] = a
                     /\ m_my'[t].p = p /\ m_my'[t].first = first /\ m_my'[t].last = last
                     /\ m_my'[t].next = next /\ m_my'[t].ret = ret
  OBVIOUS
<1>. DEFINE my == Local(p, first, last, next, ret)
<1>1. /\ m_pc' = [m_pc EXCEPT ![t] = to] /\ m_my' = [m_my EXCEPT ![t] = my]
      /\ m_answer' = [m_answer EXCEPT ![t] = a]
  BY DEF MMoves
<1>2. /\ my = [p |-> my.p, first |-> my.first, last |-> my.last, next |-> my.next, ret |-> my.ret]
      /\ my.p = p /\ my.first = first /\ my.last = last /\ my.next = next /\ my.ret = ret
  BY DEF Local
<1>. HIDE DEF my
<1>3. /\ m_pc' = [u \in Threads |-> m_pc'[u]] /\ m_my' = [u \in Threads |-> m_my'[u]]
      /\ m_answer' = [u \in Threads |-> m_answer'[u]]
      /\ m_pc'[t] = to /\ m_my'[t] = my /\ m_answer'[t] = a
      /\ \A u \in Threads : u # t => /\ m_pc'[u] = m_pc[u] /\ m_my'[u] = m_my[u]
                                    /\ m_answer'[u] = m_answer[u]
  BY <1>1 DEF MTypes
<1>4. \A u \in Threads :
        m_my'[u] = [p |-> m_my'[u].p, first |-> m_my'[u].first, last |-> m_my'[u].last,
                    next |-> m_my'[u].next, ret |-> m_my'[u].ret]
  BY <1>2, <1>3 DEF MTypes
<1>5. MTypes'
  BY <1>3, <1>4 DEF MTypes, MMoves
<1>. QED
  BY <1>2, <1>3, <1>5 DEF MOthersStay

(* A node stays private where only its thread lets go of it. *)
LEMMA MPrivateStays ==
  ASSUME MTypes, MPrivate, NEW t \in Threads, MOthersStay(t), m_val' = m_val,
         MHolds(t)' => MHolds(t) /\ m_my'[t].p = m_my[t].p,
         MHolds(t)' \/ m_pc'[t] = "swing" => m_answer'[t] = NULL,
         \A u \in Threads : MHolds(u) /\ MHolds(u)' => m_next'[m_my[u].p] = NULL
  PROVE  MPrivate'
<1>1. \A u \in Threads : MHolds(u)' => MHolds(u) /\ m_my'[u].p = m_my[u].p
  BY DEF MOthersStay, MHolds
<1>2. \A u \in Threads : MHolds(u)' \/ m_pc'[u] = "swing" => m_answer'[u] = NULL
  BY DEF MOthersStay, MHolds, MPrivate
<1>3. \A u \in Threads : MHolds(u)' =>
        /\ m_my'[u].p \in 1 .. MSNodes /\ m_val'[m_my'[u].p] \in Values
        /\ m_next'[m_my'[u].p] = NULL
  BY <1>1 DEF MPrivate
<1>4. \A u, v \in Threads : MHolds(u)' /\ MHolds(v)' /\ m_my'[u].p = m_my'[v].p => u = v
  BY <1>1 DEF MPrivate
<1>. QED
  BY <1>2, <1>3, <1>4 DEF MPrivate

(* What the others have read stays true: links are set once, and head, tail *)
(* and the end of the list move on.                                         *)
LEMMA MOthersKeep ==
  ASSUME NEW t \in Threads, MOthersStay(t), NEW u \in Threads, u # t, MHasRead(u),
         \A n : m_next[n] # NULL => m_next'[n] = m_next[n]
  PROVE  MHasRead(u)'
  BY DEF MOthersStay, MHasRead

LEMMA MPlacesStay ==
  ASSUME NEW t \in Threads, MOthersStay(t), NEW u \in Threads, u # t,
         NEW q, NEW r, NEW h \in Nat, NEW k \in Nat, NEW h2 \in Nat, NEW k2 \in Nat, h <= h2, k <= k2, h <= k,
         \A i \in 0 .. k : r[i] = q[i], MPlaces(q, h, k, u)
  PROVE  MPlaces(r, h2, k2, u)'
<1>1. \A i \in 0 .. k : i \in 0 .. k2 /\ r[i] = q[i]
  OBVIOUS
<1>2. \A i \in 0 .. h : i \in 0 .. h2 /\ r[i] = q[i]
  OBVIOUS
<1>. QED
  BY <1>1, <1>2 DEF MPlaces, MOthersStay

LEMMA MKeeps ==
  ASSUME MIInv, NEW t \in Threads, MTypes', MFresh', MOthersStay(t), MPrivate', MHasRead(t)',
         \A n : m_next[n] # NULL => m_next'[n] = m_next[n],
         NEW q, NEW e, NEW h, NEW k, MQueue(q, e, h, k),
         NEW r, NEW e2, NEW h2, NEW k2, MList(r, e2, h2, k2)', MPlaces(r, h2, k2, t)',
         h <= h2, k <= k2, \A i \in 0 .. k : r[i] = q[i]
  PROVE  MIInv' /\ MQueue(r, e2, h2, k2)'
<1>1. \A u \in Threads : MHasRead(u)'
  BY MOthersKeep DEF MIInv
<1>2. h \in Nat /\ k \in Nat /\ h2 \in Nat /\ k2 \in Nat /\ h <= k
  BY DEF MQueue, MList
<1>3. \A u \in Threads : MPlaces(r, h2, k2, u)'
  <2>1. ASSUME NEW u \in Threads, u # t PROVE MPlaces(r, h2, k2, u)'
    <3>1. MPlaces(q, h, k, u)
      BY DEF MQueue
    <3>. QED
      BY <1>2, <2>1, <3>1, MPlacesStay
  <2>. QED
    BY <2>1
<1>4. MQueue(r, e2, h2, k2)'
  BY <1>3 DEF MQueue
<1>. QED
  BY <1>1, <1>4 DEF MIInv

(* Nothing in memory changes but tail. *)
LEMMA MQuietKeeps ==
  ASSUME MIInv, NEW t \in Threads, MTypes', MOthersStay(t),
         m_head' = m_head, m_next' = m_next, m_val' = m_val,
         MHolds(t)' => MHolds(t) /\ m_my'[t].p = m_my[t].p,
         MHolds(t)' \/ m_pc'[t] = "swing" => m_answer'[t] = NULL,
         MHasRead(t)',
         NEW q, NEW e, NEW h, NEW k, MQueue(q, e, h, k), NEW k2, k2 \in k .. e,
         m_tail' = q[k2], MPlaces(q, h, k2, t)'
  PROVE  MIInv'
<1>1. MTypes /\ MPrivate
  BY DEF MIInv
<1>2. MPrivate'
  <2>1. \A u \in Threads : MHolds(u) => m_next'[m_my[u].p] = NULL
    BY <1>1 DEF MPrivate
  <2>. QED
    BY <1>1, <2>1, MPrivateStays
<1>3. MList(q, e, h, k2)'
  <2>1. \A u \in Threads : MHolds(u)' => \A i \in 0 .. e : q[i] # m_my'[u].p
    BY DEF MQueue, MList, MOthersStay, MHolds
  <2>2. h \in Nat /\ k2 \in Nat /\ e \in Nat /\ h <= k2 /\ k2 <= e /\ e <= k2 + 1
    BY DEF MQueue, MList
  <2>3. IsList(q, e, m_next') /\ IsOf(q, e, MSNodes)
    BY DEF MQueue, MList
  <2>. QED
    BY <2>1, <2>2, <2>3 DEF MQueue, MList, IsList, IsPath, IsOf
<1>4. h <= h /\ k <= k2
  BY DEF MQueue, MList
<1>5. MFresh'
  BY DEF MIInv, MFresh
<1>. QED
  BY <1>2, <1>3, <1>4, <1>5, MKeeps
(* The reads of the enqueue. *)
LEMMA MEnqReads ==
  ASSUME MIInv, NEW t \in Threads, M!EnqReadTail(t) \/ M!EnqReadNext(t) \/ M!EnqCheck(t)
  PROVE  MIInv' /\ MOthersStay(t) /\ MHolds(t) /\ MHolds(t)' /\ m_my'[t].p = m_my[t].p
         /\ UNCHANGED <<m_head, m_next, m_val, m_answer>>
<1>. USE DEF M!EnqReadTail, M!EnqReadNext, M!EnqCheck, M!Goto, M!mem
<1>. DEFINE my == m_my[t]
<1>1. MTypes /\ MPrivate /\ MHasRead(t)
  BY DEF MIInv
<1>2. my = [p |-> my.p, first |-> my.first, last |-> my.last, next |-> my.next, ret |-> my.ret]
  BY <1>1 DEF MTypes
<1>3. UNCHANGED <<m_head, m_tail, m_next, m_val, m_answer>>
  OBVIOUS
<1>4. m_next' = [n \in 0 .. MSNodes |-> m_next'[n]] /\ m_val' = [n \in 0 .. MSNodes |-> m_val'[n]]
      /\ m_answer' = [m_answer EXCEPT ![t] = m_answer[t]]
  BY <1>1, <1>3 DEF MTypes
<1>5. PICK q, e, h, k : MQueue(q, e, h, k)
  BY DEF MIInv
<1>6. m_tail' = q[k] /\ k \in k .. e /\ 0 \in 0 .. k /\ k \in 0 .. k
  BY <1>3, <1>5 DEF MQueue, MList
<1>7. MPlaces(q, h, k, t)
  BY <1>5 DEF MQueue
<1>8. MHolds(t) /\ m_answer[t] = NULL
  BY <1>1 DEF MHolds, MPrivate
<1>9. CASE M!EnqReadTail(t)
  <2>1. [my EXCEPT !.last = m_tail] = Local(my.p, my.first, m_tail, my.next, my.ret)
    BY <1>2 DEF Local
  <2>2. MMoves(t, "enqNext", Local(my.p, my.first, m_tail, my.next, my.ret), m_answer[t])
    BY <1>4, <1>9, <2>1 DEF MMoves
  <2>3. MTypes' /\ MOthersStay(t) /\ m_pc'[t] = "enqNext" /\ m_my'[t].p = my.p
        /\ m_my'[t].last = m_tail
    BY ONLY <1>1, <2>2, t \in Threads, MTypesKeep
  <2>4. MHasRead(t)' /\ MHolds(t)'
    BY <2>3 DEF MHasRead, MHolds
  <2>5. MPlaces(q, h, k, t)'
    BY <1>3, <1>6, <2>3 DEF MPlaces
  <2>. QED
    BY <1>3, <1>5, <1>6, <1>8, <2>3, <2>4, <2>5, MQuietKeeps
<1>10. CASE M!EnqReadNext(t)
  <2>1. [my EXCEPT !.next = m_next[my.last]]
          = Local(my.p, my.first, my.last, m_next[my.last], my.ret)
    BY <1>2 DEF Local
  <2>2. MMoves(t, "enqCheck", Local(my.p, my.first, my.last, m_next[my.last], my.ret),
               m_answer[t])
    BY <1>4, <1>10, <2>1 DEF MMoves
  <2>3. MTypes' /\ MOthersStay(t) /\ m_pc'[t] = "enqCheck" /\ m_my'[t].p = my.p
        /\ m_my'[t].last = my.last /\ m_my'[t].next = m_next[my.last]
    BY ONLY <1>1, <2>2, t \in Threads, MTypesKeep
  <2>4. MHasRead(t)' /\ MHolds(t)'
    BY <1>3, <2>3 DEF MHasRead, MHolds
  <2>5. MPlaces(q, h, k, t)'
    BY <1>7, <1>10, <2>3 DEF MPlaces
  <2>. QED
    BY <1>3, <1>5, <1>6, <1>8, <2>3, <2>4, <2>5, MQuietKeeps
<1>11. CASE M!EnqCheck(t) /\ my.last = m_tail
  <2>. DEFINE to == IF my.next = NULL THEN "link" ELSE "enqHelp"
  <2>1. my = Local(my.p, my.first, my.last, my.next, my.ret)
    BY <1>2 DEF Local
  <2>2. MMoves(t, to, Local(my.p, my.first, my.last, my.next, my.ret), m_answer[t])
    BY <1>4, <1>11, <2>1 DEF MMoves
  <2>3. MTypes' /\ MOthersStay(t) /\ m_pc'[t] = to /\ m_my'[t].p = my.p
        /\ m_my'[t].last = my.last /\ m_my'[t].next = my.next
    BY ONLY <1>1, <2>2, t \in Threads, MTypesKeep
  <2>4. MHasRead(t)' /\ MHolds(t)'
    BY <1>1, <1>3, <1>11, <2>3 DEF MHasRead, MHolds
  <2>5. MPlaces(q, h, k, t)'
    BY <1>7, <1>11, <2>3 DEF MPlaces
  <2>. QED
    BY <1>3, <1>5, <1>6, <1>8, <2>3, <2>4, <2>5, MQuietKeeps
<1>12. CASE M!EnqCheck(t) /\ my.last # m_tail
  <2>1. M!Again(t) = Local(my.p, NULL, NULL, NULL, NULL)
    BY DEF M!Again, M!Fresh, Local
  <2>2. MMoves(t, "enqTail", Local(my.p, NULL, NULL, NULL, NULL), m_answer[t])
    BY <1>4, <1>12, <2>1 DEF MMoves
  <2>3. MTypes' /\ MOthersStay(t) /\ m_pc'[t] = "enqTail" /\ m_my'[t].p = my.p
    BY ONLY <1>1, <2>2, t \in Threads, MTypesKeep
  <2>4. MHasRead(t)' /\ MHolds(t)' /\ MPlaces(q, h, k, t)'
    BY <2>3 DEF MHasRead, MHolds, MPlaces
  <2>. QED
    BY <1>3, <1>5, <1>6, <1>8, <2>3, <2>4, MQuietKeeps
<1>. QED
  BY <1>9, <1>10, <1>11, <1>12

(* A CAS on tail moves it to the end of the list, if at all. *)
LEMMA MTailMoves ==
  ASSUME NEW q, NEW e, NEW h, NEW k, MList(q, e, h, k), NEW j \in 0 .. k, NEW x,
         x # NULL, m_next[q[j]] = x
  PROVE  \E k2 \in k .. e : M!Swapped(m_tail, q[j], x) = q[k2]
<1>1. h \in Nat /\ k \in Nat /\ e \in Nat /\ k <= e /\ m_tail = q[k] /\ IsList(q, e, m_next)
  BY DEF MList
<1>2. CASE m_tail # q[j]
  BY <1>1, <1>2 DEF M!Swapped
<1>3. CASE m_tail = q[j]
  <2>1. j \in 0 .. e /\ k \in 0 .. e
    BY <1>1
  <2>2. j = k
    BY <1>1, <1>3, <2>1 DEF IsList, IsSimple
  <2>3. m_next[q[k]] = IF k = e THEN NULL ELSE q[k + 1]
    BY <1>1, <2>1, ListLinks
  <2>4. k + 1 \in k .. e /\ x = q[k + 1]
    BY <1>1, <2>2, <2>3
  <2>. QED
    BY <1>3, <2>4 DEF M!Swapped
<1>. QED
  BY <1>2, <1>3

(* The steps that move a lagging tail. *)
LEMMA MTailKeeps ==
  ASSUME MIInv, NEW t \in Threads, M!EnqHelp(t) \/ M!DeqHelp(t) \/ M!SwingTail(t)
  PROVE  MIInv' /\ MOthersStay(t) /\ UNCHANGED <<m_head, m_next, m_val, m_answer>>
         /\ (M!EnqHelp(t) => m_pc'[t] = "enqTail" /\ m_my'[t].p = m_my[t].p)
         /\ (M!DeqHelp(t) => m_pc'[t] = "deqHead") /\ (M!SwingTail(t) => m_pc'[t] = "out")
<1>. USE DEF M!EnqHelp, M!DeqHelp, M!SwingTail, M!Goto, M!mem, M!Again, M!Fresh
<1>. DEFINE my == m_my[t]
            to == IF M!EnqHelp(t) THEN "enqTail" ELSE IF M!DeqHelp(t) THEN "deqHead" ELSE "out"
            x == IF M!SwingTail(t) THEN my.p ELSE my.next
<1>1. MTypes /\ MPrivate /\ MHasRead(t)
  BY DEF MIInv
<1>2. UNCHANGED <<m_head, m_next, m_val, m_answer>> /\ m_tail' = M!Swapped(m_tail, my.last, x)
  OBVIOUS
<1>3. m_next' = [n \in 0 .. MSNodes |-> m_next'[n]] /\ m_val' = [n \in 0 .. MSNodes |-> m_val'[n]]
      /\ m_answer' = [m_answer EXCEPT ![t] = m_answer[t]]
  BY <1>1, <1>2 DEF MTypes
<1>. DEFINE p == IF M!EnqHelp(t) THEN my.p ELSE NULL
<1>4. m_my' = [m_my EXCEPT ![t] = Local(p, NULL, NULL, NULL, NULL)]
  BY DEF Local
<1>5. MMoves(t, to, Local(p, NULL, NULL, NULL, NULL), m_answer[t])
  BY <1>3, <1>4 DEF MMoves
<1>6. MTypes' /\ MOthersStay(t) /\ m_pc'[t] = to /\ m_my'[t].p = p
  <2>. HIDE DEF to, p
  <2>. QED
    BY ONLY <1>1, <1>5, t \in Threads, MTypesKeep
<1>7. PICK q, e, h, k : MQueue(q, e, h, k)
  BY DEF MIInv
<1>8. x # NULL /\ m_next[my.last] = x /\ \E j \in 0 .. k : q[j] = my.last
  <2>1. MPlaces(q, h, k, t)
    BY <1>7 DEF MQueue
  <2>. QED
    BY <1>1, <2>1 DEF MHasRead, MPlaces
<1>9. PICK k2 \in k .. e : m_tail' = q[k2]
  <2>1. PICK j \in 0 .. k : q[j] = my.last
    BY <1>8
  <2>2. MList(q, e, h, k) /\ m_next[q[j]] = x /\ x # NULL
    BY <1>7, <1>8, <2>1 DEF MQueue
  <2>. HIDE DEF x
  <2>3. \E k2 \in k .. e : M!Swapped(m_tail, q[j], x) = q[k2]
    BY ONLY <2>2, j \in 0 .. k, MTailMoves
  <2>. QED
    BY <1>2, <2>1, <2>3
<1>10. MHasRead(t)' /\ MPlaces(q, h, k2, t)'
  BY <1>6 DEF MHasRead, MPlaces
<1>11. /\ MHolds(t)' => MHolds(t) /\ m_my'[t].p = m_my[t].p
       /\ MHolds(t)' \/ m_pc'[t] = "swing" => m_answer'[t] = NULL
  BY <1>1, <1>2, <1>6 DEF MHolds, MPrivate
<1>12. MIInv'
  <2>. HIDE DEF to, x, p
  <2>. QED
    BY ONLY <1>2, <1>6, <1>7, <1>9, <1>10, <1>11, MIInv, t \in Threads, MQuietKeeps
<1>. QED
  BY <1>2, <1>6, <1>12
(* The reads of the dequeue; what it reads of next tells whether the nodes  *)
(* it has read are one and the same.                                        *)
LEMMA MDeqReads ==
  ASSUME MIInv, NEW t \in Threads, M!DeqReadHead(t) \/ M!DeqReadTail(t) \/ M!DeqReadNext(t)
  PROVE  MIInv' /\ MOthersStay(t) /\ UNCHANGED <<m_head, m_next, m_val, m_answer>>
         /\ m_pc'[t] \in {"deqTail", "deqNext", "deqCheck"}
         /\ (M!DeqReadNext(t) => m_pc'[t] = "deqCheck" /\ m_my'[t].first = m_my[t].first
                                 /\ m_my'[t].next = m_next[m_my[t].first])
         /\ (~M!DeqReadNext(t) => m_pc'[t] # "deqCheck")
<1>. USE DEF M!DeqReadHead, M!DeqReadTail, M!DeqReadNext, M!Goto, M!mem
<1>. DEFINE my == m_my[t]
<1>1. MTypes /\ MPrivate /\ MHasRead(t)
  BY DEF MIInv
<1>2. my = [p |-> my.p, first |-> my.first, last |-> my.last, next |-> my.next, ret |-> my.ret]
  BY <1>1 DEF MTypes
<1>3. UNCHANGED <<m_head, m_tail, m_next, m_val, m_answer>>
  OBVIOUS
<1>4. m_next' = [n \in 0 .. MSNodes |-> m_next'[n]] /\ m_val' = [n \in 0 .. MSNodes |-> m_val'[n]]
      /\ m_answer' = [m_answer EXCEPT ![t] = m_answer[t]]
  BY <1>1, <1>3 DEF MTypes
<1>5. PICK q, e, h, k : MQueue(q, e, h, k)
  BY DEF MIInv
<1>6. /\ m_tail' = q[k] /\ k \in k .. e /\ h \in 0 .. h /\ k \in 0 .. k
      /\ \A i \in 0 .. h : i <= k
      /\ m_head = q[h] /\ m_tail = q[k] /\ IsList(q, e, m_next)
      /\ \A i \in 0 .. k : i \in 0 .. e /\ (i = e => i = k)
      /\ \A i \in 0 .. h : i \in 0 .. e
  BY <1>3, <1>5 DEF MQueue, MList
<1>7. MPlaces(q, h, k, t)
  BY <1>5 DEF MQueue
<1>8. CASE M!DeqReadHead(t)
  <2>1. [my EXCEPT !.first = m_head] = Local(my.p, m_head, my.last, my.next, my.ret)
    BY <1>2 DEF Local
  <2>2. MMoves(t, "deqTail", Local(my.p, m_head, my.last, my.next, my.ret), m_answer[t])
    BY <1>4, <1>8, <2>1 DEF MMoves
  <2>3. MTypes' /\ MOthersStay(t) /\ m_pc'[t] = "deqTail" /\ m_my'[t].first = m_head
    BY ONLY <1>1, <2>2, t \in Threads, MTypesKeep
  <2>4. MHasRead(t)' /\ ~MHolds(t)'
    BY <2>3 DEF MHasRead, MHolds
  <2>5. MPlaces(q, h, k, t)'
    BY <1>6, <2>3 DEF MPlaces
  <2>6. MIInv'
    BY <1>3, <1>5, <1>6, <2>3, <2>4, <2>5, MQuietKeeps
  <2>. QED
    BY <1>3, <1>8, <2>3, <2>6
<1>9. CASE M!DeqReadTail(t)
  <2>1. [my EXCEPT !.last = m_tail] = Local(my.p, my.first, m_tail, my.next, my.ret)
    BY <1>2 DEF Local
  <2>2. MMoves(t, "deqNext", Local(my.p, my.first, m_tail, my.next, my.ret), m_answer[t])
    BY <1>4, <1>9, <2>1 DEF MMoves
  <2>3. MTypes' /\ MOthersStay(t) /\ m_pc'[t] = "deqNext" /\ m_my'[t].first = my.first
        /\ m_my'[t].last = m_tail
    BY ONLY <1>1, <2>2, t \in Threads, MTypesKeep
  <2>4. MHasRead(t)' /\ ~MHolds(t)'
    BY <2>3 DEF MHasRead, MHolds
  <2>5. MPlaces(q, h, k, t)'
    <3>1. PICK i \in 0 .. h : q[i] = my.first
      BY <1>7, <1>9 DEF MPlaces
    <3>. QED
      BY <1>6, <2>3, <3>1 DEF MPlaces
  <2>6. MIInv'
    BY <1>3, <1>5, <1>6, <2>3, <2>4, <2>5, MQuietKeeps
  <2>. QED
    BY <1>3, <1>9, <2>3, <2>6
<1>10. CASE M!DeqReadNext(t)
  <2>. DEFINE x == m_next[my.first]
  <2>1. [my EXCEPT !.next = x] = Local(my.p, my.first, my.last, x, my.ret)
    BY <1>2 DEF Local
  <2>2. MMoves(t, "deqCheck", Local(my.p, my.first, my.last, x, my.ret), m_answer[t])
    BY <1>4, <1>10, <2>1 DEF MMoves
  <2>3. MTypes' /\ MOthersStay(t) /\ m_pc'[t] = "deqCheck" /\ m_my'[t].first = my.first
        /\ m_my'[t].last = my.last /\ m_my'[t].next = x
    BY ONLY <1>1, <2>2, t \in Threads, MTypesKeep
  <2>4. PICK i \in 0 .. h, j \in 0 .. k : i <= j /\ q[i] = my.first /\ q[j] = my.last
    BY <1>7, <1>10 DEF MPlaces
  <2>5. x = NULL => my.first = my.last
    <3>1. m_next[q[i]] = IF i = e THEN NULL ELSE q[i + 1]
      BY <1>6, ListLinks
    <3>2. i # e => i + 1 \in 0 .. e
      BY <1>6 DEF IsList
    <3>3. i # e => q[i + 1] # NULL
      BY <1>6, <3>2, ListLinks
    <3>4. i = e => i = j
      BY <1>6, <2>4 DEF IsList
    <3>. QED
      BY <2>4, <3>1, <3>3, <3>4
  <2>6. MHasRead(t)' /\ ~MHolds(t)'
    BY <1>3, <2>3, <2>5 DEF MHasRead, MHolds
  <2>7. MPlaces(q, h, k, t)'
    BY <2>3, <2>4 DEF MPlaces
  <2>8. MIInv'
    BY <1>3, <1>5, <1>6, <2>3, <2>6, <2>7, MQuietKeeps
  <2>. QED
    BY <1>3, <1>10, <2>3, <2>8
<1>. QED
  BY <1>8, <1>9, <1>10

LEMMA MDeqCheckKeeps ==
  ASSUME MIInv, NEW t \in Threads, M!DeqCheck(t)
  PROVE  MIInv' /\ MOthersStay(t) /\ UNCHANGED <<m_head, m_next, m_val, m_answer>>
         /\ \/ m_pc'[t] \in {"deqHead", "deqHelp", "unlink"}
               /\ (m_my[t].first # m_head \/ m_my[t].next # NULL)
            \/ m_pc'[t] = "return" /\ m_my'[t].ret = EMPTY_QUEUE
               /\ m_my[t].first = m_head /\ m_my[t].next = NULL
<1>. DEFINE my == m_my[t]
            same == my.first = my.last
            empty == my.first = m_head /\ same /\ my.next = NULL
<1>0. /\ m_pc[t] = "deqCheck" /\ UNCHANGED <<m_head, m_tail, m_next, m_val, m_answer>>
      /\ m_pc' = [m_pc EXCEPT ![t] = IF my.first # m_head THEN "deqHead"
                                     ELSE IF empty THEN "return"
                                     ELSE IF same THEN "deqHelp" ELSE "unlink"]
      /\ m_my' = [m_my EXCEPT ![t] = IF empty THEN [M!Fresh EXCEPT !.ret = EMPTY_QUEUE]
                                     ELSE IF my.first # m_head THEN M!Fresh ELSE @]
  BY DEF M!DeqCheck, M!Goto, M!mem
<1>1. MTypes /\ MPrivate /\ MHasRead(t)
  BY DEF MIInv
<1>2. my = Local(my.p, my.first, my.last, my.next, my.ret)
  BY <1>1 DEF MTypes, Local
<1>4. m_next' = [n \in 0 .. MSNodes |-> m_next'[n]] /\ m_val' = [n \in 0 .. MSNodes |-> m_val'[n]]
      /\ m_answer' = [m_answer EXCEPT ![t] = m_answer[t]]
  BY <1>0, <1>1 DEF MTypes
<1>5. PICK q, e, h, k : MQueue(q, e, h, k)
  BY DEF MIInv
<1>6. m_tail' = q[k] /\ k \in k .. e /\ MPlaces(q, h, k, t)
  BY <1>0, <1>5 DEF MQueue, MList
<1>7. my.next = NULL => same
  BY <1>0, <1>1 DEF MHasRead
<1>8. CASE my.first # m_head
  <2>1. M!Fresh = Local(NULL, NULL, NULL, NULL, NULL)
    BY DEF M!Fresh, Local
  <2>2. MMoves(t, "deqHead", Local(NULL, NULL, NULL, NULL, NULL), m_answer[t])
    BY <1>0, <1>4, <1>8, <2>1 DEF MMoves
  <2>3. MTypes' /\ MOthersStay(t) /\ m_pc'[t] = "deqHead"
    BY ONLY <1>1, <2>2, t \in Threads, MTypesKeep
  <2>4. MHasRead(t)' /\ ~MHolds(t)' /\ MPlaces(q, h, k, t)'
    BY <2>3 DEF MHasRead, MHolds, MPlaces
  <2>5. MIInv'
    BY <1>0, <1>5, <1>6, <2>3, <2>4, MQuietKeeps
  <2>. QED
    BY <1>0, <1>8, <2>3, <2>5
<1>9. CASE empty
  <2>1. [M!Fresh EXCEPT !.ret = EMPTY_QUEUE] = Local(NULL, NULL, NULL, NULL, EMPTY_QUEUE)
    BY DEF M!Fresh, Local
  <2>2. MMoves(t, "return", Local(NULL, NULL, NULL, NULL, EMPTY_QUEUE), m_answer[t])
    BY <1>0, <1>4, <1>9, <2>1 DEF MMoves
  <2>3. MTypes' /\ MOthersStay(t) /\ m_pc'[t] = "return" /\ m_my'[t].ret = EMPTY_QUEUE
    BY ONLY <1>1, <2>2, t \in Threads, MTypesKeep
  <2>4. MHasRead(t)' /\ ~MHolds(t)' /\ MPlaces(q, h, k, t)'
    BY <2>3 DEF MHasRead, MHolds, MPlaces
  <2>5. MIInv'
    BY <1>0, <1>5, <1>6, <2>3, <2>4, MQuietKeeps
  <2>. QED
    BY <1>0, <1>9, <2>3, <2>5
<1>10. CASE my.first = m_head /\ ~empty
  <2>. DEFINE to == IF same THEN "deqHelp" ELSE "unlink"
  <2>1. MMoves(t, to, Local(my.p, my.first, my.last, my.next, my.ret), m_answer[t])
    BY <1>0, <1>2, <1>4, <1>10 DEF MMoves
  <2>2. MTypes' /\ MOthersStay(t) /\ m_pc'[t] = to /\ m_my'[t].first = my.first
        /\ m_my'[t].last = my.last /\ m_my'[t].next = my.next
    BY ONLY <1>1, <2>1, t \in Threads, MTypesKeep
  <2>3. my.next # NULL /\ m_next[my.first] = my.next
    BY <1>0, <1>1, <1>7, <1>10 DEF MHasRead
  <2>4. MHasRead(t)' /\ ~MHolds(t)'
    BY <1>0, <2>2, <2>3 DEF MHasRead, MHolds
  <2>5. MPlaces(q, h, k, t)'
    BY <1>0, <1>6, <2>2 DEF MPlaces
  <2>6. MIInv'
    BY <1>0, <1>5, <1>6, <2>2, <2>4, <2>5, MQuietKeeps
  <2>. QED
    BY <1>0, <2>2, <2>3, <2>6
<1>. QED
  BY <1>8, <1>9, <1>10

(* A CAS that fails, the call of a dequeue, and the returns. *)
LEMMA MFailKeeps ==
  ASSUME MIInv, NEW t \in Threads,
         \/ M!LinkNode(t) /\ m_next[m_my[t].last] # NULL
         \/ M!Unlink(t) /\ m_head # m_my[t].first
         \/ M!Dequeue(t) \/ M!Return(t)
  PROVE  MIInv' /\ MOthersStay(t) /\ UNCHANGED <<m_head, m_next, m_val>>
         /\ (M!LinkNode(t) => m_pc'[t] = "enqTail" /\ m_my'[t].p = m_my[t].p
                              /\ m_answer' = m_answer)
         /\ (M!Unlink(t) => m_pc'[t] = "deqHead" /\ m_answer' = m_answer)
         /\ (M!Dequeue(t) => m_pc'[t] = "deqHead" /\ m_answer' = [m_answer EXCEPT ![t] = NULL])
         /\ (M!Return(t) => m_pc'[t] = "out"
                            /\ m_answer' = [m_answer EXCEPT ![t] = m_my[t].ret])
<1>. DEFINE my == m_my[t]
<1>1. MTypes /\ MPrivate /\ MHasRead(t)
  BY DEF MIInv
<1>2. my = Local(my.p, my.first, my.last, my.next, my.ret)
  BY <1>1 DEF MTypes, Local
<1>3. PICK q, e, h, k : MQueue(q, e, h, k)
  BY DEF MIInv
<1>4. m_tail = q[k] /\ k \in k .. e
  BY <1>3 DEF MQueue, MList
<1>5. m_next = [n \in 0 .. MSNodes |-> m_next[n]] /\ m_val = [n \in 0 .. MSNodes |-> m_val[n]]
      /\ m_answer = [m_answer EXCEPT ![t] = m_answer[t]]
  BY <1>1 DEF MTypes
<1>6. CASE M!LinkNode(t) /\ m_next[my.last] # NULL
  <2>0. /\ m_pc[t] = "link" /\ m_pc' = [m_pc EXCEPT ![t] = "enqTail"]
        /\ m_next' = [m_next EXCEPT ![my.last] = m_next[my.last]]
        /\ m_my' = [m_my EXCEPT ![t] = M!Again(t)]
        /\ UNCHANGED <<m_head, m_tail, m_val, m_answer>>
    BY <1>6 DEF M!LinkNode, M!Goto, M!Swapped
  <2>1. m_next' = m_next
    BY <1>5, <2>0
  <2>2. M!Again(t) = Local(my.p, NULL, NULL, NULL, NULL)
    BY DEF M!Again, M!Fresh, Local
  <2>3. MMoves(t, "enqTail", Local(my.p, NULL, NULL, NULL, NULL), m_answer[t])
    BY <1>5, <2>0, <2>1, <2>2 DEF MMoves
  <2>4. MTypes' /\ MOthersStay(t) /\ m_pc'[t] = "enqTail" /\ m_my'[t].p = my.p
    BY ONLY <1>1, <2>3, t \in Threads, MTypesKeep
  <2>5. MHasRead(t)' /\ MPlaces(q, h, k, t)'
    BY <2>4 DEF MHasRead, MPlaces
  <2>6. MHolds(t) /\ m_answer'[t] = NULL
    BY <1>1, <2>0 DEF MHolds, MPrivate
  <2>7. MIInv'
    BY <1>3, <1>4, <2>0, <2>1, <2>4, <2>5, <2>6, MQuietKeeps
  <2>. QED
    BY <1>6, <2>0, <2>1, <2>4, <2>7 DEF M!Unlink, M!Dequeue, M!Return, M!Goto
<1>7. CASE \/ M!Unlink(t) /\ m_head # my.first
           \/ M!Dequeue(t) \/ M!Return(t)
  <2>. DEFINE to == IF M!Return(t) THEN "out" ELSE "deqHead"
              a == IF M!Unlink(t) THEN m_answer[t] ELSE IF M!Return(t) THEN my.ret ELSE NULL
  <2>0. /\ m_pc[t] \in {"unlink", "out", "return"} /\ m_pc' = [m_pc EXCEPT ![t] = to]
        /\ (M!Return(t) => ~M!Unlink(t))
        /\ UNCHANGED <<m_head, m_tail, m_val, m_next>>
        /\ m_answer' = [m_answer EXCEPT ![t] = a]
    BY <1>5, <1>7 DEF M!Unlink, M!Dequeue, M!Return, M!Goto, M!mem, M!Swapped
  <2>1. PICK l : m_my' = [m_my EXCEPT ![t] = l] /\ (l = my \/ l = Local(NULL, NULL, NULL, NULL, NULL))
    <3>1. CASE M!Unlink(t)
      <4>1. [M!Fresh EXCEPT !.ret = NULL] = Local(NULL, NULL, NULL, NULL, NULL)
        BY DEF M!Fresh, Local
      <4>2. m_my' = [m_my EXCEPT ![t] = [M!Fresh EXCEPT !.ret = NULL]]
        BY <1>7, <3>1 DEF M!Unlink, M!Dequeue, M!Return, M!Goto
      <4>. QED
        BY <4>1, <4>2
    <3>2. CASE M!Dequeue(t)
      <4>1. m_my' = [m_my EXCEPT ![t] = my]
        BY <1>1, <3>2 DEF M!Dequeue, MTypes
      <4>. QED
        BY <4>1
    <3>3. CASE M!Return(t)
      BY <3>3 DEF M!Return, M!Fresh, Local
    <3>. QED
      BY <1>7, <3>1, <3>2, <3>3
  <2>2. PICK p, first, last, next, ret : l = Local(p, first, last, next, ret)
    BY <1>2, <2>1
  <2>3. MMoves(t, to, Local(p, first, last, next, ret), a)
    BY <1>5, <2>0, <2>1, <2>2 DEF MMoves
  <2>4. MTypes' /\ MOthersStay(t) /\ m_pc'[t] = to
    <3>. HIDE DEF to, a
    <3>. QED
      BY ONLY <1>1, <2>3, t \in Threads, MTypesKeep
  <2>5. MHasRead(t)' /\ MPlaces(q, h, k, t)' /\ ~MHolds(t)'
    BY <2>4 DEF MHasRead, MPlaces, MHolds
  <2>6. MIInv'
    BY <1>3, <1>4, <2>0, <2>4, <2>5, MQuietKeeps
  <2>7. ~M!LinkNode(t) /\ (M!Unlink(t) => m_answer' = m_answer) /\ (M!Dequeue(t) => ~M!Return(t) /\ ~M!Unlink(t))
    BY <1>5, <2>0 DEF M!LinkNode, M!Dequeue, M!Return, M!Unlink, M!Goto
  <2>. QED
    BY <2>0, <2>4, <2>6, <2>7
<1>. QED
  BY <1>6, <1>7
(* A new node takes its value; the list does not know it. *)
LEMMA MEnqueueKeeps ==
  ASSUME MIInv, NEW t \in Threads, NEW v \in Values, M!Enqueue(t, v)
  PROVE  MIInv' /\ MOthersStay(t) /\ UNCHANGED <<m_head, m_next>>
         /\ m_pc[t] = "out" /\ m_pc'[t] = "enqTail" /\ m_val'[m_my'[t].p] = v
         /\ (\A n : m_val[n] \in Values => m_val'[n] = m_val[n])
         /\ m_answer' = [m_answer EXCEPT ![t] = NULL]
         /\ \E q, e, h, k : MQueue(q, e, h, k) /\ MQueue(q, e, h, k)'
<1>. USE MConstants
<1>. DEFINE my == m_my[t]
<1>1. MTypes /\ MPrivate
  BY DEF MIInv
<1>2. my = [p |-> my.p, first |-> my.first, last |-> my.last, next |-> my.next, ret |-> my.ret]
  BY <1>1 DEF MTypes
<1>3. PICK n \in 1 .. MSNodes :
        /\ m_val[n] = NULL /\ m_val' = [m_val EXCEPT ![n] = v]
        /\ m_my' = [m_my EXCEPT ![t].p = n]
  <2>1. PICK n \in M!Nodes \ {0} :
          /\ m_val[n] = NULL /\ m_val' = [m_val EXCEPT ![n] = v]
          /\ m_my' = [m_my EXCEPT ![t].p = n]
    BY DEF M!Enqueue
  <2>2. n \in 1 .. MSNodes
    BY DEF M!Nodes
  <2>. QED
    BY <2>1, <2>2
<1>4. /\ m_pc[t] = "out" /\ m_pc' = [m_pc EXCEPT ![t] = "enqTail"]
      /\ m_answer' = [m_answer EXCEPT ![t] = NULL] /\ UNCHANGED <<m_head, m_tail, m_next>>
  BY DEF M!Enqueue, M!Goto
<1>5. m_next' = [i \in 0 .. MSNodes |-> m_next'[i]] /\ m_val' = [i \in 0 .. MSNodes |-> m_val'[i]]
  BY <1>1, <1>3, <1>4 DEF MTypes
<1>6. m_val'[n] = v /\ \A i : i # n => m_val'[i] = m_val[i]
  BY <1>1, <1>3 DEF MTypes
<1>7. [my EXCEPT !.p = n] = Local(n, my.first, my.last, my.next, my.ret)
  BY <1>2 DEF Local
<1>8. MMoves(t, "enqTail", Local(n, my.first, my.last, my.next, my.ret), NULL)
  BY <1>3, <1>4, <1>5, <1>7 DEF MMoves
<1>9. MTypes' /\ MOthersStay(t) /\ m_pc'[t] = "enqTail" /\ m_my'[t].p = n /\ m_answer'[t] = NULL
  BY ONLY <1>1, <1>8, t \in Threads, MTypesKeep
<1>10. PICK q, e, h, k : MQueue(q, e, h, k)
  BY DEF MIInv
<1>11. \A i \in 0 .. e : q[i] # n /\ m_val'[q[i]] = m_val[q[i]]
  <2>1. \A i \in 0 .. e : i = 0 \/ i \in 1 .. e
    BY <1>10 DEF MQueue, MList
  <2>2. \A i \in 0 .. e : q[i] # n
    BY <1>3, <1>10, <2>1 DEF MQueue, MList
  <2>. QED
    BY <1>6, <2>2
<1>12. m_next[n] = NULL
  <2>1. n \in 0 .. MSNodes /\ m_next = [i \in 0 .. MSNodes |-> m_next[i]]
    BY <1>1 DEF MTypes
  <2>. QED
    BY <1>1, <1>3, <2>1 DEF MIInv, MFresh
<1>13. \A u \in Threads : MHolds(u) => m_my[u].p # n
  BY <1>1, <1>3 DEF MPrivate
<1>14. \A u \in Threads : u # t => (MHolds(u)' <=> MHolds(u)) /\ m_my'[u].p = m_my[u].p
  BY <1>9 DEF MOthersStay, MHolds
<1>15. MPrivate'
  <2>1. \A u \in Threads : MHolds(u)' =>
          /\ m_my'[u].p \in 1 .. MSNodes /\ m_val'[m_my'[u].p] \in Values
          /\ m_next'[m_my'[u].p] = NULL
    BY <1>1, <1>4, <1>6, <1>9, <1>12, <1>13, <1>14 DEF MPrivate
  <2>2. \A u, w \in Threads : MHolds(u)' /\ MHolds(w)' /\ m_my'[u].p = m_my'[w].p => u = w
    BY <1>1, <1>9, <1>13, <1>14 DEF MPrivate
  <2>3. \A u \in Threads : MHolds(u)' \/ m_pc'[u] = "swing" => m_answer'[u] = NULL
    BY <1>1, <1>9 DEF MPrivate, MOthersStay, MHolds
  <2>. QED
    BY <2>1, <2>2, <2>3 DEF MPrivate
<1>16. MHasRead(t)'
  BY <1>9 DEF MHasRead
<1>17. MFresh'
  BY <1>4, <1>6 DEF MIInv, MFresh
<1>18. MList(q, e, h, k)'
  <2>1. /\ h \in Nat /\ k \in Nat /\ e \in Nat /\ h <= k /\ k <= e /\ e <= k + 1
        /\ IsList(q, e, m_next) /\ IsOf(q, e, MSNodes)
        /\ m_head = q[h] /\ m_tail = q[k] /\ q[0] = 0
        /\ \A i \in 1 .. e : m_val[q[i]] \in Values
        /\ \A u \in Threads : MHolds(u) => \A i \in 0 .. e : q[i] # m_my[u].p
    BY <1>10 DEF MQueue, MList
  <2>2. \A u \in Threads : MHolds(u)' => \A i \in 0 .. e : q[i] # m_my'[u].p
    BY <1>9, <1>11, <1>14, <2>1
  <2>3. \A i \in 1 .. e : m_val'[q[i]] \in Values
    BY <1>11, <2>1
  <2>. QED
    BY <1>4, <2>1, <2>2, <2>3 DEF MList, IsList, IsPath, IsOf
<1>19. MPlaces(q, h, k, t)'
  BY <1>9 DEF MPlaces
<1>20. h <= h /\ k <= k /\ \A i \in 0 .. k : q[i] = q[i]
  BY <1>10 DEF MQueue, MList
<1>21. \A i : m_next[i] # NULL => m_next'[i] = m_next[i]
  BY <1>4
<1>22. MIInv' /\ MQueue(q, e, h, k)'
  BY <1>9, <1>10, <1>15, <1>16, <1>17, <1>18, <1>19, <1>20, <1>21, MKeeps
<1>23. \A i : m_val[i] \in Values => m_val'[i] = m_val[i]
  BY <1>3, <1>6
<1>. QED
  BY <1>4, <1>6, <1>9, <1>10, <1>22, <1>23

(* The node is linked behind the last one. *)
LEMMA MLinkKeeps ==
  ASSUME MIInv, NEW t \in Threads, M!LinkNode(t), m_next[m_my[t].last] = NULL
  PROVE  MIInv' /\ MOthersStay(t) /\ UNCHANGED <<m_head, m_val, m_answer>>
         /\ m_pc'[t] = "swing" /\ m_my'[t].p = m_my[t].p
         /\ \E q, e, h, k, r : /\ r = Extended(q, e, m_my[t].p)
                               /\ MQueue(q, e, h, k) /\ MQueue(r, e + 1, h, k)'
<1>. USE MConstants
<1>. DEFINE my == m_my[t]
            p == my.p
<1>1. MTypes /\ MPrivate /\ MHasRead(t)
  BY DEF MIInv
<1>2. my = Local(my.p, my.first, my.last, my.next, my.ret)
  BY <1>1 DEF MTypes, Local
<1>3. /\ m_pc[t] = "link" /\ m_pc' = [m_pc EXCEPT ![t] = "swing"]
      /\ m_next' = [m_next EXCEPT ![my.last] = p] /\ m_my' = [m_my EXCEPT ![t] = my]
      /\ UNCHANGED <<m_head, m_tail, m_val, m_answer>>
  BY DEF M!LinkNode, M!Goto, M!Swapped
<1>4. MHolds(t) /\ p \in 1 .. MSNodes /\ m_val[p] \in Values /\ m_next[p] = NULL
      /\ p # NULL
  BY <1>1, <1>3 DEF MHolds, MPrivate
<1>5. PICK q, e, h, k : MQueue(q, e, h, k)
  BY DEF MIInv
<1>6. /\ h \in Nat /\ k \in Nat /\ e \in Nat /\ h <= k /\ k <= e /\ e <= k + 1
      /\ IsList(q, e, m_next) /\ IsOf(q, e, MSNodes)
      /\ m_head = q[h] /\ m_tail = q[k] /\ q[0] = 0
      /\ \A i \in 1 .. e : m_val[q[i]] \in Values
      /\ \A u \in Threads : MHolds(u) => \A i \in 0 .. e : q[i] # m_my[u].p
  BY <1>5 DEF MQueue, MList
<1>7. k = e /\ q[e] = my.last
  <2>1. PICK j \in 0 .. k : q[j] = my.last
    BY <1>3, <1>5 DEF MQueue, MPlaces
  <2>2. m_next[q[j]] = IF j = e THEN NULL ELSE q[j + 1]
    BY <1>6, <2>1, ListLinks
  <2>3. j # e => q[j + 1] # NULL
    BY <1>6, <2>1, ListLinks
  <2>. QED
    BY <1>6, <2>1, <2>2, <2>3
<1>8. my.last \in 0 .. MSNodes
  BY <1>6, <1>7 DEF IsOf
<1>9. m_next'[my.last] = p /\ \A i : i # my.last => m_next'[i] = m_next[i]
  BY <1>1, <1>3, <1>8 DEF MTypes
<1>10. /\ m_next' = [i \in 0 .. MSNodes |-> m_next'[i]] /\ m_val' = [i \in 0 .. MSNodes |-> m_val'[i]]
       /\ m_answer' = [m_answer EXCEPT ![t] = m_answer[t]]
  BY <1>1, <1>3 DEF MTypes
<1>11. MMoves(t, "swing", Local(my.p, my.first, my.last, my.next, my.ret), m_answer[t])
  BY <1>2, <1>3, <1>10 DEF MMoves
<1>12. MTypes' /\ MOthersStay(t) /\ m_pc'[t] = "swing" /\ m_my'[t].p = p
       /\ m_my'[t].last = my.last /\ m_answer'[t] = m_answer[t]
  BY ONLY <1>1, <1>11, t \in Threads, MTypesKeep
<1>13. \A i \in 0 .. e : q[i] # p
  BY <1>4, <1>6
<1>0. PICK r : r = Extended(q, e, p)
  OBVIOUS
<1>14. IsList(r, e + 1, m_next') /\ r[e + 1] = p /\ \A i \in 0 .. e : r[i] = q[i]
  <2>1. m_next'[p] = NULL
    BY <1>4, <1>6, <1>7, <1>9, <1>13
  <2>2. \A i \in 0 .. e - 1 : m_next'[q[i]] = m_next[q[i]]
    <3>1. \A i \in 0 .. e - 1 : i \in 0 .. e /\ i # e
      BY <1>6
    <3>2. e \in 0 .. e
      BY <1>6
    <3>3. \A i \in 0 .. e - 1 : q[i] # q[e]
      BY <1>6, <3>1, <3>2 DEF IsList, IsSimple
    <3>. QED
      BY <1>7, <1>9, <3>3
  <2>3. MayGoLast(q, e, m_next, m_next', p)
    BY <1>4, <1>6, <1>7, <1>9, <1>13, <2>1, <2>2 DEF MayGoLast
  <2>. QED
    BY <1>0, <2>3, ExtendedIsList
<1>15. \A i \in 0 .. e + 1 : i = e + 1 \/ i \in 0 .. e
  BY <1>6
<1>16. \A i \in 1 .. e + 1 : i = e + 1 \/ i \in 1 .. e
  BY <1>6
<1>17. \A u \in Threads : u # t => (MHolds(u)' <=> MHolds(u)) /\ m_my'[u].p = m_my[u].p
  BY <1>12 DEF MOthersStay, MHolds
<1>18. ~MHolds(t)'
  BY <1>12 DEF MHolds
<1>19. MList(r, e + 1, h, k)'
  <2>1. e + 1 \in Nat /\ k <= e + 1 /\ e + 1 <= k + 1 /\ 0 \in 0 .. e /\ h \in 0 .. e
        /\ k \in 0 .. e
    BY <1>6, <1>7
  <2>2. m_head' = r[h] /\ m_tail' = r[k] /\ r[0] = 0
    BY <1>3, <1>6, <1>14, <2>1
  <2>3. IsOf(r, e + 1, MSNodes)
    BY <1>4, <1>6, <1>14, <1>15 DEF IsOf
  <2>4. \A i \in 1 .. e + 1 : m_val'[r[i]] \in Values
    <3>1. \A i \in 1 .. e : i \in 0 .. e
      OBVIOUS
    <3>. QED
      BY <1>3, <1>4, <1>6, <1>14, <1>16, <3>1
  <2>5. \A u \in Threads : MHolds(u)' => \A i \in 0 .. e + 1 : r[i] # m_my'[u].p
    <3>1. \A u \in Threads : MHolds(u)' => m_my'[u].p # p
      BY <1>1, <1>4, <1>17, <1>18 DEF MPrivate
    <3>. QED
      BY <1>6, <1>14, <1>15, <1>17, <1>18, <3>1
  <2>. QED
    BY <1>6, <1>14, <2>1, <2>2, <2>3, <2>4, <2>5 DEF MList, IsList, IsPath, IsOf
<1>20. MPrivate'
  <2>1. \A u \in Threads : MHolds(u) => m_my[u].p # my.last
    BY <1>6, <1>7
  <2>2. \A u \in Threads : MHolds(u) /\ MHolds(u)' => m_next'[m_my[u].p] = NULL
    BY <1>1, <1>9, <2>1 DEF MPrivate
  <2>3. m_answer'[t] = NULL
    BY <1>1, <1>4, <1>12 DEF MPrivate
  <2>. QED
    BY <1>1, <1>3, <1>12, <1>18, <2>2, <2>3, MPrivateStays
<1>21. MFresh'
  <2>1. \A i \in 1 .. MSNodes : m_val[i] = NULL => i # my.last
    <3>1. e = 0 \/ e \in 1 .. e
      BY <1>6
    <3>. QED
      BY <1>6, <1>7, <3>1
  <2>. QED
    BY <1>3, <1>9, <2>1 DEF MIInv, MFresh
<1>22. MHasRead(t)'
  BY <1>4, <1>9, <1>12 DEF MHasRead
<1>23. MPlaces(r, h, k, t)'
  <2>1. k \in 0 .. k /\ r[k] = my.last
    BY <1>6, <1>7, <1>14
  <2>. QED
    BY <1>12, <2>1 DEF MPlaces
<1>24. \A i : m_next[i] # NULL => m_next'[i] = m_next[i]
  BY <1>9
<1>25. h <= h /\ k <= k /\ \A i \in 0 .. k : r[i] = q[i]
  BY <1>6, <1>7, <1>14
<1>26. MIInv' /\ MQueue(r, e + 1, h, k)'
  BY <1>5, <1>12, <1>19, <1>20, <1>21, <1>22, <1>23, <1>24, <1>25, MKeeps
<1>. QED
  BY <1>0, <1>3, <1>5, <1>12, <1>26

(* The first node behind head is the new head. *)
LEMMA MUnlinkKeeps ==
  ASSUME MIInv, NEW t \in Threads, M!Unlink(t), m_head = m_my[t].first
  PROVE  MIInv' /\ MOthersStay(t) /\ UNCHANGED <<m_next, m_val, m_answer>>
         /\ m_pc'[t] = "return" /\ m_my'[t].ret = m_val[m_my[t].next]
         /\ \E q, e, h, k : /\ MQueue(q, e, h, k) /\ MQueue(q, e, h + 1, k)'
                            /\ h + 1 <= k /\ m_my[t].next = q[h + 1]
<1>. DEFINE my == m_my[t]
            v == m_val[my.next]
<1>1. MTypes /\ MPrivate /\ MHasRead(t)
  BY DEF MIInv
<1>2. /\ m_pc[t] = "unlink" /\ m_pc' = [m_pc EXCEPT ![t] = "return"]
      /\ m_head' = my.next /\ m_my' = [m_my EXCEPT ![t] = [M!Fresh EXCEPT !.ret = v]]
      /\ UNCHANGED <<m_tail, m_next, m_val, m_answer>>
  BY DEF M!Unlink, M!Goto, M!Swapped
<1>3. PICK q, e, h, k : MQueue(q, e, h, k)
  BY DEF MIInv
<1>4. /\ h \in Nat /\ k \in Nat /\ e \in Nat /\ h <= k /\ k <= e /\ e <= k + 1
      /\ IsList(q, e, m_next) /\ IsOf(q, e, MSNodes)
      /\ m_head = q[h] /\ m_tail = q[k] /\ q[0] = 0
      /\ \A i \in 1 .. e : m_val[q[i]] \in Values
      /\ \A u \in Threads : MHolds(u) => \A i \in 0 .. e : q[i] # m_my[u].p
  BY <1>3 DEF MQueue, MList
<1>5. PICK i \in 0 .. h, j \in 0 .. k : i <= j /\ q[i] = my.first /\ q[j] = my.last
  BY <1>2, <1>3 DEF MQueue, MPlaces
<1>6. i = h
  <2>1. i \in 0 .. e /\ h \in 0 .. e
    BY <1>4, <1>5
  <2>. QED
    BY <1>4, <1>5, <2>1 DEF IsList, IsSimple
<1>7. h + 1 <= k
  <2>1. my.first # my.last
    BY <1>1, <1>2 DEF MHasRead
  <2>. QED
    BY <1>4, <1>5, <1>6, <2>1
<1>8. my.next = q[h + 1]
  <2>1. h \in 0 .. e /\ h # e
    BY <1>4, <1>7
  <2>2. m_next[q[h]] = q[h + 1]
    BY <1>4, <2>1, ListLinks
  <2>. QED
    BY <1>1, <1>2, <1>4, <2>2 DEF MHasRead
<1>9. [M!Fresh EXCEPT !.ret = v] = Local(NULL, NULL, NULL, NULL, v)
  BY DEF M!Fresh, Local
<1>10. m_next' = [n \in 0 .. MSNodes |-> m_next'[n]] /\ m_val' = [n \in 0 .. MSNodes |-> m_val'[n]]
       /\ m_answer' = [m_answer EXCEPT ![t] = m_answer[t]]
  BY <1>1, <1>2 DEF MTypes
<1>11. MMoves(t, "return", Local(NULL, NULL, NULL, NULL, v), m_answer[t])
  BY <1>2, <1>9, <1>10 DEF MMoves
<1>12. MTypes' /\ MOthersStay(t) /\ m_pc'[t] = "return" /\ m_my'[t].ret = v
  <2>. HIDE DEF v
  <2>. QED
    BY ONLY <1>1, <1>11, t \in Threads, MTypesKeep
<1>13. ~MHolds(t)' /\ MHasRead(t)'
  BY <1>12 DEF MHolds, MHasRead
<1>14. MPrivate'
  <2>1. \A u \in Threads : MHolds(u) => m_next'[m_my[u].p] = NULL
    BY <1>1, <1>2 DEF MPrivate
  <2>2. m_pc'[t] # "swing"
    BY <1>12
  <2>. QED
    BY <1>1, <1>2, <1>12, <1>13, <2>1, <2>2, MPrivateStays
<1>15. MFresh'
  BY <1>2 DEF MIInv, MFresh
<1>16. MList(q, e, h + 1, k)'
  <2>1. \A u \in Threads : MHolds(u)' => \A n \in 0 .. e : q[n] # m_my'[u].p
    BY <1>4, <1>12, <1>13 DEF MOthersStay, MHolds
  <2>2. h + 1 \in Nat
    BY <1>4
  <2>. QED
    BY <1>2, <1>4, <1>7, <1>8, <2>1, <2>2 DEF MList, IsList, IsPath, IsOf
<1>17. MPlaces(q, h + 1, k, t)'
  BY <1>12 DEF MPlaces
<1>18. h <= h + 1 /\ k <= k /\ \A n \in 0 .. k : q[n] = q[n]
  BY <1>4
<1>19. \A n : m_next[n] # NULL => m_next'[n] = m_next[n]
  BY <1>2
<1>20. MIInv' /\ MQueue(q, e, h + 1, k)'
  BY <1>3, <1>12, <1>13, <1>14, <1>15, <1>16, <1>17, <1>18, <1>19, MKeeps
<1>. QED
  BY <1>2, <1>3, <1>7, <1>8, <1>12, <1>20
(* What the nodes from q[h + 1] on hold. *)
Queued(q, e, h, vl) == [i \in 1 .. e - h |-> vl[q[h + i]]]

Grows(q, r, e, h, vl, X) ==
  /\ e \in Nat /\ h \in Nat /\ h <= e /\ \A i \in 0 .. e : r[i] = q[i]
  /\ \A i \in 1 .. e : vl[q[i]] \in X
  /\ vl[r[e + 1]] \in X

LEMMA QueuedIsLonger ==
  \A q, r, e, h, vl, X : Grows(q, r, e, h, vl, X) =>
    Queued(r, e + 1, h, vl) = Append(Queued(q, e, h, vl), vl[r[e + 1]])
<1>. SUFFICES ASSUME NEW q, NEW r, NEW e, NEW h, NEW vl, NEW X, Grows(q, r, e, h, vl, X)
              PROVE  Queued(r, e + 1, h, vl) = Append(Queued(q, e, h, vl), vl[r[e + 1]])
  OBVIOUS
<1>. USE DEF Grows
<1>. DEFINE m == e - h
            f == Queued(q, e, h, vl)
            v == vl[r[e + 1]]
<1>1. m \in Nat /\ (e + 1) - h = m + 1 /\ h + (m + 1) = e + 1
      /\ \A i \in 1 .. m : h + i \in 1 .. e /\ h + i \in 0 .. e
  OBVIOUS
<1>2. f \in [1 .. m -> X]
  BY <1>1 DEF Queued
<1>3. \A i \in 1 .. m + 1 : vl[r[h + i]] = IF i = m + 1 THEN v ELSE f[i]
  <2>1. \A i \in 1 .. m + 1 : i = m + 1 \/ i \in 1 .. m
    BY <1>1
  <2>. QED
    BY <1>1, <2>1 DEF Queued
<1>4. Queued(r, e + 1, h, vl) = [i \in 1 .. m + 1 |-> vl[r[h + i]]]
  BY <1>1 DEF Queued
<1>. HIDE DEF m, f, v
<1>5. Queued(r, e + 1, h, vl) = [i \in 1 .. m + 1 |-> IF i = m + 1 THEN v ELSE f[i]]
  BY <1>3, <1>4
<1>6. v \in X
  BY DEF v
<1>7. Append(f, v) = [i \in 1 .. m + 1 |-> IF i = m + 1 THEN v ELSE f[i]]
  BY ONLY <1>1, <1>2, <1>6, AppendIs
<1>. QED
  BY <1>5, <1>7 DEF f, v

Shrinks(q, e, h, vl, X) ==
  e \in Nat /\ h \in Nat /\ h + 1 <= e /\ \A i \in 1 .. e : vl[q[i]] \in X

LEMMA QueuedIsShorter ==
  \A q, e, h, vl, X : Shrinks(q, e, h, vl, X) =>
    LET f == Queued(q, e, h, vl)
    IN  f # <<>> /\ Head(f) = vl[q[h + 1]] /\ Tail(f) = Queued(q, e, h + 1, vl)
<1>. SUFFICES ASSUME NEW q, NEW e, NEW h, NEW vl, NEW X, Shrinks(q, e, h, vl, X)
              PROVE  LET f == Queued(q, e, h, vl)
                     IN  f # <<>> /\ Head(f) = vl[q[h + 1]] /\ Tail(f) = Queued(q, e, h + 1, vl)
  OBVIOUS
<1>. USE DEF Shrinks
<1>. DEFINE m == e - h
            f == Queued(q, e, h, vl)
<1>1. /\ m \in Nat /\ m > 0 /\ e - (h + 1) = m - 1
      /\ \A i \in 1 .. m : h + i \in 1 .. e
      /\ \A i \in 1 .. m - 1 : i + 1 \in 1 .. m /\ (h + 1) + i = h + (i + 1)
  OBVIOUS
<1>2. f \in [1 .. m -> X] /\ f[1] = vl[q[h + 1]]
  BY <1>1 DEF Queued
<1>3. \A i \in 1 .. m - 1 : vl[q[(h + 1) + i]] = f[i + 1]
  BY <1>1 DEF Queued
<1>4. Queued(q, e, h + 1, vl) = [i \in 1 .. m - 1 |-> vl[q[(h + 1) + i]]]
  BY <1>1 DEF Queued
<1>. HIDE DEF m, f
<1>5. Queued(q, e, h + 1, vl) = [i \in 1 .. m - 1 |-> f[i + 1]]
  BY <1>3, <1>4
<1>6. Head(f) = f[1] /\ Tail(f) = [i \in 1 .. m - 1 |-> f[i + 1]] /\ f # <<>>
  BY ONLY <1>1, <1>2, TailIs
<1>. QED
  BY <1>2, <1>5, <1>6 DEF f

MIs(q, e, h) ==
  /\ M!Content = Queued(q, e, h, m_val)
  /\ e \in Nat /\ h \in Nat /\ h <= e /\ \A i \in 1 .. e : m_val[q[i]] \in Values

LEMMA MReachedIs ==
  MIInv => \A q, e, h, k : MQueue(q, e, h, k) => ReachesEnd(q, e, h, M!Reached, MSNodes)
<1>. SUFFICES ASSUME MIInv, NEW q, NEW e, NEW h, NEW k, MQueue(q, e, h, k)
              PROVE  ReachesEnd(q, e, h, M!Reached, MSNodes)
  OBVIOUS
<1>0. m_head = q[h]
  BY DEF MQueue, MList
<1>1. /\ IsList(q, e, m_next) /\ h \in 0 .. e /\ IsOf(q, e, MSNodes) /\ MSNodes \in Nat
  BY MConstants DEF MQueue, MList
<1>2. PICK w : IsWalk(w, 0, MSNodes + 1, m_head, m_next)
  <2>1. StartsIn(q, e, m_next, h, m_head, MSNodes)
    BY <1>0, <1>1 DEF StartsIn
  <2>. QED
    BY <2>1, ListCanBeWalked
<1>3. IsWalk(M!Reached, 0, MSNodes + 1, m_head, m_next)
  BY <1>2, Zenon DEF M!Reached, IsWalk
<1>4. WalksFrom(q, e, m_next, h, M!Reached, MSNodes)
  BY <1>0, <1>1, <1>3 DEF WalksFrom
<1>. QED
  BY <1>4, ListWalk

LEMMA MContentIs ==
  MIInv => \A q, e, h, k : MQueue(q, e, h, k) => MIs(q, e, h)
<1>. SUFFICES ASSUME MIInv, NEW q, NEW e, NEW h, NEW k, MQueue(q, e, h, k)
              PROVE  MIs(q, e, h)
  OBVIOUS
<1>1. ReachesEnd(q, e, h, M!Reached, MSNodes)
  BY MReachedIs
<1>2. e \in Nat /\ h \in Nat /\ h <= e /\ \A i \in 1 .. e : m_val[q[i]] \in Values
  BY DEF MQueue, MList
<1>3. M!Cardinality({i \in 1 .. MSNodes + 1 : M!Reached[i] # NULL}) = e - h
  BY <1>1 DEF M!Cardinality, Cardinality, ReachesEnd, Behind
<1>4. M!Content = [i \in 1 .. e - h |-> m_val[M!Reached[i]]]
  BY <1>3 DEF M!Content
<1>5. \A i \in 1 .. e - h : M!Reached[i] = q[h + i]
  <2>1. \A i \in 1 .. e - h : i \in 0 .. MSNodes + 1 /\ i <= e - h
    BY <1>1, <1>2, MConstants DEF ReachesEnd
  <2>. QED
    BY <1>1, <2>1 DEF ReachesEnd
<1>6. M!Content = Queued(q, e, h, m_val)
  BY <1>4, <1>5 DEF Queued
<1>. QED
  BY <1>2, <1>6 DEF MIs

LEMMA MContentWillBe ==
  (MIInv => \A q, e, h, k : MQueue(q, e, h, k) => MIs(q, e, h))'
  BY MContentIs, PTL
m_op == [t \in Threads |-> M!Served(t)]

(* A dequeue still asks, or has found the queue empty and not settled it.   *)
MEmpty(t) == m_pc[t] = "deqCheck" /\ m_my[t].next = NULL /\ m_head = m_my[t].first
MAsks(t) ==
  \/ m_pc[t] \in {"deqHead", "deqTail", "deqNext", "deqHelp", "unlink"}
  \/ m_pc[t] = "deqCheck" /\ ~MEmpty(t)

MServedAs(t) ==
  LET enq == <<"enq", m_val[m_my[t].p]>>
      deq == <<"deq", NULL>>
  IN  /\ m_pc[t] = "out" => M!Served(t) = [status |-> "idle"]
      /\ MHolds(t) => M!Served(t) = [status |-> "pending", arg |-> enq]
      /\ m_pc[t] = "swing" =>
           M!Served(t) = [status |-> "done", arg |-> enq, ret |-> NULL, pure |-> FALSE]
      /\ MAsks(t) => M!Served(t) = [status |-> "pending", arg |-> deq]
      /\ MEmpty(t) =>
           M!Served(t) = [status |-> "done", arg |-> deq, ret |-> EMPTY_QUEUE, pure |-> TRUE]
      /\ m_pc[t] = "return" =>
           M!Served(t) = [status |-> "done", arg |-> deq, ret |-> m_my[t].ret, pure |-> FALSE]

LEMMA MServedIs == \A t \in Threads : MServedAs(t)
<1>. SUFFICES ASSUME NEW t \in Threads PROVE MServedAs(t)
  OBVIOUS
<1>. USE DEF M!Pending, M!Done, M!Deq
<1>1. m_pc[t] = "out" => M!Served(t) = [status |-> "idle"]
  BY DEF M!Served
<1>2. MHolds(t) =>
        M!Served(t) = [status |-> "pending", arg |-> <<"enq", m_val[m_my[t].p]>>]
  BY DEF M!Served, MHolds
<1>3. m_pc[t] = "swing" =>
        M!Served(t) = [status |-> "done", arg |-> <<"enq", m_val[m_my[t].p]>>, ret |-> NULL,
                       pure |-> FALSE]
  BY DEF M!Served
<1>4. MAsks(t) => M!Served(t) = [status |-> "pending", arg |-> <<"deq", NULL>>]
  BY DEF M!Served, MAsks, MEmpty
<1>5. MEmpty(t) =>
        M!Served(t) = [status |-> "done", arg |-> <<"deq", NULL>>, ret |-> EMPTY_QUEUE,
                       pure |-> TRUE]
  BY DEF M!Served, MEmpty
<1>6. m_pc[t] = "return" =>
        M!Served(t) = [status |-> "done", arg |-> <<"deq", NULL>>, ret |-> m_my[t].ret,
                       pure |-> FALSE]
  BY DEF M!Served
<1>. QED
  BY <1>1, <1>2, <1>3, <1>4, <1>5, <1>6 DEF MServedAs

LEMMA MServedWillBe == (\A t \in Threads : MServedAs(t))'
  BY MServedIs, PTL

LEMMA MSwung == MIInv => \A t \in Threads : m_pc[t] = "swing" => m_val[m_my[t].p] \in Values
<1>. SUFFICES ASSUME MIInv, NEW t \in Threads, m_pc[t] = "swing"
              PROVE  m_val[m_my[t].p] \in Values
  OBVIOUS
<1>1. PICK q, e, h, k : MQueue(q, e, h, k)
  BY DEF MIInv
<1>2. PICK j \in 0 .. k : q[j] = m_my[t].last
  BY <1>1 DEF MQueue, MPlaces
<1>3. m_next[q[j]] = m_my[t].p /\ m_my[t].p # NULL
  BY <1>2 DEF MIInv, MHasRead
<1>4. /\ IsList(q, e, m_next) /\ j \in 0 .. e /\ e \in Nat
      /\ \A i \in 1 .. e : m_val[q[i]] \in Values
  BY <1>1, <1>2 DEF MQueue, MList
<1>5. j # e /\ m_my[t].p = q[j + 1]
  BY <1>3, <1>4, ListLinks
<1>6. j + 1 \in 1 .. e
  BY <1>4, <1>5
<1>. QED
  BY <1>4, <1>5, <1>6

(* What the others are served stays, unless the queue they saw empty gets   *)
(* another head.                                                            *)
LEMMA MServedStays ==
  ASSUME MIInv, NEW t \in Threads, MOthersStay(t), NEW u \in Threads, u # t,
         m_head' = m_head \/ (m_pc[u] = "deqCheck" => ~MEmpty(u) /\ ~MEmpty(u)'),
         \A n : m_val[n] \in Values => m_val'[n] = m_val[n]
  PROVE  M!Served(u)' = M!Served(u)
<1>1. m_pc'[u] = m_pc[u] /\ m_my'[u] = m_my[u]
  BY DEF MOthersStay
<1>2. CASE MHolds(u)
  <2>1. m_val'[m_my[u].p] = m_val[m_my[u].p]
    BY <1>2 DEF MIInv, MPrivate
  <2>2. MHolds(u)'
    BY <1>1, <1>2 DEF MHolds
  <2>. QED
    BY <1>1, <1>2, <2>1, <2>2, MServedIs, MServedWillBe DEF MServedAs
<1>3. CASE m_pc[u] = "deqCheck"
  <2>1. MEmpty(u) <=> MEmpty(u)'
    BY <1>1, <1>3 DEF MEmpty
  <2>. QED
    BY <1>1, <1>3, <2>1 DEF M!Served, MEmpty, M!Pending, M!Done, M!Deq
<1>4. CASE m_pc[u] = "swing"
  <2>1. m_val'[m_my[u].p] = m_val[m_my[u].p]
    BY <1>4, MSwung
  <2>. QED
    BY <1>1, <1>4, <2>1 DEF M!Served, M!Done
<1>5. CASE ~MHolds(u) /\ m_pc[u] # "deqCheck" /\ m_pc[u] # "swing"
  BY <1>1, <1>5 DEF M!Served, MHolds, M!Pending, M!Done, M!Deq
<1>. QED
  BY <1>2, <1>3, <1>4, <1>5

LEMMA MOpIs ==
  ASSUME NEW t \in Threads, \A u \in Threads : u # t => M!Served(u)' = M!Served(u)
  PROVE  m_op' = [m_op EXCEPT ![t] = M!Served(t)']
  BY DEF m_op

LEMMA MContentStays ==
  ASSUME m_head' = m_head, m_next' = m_next, m_val' = m_val
  PROVE  M!Content' = M!Content
  BY DEF M!Content, M!Reached

(* The request a of t takes effect, with the answer x, and those of the     *)
(* threads in T are to be tried again.                                      *)
MTakesEffect(t, a, x, pure, T) ==
  /\ M!Served(t) = [status |-> "pending", arg |-> a]
  /\ M!Served(t)' = [status |-> "done", arg |-> a, ret |-> x, pure |-> pure]
  /\ M!Content' = M!QueueState(M!Content, a, t) /\ x = M!QueueResult(M!Content, a, t)
  /\ pure => M!Content' = M!Content
  /\ \A u \in T : /\ M!Served(u).status = "done" /\ M!Served(u).pure
                  /\ M!Served(u)' = [status |-> "pending", arg |-> M!Served(u).arg]
  /\ \A u \in Threads : u # t /\ u \notin T => M!Served(u)' = M!Served(u)
  /\ m_answer' = m_answer

LEMMA MApplies ==
  \A t \in Threads : \A a, x : \A pure \in BOOLEAN, T \in SUBSET (Threads \ {t}) :
    MTakesEffect(t, a, x, pure, T) => M!Fifo!Apply(t)
<1>. SUFFICES ASSUME NEW t \in Threads, NEW a, NEW x, NEW pure \in BOOLEAN,
                     NEW T \in SUBSET (Threads \ {t}), MTakesEffect(t, a, x, pure, T)
              PROVE  M!Fifo!Apply(t)
  OBVIOUS
<1>. USE DEF MTakesEffect
<1>1. m_op[t].status = "pending" /\ m_op[t].arg = a
  BY DEF m_op
<1>2. M!Fifo!MayRetry(T)
  BY DEF M!Fifo!MayRetry
<1>. DEFINE d == M!Fifo!Done(a, x, pure)
<1>3. M!Served(t)' = d
  BY DEF M!Fifo!Done
<1>4. m_op' = [M!Fifo!Retried(T) EXCEPT ![t] = d]
  <2>1. M!Fifo!Retried(T) = [u \in Threads |-> IF u \in T
                               THEN [status |-> "pending", arg |-> M!Served(u).arg]
                               ELSE M!Served(u)]
    BY DEF M!Fifo!Retried, M!Fifo!Pending
  <2>2. m_op' = [u \in Threads |-> M!Served(u)']
    BY DEF m_op
  <2>. HIDE DEF d
  <2>. QED
    BY <1>3, <2>1, <2>2
<1>5. m_op[t].arg = a /\ (pure => M!QueueState(M!Content, a, t) = M!Content)
  BY <1>1
<1>6. \E A \in SUBSET (Threads \ {t}), z \in BOOLEAN :
        /\ M!Fifo!MayRetry(A) /\ (z => M!QueueState(M!Content, a, t) = M!Content)
        /\ m_op' = [M!Fifo!Retried(A) EXCEPT
                      ![t] = M!Fifo!Done(a, M!QueueResult(M!Content, a, t), z)]
  BY <1>2, <1>4, <1>5
<1>. QED
  BY <1>1, <1>6 DEF M!Fifo!Apply, m_op

(* The reads, the checks and the CASes that fail are no steps of the queue. *)
LEMMA MStutters ==
  ASSUME MIInv, NEW t \in Threads,
         \/ M!EnqReadTail(t) \/ M!EnqReadNext(t) \/ M!EnqCheck(t) \/ M!EnqHelp(t) \/ M!DeqHelp(t)
         \/ (M!LinkNode(t) /\ m_next[m_my[t].last] # NULL)
         \/ M!Unlink(t) /\ m_head # m_my[t].first
         \/ M!DeqReadHead(t) \/ M!DeqReadTail(t)
         \/ M!DeqReadNext(t) /\ ~(m_my[t].first = m_head /\ m_next[m_my[t].first] = NULL)
         \/ M!DeqCheck(t) /\ m_pc'[t] # "return"
  PROVE  UNCHANGED M!Fifo!vars
<1>. USE MConstants
<1>1. MOthersStay(t) /\ UNCHANGED <<m_head, m_next, m_val, m_answer>>
  BY MEnqReads, MTailKeeps, MDeqReads, MDeqCheckKeeps, MFailKeeps
<1>2. M!Served(t)' = M!Served(t)
  <2>1. CASE \/ M!EnqReadTail(t) \/ M!EnqReadNext(t) \/ M!EnqCheck(t)
             \/ M!EnqHelp(t) \/ (M!LinkNode(t) /\ m_next[m_my[t].last] # NULL)
    <3>1. MHolds(t)
      BY <2>1 DEF MHolds, M!EnqReadTail, M!EnqReadNext, M!EnqCheck, M!EnqHelp, M!LinkNode, M!Goto
    <3>2. MHolds(t)' /\ m_my'[t].p = m_my[t].p
      <4>1. CASE M!EnqHelp(t)
        BY <4>1, MTailKeeps DEF MHolds
      <4>2. CASE M!LinkNode(t) /\ m_next[m_my[t].last] # NULL
        BY <4>2, MFailKeeps DEF MHolds
      <4>3. CASE M!EnqReadTail(t) \/ M!EnqReadNext(t) \/ M!EnqCheck(t)
        BY <4>3, MEnqReads
      <4>. QED
        BY <2>1, <4>1, <4>2, <4>3
    <3>. QED
      BY <1>1, <3>1, <3>2, MServedIs, MServedWillBe DEF MServedAs
  <2>2. CASE \/ M!DeqHelp(t) \/ (M!Unlink(t) /\ m_head # m_my[t].first)
             \/ M!DeqReadHead(t) \/ M!DeqReadTail(t)
             \/ M!DeqReadNext(t) /\ ~(m_my[t].first = m_head /\ m_next[m_my[t].first] = NULL)
             \/ M!DeqCheck(t) /\ m_pc'[t] # "return"
    <3>1. MAsks(t)
      <4>1. CASE M!DeqCheck(t) /\ m_pc'[t] # "return"
        BY <4>1, MDeqCheckKeeps DEF MAsks, MEmpty, M!DeqCheck, M!Goto
      <4>. QED
        BY <2>2, <4>1 DEF MAsks, M!DeqHelp, M!Unlink, M!DeqReadHead, M!DeqReadTail, M!DeqReadNext,
             M!Goto
    <3>2. MAsks(t)'
      <4>1. CASE M!DeqHelp(t)
        BY <4>1, MTailKeeps DEF MAsks
      <4>2. CASE M!Unlink(t) /\ m_head # m_my[t].first
        BY <4>2, MFailKeeps DEF MAsks
      <4>3. CASE M!DeqReadHead(t) \/ M!DeqReadTail(t)
        <5>1. ~M!DeqReadNext(t)
          BY <4>3 DEF M!DeqReadHead, M!DeqReadTail, M!DeqReadNext, M!Goto
        <5>. QED
          BY <4>3, <5>1, MDeqReads DEF MAsks
      <4>4. CASE M!DeqReadNext(t) /\ ~(m_my[t].first = m_head /\ m_next[m_my[t].first] = NULL)
        BY <1>1, <4>4, MDeqReads DEF MAsks, MEmpty
      <4>5. CASE M!DeqCheck(t) /\ m_pc'[t] # "return"
        BY <4>5, MDeqCheckKeeps DEF MAsks
      <4>. QED
        BY <2>2, <4>1, <4>2, <4>3, <4>4, <4>5
    <3>. QED
      BY <3>1, <3>2, MServedIs, MServedWillBe DEF MServedAs
  <2>. QED
    BY <2>1, <2>2
<1>3. \A u \in Threads : M!Served(u)' = M!Served(u)
  BY <1>1, <1>2, MServedStays
<1>4. m_op' = m_op
  BY <1>3 DEF m_op
<1>5. M!Content' = M!Content
  BY <1>1, MContentStays
<1>. QED
  BY <1>1, <1>4, <1>5 DEF M!Fifo!vars, m_op

LEMMA MCallRefines ==
  ASSUME MIInv, NEW t \in Threads,
         NEW a, \/ a = M!Deq /\ M!Dequeue(t)
                \/ \E v \in Values : a = <<"enq", v>> /\ M!Enqueue(t, v)
  PROVE  M!Fifo!Call(t, a)
<1>. USE MConstants
<1>1. /\ MOthersStay(t) /\ UNCHANGED <<m_head, m_next>> /\ m_pc[t] = "out"
      /\ (\A n : m_val[n] \in Values => m_val'[n] = m_val[n])
      /\ m_answer' = [m_answer EXCEPT ![t] = NULL]
      /\ \/ a = <<"deq", NULL>> /\ m_pc'[t] = "deqHead" /\ m_val' = m_val
         \/ \E v \in Values : a = <<"enq", v>> /\ m_pc'[t] = "enqTail" /\ m_val'[m_my'[t].p] = v
  <2>1. CASE a = M!Deq /\ M!Dequeue(t)
    BY <2>1, MFailKeeps DEF M!Dequeue, M!Goto, M!Deq
  <2>2. ASSUME NEW v \in Values, a = <<"enq", v>> /\ M!Enqueue(t, v)
        PROVE  /\ MOthersStay(t) /\ UNCHANGED <<m_head, m_next>> /\ m_pc[t] = "out"
               /\ (\A n : m_val[n] \in Values => m_val'[n] = m_val[n])
               /\ m_answer' = [m_answer EXCEPT ![t] = NULL]
               /\ m_pc'[t] = "enqTail" /\ m_val'[m_my'[t].p] = v
    BY <2>2, MEnqueueKeeps
  <2>. QED
    BY <2>1, <2>2
<1>2. M!Served(t) = [status |-> "idle"]
  BY <1>1, MServedIs DEF MServedAs
<1>3. M!Served(t)' = [status |-> "pending", arg |-> a]
  <2>1. MAsks(t)' \/ MHolds(t)'
    BY <1>1 DEF MAsks, MHolds
  <2>2. m_pc'[t] = "deqHead" => MAsks(t)' /\ ~MHolds(t)'
    BY DEF MAsks, MHolds
  <2>3. m_pc'[t] = "enqTail" => MHolds(t)'
    BY DEF MHolds
  <2>. QED
    BY <1>1, <2>2, <2>3, MServedWillBe DEF MServedAs
<1>4. \A u \in Threads : u # t => M!Served(u)' = M!Served(u)
  BY <1>1, MServedStays
<1>5. m_op[t] = M!Fifo!Idle /\ m_op' = [m_op EXCEPT ![t] = M!Fifo!Pending(a)]
  BY <1>2, <1>3, <1>4, MOpIs DEF m_op, M!Fifo!Idle, M!Fifo!Pending
<1>6. M!Content' = M!Content
  <2>1. CASE M!Dequeue(t)
    BY <2>1, MFailKeeps, MContentStays
  <2>2. CASE ~M!Dequeue(t)
    <3>1. MIInv' /\ \E q, e, h, k : MQueue(q, e, h, k) /\ MQueue(q, e, h, k)'
      BY <2>2, MEnqueueKeeps
    <3>2. PICK q, e, h, k : MQueue(q, e, h, k) /\ MQueue(q, e, h, k)'
      BY <3>1
    <3>3. MIs(q, e, h) /\ MIs(q, e, h)'
      BY <3>1, <3>2, MContentIs, MContentWillBe
    <3>4. \A i \in 1 .. e - h : m_val'[q[h + i]] = m_val[q[h + i]]
      <4>1. \A i \in 1 .. e - h : h + i \in 1 .. e
        BY <3>3 DEF MIs
      <4>. QED
        BY <1>1, <3>3, <4>1 DEF MIs
    <3>. QED
      BY <3>3, <3>4 DEF MIs, Queued
  <2>. QED
    BY <2>1, <2>2
<1>. QED
  BY <1>1, <1>5, <1>6 DEF M!Fifo!Call, m_op

(* A node is linked, head moves to the next one, or the queue is found      *)
(* empty: these are the steps of the queue.                                 *)
LEMMA MLinkRefines ==
  ASSUME MIInv, NEW t \in Threads, M!LinkNode(t), m_next[m_my[t].last] = NULL
  PROVE  M!Fifo!Apply(t)
<1>. DEFINE v == m_val[m_my[t].p]
            a == <<"enq", v>>
<1>1. /\ MIInv' /\ MOthersStay(t) /\ UNCHANGED <<m_head, m_val, m_answer>>
      /\ m_pc'[t] = "swing" /\ m_my'[t].p = m_my[t].p
  BY MLinkKeeps
<1>2. PICK q, e, h, k, r : /\ r = Extended(q, e, m_my[t].p)
                           /\ MQueue(q, e, h, k) /\ MQueue(r, e + 1, h, k)'
  BY MLinkKeeps
<1>3. MIs(q, e, h) /\ MIs(r, e + 1, h)'
  BY <1>1, <1>2, MContentIs, MContentWillBe
<1>4. MHolds(t)
  BY DEF MHolds, M!LinkNode, M!Goto
<1>5. v \in Values
  BY <1>4 DEF MIInv, MPrivate
<1>6. r[e + 1] = m_my[t].p /\ \A i \in 0 .. e : r[i] = q[i]
  <2>1. e \in Nat /\ e + 1 \in 0 .. e + 1 /\ \A i \in 0 .. e : i \in 0 .. e + 1 /\ i # e + 1
    BY <1>3 DEF MIs
  <2>. QED
    BY <1>2, <2>1 DEF Extended
<1>7. Queued(r, e + 1, h, m_val) = Append(Queued(q, e, h, m_val), v)
  <2>1. m_val[r[e + 1]] = v
    BY <1>6
  <2>2. Grows(q, r, e, h, m_val, Values)
    BY <1>3, <1>5, <1>6, <2>1 DEF MIs, Grows
  <2>. QED
    BY <2>1, <2>2, QueuedIsLonger
<1>8. M!Content' = Append(M!Content, v)
  <2>1. M!Content' = Queued(r, e + 1, h, m_val)
    BY <1>1, <1>3 DEF MIs, Queued
  <2>. QED
    BY <1>3, <1>7, <2>1 DEF MIs
<1>9. /\ M!Served(t) = [status |-> "pending", arg |-> a]
      /\ M!Served(t)' = [status |-> "done", arg |-> a, ret |-> NULL, pure |-> FALSE]
  BY <1>1, <1>4, MServedIs, MServedWillBe DEF MServedAs
<1>10. \A u \in Threads : u # t => M!Served(u)' = M!Served(u)
  BY <1>1, MServedStays
<1>11. M!QueueState(M!Content, a, t) = Append(M!Content, v) /\ M!QueueResult(M!Content, a, t) = NULL
  BY DEF M!QueueState, M!QueueResult
<1>12. {} \in SUBSET (Threads \ {t}) /\ FALSE \in BOOLEAN
  OBVIOUS
<1>. HIDE DEF v, a
<1>13. MTakesEffect(t, a, NULL, FALSE, {})
  BY <1>1, <1>8, <1>9, <1>10, <1>11 DEF MTakesEffect
<1>. QED
  BY <1>12, <1>13, MApplies

LEMMA MUnlinkRefines ==
  ASSUME MIInv, NEW t \in Threads, M!Unlink(t), m_head = m_my[t].first
  PROVE  M!Fifo!Apply(t)
<1>. DEFINE v == m_val[m_my[t].next]
            a == <<"deq", NULL>>
            T == {u \in Threads \ {t} : MEmpty(u)}
<1>1. /\ MIInv' /\ MOthersStay(t) /\ UNCHANGED <<m_next, m_val, m_answer>>
      /\ m_pc'[t] = "return" /\ m_my'[t].ret = v
  BY MUnlinkKeeps
<1>2. PICK q, e, h, k : /\ MQueue(q, e, h, k) /\ MQueue(q, e, h + 1, k)'
                        /\ h + 1 <= k /\ m_my[t].next = q[h + 1]
  BY MUnlinkKeeps
<1>3. MIs(q, e, h) /\ MIs(q, e, h + 1)'
  BY <1>1, <1>2, MContentIs, MContentWillBe
<1>4. /\ h \in Nat /\ k \in Nat /\ e \in Nat /\ h <= k /\ k <= e /\ h + 1 <= e
      /\ IsList(q, e, m_next) /\ m_head = q[h] /\ m_head' = q[h + 1]
  BY <1>2 DEF MQueue, MList
<1>5. M!Content # <<>> /\ Head(M!Content) = v /\ M!Content' = Tail(M!Content)
  <2>1. Shrinks(q, e, h, m_val, Values)
    BY <1>3, <1>4 DEF MIs, Shrinks
  <2>. DEFINE f == Queued(q, e, h, m_val)
  <2>2. f # <<>> /\ Head(f) = m_val[q[h + 1]] /\ Tail(f) = Queued(q, e, h + 1, m_val)
    BY <2>1, QueuedIsShorter
  <2>3. M!Content' = Queued(q, e, h + 1, m_val)
    BY <1>1, <1>3 DEF MIs, Queued
  <2>4. M!Content = f /\ v = m_val[q[h + 1]]
    BY <1>2, <1>3 DEF MIs
  <2>. HIDE DEF f
  <2>. QED
    BY <2>2, <2>3, <2>4
<1>6. MAsks(t)
  BY DEF MAsks, M!Unlink, M!Goto
<1>7. /\ M!Served(t) = [status |-> "pending", arg |-> a]
      /\ M!Served(t)' = [status |-> "done", arg |-> a, ret |-> v, pure |-> FALSE]
  BY <1>1, <1>6, MServedIs, MServedWillBe DEF MServedAs
<1>8. \A u \in Threads : u # t => ~MEmpty(u)'
  <2>1. SUFFICES ASSUME NEW u \in Threads, u # t, MEmpty(u)' PROVE FALSE
    OBVIOUS
  <2>2. m_pc[u] = "deqCheck" /\ m_my[u].first = q[h + 1]
    BY <1>1, <1>4, <2>1 DEF MEmpty, MOthersStay
  <2>3. PICK i \in 0 .. h : q[i] = m_my[u].first
    BY <1>2, <2>2 DEF MQueue, MPlaces
  <2>4. i \in 0 .. e /\ h + 1 \in 0 .. e /\ i # h + 1
    BY <1>4
  <2>. QED
    BY <1>4, <2>2, <2>3, <2>4 DEF IsList, IsSimple
<1>9. \A u \in T : /\ M!Served(u).status = "done" /\ M!Served(u).pure
                    /\ M!Served(u)' = [status |-> "pending", arg |-> M!Served(u).arg]
  <2>1. SUFFICES ASSUME NEW u \in T
                 PROVE  /\ M!Served(u).status = "done" /\ M!Served(u).pure
                        /\ M!Served(u)' = [status |-> "pending", arg |-> M!Served(u).arg]
    OBVIOUS
  <2>2. M!Served(u) = [status |-> "done", arg |-> a, ret |-> EMPTY_QUEUE, pure |-> TRUE]
    BY MServedIs DEF MServedAs
  <2>3. MAsks(u)'
    BY <1>1, <1>8 DEF MAsks, MEmpty, MOthersStay
  <2>4. M!Served(u)' = [status |-> "pending", arg |-> a]
    BY <2>3, MServedWillBe DEF MServedAs
  <2>. QED
    BY <2>2, <2>4
<1>10. \A u \in Threads : u # t /\ u \notin T => M!Served(u)' = M!Served(u)
  BY <1>1, <1>8, MServedStays
<1>11. M!QueueState(M!Content, a, t) = Tail(M!Content) /\ M!QueueResult(M!Content, a, t) = v
  BY <1>5 DEF M!QueueState, M!QueueResult
<1>12. T \in SUBSET (Threads \ {t}) /\ FALSE \in BOOLEAN
  OBVIOUS
<1>. HIDE DEF v, a, T
<1>13. MTakesEffect(t, a, v, FALSE, T)
  BY <1>1, <1>5, <1>7, <1>9, <1>10, <1>11 DEF MTakesEffect
<1>. QED
  BY <1>12, <1>13, MApplies

LEMMA MEmptyRefines ==
  ASSUME MIInv, NEW t \in Threads, M!DeqReadNext(t), m_my[t].first = m_head,
         m_next[m_my[t].first] = NULL
  PROVE  M!Fifo!Apply(t)
<1>. DEFINE a == <<"deq", NULL>>
<1>1. /\ MIInv' /\ MOthersStay(t) /\ UNCHANGED <<m_head, m_next, m_val, m_answer>>
      /\ m_pc'[t] = "deqCheck" /\ m_my'[t].first = m_my[t].first
      /\ m_my'[t].next = m_next[m_my[t].first]
  BY MDeqReads
<1>2. PICK q, e, h, k : MQueue(q, e, h, k)
  BY DEF MIInv
<1>3. MIs(q, e, h)
  BY <1>2, MContentIs
<1>4. h = e
  <2>1. h \in 0 .. e /\ IsList(q, e, m_next) /\ m_head = q[h] /\ e \in Nat
    BY <1>2 DEF MQueue, MList
  <2>2. h # e => h + 1 \in 0 .. e
    BY <2>1
  <2>. QED
    BY <2>1, <2>2, ListLinks
<1>5. M!Content = <<>>
  <2>1. Queued(q, e, h, m_val) \in [1 .. 0 -> Values]
    BY <1>3, <1>4 DEF MIs, Queued
  <2>2. Queued(q, e, h, m_val) = <<>>
    BY <2>1, FunctionIsSeq
  <2>. QED
    BY <1>3, <2>2 DEF MIs
<1>6. M!Content' = M!Content
  BY <1>1, MContentStays
<1>7. MAsks(t) /\ MEmpty(t)'
  BY <1>1 DEF MAsks, MEmpty, M!DeqReadNext, M!Goto
<1>8. /\ M!Served(t) = [status |-> "pending", arg |-> a]
      /\ M!Served(t)' = [status |-> "done", arg |-> a, ret |-> EMPTY_QUEUE, pure |-> TRUE]
  BY <1>7, MServedIs, MServedWillBe DEF MServedAs
<1>9. \A u \in Threads : u # t => M!Served(u)' = M!Served(u)
  BY <1>1, MServedStays
<1>10. M!QueueState(M!Content, a, t) = M!Content /\ M!QueueResult(M!Content, a, t) = EMPTY_QUEUE
  BY <1>5 DEF M!QueueState, M!QueueResult
<1>11. {} \in SUBSET (Threads \ {t}) /\ TRUE \in BOOLEAN
  OBVIOUS
<1>. HIDE DEF a
<1>12. MTakesEffect(t, a, EMPTY_QUEUE, TRUE, {})
  BY <1>1, <1>6, <1>8, <1>9, <1>10 DEF MTakesEffect
<1>. QED
  BY <1>11, <1>12, MApplies

(* The empty queue is settled when head has not moved. *)
LEMMA MSettleRefines ==
  ASSUME MIInv, NEW t \in Threads, M!DeqCheck(t), m_pc'[t] = "return"
  PROVE  M!Fifo!Settle(t)
<1>1. /\ MOthersStay(t) /\ UNCHANGED <<m_head, m_next, m_val, m_answer>>
      /\ m_my'[t].ret = EMPTY_QUEUE /\ m_my[t].first = m_head /\ m_my[t].next = NULL
  BY MDeqCheckKeeps
<1>2. MEmpty(t)
  BY <1>1 DEF MEmpty, M!DeqCheck, M!Goto
<1>3. /\ M!Served(t) = [status |-> "done", arg |-> <<"deq", NULL>>, ret |-> EMPTY_QUEUE, pure |-> TRUE]
      /\ M!Served(t)' = [status |-> "done", arg |-> <<"deq", NULL>>, ret |-> EMPTY_QUEUE, pure |-> FALSE]
  BY <1>1, <1>2, MServedIs, MServedWillBe DEF MServedAs
<1>4. \A u \in Threads : u # t => M!Served(u)' = M!Served(u)
  BY <1>1, MServedStays
<1>5. m_op' = [m_op EXCEPT ![t] = M!Served(t)']
  BY <1>4, MOpIs
<1>6. /\ m_op[t].status = "done"
      /\ m_op' = [m_op EXCEPT ![t] = M!Fifo!Done(m_op[t].arg, m_op[t].ret, FALSE)]
  <2>1. m_op[t] = M!Served(t)
    BY DEF m_op
  <2>2. /\ m_op[t].status = "done" /\ m_op[t].arg = <<"deq", NULL>>
        /\ m_op[t].ret = EMPTY_QUEUE
    BY <1>3, <2>1
  <2>3. M!Served(t)' = M!Fifo!Done(m_op[t].arg, m_op[t].ret, FALSE)
    BY <1>3, <2>2 DEF M!Fifo!Done
  <2>. QED
    BY <1>5, <2>2, <2>3
<1>7. M!Content' = M!Content
  BY <1>1, MContentStays
<1>. QED
  BY <1>1, <1>6, <1>7 DEF M!Fifo!Settle, m_op

LEMMA MReturnRefines ==
  ASSUME MIInv, NEW t \in Threads, M!SwingTail(t) \/ M!Return(t)
  PROVE  M!Fifo!Return(t)
<1>1. MOthersStay(t) /\ UNCHANGED <<m_head, m_next, m_val>> /\ m_pc'[t] = "out"
  BY MTailKeeps, MFailKeeps
<1>2. M!Served(t).status = "done" /\ m_answer' = [m_answer EXCEPT ![t] = M!Served(t).ret]
  <2>1. CASE M!SwingTail(t)
    <3>1. m_pc[t] = "swing" /\ m_answer' = m_answer
      BY <2>1, MTailKeeps DEF M!SwingTail, M!Goto
    <3>2. m_answer[t] = NULL /\ m_answer = [u \in Threads |-> m_answer[u]]
      BY <3>1 DEF MIInv, MPrivate, MTypes
    <3>. QED
      BY <3>1, <3>2, MServedIs DEF MServedAs
  <2>2. CASE M!Return(t)
    <3>1. m_pc[t] = "return"
      BY <2>2 DEF M!Return, M!Goto
    <3>. QED
      BY <2>2, <3>1, MFailKeeps, MServedIs DEF MServedAs
  <2>. QED
    BY <2>1, <2>2
<1>3. M!Served(t)' = [status |-> "idle"]
  BY <1>1, MServedWillBe DEF MServedAs
<1>4. \A u \in Threads : u # t => M!Served(u)' = M!Served(u)
  BY <1>1, MServedStays
<1>5. /\ m_op[t].status = "done" /\ m_answer' = [m_answer EXCEPT ![t] = m_op[t].ret]
      /\ m_op' = [m_op EXCEPT ![t] = M!Fifo!Idle]
  BY <1>2, <1>3, <1>4, MOpIs DEF m_op, M!Fifo!Idle
<1>6. M!Content' = M!Content
  BY <1>1, MContentStays
<1>. QED
  BY <1>5, <1>6 DEF M!Fifo!Return, m_op

LEMMA MStarts == M!Init => M!Fifo!Init
<1>. SUFFICES ASSUME M!Init PROVE M!Fifo!Init
  OBVIOUS
<1>1. MIInv
  BY MInit
<1>2. PICK q, e, h, k : MQueue(q, e, h, k)
  BY <1>1 DEF MIInv
<1>3. MIs(q, e, h)
  BY <1>1, <1>2, MContentIs
<1>4. h = e
  <2>1. h \in 0 .. e /\ IsList(q, e, m_next) /\ m_head = q[h] /\ e \in Nat
    BY <1>2 DEF MQueue, MList
  <2>2. h # e => h + 1 \in 0 .. e
    BY <2>1
  <2>3. m_next[m_head] = NULL
    BY MConstants DEF M!Init, M!Nodes
  <2>. QED
    BY <2>1, <2>2, <2>3, ListLinks
<1>5. M!Content = <<>>
  <2>1. Queued(q, e, h, m_val) \in [1 .. 0 -> Values]
    BY <1>3, <1>4 DEF MIs, Queued
  <2>2. Queued(q, e, h, m_val) = <<>>
    BY <2>1, FunctionIsSeq
  <2>. QED
    BY <1>3, <2>2 DEF MIs
<1>6. m_op = [t \in Threads |-> M!Fifo!Idle]
  BY MServedIs DEF MServedAs, M!Init, m_op, M!Fifo!Idle
<1>. QED
  BY <1>5, <1>6 DEF M!Init, M!Fifo!Init, m_op

LEMMA MNext == MIInv /\ [M!Next]_(M!vars) => MIInv'
<1>. SUFFICES ASSUME MIInv, [M!Next]_(M!vars) PROVE MIInv'
  OBVIOUS
<1>1. CASE UNCHANGED M!vars
  <2>. USE <1>1 DEF M!vars, M!mem
  <2>1. MTypes' /\ MFresh' /\ \A t \in Threads : MHasRead(t)'
    BY DEF MIInv, MTypes, MFresh, MHasRead
  <2>2. MPrivate'
    BY DEF MIInv, MPrivate, MHolds
  <2>3. ASSUME NEW q, NEW e, NEW h, NEW k, MQueue(q, e, h, k) PROVE MQueue(q, e, h, k)'
    <3>1. MList(q, e, h, k)'
      BY <2>3 DEF MQueue, MList, MHolds
    <3>2. \A t \in Threads : MPlaces(q, h, k, t)'
      BY <2>3 DEF MQueue, MPlaces
    <3>. QED
      BY <3>1, <3>2 DEF MQueue
  <2>. QED
    BY <2>1, <2>2, <2>3 DEF MIInv
<1>2. ASSUME NEW t \in Threads, M!Step(t) PROVE MIInv'
  <2>1. CASE M!EnqReadTail(t) \/ M!EnqReadNext(t) \/ M!EnqCheck(t)
    BY <2>1, MEnqReads
  <2>2. CASE M!EnqHelp(t) \/ M!DeqHelp(t) \/ M!SwingTail(t)
    BY <2>2, MTailKeeps
  <2>3. CASE M!DeqReadHead(t) \/ M!DeqReadTail(t) \/ M!DeqReadNext(t)
    BY <2>3, MDeqReads
  <2>4. CASE M!DeqCheck(t)
    BY <2>4, MDeqCheckKeeps
  <2>5. CASE M!LinkNode(t)
    BY <2>5, MLinkKeeps, MFailKeeps
  <2>6. CASE M!Unlink(t)
    BY <2>6, MUnlinkKeeps, MFailKeeps
  <2>7. CASE M!Return(t)
    BY <2>7, MFailKeeps
  <2>. QED
    BY <1>2, <2>1, <2>2, <2>3, <2>4, <2>5, <2>6, <2>7 DEF M!Step
<1>3. ASSUME NEW t \in Threads, M!Dequeue(t) PROVE MIInv'
  BY <1>3, MFailKeeps
<1>4. ASSUME NEW t \in Threads, NEW v \in Values, M!Enqueue(t, v) PROVE MIInv'
  BY <1>4, MEnqueueKeeps
<1>. QED
  BY <1>1, <1>2, <1>3, <1>4 DEF M!Next

LEMMA MStepRefines ==
  ASSUME MIInv, NEW t \in Threads, M!Step(t)
  PROVE  [M!Fifo!Next]_(M!Fifo!vars)
<1>1. CASE \/ M!EnqReadTail(t) \/ M!EnqReadNext(t) \/ M!EnqCheck(t) \/ M!EnqHelp(t) \/ M!DeqHelp(t)
           \/ M!DeqReadHead(t) \/ M!DeqReadTail(t)
  BY <1>1, MStutters
<1>2. CASE M!LinkNode(t)
  <2>1. CASE m_next[m_my[t].last] = NULL
    BY <1>2, <2>1, MLinkRefines DEF M!Fifo!Next
  <2>2. CASE m_next[m_my[t].last] # NULL
    BY <1>2, <2>2, MStutters
  <2>. QED
    BY <2>1, <2>2
<1>3. CASE M!Unlink(t)
  <2>1. CASE m_head = m_my[t].first
    BY <1>3, <2>1, MUnlinkRefines DEF M!Fifo!Next
  <2>2. CASE m_head # m_my[t].first
    BY <1>3, <2>2, MStutters
  <2>. QED
    BY <2>1, <2>2
<1>4. CASE M!DeqReadNext(t)
  <2>1. CASE m_my[t].first = m_head /\ m_next[m_my[t].first] = NULL
    BY <1>4, <2>1, MEmptyRefines DEF M!Fifo!Next
  <2>2. CASE ~(m_my[t].first = m_head /\ m_next[m_my[t].first] = NULL)
    BY <1>4, <2>2, MStutters
  <2>. QED
    BY <2>1, <2>2
<1>5. CASE M!DeqCheck(t)
  <2>1. CASE m_pc'[t] = "return"
    BY <1>5, <2>1, MSettleRefines DEF M!Fifo!Next
  <2>2. CASE m_pc'[t] # "return"
    BY <1>5, <2>2, MStutters
  <2>. QED
    BY <2>1, <2>2
<1>6. CASE M!SwingTail(t) \/ M!Return(t)
  BY <1>6, MReturnRefines DEF M!Fifo!Next
<1>. QED
  BY <1>1, <1>2, <1>3, <1>4, <1>5, <1>6 DEF M!Step

LEMMA MRefines == MIInv /\ [M!Next]_(M!vars) => [M!Fifo!Next]_(M!Fifo!vars)
<1>. SUFFICES ASSUME MIInv, [M!Next]_(M!vars) PROVE [M!Fifo!Next]_(M!Fifo!vars)
  OBVIOUS
<1>1. CASE UNCHANGED M!vars
  <2>1. M!Content' = M!Content
    BY <1>1, MContentStays DEF M!vars, M!mem
  <2>. QED
    BY <1>1, <2>1 DEF M!vars, M!mem, M!Fifo!vars, M!Served, M!Pending, M!Done
<1>2. ASSUME NEW t \in Threads, M!Step(t) PROVE [M!Fifo!Next]_(M!Fifo!vars)
  BY <1>2, MStepRefines
<1>3. ASSUME NEW t \in Threads, M!Dequeue(t) PROVE M!Fifo!Next
  <2>1. M!Fifo!Call(t, M!Deq) /\ M!Deq \in M!Requests
    BY <1>3, MCallRefines DEF M!Requests
  <2>. QED
    BY <2>1 DEF M!Fifo!Next
<1>4. ASSUME NEW t \in Threads, NEW v \in Values, M!Enqueue(t, v) PROVE M!Fifo!Next
  <2>1. M!Fifo!Call(t, <<"enq", v>>) /\ <<"enq", v>> \in M!Requests
    BY <1>4, MCallRefines DEF M!Requests
  <2>. QED
    BY <2>1 DEF M!Fifo!Next
<1>. QED
  BY <1>1, <1>2, <1>3, <1>4 DEF M!Next

LEMMA MTail == MIInv => M!TailIsNearEnd
<1>. SUFFICES ASSUME MIInv PROVE M!TailIsNearEnd
  OBVIOUS
<1>1. PICK q, e, h, k : MQueue(q, e, h, k)
  BY DEF MIInv
<1>2. /\ h \in Nat /\ k \in Nat /\ e \in Nat /\ h <= k /\ k <= e /\ e <= k + 1
      /\ IsList(q, e, m_next) /\ m_tail = q[k]
  BY <1>1 DEF MQueue, MList
<1>3. ReachesEnd(q, e, h, M!Reached, MSNodes)
  BY <1>1, MReachedIs
<1>4. \E i \in 0 .. MSNodes : M!Reached[i] = m_tail
  <2>1. k - h \in 0 .. MSNodes /\ k - h \in 0 .. MSNodes + 1 /\ k - h <= e - h /\ h + (k - h) = k
    BY <1>2, <1>3, MConstants DEF ReachesEnd
  <2>2. M!Reached[k - h] = q[k]
    BY <1>3, <2>1 DEF ReachesEnd
  <2>. QED
    BY <1>2, <2>1, <2>2
<1>5. ASSUME m_next[m_tail] # NULL PROVE m_next[m_next[m_tail]] = NULL
  <2>1. k \in 0 .. e /\ e \in 0 .. e
    BY <1>2
  <2>2. k # e /\ m_next[m_tail] = q[k + 1]
    BY <1>2, <1>5, <2>1, ListLinks
  <2>3. k + 1 = e
    BY <1>2, <2>2
  <2>. QED
    BY <1>2, <2>1, <2>2, <2>3, ListLinks
<1>. QED
  BY <1>4, <1>5 DEF M!TailIsNearEnd

(* The Michael-Scott queue is linearizable and first in, first out, for any *)
(* threads and any number of nodes, although tail lags behind and a dequeue *)
(* that finds the queue empty may have to look again (msqueue.c:17-64).     *)
THEOREM MSQueueIsFifo == M!Spec => M!ImplementsFifo
<1>1. M!Spec => []MIInv
  BY MInit, MNext, PTL DEF M!Spec
<1>. QED
  BY <1>1, MStarts, MRefines, PTL DEF M!Spec, M!ImplementsFifo, M!Fifo!Spec

(* Tail is in the list from head on, and one node behind its end at most:   *)
(* an enqueue that finds it behind moves it before it links its own node    *)
(* (msqueue.c:25-37).                                                       *)
THEOREM MSTailIsNearEnd == M!Spec => []M!TailIsNearEnd
<1>1. M!Spec => []MIInv
  BY MInit, MNext, PTL DEF M!Spec
<1>. QED
  BY <1>1, MTail, PTL
-----------------------------------------------------------------------------
(*                     The values that are no guards                       *)

(* g[i] has those of x[1], ... x[i].                                        *)
Chosen(x, i, s) == IF x[i] = Guard THEN s ELSE Append(s, x[i])
Select(g, x, e) == g = [i \in 0 .. e |-> IF i = 0 THEN <<>> ELSE Chosen(x, i, g[i - 1])]

LEMMA SelectIs ==
  \A g, x, e : Select(g, x, e) /\ e \in Nat =>
    g[0] = <<>> /\ \A i \in 1 .. e : g[i] = Chosen(x, i, g[i - 1])
<1>. SUFFICES ASSUME NEW g, NEW x, NEW e \in Nat, Select(g, x, e)
              PROVE  g[0] = <<>> /\ \A i \in 1 .. e : g[i] = Chosen(x, i, g[i - 1])
  OBVIOUS
<1>1. \A i \in 0 .. e : g[i] = IF i = 0 THEN <<>> ELSE Chosen(x, i, g[i - 1])
  BY DEF Select
<1>2. 0 \in 0 .. e /\ \A i \in 1 .. e : i \in 0 .. e /\ i # 0
  OBVIOUS
<1>. QED
  BY ONLY <1>1, <1>2

LEMMA SelectExists == \A x : \A e \in Nat : \E g : Select(g, x, e)
<1>. SUFFICES ASSUME NEW x, NEW e \in Nat, ~\E g : Select(g, x, e) PROVE FALSE
  OBVIOUS
<1>. DEFINE T == {n \in Nat : ~\E g : Select(g, x, n)}
<1>1. T \subseteq Nat /\ T # {}
  OBVIOUS
<1>2. PICK n \in T : \A m \in T : n <= m
  BY ONLY <1>1, LeastNatural
<1>3. n # 0
  <2>1. Select([i \in 0 .. 0 |-> <<>>], x, 0)
    BY DEF Select
  <2>. QED
    BY <2>1
<1>4. n - 1 \in Nat /\ n - 1 \notin T
  BY <1>2, <1>3
<1>5. PICK f : Select(f, x, n - 1)
  BY <1>4
<1>. DEFINE g == [i \in 0 .. n |-> IF i = n THEN Chosen(x, n, f[n - 1]) ELSE f[i]]
<1>6. g[0] = <<>> /\ f[0] = <<>> /\ g[n] = Chosen(x, n, g[n - 1])
      /\ \A i \in 1 .. n - 1 : g[i] = Chosen(x, i, g[i - 1])
  <2>1. n \in Nat /\ 0 \in 0 .. n /\ n \in 0 .. n /\ n - 1 \in 0 .. n /\ n - 1 # n
        /\ \A i \in 1 .. n - 1 : i \in 0 .. n /\ i - 1 \in 0 .. n /\ i # n /\ i - 1 # n
    BY <1>3, <1>4
  <2>2. g[n] = Chosen(x, n, f[n - 1]) /\ \A i \in 0 .. n : i # n => g[i] = f[i]
    BY <2>1
  <2>. HIDE DEF g
  <2>. QED
    BY <1>3, <1>4, <1>5, <2>1, <2>2, SelectIs
<1>7. \A i \in 0 .. n : i = 0 \/ i = n \/ i \in 1 .. n - 1
  OBVIOUS
<1>8. g = [i \in 0 .. n |-> g[i]]
  OBVIOUS
<1>9. \A i \in 0 .. n : g[i] = IF i = 0 THEN <<>> ELSE Chosen(x, i, g[i - 1])
  <2>. HIDE DEF g, T
  <2>. QED
    BY <1>3, <1>6, <1>7
<1>. HIDE DEF g, T
<1>10. Select(g, x, n)
  BY <1>8, <1>9 DEF Select
<1>. QED
  BY <1>10 DEF T

(* Equal values up to e give equal sequences up to e. *)
AreAlike(x, y, e, d) == e \in Nat /\ d \in Nat /\ e <= d /\ \A i \in 1 .. e : x[i] = y[i]

LEMMA SelectAlike ==
  \A g, f, x, y, e, d : Select(g, x, e) /\ Select(f, y, d) /\ AreAlike(x, y, e, d) =>
    \A i \in 0 .. e : g[i] = f[i]
<1>. SUFFICES ASSUME NEW g, NEW f, NEW x, NEW y, NEW e, NEW d, Select(g, x, e), Select(f, y, d),
                     AreAlike(x, y, e, d), ~\A i \in 0 .. e : g[i] = f[i]
              PROVE  FALSE
  OBVIOUS
<1>0. e \in Nat /\ d \in Nat /\ e <= d /\ \A i \in 1 .. e : x[i] = y[i]
  BY DEF AreAlike
<1>. DEFINE T == {i \in 0 .. e : g[i] # f[i]}
<1>1. T \subseteq Nat /\ T # {}
  BY <1>0
<1>2. PICK n \in T : \A m \in T : n <= m
  BY ONLY <1>1, LeastNatural
<1>3. /\ g[0] = <<>> /\ f[0] = <<>> /\ \A i \in 1 .. e : g[i] = Chosen(x, i, g[i - 1])
      /\ \A i \in 1 .. d : f[i] = Chosen(y, i, f[i - 1])
  BY <1>0, SelectIs
<1>4. n \in 0 .. e /\ g[n] # f[n] /\ n # 0
  BY <1>3
<1>5. n \in 1 .. e /\ n \in 1 .. d /\ n - 1 \in 0 .. e /\ ~ n <= n - 1
  BY <1>0, <1>4
<1>6. g[n - 1] = f[n - 1]
  BY <1>2, <1>5
<1>. QED
  BY <1>0, <1>3, <1>4, <1>5, <1>6 DEF Chosen

LEMMA SelectIsSeq ==
  \A g, x, e, X : Select(g, x, e) /\ e \in Nat /\ (\A i \in 1 .. e : x[i] \in X) =>
    \A i \in 0 .. e : g[i] \in Seq(X)
<1>. SUFFICES ASSUME NEW g, NEW x, NEW e \in Nat, NEW X, Select(g, x, e),
                     \A i \in 1 .. e : x[i] \in X, ~\A i \in 0 .. e : g[i] \in Seq(X)
              PROVE  FALSE
  OBVIOUS
<1>. DEFINE T == {i \in 0 .. e : g[i] \notin Seq(X)}
<1>1. T \subseteq Nat /\ T # {}
  OBVIOUS
<1>2. PICK n \in T : \A m \in T : n <= m
  BY ONLY <1>1, LeastNatural
<1>3. g[0] = <<>> /\ \A i \in 1 .. e : g[i] = Chosen(x, i, g[i - 1])
  BY SelectIs
<1>4. n \in 0 .. e /\ g[n] \notin Seq(X) /\ n # 0
  <2>1. n \in 0 .. e /\ g[n] \notin Seq(X)
    OBVIOUS
  <2>2. <<>> \in Seq(X)
    BY EmptySeq
  <2>. QED
    BY ONLY <1>3, <2>1, <2>2
<1>5. n \in 1 .. e /\ n - 1 \in 0 .. e /\ ~ n <= n - 1
  BY <1>4
<1>6. g[n - 1] \in Seq(X) /\ x[n] \in X
  BY <1>2, <1>5
<1>7. g[n] = g[n - 1] \/ g[n] = Append(g[n - 1], x[n])
  BY <1>3, <1>5 DEF Chosen
<1>8. Append(g[n - 1], x[n]) \in Seq(X)
  BY <1>6, AppendProperties
<1>. QED
  BY <1>4, <1>6, <1>7, <1>8

(* Without the first value. *)
Shifted(x, e) == [i \in 1 .. e - 1 |-> x[i + 1]]

Follows(x, s, r) ==
  IF x[1] = Guard THEN r = s ELSE s # <<>> /\ Head(s) = x[1] /\ Tail(s) = r

LEMMA SelectShifted ==
  ASSUME NEW g, NEW f, NEW x, NEW e \in Nat, e >= 1, NEW X, \A i \in 1 .. e : x[i] \in X,
         Select(g, x, e), Select(f, Shifted(x, e), e - 1)
  PROVE  Follows(x, g[e], f[e - 1])
<1>. DEFINE y == Shifted(x, e)
            T == {i \in 0 .. e - 1 : ~Follows(x, g[i + 1], f[i])}
<1>0. e - 1 \in Nat
  OBVIOUS
<1>1. /\ g[0] = <<>> /\ f[0] = <<>> /\ \A i \in 1 .. e : g[i] = Chosen(x, i, g[i - 1])
      /\ \A i \in 1 .. e - 1 : f[i] = Chosen(y, i, f[i - 1])
  BY <1>0, SelectIs
<1>2. \A i \in 0 .. e : g[i] \in Seq(X)
  BY SelectIsSeq
<1>3. \A i \in 1 .. e - 1 : y[i] = x[i + 1] /\ i + 1 \in 1 .. e
  BY DEF Shifted
<1>. HIDE DEF y
<1>4. Follows(x, g[1], f[0])
  <2>1. 1 \in 1 .. e /\ 1 - 1 = 0 /\ x[1] \in X
    OBVIOUS
  <2>2. g[1] = Chosen(x, 1, <<>>)
    BY <1>1, <2>1
  <2>3. <<>> \in Seq(X)
    BY EmptySeq
  <2>4. /\ Append(<<>>, x[1]) # <<>> /\ Head(Append(<<>>, x[1])) = x[1]
        /\ Tail(Append(<<>>, x[1])) = <<>>
    BY <2>1, <2>3, HeadTailAppend, AppendProperties
  <2>. QED
    BY <1>1, <2>2, <2>4 DEF Follows, Chosen
<1>5. ASSUME NEW i \in 1 .. e - 1, Follows(x, g[i], f[i - 1]) PROVE Follows(x, g[i + 1], f[i])
  <2>1. g[i + 1] = Chosen(x, i + 1, g[i]) /\ f[i] = Chosen(y, i, f[i - 1]) /\ y[i] = x[i + 1]
    <3>1. i + 1 \in 1 .. e /\ (i + 1) - 1 = i
      OBVIOUS
    <3>. QED
      BY <1>1, <1>3, <3>1
  <2>2. CASE x[i + 1] = Guard
    BY <1>5, <2>1, <2>2 DEF Follows, Chosen
  <2>3. CASE x[i + 1] # Guard
    <3>1. g[i + 1] = Append(g[i], x[i + 1]) /\ f[i] = Append(f[i - 1], x[i + 1])
      BY <2>1, <2>3 DEF Chosen
    <3>2. g[i] \in Seq(X) /\ x[i + 1] \in X
      <4>1. i \in 0 .. e
        OBVIOUS
      <4>. QED
        BY <1>2, <1>3, <4>1
    <3>3. /\ Append(g[i], x[i + 1]) # <<>>
          /\ g[i] # <<>> => /\ Head(Append(g[i], x[i + 1])) = Head(g[i])
                            /\ Tail(Append(g[i], x[i + 1])) = Append(Tail(g[i]), x[i + 1])
      <4>. DEFINE s == g[i]
                  v == x[i + 1]
      <4>1. s \in Seq(X) /\ v \in X
        BY <3>2
      <4>. HIDE DEF s, v
      <4>2. Append(s, v) # <<>>
        BY ONLY <4>1, AppendProperties
      <4>3. s # <<>> => Head(Append(s, v)) = Head(s) /\ Tail(Append(s, v)) = Append(Tail(s), v)
        BY ONLY <4>1, HeadTailAppend
      <4>. QED
        BY <4>2, <4>3 DEF s, v
    <3>. QED
      BY <1>5, <3>1, <3>3 DEF Follows
  <2>. QED
    BY <2>2, <2>3
<1>6. T = {}
  <2>1. SUFFICES ASSUME T # {} PROVE FALSE
    OBVIOUS
  <2>2. T \subseteq Nat
    OBVIOUS
  <2>3. PICK n \in T : \A m \in T : n <= m
    BY ONLY <2>1, <2>2, LeastNatural
  <2>4. n \in 0 .. e - 1 /\ ~Follows(x, g[n + 1], f[n])
    OBVIOUS
  <2>5. n # 0
    BY <1>4, <2>4
  <2>6. n \in 1 .. e - 1 /\ n - 1 \in 0 .. e - 1 /\ ~ n <= n - 1 /\ (n - 1) + 1 = n
    BY <2>4, <2>5
  <2>7. Follows(x, g[n], f[n - 1])
    BY <2>3, <2>6
  <2>. QED
    BY <1>5, <2>4, <2>6, <2>7
<1>. QED
  <2>1. e - 1 \in 0 .. e - 1 /\ (e - 1) + 1 = e
    OBVIOUS
  <2>. QED
    BY <1>6, <2>1

LEMMA SelectLonger ==
  ASSUME NEW g, NEW f, NEW x, NEW y, NEW e \in Nat, \A i \in 1 .. e : x[i] = y[i],
         Select(g, x, e), Select(f, y, e + 1)
  PROVE  f[e + 1] = Chosen(y, e + 1, g[e])
<1>1. AreAlike(x, y, e, e + 1) /\ e \in 0 .. e /\ e + 1 \in 1 .. e + 1 /\ (e + 1) - 1 = e
      /\ e + 1 \in Nat
  BY DEF AreAlike
<1>2. g[e] = f[e]
  BY <1>1, SelectAlike
<1>. QED
  BY <1>1, <1>2, SelectIs
-----------------------------------------------------------------------------
(*                The queue on two combining objects                       *)

LEMMA QConstants ==
  /\ LinkedNodes \in Nat \ {0} /\ NULL \notin 0 .. LinkedNodes
  /\ NULL \notin Values /\ NULL \notin Threads
  /\ NULL \notin Q!Enqueuing /\ NULL \notin Q!Dequeuing
  /\ Q!Source = [announces |-> "arg", skipsGuard |-> TRUE, returns |-> "new", recycles |-> TRUE]
  BY StructuresAssumption DEF Q!ConstantsAssumption, Q!Source, Q!CCQueue

QIsOp(o) ==
  \/ o = Q!Idle
  \/ \E r \in Q!Requests : o = Q!Pending(r)
  \/ \E a : o = Q!Done(a)

QTypes ==
  /\ q_last \in 0 .. LinkedNodes /\ q_used \in 0 .. LinkedNodes
  /\ q_next \in [0 .. LinkedNodes -> 0 .. LinkedNodes \cup {NULL}]
  /\ q_val \in [0 .. LinkedNodes -> Values \cup Threads \cup {Guard, NULL}]
  /\ q_op = [t \in Threads |-> q_op[t]] /\ q_answer = [t \in Threads |-> q_answer[t]]
  /\ \A t \in Threads : QIsOp(q_op[t])

QFree(n) == InPools(q_pool, n)

(* Nodes are taken out of blocks in order, and node 0 was there before.     *)
QPools == ArePools(q_pool) /\ \A n : QFree(n) => n \in 0 .. q_used

(* The serial functions that run.                                           *)
QEnq ==
  q_enq # NULL =>
    /\ q_enq \in Q!Enqueuing
    /\ q_enq.node \in 0 .. q_used /\ ~QFree(q_enq.node)
    /\ \E v \in Values : q_op[q_enq.for] = Q!Pending(<<"enq", v>>)
                         /\ (~q_enq.linked => q_val[q_enq.node] = v)
    /\ ~q_enq.linked => q_next[q_enq.node] = NULL

QDeq ==
  q_deq # NULL =>
    /\ q_deq \in Q!Dequeuing
    /\ q_deq.prev \in 0 .. q_used /\ ~QFree(q_deq.prev)
    /\ q_op[q_deq.for] = Q!Pending(<<"deq", NULL>>)
    /\ q_enq # NULL => q_deq.prev # q_enq.node

QLinking == q_enq # NULL /\ q_enq.linked

(* The list from first on is q[0], ... q[e], apart from the other nodes.    *)
(* Last is at its end; while it is about to move there, it may be anywhere, *)
(* because dequeuers do not wait for it.                                    *)
QList(q, e) ==
  /\ IsList(q, e, q_next) /\ IsOf(q, e, q_used) /\ q_first = q[0]
  /\ \A i \in 0 .. e : ~QFree(q[i])
  /\ \A i \in 1 .. e : q_val[q[i]] \in Values
  /\ ~QLinking => q_last = q[e]
  /\ QLinking => q_enq.node = q[e]
  /\ q_enq # NULL /\ ~q_enq.linked => \A i \in 0 .. e : q[i] # q_enq.node
  /\ q_deq # NULL => \A i \in 0 .. e : q[i] # q_deq.prev

QIInv == QTypes /\ QPools /\ QEnq /\ QDeq /\ \E q, e : QList(q, e)

LEMMA QInit == Q!Init => QIInv
<1>. SUFFICES ASSUME Q!Init PROVE QIInv
  OBVIOUS
<1>. USE QConstants
<1>1. \A t \in Threads : q_pool[t] = <<>> /\ Len(q_pool[t]) = 0
  BY DEF Q!Init
<1>2. q_pool \in [Threads -> Seq(Int)]
  BY DEF Q!Init
<1>3. QTypes
  BY DEF Q!Init, Q!Nodes, QTypes, QIsOp
<1>4. QPools /\ \A n : ~QFree(n)
  BY <1>1, <1>2 DEF QPools, QFree, ArePools, InPools
<1>5. QEnq /\ QDeq
  BY DEF Q!Init, QEnq, QDeq
<1>. DEFINE q == [i \in 0 .. 0 |-> 0]
<1>6. q[0] = 0 /\ \A i \in 0 .. 0 : i = 0
  OBVIOUS
<1>. HIDE DEF q
<1>7. q_next[0] = NULL
  BY DEF Q!Init, Q!Nodes
<1>8. IsList(q, 0, q_next)
  BY <1>6, <1>7 DEF IsList, IsPath, IsSimple
<1>9. QList(q, 0)
  BY <1>4, <1>6, <1>8 DEF Q!Init, QList, QLinking, IsOf
<1>. QED
  BY <1>3, <1>4, <1>5, <1>9 DEF QIInv

LEMMA QOpKeeps ==
  ASSUME QTypes, NEW t \in Threads, NEW o, QIsOp(o), q_op' = [q_op EXCEPT ![t] = o]
  PROVE  /\ q_op' = [u \in Threads |-> q_op'[u]] /\ q_op'[t] = o
         /\ \A u \in Threads : QIsOp(q_op'[u]) /\ (u # t => q_op'[u] = q_op[u])
  BY DEF QTypes

QSame == q_val' = q_val /\ \E q, e : QList(q, e) /\ QList(q, e)'

(* Calls and returns leave the nodes alone. *)
LEMMA QCallKeeps ==
  ASSUME QIInv, NEW t \in Threads, Q!Return(t) \/ \E r \in Q!Requests : Q!Call(t, r)
  PROVE  QIInv' /\ QSame
<1>1. /\ UNCHANGED <<q_first, q_last, q_next, q_val, q_used, q_pool, q_enq, q_deq>>
      /\ q_answer' = [u \in Threads |-> q_answer'[u]]
  BY DEF Q!Return, Q!Call, QIInv, QTypes
<1>2. \E o : QIsOp(o) /\ q_op' = [q_op EXCEPT ![t] = o]
  <2>1. QIsOp(Q!Idle) /\ \A r \in Q!Requests : QIsOp(Q!Pending(r))
    BY DEF QIsOp
  <2>. QED
    BY <2>1 DEF Q!Return, Q!Call
<1>3. /\ q_op' = [u \in Threads |-> q_op'[u]]
      /\ \A u \in Threads : QIsOp(q_op'[u]) /\ (u # t => q_op'[u] = q_op[u])
  BY <1>2, QOpKeeps DEF QIInv
<1>4. \A r : q_op[t] # Q!Pending(r)
  BY DEF Q!Return, Q!Call, Q!Idle, Q!Pending
<1>5. QTypes' /\ QPools'
  BY <1>1, <1>3 DEF QIInv, QTypes, QPools, QFree
<1>6. QEnq' /\ QDeq'
  <2>1. /\ q_enq # NULL => q_enq.for # t /\ q_enq.for \in Threads
        /\ q_deq # NULL => q_deq.for # t /\ q_deq.for \in Threads
    <3>1. /\ q_enq # NULL => q_enq.for \in Threads /\ \E r : q_op[q_enq.for] = Q!Pending(r)
          /\ q_deq # NULL => q_deq.for \in Threads /\ \E r : q_op[q_deq.for] = Q!Pending(r)
      BY DEF QIInv, QEnq, QDeq, Q!Enqueuing, Q!Dequeuing
    <3>. QED
      BY <1>4, <3>1
  <2>2. QEnq'
    BY <1>1, <1>3, <2>1 DEF QIInv, QEnq, QFree
  <2>3. QDeq'
    BY <1>1, <1>3, <2>1 DEF QIInv, QDeq, QFree
  <2>. QED
    BY <2>2, <2>3
<1>7. \A q, e : QList(q, e)' <=> QList(q, e)
  BY <1>1 DEF QList, QLinking, QFree
<1>. QED
  BY <1>1, <1>5, <1>6, <1>7 DEF QIInv, QSame

(* The node that serialEnqueue takes is nowhere else. *)
QTaken(n) ==
  /\ n \in 0 .. LinkedNodes /\ n \in 0 .. q_used'
  /\ q_used' \in 0 .. LinkedNodes /\ q_used <= q_used'
  /\ \A q, e : QList(q, e) => \A i \in 0 .. e : q[i] # n
  /\ q_deq # NULL => q_deq.prev # n
  /\ QPools' /\ \A x : QFree(x)' => QFree(x) /\ x # n

LEMMA QTakes ==
  ASSUME QIInv, NEW c \in Threads, NEW t \in Threads, Q!AllocNode(c, t)
  PROVE  \E n : /\ q_next' = [q_next EXCEPT ![n] = NULL]
                /\ q_val' = [q_val EXCEPT ![n] = q_op[t].arg[2]]
                /\ q_enq' = [by |-> c, for |-> t, node |-> n, linked |-> FALSE]
                /\ QTaken(n)
<1>. USE QConstants
<1>1. PICK n \in 0 .. LinkedNodes :
        /\ IF q_pool[c] # <<>>
             THEN n = Head(q_pool[c]) /\ q_pool' = [q_pool EXCEPT ![c] = Tail(@)]
                  /\ q_used' = q_used
             ELSE n = q_used + 1 /\ q_used' = n /\ q_pool' = q_pool
        /\ q_next' = [q_next EXCEPT ![n] = NULL]
        /\ q_val' = [q_val EXCEPT ![n] = q_op[t].arg[2]]
        /\ q_enq' = [by |-> c, for |-> t, node |-> n, linked |-> FALSE]
  BY DEF Q!AllocNode, Q!Nodes
<1>2. /\ q_used \in Nat /\ q_used <= LinkedNodes /\ ArePools(q_pool)
      /\ \A x : QFree(x) => x \in 0 .. q_used
      /\ q_deq # NULL => q_deq.prev \in 0 .. q_used /\ ~QFree(q_deq.prev)
  BY DEF QIInv, QTypes, QPools, QDeq
<1>3. CASE q_pool[c] = <<>>
  <2>1. n = q_used + 1 /\ q_used' = n /\ q_pool' = q_pool /\ n \in 0 .. q_used'
        /\ n \notin 0 .. q_used /\ \A x \in 0 .. q_used : x \in 0 .. q_used'
    BY <1>1, <1>2, <1>3
  <2>2. \A x : QFree(x)' => QFree(x) /\ x # n
    BY <1>2, <2>1 DEF QFree
  <2>3. QPools'
    BY <1>2, <2>1 DEF QPools, QFree
  <2>4. \A q, e : QList(q, e) => \A i \in 0 .. e : q[i] # n
    BY <2>1 DEF QList, IsOf
  <2>5. QTaken(n)
    BY <1>2, <2>1, <2>2, <2>3, <2>4 DEF QTaken
  <2>. QED
    BY <1>1, <2>5
<1>4. CASE q_pool[c] # <<>>
  <2>1. IsTaken(q_pool, c, n, q_pool') /\ q_used' = q_used
    BY <1>1, <1>2, <1>4 DEF IsTaken
  <2>2. ArePools(q_pool') /\ QFree(n) /\ \A x : QFree(x)' => QFree(x) /\ x # n
    BY <2>1, PoolTake DEF QFree
  <2>3. QPools' /\ n \in 0 .. q_used
    BY <1>2, <2>1, <2>2 DEF QPools
  <2>4. \A q, e : QList(q, e) => \A i \in 0 .. e : q[i] # n
    BY <2>2 DEF QList
  <2>5. QTaken(n)
    BY <1>2, <2>1, <2>2, <2>3, <2>4 DEF QTaken
  <2>. QED
    BY <1>1, <2>5
<1>. QED
  BY <1>3, <1>4

(* Same nodes behind first, which hold the same. *)
QSameList ==
  \E q, e : /\ QList(q, e) /\ QList(q, e)'
            /\ \A i \in 0 .. e : q_next'[q[i]] = q_next[q[i]] /\ q_val'[q[i]] = q_val[q[i]]

LEMMA QAllocKeeps ==
  ASSUME QIInv, NEW c \in Threads, NEW t \in Threads, Q!AllocNode(c, t)
  PROVE  QIInv' /\ QSameList
<1>. USE QConstants
<1>1. PICK n : /\ q_next' = [q_next EXCEPT ![n] = NULL]
               /\ q_val' = [q_val EXCEPT ![n] = q_op[t].arg[2]]
               /\ q_enq' = [by |-> c, for |-> t, node |-> n, linked |-> FALSE]
               /\ QTaken(n)
  BY QTakes
<1>2. /\ UNCHANGED <<q_first, q_last, q_op, q_deq, q_answer>> /\ q_enq = NULL
      /\ q_op[t].status = "pending" /\ q_op[t].arg[1] = "enq"
  BY DEF Q!AllocNode, Q!MayServe
<1>3. PICK v \in Values : q_op[t] = Q!Pending(<<"enq", v>>)
  <2>1. PICK r \in Q!Requests : q_op[t] = Q!Pending(r)
    BY <1>2 DEF QIInv, QTypes, QIsOp, Q!Idle, Q!Done, Q!Pending
  <2>2. r[1] = "enq"
    BY <1>2, <2>1 DEF Q!Pending
  <2>. QED
    BY <2>1, <2>2 DEF Q!Requests
<1>4. q_op[t].arg[2] = v
  BY <1>3 DEF Q!Pending
<1>5. /\ n \in 0 .. LinkedNodes /\ n \in 0 .. q_used'
      /\ q_used' \in 0 .. LinkedNodes /\ q_used <= q_used' /\ q_used \in Nat
      /\ \A q, e : QList(q, e) => \A i \in 0 .. e : q[i] # n
      /\ q_deq # NULL => q_deq.prev # n
      /\ QPools' /\ \A x : QFree(x)' => QFree(x) /\ x # n
  BY <1>1 DEF QTaken, QIInv, QTypes
<1>6. /\ q_next' \in [0 .. LinkedNodes -> 0 .. LinkedNodes \cup {NULL}] /\ q_next'[n] = NULL
      /\ q_val' \in [0 .. LinkedNodes -> Values \cup Threads \cup {Guard, NULL}]
      /\ q_val'[n] = v
      /\ \A i \in 0 .. LinkedNodes : i # n => q_next'[i] = q_next[i] /\ q_val'[i] = q_val[i]
  BY <1>1, <1>4, <1>5 DEF QIInv, QTypes
<1>7. QTypes'
  BY <1>2, <1>5, <1>6 DEF QIInv, QTypes
<1>8. QEnq'
  <2>1. /\ q_enq' # NULL => q_enq'.node = n /\ q_enq'.for = t /\ q_enq'.linked = FALSE
        /\ q_enq' \in Q!Enqueuing
    BY <1>1, <1>5 DEF Q!Enqueuing
  <2>. QED
    BY <1>2, <1>3, <1>5, <1>6, <2>1 DEF QEnq
<1>9. QDeq'
  <2>1. q_enq'.node = n
    BY <1>1
  <2>. QED
    BY <1>2, <1>5, <2>1 DEF QIInv, QDeq
<1>10. PICK q, e : QList(q, e)
  BY DEF QIInv
<1>11. \A i \in 0 .. e : /\ q[i] \in 0 .. q_used' /\ q[i] # n
                         /\ q_next'[q[i]] = q_next[q[i]] /\ q_val'[q[i]] = q_val[q[i]]
  <2>1. ASSUME NEW i \in 0 .. e
        PROVE  q[i] \in 0 .. q_used' /\ q[i] # n /\ q[i] \in 0 .. LinkedNodes
    <3>1. q[i] \in 0 .. q_used /\ q[i] # n
      BY <1>5, <1>10 DEF QList, IsOf
    <3>. QED
      BY <1>5, <3>1
  <2>. QED
    BY <1>6, <2>1
<1>12. QList(q, e)'
  <2>1. IsList(q, e, q_next')
    BY <1>10, <1>11, ListStays DEF QList
  <2>2. ~QLinking /\ ~QLinking' /\ q_enq'.node = n
    BY <1>1, <1>2 DEF QLinking
  <2>3. \A i \in 1 .. e : i \in 0 .. e
    BY <1>10 DEF QList, IsList
  <2>. QED
    BY <1>2, <1>5, <1>10, <1>11, <2>1, <2>2, <2>3 DEF QList, IsOf
<1>. QED
  BY <1>5, <1>7, <1>8, <1>9, <1>10, <1>11, <1>12 DEF QIInv, QSameList
(* Who is served on the two sides. *)
LEMMA QServes ==
  QIInv =>
    /\ q_enq # NULL => /\ q_enq.for \in Threads /\ q_op[q_enq.for].status = "pending"
                       /\ q_op[q_enq.for].arg[1] = "enq"
    /\ q_deq # NULL => /\ q_deq.for \in Threads /\ q_deq.by \in Threads
                       /\ q_op[q_deq.for].status = "pending" /\ q_op[q_deq.for].arg[1] = "deq"
                       /\ q_deq.prev \in 0 .. LinkedNodes
<1>. SUFFICES ASSUME QIInv
              PROVE  /\ q_enq # NULL => /\ q_enq.for \in Threads
                                        /\ q_op[q_enq.for].status = "pending"
                                        /\ q_op[q_enq.for].arg[1] = "enq"
                     /\ q_deq # NULL => /\ q_deq.for \in Threads /\ q_deq.by \in Threads
                                        /\ q_op[q_deq.for].status = "pending"
                                        /\ q_op[q_deq.for].arg[1] = "deq"
                                        /\ q_deq.prev \in 0 .. LinkedNodes
  OBVIOUS
<1>1. \A r : Q!Pending(r).status = "pending" /\ Q!Pending(r).arg = r
  BY DEF Q!Pending
<1>2. ASSUME q_enq # NULL
      PROVE  /\ q_enq.for \in Threads /\ q_op[q_enq.for].status = "pending"
             /\ q_op[q_enq.for].arg[1] = "enq"
  <2>1. PICK v \in Values : q_op[q_enq.for] = Q!Pending(<<"enq", v>>)
    BY <1>2 DEF QIInv, QEnq
  <2>2. q_enq.for \in Threads
    BY <1>2 DEF QIInv, QEnq, Q!Enqueuing
  <2>. QED
    BY <1>1, <2>1, <2>2
<1>3. ASSUME q_deq # NULL
      PROVE  /\ q_deq.for \in Threads /\ q_deq.by \in Threads
             /\ q_op[q_deq.for].status = "pending" /\ q_op[q_deq.for].arg[1] = "deq"
             /\ q_deq.prev \in 0 .. LinkedNodes
  <2>1. q_op[q_deq.for] = Q!Pending(<<"deq", NULL>>)
    BY <1>3 DEF QIInv, QDeq
  <2>2. q_deq.for \in Threads /\ q_deq.by \in Threads /\ q_deq.prev \in 0 .. LinkedNodes
    BY <1>3 DEF QIInv, QDeq, Q!Dequeuing
  <2>. QED
    BY <1>1, <2>1, <2>2
<1>. QED
  BY <1>2, <1>3


(* The new node goes behind the last one. *)
LEMMA QLinkKeeps ==
  ASSUME QIInv, Q!Link
  PROVE  QIInv' /\ \E q, e, r : /\ QList(q, e) /\ QList(r, e + 1)'
                                /\ r = Extended(q, e, q_enq.node)
<1>. USE QConstants
<1>. DEFINE p == q_enq.node
<1>1. /\ UNCHANGED <<q_first, q_last, q_val, q_used, q_pool, q_op, q_deq, q_answer>>
      /\ q_enq # NULL /\ ~q_enq.linked /\ q_next' = [q_next EXCEPT ![q_last] = p]
      /\ q_enq' = [q_enq EXCEPT !.linked = TRUE]
  BY DEF Q!Link
<1>2. PICK q, e : QList(q, e)
  BY DEF QIInv
<1>3. /\ e \in Nat /\ IsList(q, e, q_next) /\ IsOf(q, e, q_used) /\ q_first = q[0]
      /\ q_last = q[e] /\ (\A i \in 0 .. e : q[i] # p) /\ ~QLinking
  BY <1>1, <1>2 DEF QList, QLinking, IsList
<1>4. /\ p \in 0 .. q_used /\ p \in 0 .. LinkedNodes /\ p # NULL /\ ~QFree(p) /\ q_next[p] = NULL
      /\ q_val[p] \in Values /\ q_last \in 0 .. LinkedNodes
  <2>1. /\ p \in 0 .. q_used /\ ~QFree(p) /\ q_next[p] = NULL /\ q_val[p] \in Values
        /\ q_enq \in Q!Enqueuing
    BY <1>1 DEF QIInv, QEnq
  <2>2. p \in 0 .. LinkedNodes
    BY <2>1 DEF Q!Enqueuing
  <2>. QED
    BY <2>1, <2>2 DEF QIInv, QTypes
<1>5. /\ q_next' \in [0 .. LinkedNodes -> 0 .. LinkedNodes \cup {NULL}] /\ q_next'[q_last] = p
      /\ \A i : i # q_last => q_next'[i] = q_next[i]
  BY <1>1, <1>4 DEF QIInv, QTypes
<1>6. /\ q_enq' # NULL /\ q_enq'.linked /\ q_enq'.node = p /\ q_enq'.for = q_enq.for
      /\ q_enq' \in Q!Enqueuing
  BY <1>1 DEF QIInv, QEnq, Q!Enqueuing
<1>7. QTypes' /\ QPools'
  BY <1>1, <1>5 DEF QIInv, QTypes, QPools, QFree
<1>8. QEnq' /\ QDeq'
  BY <1>1, <1>4, <1>6 DEF QIInv, QEnq, QDeq, QFree
<1>9. PICK r : r = Extended(q, e, p)
  OBVIOUS
<1>10. /\ IsList(r, e + 1, q_next') /\ r[e + 1] = p /\ \A i \in 0 .. e : r[i] = q[i]
  <2>1. q_next'[p] = NULL /\ \A i \in 0 .. e - 1 : q_next'[q[i]] = q_next[q[i]]
    <3>1. e \in 0 .. e /\ \A i \in 0 .. e - 1 : i \in 0 .. e /\ i # e
      BY <1>3
    <3>2. p # q_last /\ \A i \in 0 .. e - 1 : q[i] # q_last
      BY <1>3, <3>1 DEF IsList, IsSimple
    <3>. QED
      BY <1>4, <1>5, <3>2
  <2>2. MayGoLast(q, e, q_next, q_next', p)
    BY <1>3, <1>4, <1>5, <2>1 DEF MayGoLast
  <2>. QED
    BY <1>9, <2>2, ExtendedIsList
<1>11. \A i \in 0 .. e + 1 : i = e + 1 \/ i \in 0 .. e
  BY <1>3
<1>12. ASSUME NEW i \in 0 .. e + 1
       PROVE  /\ r[i] \in 0 .. q_used /\ ~QFree(r[i]) /\ (q_deq # NULL => r[i] # q_deq.prev)
              /\ i # 0 => q_val[r[i]] \in Values
  <2>1. CASE i = e + 1
    BY <1>1, <1>4, <1>10, <2>1 DEF QIInv, QDeq
  <2>2. CASE i \in 0 .. e
    <3>1. i # 0 => i \in 1 .. e
      BY <2>2
    <3>. QED
      BY <1>2, <1>3, <1>10, <2>2, <3>1 DEF QList, IsOf
  <2>. QED
    BY <1>11, <2>1, <2>2
<1>13. QList(r, e + 1)'
  <2>1. 0 \in 0 .. e /\ \A i \in 1 .. e + 1 : i \in 0 .. e + 1 /\ i # 0
    BY <1>3
  <2>2. q_first = r[0] /\ QLinking'
    BY <1>3, <1>6, <1>10, <2>1 DEF QLinking
  <2>. QED
    BY <1>1, <1>6, <1>10, <1>12, <2>1, <2>2 DEF QList, IsOf, QFree
<1>. QED
  BY <1>2, <1>7, <1>8, <1>9, <1>13 DEF QIInv

LEMMA QSetLastKeeps ==
  ASSUME QIInv, Q!SetLast
  PROVE  QIInv' /\ QSame
<1>. USE QConstants
<1>1. /\ UNCHANGED <<q_first, q_next, q_val, q_used, q_pool, q_deq, q_answer>>
      /\ q_enq # NULL /\ q_enq.linked /\ q_enq' = NULL /\ q_last' = q_enq.node
      /\ q_op' = [q_op EXCEPT ![q_enq.for] = Q!Done(NULL)]
  BY DEF Q!SetLast
<1>2. q_enq.for \in Threads /\ q_enq.node \in 0 .. LinkedNodes
  BY <1>1 DEF QIInv, QEnq, Q!Enqueuing
<1>3. QIsOp(Q!Done(NULL))
  BY DEF QIsOp
<1>4. /\ q_op' = [u \in Threads |-> q_op'[u]]
      /\ \A u \in Threads : QIsOp(q_op'[u]) /\ (u # q_enq.for => q_op'[u] = q_op[u])
  BY <1>1, <1>2, <1>3, QOpKeeps DEF QIInv
<1>5. QTypes' /\ QPools' /\ QEnq'
  BY <1>1, <1>2, <1>4 DEF QIInv, QTypes, QPools, QFree, QEnq
<1>6. QDeq'
  <2>1. q_deq # NULL => q_deq.for # q_enq.for /\ q_deq.for \in Threads
    <3>1. "enq" # "deq"
      OBVIOUS
    <3>. QED
      BY <1>1, <3>1, QServes
  <2>. QED
    BY <1>1, <1>4, <2>1 DEF QIInv, QDeq, QFree
<1>7. \A q, e : QList(q, e) => QList(q, e)'
  BY <1>1 DEF QList, QLinking, QFree
<1>. QED
  BY <1>1, <1>5, <1>6, <1>7 DEF QIInv, QSame

(* The queue is empty: nothing moves. *)
LEMMA QEmptyKeeps ==
  ASSUME QIInv, NEW c \in Threads, NEW t \in Threads, Q!Advance(c, t), q_next[q_first] = NULL
  PROVE  QIInv' /\ QSame
<1>. USE QConstants
<1>1. /\ UNCHANGED <<q_first, q_last, q_next, q_val, q_used, q_pool, q_enq, q_deq, q_answer>>
      /\ q_deq = NULL /\ q_op' = [q_op EXCEPT ![t] = Q!Done(Failure)]
      /\ q_op[t].status = "pending" /\ q_op[t].arg[1] = "deq"
  BY DEF Q!Advance, Q!MayServe
<1>2. QIsOp(Q!Done(Failure))
  BY DEF QIsOp
<1>3. /\ q_op' = [u \in Threads |-> q_op'[u]]
      /\ \A u \in Threads : QIsOp(q_op'[u]) /\ (u # t => q_op'[u] = q_op[u])
  BY <1>1, <1>2, QOpKeeps DEF QIInv
<1>4. QTypes' /\ QPools' /\ QDeq'
  BY <1>1, <1>3 DEF QIInv, QTypes, QPools, QFree, QDeq
<1>5. QEnq'
  <2>1. q_enq # NULL => q_enq.for # t /\ q_enq.for \in Threads
    <3>1. "enq" # "deq"
      OBVIOUS
    <3>. QED
      BY <1>1, <3>1, QServes
  <2>. QED
    BY <1>1, <1>3, <2>1 DEF QIInv, QEnq, QFree
<1>6. \A q, e : QList(q, e) => QList(q, e)'
  BY <1>1 DEF QList, QLinking, QFree
<1>. QED
  BY <1>1, <1>4, <1>5, <1>6 DEF QIInv, QSame

(* First moves on: what was first is the dequeuer's now. *)
LEMMA QAdvanceKeeps ==
  ASSUME QIInv, NEW c \in Threads, NEW t \in Threads, Q!Advance(c, t), q_next[q_first] # NULL
  PROVE  /\ QIInv' /\ q_val' = q_val /\ q_enq' = q_enq
         /\ q_deq' # NULL /\ q_deq'.for = t /\ q_op' = q_op
         /\ \E q, e : e >= 1 /\ QList(q, e) /\ QList(From(q, 1, e), e - 1)'
<1>. USE QConstants
<1>1. /\ UNCHANGED <<q_last, q_next, q_val, q_used, q_pool, q_op, q_enq, q_answer>>
      /\ q_deq = NULL /\ q_first' = q_next[q_first]
      /\ q_deq' = [by |-> c, for |-> t, prev |-> q_first]
      /\ q_op[t].status = "pending" /\ q_op[t].arg[1] = "deq"
  BY DEF Q!Advance, Q!MayServe
<1>2. PICK q, e : QList(q, e)
  BY DEF QIInv
<1>3. PICK s : s = From(q, 1, e)
  OBVIOUS
<1>4. /\ e \in Nat /\ IsList(q, e, q_next) /\ IsOf(q, e, q_used) /\ q_first = q[0]
  BY <1>2 DEF QList, IsList
<1>5. e >= 1 /\ q_first' = q[1] /\ 0 \in 0 .. e /\ 1 \in 0 .. e /\ e - 1 \in Nat
  <2>1. 0 \in 0 .. e /\ q_next[q[0]] = IF 0 = e THEN NULL ELSE q[0 + 1]
    BY <1>4, ListLinks
  <2>2. e # 0 /\ 0 + 1 = 1
    BY <1>4, <2>1
  <2>. QED
    BY <1>1, <1>4, <2>1, <2>2
<1>6. IsList(s, e - 1, q_next')
  BY <1>1, <1>3, <1>4, <1>5, FromIsList
<1>7. \A i \in 0 .. e - 1 : s[i] = q[i + 1] /\ i + 1 \in 0 .. e /\ i + 1 \in 1 .. e
  BY <1>3, <1>4, <1>5 DEF From
<1>8. /\ q_first \in 0 .. q_used /\ q_first \in 0 .. LinkedNodes /\ ~QFree(q_first)
      /\ \A i \in 1 .. e : q[i] # q_first
  <2>1. q_first \in 0 .. q_used /\ ~QFree(q_first)
    BY <1>2, <1>4, <1>5 DEF QList, IsOf
  <2>2. \A i \in 1 .. e : i \in 0 .. e /\ i # 0
    BY <1>4
  <2>3. \A i \in 1 .. e : q[i] # q_first
    BY <1>4, <1>5, <2>2 DEF IsList, IsSimple
  <2>. QED
    BY <2>1, <2>3 DEF QIInv, QTypes
<1>9. /\ q_deq' # NULL /\ q_deq'.for = t /\ q_deq'.prev = q_first /\ q_deq' \in Q!Dequeuing
  BY <1>1, <1>8 DEF Q!Dequeuing
<1>10. q_enq # NULL => q_enq.node # q_first
  <2>1. CASE QLinking
    <3>1. e \in 1 .. e
      BY <1>4, <1>5
    <3>. QED
      BY <1>2, <1>8, <2>1, <3>1 DEF QList
  <2>2. CASE ~QLinking
    BY <1>2, <1>4, <1>5, <2>2 DEF QList, QLinking
  <2>. QED
    BY <2>1, <2>2
<1>11. q_op[t] = Q!Pending(<<"deq", NULL>>)
  <2>1. PICK r \in Q!Requests : q_op[t] = Q!Pending(r)
    BY <1>1 DEF QIInv, QTypes, QIsOp, Q!Idle, Q!Done, Q!Pending
  <2>2. r[1] = "deq"
    BY <1>1, <2>1 DEF Q!Pending
  <2>. QED
    BY <2>1, <2>2 DEF Q!Requests
<1>12. QTypes' /\ QPools' /\ QEnq'
  BY <1>1 DEF QIInv, QTypes, QPools, QFree, QEnq
<1>13. QDeq'
  BY <1>1, <1>8, <1>9, <1>10, <1>11 DEF QDeq, QFree
<1>14. QList(s, e - 1)'
  <2>1. /\ s[0] = q[1] /\ s[e - 1] = q[e]
    <3>1. 0 \in 0 .. e - 1 /\ e - 1 \in 0 .. e - 1 /\ 0 + 1 = 1 /\ (e - 1) + 1 = e
      BY <1>4, <1>5
    <3>. QED
      BY <1>7, <3>1
  <2>2. \A i \in 0 .. e - 1 : /\ s[i] \in 0 .. q_used /\ ~QFree(s[i]) /\ s[i] # q_first
                              /\ q_val[s[i]] \in Values
                              /\ q_enq # NULL /\ ~q_enq.linked => s[i] # q_enq.node
    BY <1>2, <1>4, <1>7, <1>8 DEF QList, IsOf
  <2>3. \A i \in 1 .. e - 1 : i \in 0 .. e - 1
    OBVIOUS
  <2>. QED
    BY <1>1, <1>2, <1>5, <1>6, <1>9, <2>1, <2>2, <2>3 DEF QList, QLinking, QFree, IsOf
<1>. QED
  BY <1>1, <1>2, <1>3, <1>5, <1>9, <1>12, <1>13, <1>14 DEF QIInv

(* The dequeued node goes to the pool of the combiner. *)
LEMMA QTakeKeeps ==
  ASSUME QIInv, Q!Take
  PROVE  QIInv' /\ QSameList
<1>. USE QConstants
<1>. DEFINE p == q_deq.prev
            u == q_deq.for
<1>1. /\ UNCHANGED <<q_first, q_last, q_next, q_used, q_enq, q_answer>>
      /\ q_deq # NULL /\ q_deq' = NULL
      /\ q_pool' = [q_pool EXCEPT ![q_deq.by] = <<p>> \o @]
      /\ q_val' = [q_val EXCEPT ![p] = NULL]
      /\ q_op' = [q_op EXCEPT ![u] = Q!Done(Q!Answer)]
  BY DEF Q!Take
<1>2. /\ u \in Threads /\ q_deq.by \in Threads /\ p \in 0 .. LinkedNodes /\ p \in 0 .. q_used
      /\ ~QFree(p) /\ q_op[u].arg[1] = "deq" /\ q_used \in Nat
      /\ q_enq # NULL => p # q_enq.node
  BY <1>1, QServes DEF QIInv, QDeq, QTypes
<1>. HIDE DEF p, u
<1>3. QIsOp(Q!Done(Q!Answer))
  BY DEF QIsOp
<1>4. /\ q_op' = [w \in Threads |-> q_op'[w]]
      /\ \A w \in Threads : QIsOp(q_op'[w]) /\ (w # u => q_op'[w] = q_op[w])
  BY <1>1, <1>2, <1>3, QOpKeeps DEF QIInv
<1>5. /\ q_val' \in [0 .. LinkedNodes -> Values \cup Threads \cup {Guard, NULL}]
      /\ \A i : i # p => q_val'[i] = q_val[i]
  BY <1>1, <1>2 DEF QIInv, QTypes
<1>6. QTypes'
  BY <1>1, <1>4, <1>5 DEF QIInv, QTypes
<1>7. /\ ArePools(q_pool') /\ \A x : QFree(x)' => QFree(x) \/ x = p
  <2>1. IsGiven(q_pool, q_deq.by, p, q_pool')
    BY <1>1, <1>2 DEF IsGiven, QIInv, QPools, QFree
  <2>. QED
    BY <1>2, <2>1, PoolGive DEF QFree
<1>8. QPools' /\ QDeq'
  BY <1>1, <1>2, <1>7 DEF QIInv, QPools, QDeq
<1>9. QEnq'
  <2>1. ASSUME q_enq # NULL
        PROVE  q_enq.for \in Threads /\ q_enq.for # u /\ q_enq.node # p
    <3>1. "enq" # "deq"
      OBVIOUS
    <3>. QED
      BY <1>2, <2>1, <3>1, QServes
  <2>. QED
    BY <1>1, <1>4, <1>5, <1>7, <2>1 DEF QIInv, QEnq
<1>10. PICK q, e : QList(q, e)
  BY DEF QIInv
<1>11. \A i \in 0 .. e : q[i] # p
  BY <1>1, <1>10 DEF QList, p
<1>12. QList(q, e)'
  <2>1. \A i \in 1 .. e : i \in 0 .. e
    BY <1>10 DEF QList, IsList
  <2>. QED
    BY <1>1, <1>5, <1>7, <1>10, <1>11, <2>1 DEF QList, QLinking
<1>. QED
  BY <1>1, <1>5, <1>6, <1>8, <1>9, <1>10, <1>11, <1>12 DEF QIInv, QSameList

(* A guard was dequeued: the search goes on. *)
LEMMA QSkipKeeps ==
  ASSUME QIInv, Q!Skip
  PROVE  QIInv' /\ QSame
<1>1. /\ UNCHANGED <<q_first, q_last, q_next, q_val, q_used, q_pool, q_op, q_enq, q_answer>>
      /\ q_deq' = NULL
  BY QConstants DEF Q!Skip
<1>2. QTypes' /\ QPools' /\ QEnq' /\ QDeq'
  BY <1>1 DEF QIInv, QTypes, QPools, QFree, QEnq, QDeq
<1>3. \A q, e : QList(q, e) => QList(q, e)'
  BY <1>1 DEF QList, QLinking, QFree
<1>. QED
  BY <1>1, <1>2, <1>3 DEF QIInv, QSame

LEMMA QNext == QIInv /\ (Q!Next \/ UNCHANGED q_vars) => QIInv'
<1>1. ASSUME QIInv, UNCHANGED q_vars PROVE QIInv'
  BY <1>1 DEF q_vars, QIInv, QTypes, QPools, QFree, QEnq, QDeq, QList, QLinking
<1>2. ASSUME QIInv, Q!Next PROVE QIInv'
  <2>1. ASSUME NEW c \in Threads, NEW t \in Threads, Q!Advance(c, t) PROVE QIInv'
    BY <1>2, <2>1, QEmptyKeeps, QAdvanceKeeps
  <2>. QED
    BY <1>2, <2>1, QCallKeeps, QAllocKeeps, QLinkKeeps, QSetLastKeeps, QTakeKeeps, QSkipKeeps
       DEF Q!Next
<1>. QED
  BY <1>1, <1>2

-----------------------------------------------------------------------------
(* What a walk from first on reaches.                                       *)
LEMMA QReachedIs ==
  QIInv => \A q, e : QList(q, e) => ReachesEnd(q, e, 0, Q!Reached, LinkedNodes)
<1>. SUFFICES ASSUME QIInv, NEW q, NEW e, QList(q, e)
              PROVE  ReachesEnd(q, e, 0, Q!Reached, LinkedNodes)
  OBVIOUS
<1>1. /\ IsList(q, e, q_next) /\ 0 \in 0 .. e /\ IsOf(q, e, LinkedNodes) /\ LinkedNodes \in Nat
      /\ q_first = q[0]
  <2>1. \A i \in 0 .. e : q[i] \in 0 .. q_used
    BY DEF QList, IsOf
  <2>2. q_used \in 0 .. LinkedNodes /\ LinkedNodes \in Nat
    BY QConstants DEF QIInv, QTypes
  <2>. QED
    BY <2>1, <2>2 DEF QList, IsOf, IsList
<1>2. PICK w : IsWalk(w, 0, LinkedNodes + 1, q_first, q_next)
  <2>1. StartsIn(q, e, q_next, 0, q_first, LinkedNodes)
    BY <1>1 DEF StartsIn
  <2>. QED
    BY <2>1, ListCanBeWalked
<1>3. IsWalk(Q!Reached, 0, LinkedNodes + 1, q_first, q_next)
  BY <1>2, Zenon DEF Q!Reached, IsWalk
<1>4. WalksFrom(q, e, q_next, 0, Q!Reached, LinkedNodes)
  BY <1>1, <1>3 DEF WalksFrom
<1>. QED
  BY <1>4, ListWalk

LEMMA QApart == QIInv => Q!TypeOK /\ Q!FreeNodesAreApart
<1>. SUFFICES ASSUME QIInv PROVE Q!TypeOK /\ Q!FreeNodesAreApart
  OBVIOUS
<1>. USE QConstants
<1>1. PICK q, e : QList(q, e)
  BY DEF QIInv
<1>2. e \in Nat /\ 0 \in 0 .. e /\ e \in 0 .. e /\ q_first = q[0] /\ IsOf(q, e, q_used)
  BY <1>1 DEF QList, IsList
<1>3. Q!Listed \subseteq {q[i] : i \in 0 .. e}
  <2>1. \A i \in 0 .. LinkedNodes + 1 : Q!Reached[i] = IF i <= e - 0 THEN q[0 + i] ELSE NULL
    BY <1>1, QReachedIs DEF ReachesEnd
  <2>2. ASSUME NEW x \in Q!Listed PROVE \E i \in 0 .. e : x = q[i]
    <3>1. PICK i \in 0 .. LinkedNodes + 1 : x = Q!Reached[i] /\ x # NULL
      BY <2>2 DEF Q!Listed
    <3>2. i <= e - 0 /\ x = q[0 + i]
      BY <2>1, <3>1
    <3>3. i \in 0 .. e /\ 0 + i = i
      BY <1>2, <3>2
    <3>. QED
      BY <3>2, <3>3
  <2>. QED
    BY <2>2
<1>4. \A n \in Q!Free : QFree(n)
  BY DEF Q!Free, QFree, InPools
<1>5. Q!TypeOK
  <2>1. q_first \in 0 .. LinkedNodes
    <3>1. q_first \in 0 .. q_used
      BY <1>2 DEF IsOf
    <3>. QED
      BY <3>1 DEF QIInv, QTypes
  <2>2. \A t \in Threads : \A i \in 1 .. Len(q_pool[t]) : q_pool[t][i] \in 0 .. LinkedNodes
    <3>1. ASSUME NEW t \in Threads, NEW i \in 1 .. Len(q_pool[t])
          PROVE  q_pool[t][i] \in 0 .. LinkedNodes
      <4>1. QFree(q_pool[t][i])
        BY DEF QFree, InPools
      <4>2. q_pool[t][i] \in 0 .. q_used
        BY <4>1 DEF QIInv, QPools
      <4>. QED
        BY <4>2 DEF QIInv, QTypes
    <3>. QED
      BY <3>1
  <2>3. \A t \in Threads : q_op[t].status \in {"idle", "pending", "done"}
    <3>1. \A o : QIsOp(o) => o.status \in {"idle", "pending", "done"}
      BY DEF QIsOp, Q!Idle, Q!Pending, Q!Done
    <3>. QED
      BY <3>1 DEF QIInv, QTypes
  <2>4. q_enq \in Q!Enqueuing \cup {NULL} /\ q_deq \in Q!Dequeuing \cup {NULL}
    BY DEF QIInv, QEnq, QDeq
  <2>. QED
    BY <2>1, <2>2, <2>3, <2>4 DEF QIInv, QTypes, Q!TypeOK, Q!Nodes
<1>6. Q!FreeNodesAreApart
  <2>1. Q!Free \cap Q!Listed = {}
    BY <1>1, <1>3, <1>4 DEF QList
  <2>2. q_last \in Q!Free => q_enq # NULL /\ q_enq.linked
    BY <1>1, <1>2, <1>4 DEF QList, QLinking
  <2>3. q_enq # NULL => q_enq.node \notin Q!Free
    BY <1>4 DEF QIInv, QEnq
  <2>. QED
    BY <2>1, <2>2, <2>3 DEF QIInv, QPools, ArePools, Q!FreeNodesAreApart
<1>. QED
  BY <1>5, <1>6

-----------------------------------------------------------------------------
(* Once the values end, the sequence stays. *)
Ends(x, e, d) == e \in Nat /\ d \in Nat /\ e <= d /\ \A i \in e + 1 .. d : x[i] = Guard

LEMMA SelectStays ==
  \A g, x, e, d : Select(g, x, d) /\ Ends(x, e, d) => g[d] = g[e]
<1>. SUFFICES ASSUME NEW g, NEW x, NEW e, NEW d, Select(g, x, d), Ends(x, e, d), g[d] # g[e]
              PROVE  FALSE
  OBVIOUS
<1>0. e \in Nat /\ d \in Nat /\ e <= d /\ \A i \in e + 1 .. d : x[i] = Guard
  BY DEF Ends
<1>. DEFINE T == {i \in e .. d : g[i] # g[e]}
<1>1. T \subseteq Nat /\ T # {}
  BY <1>0
<1>2. PICK n \in T : \A m \in T : n <= m
  BY ONLY <1>1, LeastNatural
<1>3. n \in e .. d /\ g[n] # g[e] /\ n # e
  OBVIOUS
<1>4. n \in 1 .. d /\ n \in e + 1 .. d /\ n - 1 \in e .. d /\ ~ n <= n - 1
  BY <1>0, <1>3
<1>5. g[n - 1] = g[e]
  BY <1>2, <1>4
<1>6. g[n] = Chosen(x, n, g[n - 1])
  BY <1>0, <1>4, SelectIs
<1>. QED
  BY <1>0, <1>3, <1>4, <1>5, <1>6 DEF Chosen

(* The equation of ContentUpTo. *)
IsContent(c, re, vl, N) ==
  c = [i \in 0 .. N + 1 |->
         IF i = 0 THEN <<>>
         ELSE IF re[i] = NULL \/ vl[re[i]] = Guard THEN c[i - 1]
         ELSE Append(c[i - 1], vl[re[i]])]

Seen(re, vl, N) == [i \in 1 .. N + 1 |-> IF re[i] = NULL THEN Guard ELSE vl[re[i]]]

LEMMA ContentIsSelected ==
  \A c, re, vl : \A N \in Nat : IsContent(c, re, vl, N) <=> Select(c, Seen(re, vl, N), N + 1)
<1>. SUFFICES ASSUME NEW c, NEW re, NEW vl, NEW N \in Nat
              PROVE  IsContent(c, re, vl, N) <=> Select(c, Seen(re, vl, N), N + 1)
  OBVIOUS
<1>. DEFINE y == Seen(re, vl, N)
<1>1. \A i \in 1 .. N + 1 : y[i] = IF re[i] = NULL THEN Guard ELSE vl[re[i]]
  BY DEF Seen
<1>. HIDE DEF y
<1>2. \A i \in 0 .. N + 1 :
        (IF i = 0 THEN <<>> ELSE Chosen(y, i, c[i - 1]))
        = IF i = 0 THEN <<>>
          ELSE IF re[i] = NULL \/ vl[re[i]] = Guard THEN c[i - 1]
          ELSE Append(c[i - 1], vl[re[i]])
  <2>1. \A i \in 0 .. N + 1 : i = 0 \/ i \in 1 .. N + 1
    OBVIOUS
  <2>2. \A i \in 1 .. N + 1 :
          Chosen(y, i, c[i - 1]) = IF re[i] = NULL \/ vl[re[i]] = Guard THEN c[i - 1]
                                   ELSE Append(c[i - 1], vl[re[i]])
    BY <1>1 DEF Chosen
  <2>. QED
    BY <2>1, <2>2
<1>3. [i \in 0 .. N + 1 |-> IF i = 0 THEN <<>> ELSE Chosen(y, i, c[i - 1])]
      = [i \in 0 .. N + 1 |->
           IF i = 0 THEN <<>>
           ELSE IF re[i] = NULL \/ vl[re[i]] = Guard THEN c[i - 1]
           ELSE Append(c[i - 1], vl[re[i]])]
  BY <1>2
<1>4. IsContent(c, re, vl, N) <=> Select(c, y, N + 1)
  BY <1>3, Zenon DEF IsContent, Select
<1>. QED
  BY <1>4 DEF y

(* What the nodes behind first hold. *)
QHeld(q, e, vl) == [i \in 1 .. e |-> vl[q[i]]]
QIs(q, e) ==
  /\ e \in Nat /\ (\A i \in 1 .. e : QHeld(q, e, q_val)[i] \in Values)
  /\ \A g : Select(g, QHeld(q, e, q_val), e) => Q!Content = g[e]

LEMMA QContentIs == QIInv => \A q, e : QList(q, e) => QIs(q, e)
<1>. SUFFICES ASSUME QIInv, NEW q, NEW e, QList(q, e) PROVE QIs(q, e)
  OBVIOUS
<1>. DEFINE N == LinkedNodes
            x == QHeld(q, e, q_val)
            y == Seen(Q!Reached, q_val, N)
<1>0. N \in Nat /\ N + 1 \in Nat
  BY QConstants
<1>1. e \in Nat /\ e <= N /\ \A i \in 0 .. N + 1 : Q!Reached[i] = IF i <= e - 0 THEN q[0 + i] ELSE NULL
  BY QReachedIs DEF QList, IsList, ReachesEnd
<1>2. IsContent(Q!ContentUpTo, Q!Reached, q_val, N)
  <2>1. PICK f : Select(f, y, N + 1)
    BY <1>0, SelectExists
  <2>2. IsContent(f, Q!Reached, q_val, N)
    BY <1>0, <2>1, ContentIsSelected
  <2>. QED
    BY <2>2, Zenon DEF Q!ContentUpTo, IsContent
<1>3. Select(Q!ContentUpTo, y, N + 1)
  BY <1>0, <1>2, ContentIsSelected
<1>4. \A i \in 1 .. e : x[i] = q_val[q[i]] /\ x[i] \in Values
  BY DEF QHeld, QList
<1>5. \A i \in 1 .. e : q[i] # NULL /\ i \in 1 .. N + 1 /\ i \in 0 .. N + 1 /\ i <= e - 0 /\ 0 + i = i
  <2>1. \A i \in 1 .. e : i \in 0 .. e
    OBVIOUS
  <2>2. \A i \in 0 .. e : q[i] # NULL
    BY ListLinks DEF QList
  <2>. QED
    BY <1>0, <1>1, <2>1, <2>2
<1>6. \A i \in e + 1 .. N + 1 : i \in 1 .. N + 1 /\ i \in 0 .. N + 1 /\ ~ i <= e - 0
  BY <1>0, <1>1
<1>7. \A i \in 1 .. N + 1 : y[i] = IF Q!Reached[i] = NULL THEN Guard ELSE q_val[Q!Reached[i]]
  BY DEF Seen
<1>. HIDE DEF N, x, y
<1>8. AreAlike(x, y, e, N + 1)
  <2>1. \A i \in 1 .. e : Q!Reached[i] = q[i]
    BY <1>1, <1>5
  <2>2. \A i \in 1 .. e : x[i] = y[i]
    BY <1>4, <1>5, <1>7, <2>1
  <2>. QED
    BY <1>0, <1>1, <2>2 DEF AreAlike
<1>9. Ends(y, e, N + 1)
  <2>1. \A i \in e + 1 .. N + 1 : Q!Reached[i] = NULL
    BY <1>1, <1>6
  <2>2. \A i \in e + 1 .. N + 1 : y[i] = Guard
    BY <1>6, <1>7, <2>1
  <2>. QED
    BY <1>0, <1>1, <2>2 DEF Ends
<1>10. Q!ContentUpTo[N + 1] = Q!ContentUpTo[e]
  BY <1>3, <1>9, SelectStays
<1>11. ASSUME NEW g, Select(g, x, e) PROVE Q!Content = g[e]
  <2>1. e \in 0 .. e
    BY <1>1
  <2>2. g[e] = Q!ContentUpTo[e]
    BY <1>3, <1>8, <1>11, <2>1, SelectAlike
  <2>. QED
    BY <1>10, <2>2 DEF Q!Content, N
<1>. QED
  BY <1>1, <1>4, <1>11 DEF QIs, x

LEMMA QContentWillBe == (QIInv => \A q, e : QList(q, e) => QIs(q, e))'
  BY QContentIs, PTL

(* As long as the list and its values stay, so does the content. *)
LEMMA QContentStays ==
  ASSUME QIInv, QIInv', NEW q, NEW e, QList(q, e), QList(q, e)',
         \A i \in 1 .. e : q_val'[q[i]] = q_val[q[i]]
  PROVE  Q!Content' = Q!Content
<1>1. QIs(q, e) /\ QIs(q, e)'
  BY QContentIs, QContentWillBe
<1>2. PICK x : x = QHeld(q, e, q_val)
  OBVIOUS
<1>3. x = QHeld(q, e, q_val')
  BY <1>2 DEF QHeld
<1>4. PICK g : Select(g, x, e)
  BY <1>1, SelectExists DEF QIs
<1>5. Q!Content = g[e]
  BY <1>1, <1>2, <1>4 DEF QIs
<1>6. Q!Content' = g[e]
  BY <1>1, <1>3, <1>4 DEF QIs
<1>. QED
  BY <1>5, <1>6

LEMMA QSameKeeps ==
  ASSUME QIInv, QIInv', QSame \/ QSameList
  PROVE  Q!Content' = Q!Content /\ q_val'[q_first'] = q_val[q_first] /\ q_first' = q_first
<1>1. PICK q, e : /\ QList(q, e) /\ QList(q, e)'
                  /\ \A i \in 0 .. e : q_val'[q[i]] = q_val[q[i]]
  BY DEF QSame, QSameList
<1>2. /\ e \in Nat /\ 0 \in 0 .. e /\ q_first = q[0] /\ q_first' = q[0]
      /\ \A i \in 1 .. e : i \in 0 .. e
  BY <1>1 DEF QList, IsList
<1>3. Q!Content' = Q!Content
  BY <1>1, <1>2, QContentStays
<1>. QED
  BY <1>1, <1>2, <1>3

(* The linked node adds its value, if that is no guard. *)
LEMMA QLinkAppends ==
  ASSUME QIInv, Q!Link
  PROVE  Q!Content' = IF q_val[q_enq.node] = Guard THEN Q!Content
                      ELSE Append(Q!Content, q_val[q_enq.node])
<1>1. PICK p : p = q_enq.node
  OBVIOUS
<1>2. QIInv' /\ q_val' = q_val
  BY QLinkKeeps DEF Q!Link
<1>3. PICK q, e, r : QList(q, e) /\ QList(r, e + 1)' /\ r = Extended(q, e, p)
  BY <1>1, QLinkKeeps
<1>4. QIs(q, e) /\ QIs(r, e + 1)'
  BY <1>2, <1>3, QContentIs, QContentWillBe
<1>5. PICK x : x = QHeld(q, e, q_val)
  OBVIOUS
<1>6. PICK y : y = QHeld(r, e + 1, q_val)
  OBVIOUS
<1>7. e \in Nat /\ e + 1 \in Nat
  BY <1>4 DEF QIs
<1>8. y[e + 1] = q_val[p] /\ \A i \in 1 .. e : x[i] = y[i]
  <2>1. e + 1 \in 1 .. e + 1 /\ e + 1 \in 0 .. e + 1
        /\ \A i \in 1 .. e : i \in 0 .. e + 1 /\ i # e + 1 /\ i \in 1 .. e + 1
    BY <1>7
  <2>2. r[e + 1] = p /\ \A i \in 1 .. e : r[i] = q[i]
    BY <1>3, <2>1 DEF Extended
  <2>. QED
    BY <1>5, <1>6, <2>1, <2>2 DEF QHeld
<1>9. PICK g : Select(g, x, e)
  BY <1>7, SelectExists
<1>10. PICK f : Select(f, y, e + 1)
  BY <1>7, SelectExists
<1>11. f[e + 1] = Chosen(y, e + 1, g[e])
  BY <1>7, <1>8, <1>9, <1>10, SelectLonger
<1>12. Q!Content = g[e] /\ Q!Content' = f[e + 1]
  BY <1>2, <1>4, <1>5, <1>6, <1>9, <1>10 DEF QIs
<1>. QED
  BY <1>1, <1>8, <1>11, <1>12 DEF Chosen

(* When first moves, the value of the new first node goes, if it is no guard. *)
LEMMA QAdvanceRemoves ==
  ASSUME QIInv, NEW c \in Threads, NEW t \in Threads, Q!Advance(c, t), q_next[q_first] # NULL
  PROVE  IF q_val[q_first'] = Guard THEN Q!Content' = Q!Content
         ELSE /\ Q!Content # <<>> /\ Head(Q!Content) = q_val[q_first']
              /\ Q!Content' = Tail(Q!Content)
<1>1. QIInv' /\ q_val' = q_val
  BY QAdvanceKeeps
<1>2. PICK q, e : e >= 1 /\ QList(q, e) /\ QList(From(q, 1, e), e - 1)'
  BY QAdvanceKeeps
<1>3. PICK s : s = From(q, 1, e)
  OBVIOUS
<1>4. QIs(q, e) /\ QIs(s, e - 1)'
  <2>1. QList(s, e - 1)'
    BY <1>2, <1>3
  <2>. QED
    BY <1>1, <1>2, <2>1, QContentIs, QContentWillBe
<1>5. e \in Nat /\ e - 1 \in Nat /\ 1 \in 1 .. e
  BY <1>2, <1>4 DEF QIs
<1>6. \A i \in 0 .. e - 1 : s[i] = q[i + 1]
  BY <1>3, <1>5 DEF From
<1>7. PICK x : x = QHeld(q, e, q_val)
  OBVIOUS
<1>8. \A i \in 1 .. e : x[i] \in Values /\ x[i] = q_val[q[i]]
  BY <1>4, <1>7 DEF QIs, QHeld
<1>9. QHeld(s, e - 1, q_val) = Shifted(x, e)
  <2>1. \A i \in 1 .. e - 1 : i \in 0 .. e - 1 /\ i + 1 \in 1 .. e
    BY <1>5
  <2>2. \A i \in 1 .. e - 1 : q_val[s[i]] = x[i + 1]
    BY <1>6, <1>8, <2>1
  <2>. QED
    BY <2>2 DEF QHeld, Shifted
<1>10. q_first' = q[1]
  <2>1. QList(s, e - 1)' /\ 0 \in 0 .. e - 1 /\ 0 + 1 = 1
    BY <1>2, <1>3, <1>5
  <2>2. q_first' = s[0]
    BY <2>1 DEF QList
  <2>. QED
    BY <1>6, <2>1, <2>2
<1>11. PICK g : Select(g, x, e)
  BY <1>5, SelectExists
<1>12. PICK f : Select(f, Shifted(x, e), e - 1)
  BY <1>5, SelectExists
<1>13. Follows(x, g[e], f[e - 1])
  BY <1>2, <1>5, <1>8, <1>11, <1>12, SelectShifted
<1>14. Q!Content = g[e]
  BY <1>4, <1>7, <1>11 DEF QIs
<1>15. Q!Content' = f[e - 1]
  BY <1>1, <1>4, <1>9, <1>12 DEF QIs
<1>. QED
  BY <1>5, <1>8, <1>10, <1>13, <1>14, <1>15 DEF Follows

LEMMA QIsEmpty == QIInv /\ q_next[q_first] = NULL => Q!Content = <<>>
<1>. SUFFICES ASSUME QIInv, q_next[q_first] = NULL PROVE Q!Content = <<>>
  OBVIOUS
<1>1. PICK q, e : QList(q, e)
  BY DEF QIInv
<1>2. e = 0
  <2>1. e \in Nat /\ IsList(q, e, q_next) /\ q_first = q[0] /\ 0 \in 0 .. e
    BY <1>1 DEF QList, IsList
  <2>2. e # 0 => 0 + 1 \in 0 .. e
    BY <2>1
  <2>. QED
    BY <2>1, <2>2, ListLinks
<1>3. QIs(q, 0)
  BY <1>1, <1>2, QContentIs
<1>4. PICK x : x = QHeld(q, 0, q_val)
  OBVIOUS
<1>5. PICK g : Select(g, x, 0)
  BY SelectExists
<1>6. g[0] = <<>>
  BY <1>5, SelectIs
<1>. QED
  BY <1>3, <1>4, <1>5, <1>6 DEF QIs

-----------------------------------------------------------------------------
(* What t has been served, given which serial functions run. *)
QServed == [t \in Threads |-> Q!Served(t)]

(* An enqueue whose node is linked, a dequeue that has moved first to a     *)
(* value.                                                                   *)
QLinked(t) == q_enq # NULL /\ q_enq.for = t /\ q_enq.linked
QMoved(t) == q_deq # NULL /\ q_deq.for = t /\ q_val[q_first] # Guard

QServedAs(t) ==
  /\ QLinked(t) => Q!Served(t) = Q!Done(NULL)
  /\ ~QLinked(t) /\ QMoved(t) => Q!Served(t) = Q!Done(q_val[q_first])
  /\ ~QLinked(t) /\ ~QMoved(t) => Q!Served(t) = q_op[t]

LEMMA QServedIs == \A t \in Threads : QServedAs(t)
<1>1. Q!SkipsFirst <=> q_val[q_first] = Guard
  BY QConstants DEF Q!SkipsFirst
<1>2. ASSUME NEW t \in Threads PROVE QServedAs(t)
  BY <1>1 DEF QServedAs, QLinked, QMoved, Q!Served
<1>. QED
  BY <1>2

LEMMA QServedWillBe == (\A t \in Threads : QServedAs(t))'
  BY QServedIs, PTL

(* The request that is served on one side only. *)
LEMMA QOneSide ==
  QIInv => \A t \in Threads :
    /\ q_enq # NULL /\ q_enq.for = t =>
         q_op[t].status = "pending" /\ q_op[t].arg[1] = "enq" /\ ~QMoved(t)
    /\ q_deq # NULL /\ q_deq.for = t =>
         q_op[t].status = "pending" /\ q_op[t].arg[1] = "deq" /\ ~QLinked(t)
<1>1. "enq" # "deq"
  OBVIOUS
<1>. QED
  BY <1>1, QServes DEF QMoved, QLinked

(* The functions as a whole, once each thread is known. *)
LEMMA QServedSame ==
  ASSUME \A u \in Threads : Q!Served(u)' = Q!Served(u)
  PROVE  QServed' = QServed
  BY DEF QServed

LEMMA QServedChanges ==
  ASSUME NEW t \in Threads, \A u \in Threads : u # t => Q!Served(u)' = Q!Served(u)
  PROVE  QServed' = [QServed EXCEPT ![t] = Q!Served(t)']
  BY DEF QServed

LEMMA QCallRefines ==
  ASSUME QIInv, NEW t \in Threads
  PROVE  /\ Q!Return(t) => Q!Fifo!Return(t)
         /\ \A r \in Q!Requests : Q!Call(t, r) => Q!Fifo!Call(t, r)
<1>1. ASSUME Q!Return(t) \/ \E r \in Q!Requests : Q!Call(t, r)
      PROVE  /\ Q!Content' = Q!Content /\ Q!Served(t) = q_op[t] /\ Q!Served(t)' = q_op'[t]
             /\ \A u \in Threads : u # t => Q!Served(u)' = Q!Served(u)
  <2>1. /\ UNCHANGED <<q_enq, q_deq>> /\ q_op[t].status # "pending"
        /\ \A u \in Threads : u # t => q_op'[u] = q_op[u]
    <3>1. \A o : q_op' = [q_op EXCEPT ![t] = o] => \A u \in Threads : u # t => q_op'[u] = q_op[u]
      BY DEF QIInv, QTypes
    <3>. QED
      BY <1>1, <3>1 DEF Q!Return, Q!Call, Q!Idle
  <2>2. Q!Content' = Q!Content /\ q_val'[q_first'] = q_val[q_first]
    BY <1>1, QCallKeeps, QSameKeeps
  <2>3. /\ \A u \in Threads : (QLinked(u)' <=> QLinked(u)) /\ (QMoved(u)' <=> QMoved(u))
        /\ ~QLinked(t) /\ ~QMoved(t)
    BY <2>1, <2>2, QOneSide DEF QLinked, QMoved
  <2>. QED
    BY <2>1, <2>2, <2>3, QServedIs, QServedWillBe DEF QServedAs
<1>2. ASSUME Q!Return(t) PROVE Q!Fifo!Return(t)
  <2>1. q_op'[t] = Q!Idle
    BY <1>2 DEF Q!Return, QIInv, QTypes
  <2>2. QServed' = [QServed EXCEPT ![t] = Q!Idle] /\ QServed[t] = q_op[t]
    BY <1>1, <1>2, <2>1, QServedChanges DEF QServed
  <2>. QED
    BY <1>1, <1>2, <2>2 DEF Q!Return, Q!Fifo!Return, Q!Idle, Q!Fifo!Idle, QServed
<1>3. ASSUME NEW r \in Q!Requests, Q!Call(t, r) PROVE Q!Fifo!Call(t, r)
  <2>1. q_op'[t] = Q!Pending(r)
    BY <1>3 DEF Q!Call, QIInv, QTypes
  <2>2. QServed' = [QServed EXCEPT ![t] = Q!Pending(r)] /\ QServed[t] = q_op[t]
    BY <1>1, <1>3, <2>1, QServedChanges DEF QServed
  <2>. QED
    BY <1>1, <1>3, <2>2 DEF Q!Call, Q!Fifo!Call, Q!Idle, Q!Fifo!Idle, Q!Pending, Q!Fifo!Pending,
       QServed
<1>. QED
  BY <1>2, <1>3

(* Steps that nobody sees. *)
LEMMA QStutters ==
  ASSUME QIInv,
         \/ \E c, t \in Threads : Q!AllocNode(c, t)
         \/ Q!SetLast \/ Q!Take \/ Q!Skip
  PROVE  UNCHANGED Q!Fifo!vars
<1>1. QIInv' /\ Q!Content' = Q!Content /\ q_val'[q_first'] = q_val[q_first]
  BY QAllocKeeps, QSetLastKeeps, QTakeKeeps, QSkipKeeps, QSameKeeps
<1>2. q_answer' = q_answer
  BY DEF Q!AllocNode, Q!SetLast, Q!Take, Q!Skip
<1>3. ASSUME NEW u \in Threads PROVE Q!Served(u)' = Q!Served(u)
  <2>. USE QServedIs, QServedWillBe DEF QServedAs
  <2>1. CASE \E c, t \in Threads : Q!AllocNode(c, t)
    <3>1. /\ ~QLinked(u) /\ ~QLinked(u)' /\ (QMoved(u)' <=> QMoved(u)) /\ q_op' = q_op
      BY <1>1, <2>1 DEF Q!AllocNode, QLinked, QMoved
    <3>. QED
      BY <1>1, <3>1
  <2>2. CASE Q!SetLast
    <3>1. /\ QLinked(u) <=> u = q_enq.for
          /\ ~QLinked(u)' /\ (QMoved(u)' <=> QMoved(u))
      BY <1>1, <2>2, QConstants DEF Q!SetLast, QLinked, QMoved
    <3>2. CASE u = q_enq.for
      <4>1. ~QMoved(u) /\ QLinked(u)
        BY <2>2, <3>1, <3>2, QOneSide DEF Q!SetLast
      <4>2. q_op'[u] = Q!Done(NULL)
        BY <2>2, <3>2 DEF Q!SetLast, QIInv, QTypes
      <4>. QED
        BY <1>1, <3>1, <4>1, <4>2
    <3>3. CASE u # q_enq.for
      <4>1. q_op'[u] = q_op[u]
        BY <2>2, <3>3 DEF Q!SetLast, QIInv, QTypes
      <4>. QED
        BY <1>1, <3>1, <3>3, <4>1
    <3>. QED
      BY <3>2, <3>3
  <2>3. CASE Q!Take
    <3>1. /\ QMoved(u) <=> u = q_deq.for
          /\ ~QMoved(u)' /\ (QLinked(u)' <=> QLinked(u))
      BY <1>1, <2>3, QConstants DEF Q!Take, Q!SkipsFirst, QLinked, QMoved
    <3>2. CASE u = q_deq.for
      <4>1. ~QLinked(u) /\ QMoved(u)
        BY <2>3, <3>1, <3>2, QOneSide DEF Q!Take
      <4>2. q_op'[u] = Q!Done(q_val[q_first])
        BY <2>3, <3>2, QConstants DEF Q!Take, Q!Answer, QIInv, QTypes
      <4>. QED
        BY <1>1, <3>1, <4>1, <4>2
    <3>3. CASE u # q_deq.for
      <4>1. q_op'[u] = q_op[u]
        BY <2>3, <3>3 DEF Q!Take, QIInv, QTypes
      <4>. QED
        BY <1>1, <3>1, <3>3, <4>1
    <3>. QED
      BY <3>2, <3>3
  <2>4. CASE Q!Skip
    <3>1. ~QMoved(u) /\ ~QMoved(u)' /\ (QLinked(u)' <=> QLinked(u)) /\ q_op' = q_op
      BY <1>1, <2>4, QConstants DEF Q!Skip, Q!SkipsFirst, QLinked, QMoved
    <3>. QED
      BY <1>1, <3>1
  <2>. QED
    BY <2>1, <2>2, <2>3, <2>4
<1>. QED
  BY <1>1, <1>2, <1>3, QServedSame DEF Q!Fifo!vars, QServed

(* An enqueue takes effect when its node is linked. *)
LEMMA QLinkRefines ==
  ASSUME QIInv, Q!Link
  PROVE  \E t \in Threads : Q!Fifo!Apply(t)
<1>0. PICK t, v : t = q_enq.for /\ v = q_val[q_enq.node]
  OBVIOUS
<1>1. /\ UNCHANGED <<q_first, q_val, q_op, q_deq, q_answer>> /\ q_enq # NULL /\ ~q_enq.linked
      /\ q_enq' = [q_enq EXCEPT !.linked = TRUE]
  BY DEF Q!Link
<1>2. /\ t \in Threads /\ q_op[t] = Q!Pending(<<"enq", v>>)
      /\ q_enq' # NULL /\ q_enq'.linked /\ q_enq'.for = t
  BY <1>0, <1>1, QConstants DEF QIInv, QEnq, Q!Enqueuing
<1>3. ~QLinked(t) /\ ~QMoved(t) /\ QLinked(t)'
  BY <1>0, <1>1, <1>2, QOneSide DEF QLinked
<1>4. Q!Served(t) = q_op[t] /\ Q!Served(t)' = Q!Done(NULL)
  BY <1>2, <1>3, QServedIs, QServedWillBe DEF QServedAs
<1>5. \A u \in Threads : u # t => Q!Served(u)' = Q!Served(u)
  <2>1. ASSUME NEW u \in Threads, u # t PROVE Q!Served(u)' = Q!Served(u)
    <3>1. ~QLinked(u) /\ ~QLinked(u)' /\ (QMoved(u)' <=> QMoved(u))
      BY <1>0, <1>1, <1>2, <2>1 DEF QLinked, QMoved
    <3>. QED
      BY <1>1, <3>1, QServedIs, QServedWillBe DEF QServedAs
  <2>. QED
    BY <2>1
<1>6. Q!Content' = IF v = Guard THEN Q!Content ELSE Append(Q!Content, v)
  BY <1>0, QLinkAppends
<1>7. QServed' = [QServed EXCEPT ![t] = Q!Done(NULL)] /\ QServed[t] = Q!Pending(<<"enq", v>>)
  <2>1. QServed' = [QServed EXCEPT ![t] = Q!Served(t)']
    BY <1>2, <1>5, QServedChanges
  <2>2. QServed[t] = Q!Served(t)
    BY <1>2 DEF QServed
  <2>. QED
    BY <1>2, <1>4, <2>1, <2>2
<1>8. Q!Fifo!Apply(t)
  <2>1. /\ QServed[t].status = "pending" /\ QServed[t].arg = <<"enq", v>>
    BY <1>7 DEF Q!Pending
  <2>2. /\ Q!QueueState(Q!Content, <<"enq", v>>, t) = Q!Content'
        /\ Q!QueueResult(Q!Content, <<"enq", v>>, t) = NULL
    BY <1>6 DEF Q!QueueState, Q!QueueResult
  <2>. QED
    BY <1>1, <1>7, <2>1, <2>2 DEF Q!Fifo!Apply, QServed, Q!Done, Q!Fifo!Done
<1>. QED
  BY <1>2, <1>8

(* A dequeue takes effect when first moves to a value, or when the link of  *)
(* the first node is found NULL.                                            *)
LEMMA QAdvanceRefines ==
  ASSUME QIInv, NEW c \in Threads, NEW t \in Threads, Q!Advance(c, t)
  PROVE  Q!Fifo!Apply(t) \/ UNCHANGED Q!Fifo!vars
<1>. DEFINE deq == <<"deq", NULL>>
<1>1. /\ UNCHANGED <<q_val, q_enq, q_answer>> /\ q_deq = NULL
      /\ q_op[t].status = "pending" /\ q_op[t].arg[1] = "deq"
  BY DEF Q!Advance, Q!MayServe
<1>2. q_op[t] = Q!Pending(deq)
  <2>1. PICK r \in Q!Requests : q_op[t] = Q!Pending(r)
    BY <1>1 DEF QIInv, QTypes, QIsOp, Q!Idle, Q!Done, Q!Pending
  <2>2. r[1] = "deq"
    BY <1>1, <2>1 DEF Q!Pending
  <2>. QED
    BY <2>1, <2>2 DEF Q!Requests
<1>3. ~QLinked(t) /\ \A u \in Threads : ~QMoved(u) /\ (QLinked(u)' <=> QLinked(u))
  <2>1. "enq" # "deq"
    OBVIOUS
  <2>. QED
    BY <1>1, <2>1, QOneSide DEF QLinked, QMoved
<1>4. Q!Served(t) = Q!Pending(deq) /\ QServed[t] = Q!Pending(deq)
  BY <1>2, <1>3, QServedIs DEF QServedAs, QServed
<1>5. ASSUME NEW v, Q!Served(t)' = Q!Done(v),
             \A u \in Threads : u # t => Q!Served(u)' = Q!Served(u),
             v = Q!QueueResult(Q!Content, deq, t), Q!Content' = Q!QueueState(Q!Content, deq, t)
      PROVE  Q!Fifo!Apply(t)
  <2>1. QServed' = [QServed EXCEPT ![t] = Q!Done(v)]
    BY <1>5, QServedChanges
  <2>2. QServed[t].status = "pending" /\ QServed[t].arg = deq
    BY <1>4 DEF Q!Pending
  <2>. QED
    BY <1>1, <1>5, <2>1, <2>2 DEF Q!Fifo!Apply, QServed, Q!Done, Q!Fifo!Done
<1>6. CASE q_next[q_first] = NULL
  <2>1. /\ q_op' = [q_op EXCEPT ![t] = Q!Done(Failure)] /\ q_deq' = NULL
        /\ QIInv' /\ Q!Content' = Q!Content /\ Q!Content = <<>>
    BY <1>1, <1>6, QEmptyKeeps, QSameKeeps, QIsEmpty DEF Q!Advance
  <2>2. q_op'[t] = Q!Done(Failure) /\ \A u \in Threads : u # t => q_op'[u] = q_op[u]
    BY <2>1 DEF QIInv, QTypes
  <2>3. \A u \in Threads : ~QMoved(u)'
    BY <2>1 DEF QMoved
  <2>4. Q!Served(t)' = Q!Done(Failure) /\ \A u \in Threads : u # t => Q!Served(u)' = Q!Served(u)
    BY <1>3, <2>2, <2>3, QServedIs, QServedWillBe DEF QServedAs
  <2>5. /\ Failure = Q!QueueResult(Q!Content, deq, t)
        /\ Q!Content' = Q!QueueState(Q!Content, deq, t)
    BY <2>1 DEF Q!QueueResult, Q!QueueState
  <2>. QED
    BY <1>5, <2>4, <2>5
<1>7. CASE q_next[q_first] # NULL
  <2>1. q_deq' # NULL /\ q_deq'.for = t /\ q_op' = q_op
    BY <1>7, QAdvanceKeeps
  <2>2. PICK v : v = q_val[q_first']
    OBVIOUS
  <2>3. \A u \in Threads : QMoved(u)' <=> u = t /\ v # Guard
    BY <1>1, <2>1, <2>2 DEF QMoved
  <2>4. \A u \in Threads : u # t => Q!Served(u)' = Q!Served(u)
    BY <1>3, <2>1, <2>3, QServedIs, QServedWillBe DEF QServedAs
  <2>5. CASE v = Guard
    <3>1. Q!Content' = Q!Content
      BY <1>7, <2>2, <2>5, QAdvanceRemoves
    <3>2. Q!Served(t)' = Q!Served(t)
      BY <1>3, <2>1, <2>3, <2>5, QServedIs, QServedWillBe DEF QServedAs
    <3>3. QServed' = QServed
      BY <2>4, <3>2, QServedSame
    <3>. QED
      BY <1>1, <3>1, <3>3 DEF Q!Fifo!vars, QServed
  <2>6. CASE v # Guard
    <3>1. Q!Content # <<>> /\ Head(Q!Content) = v /\ Q!Content' = Tail(Q!Content)
      BY <1>7, <2>2, <2>6, QAdvanceRemoves
    <3>2. Q!Served(t)' = Q!Done(v)
      BY <1>1, <1>3, <2>2, <2>3, <2>6, QServedWillBe DEF QServedAs
    <3>3. v = Q!QueueResult(Q!Content, deq, t) /\ Q!Content' = Q!QueueState(Q!Content, deq, t)
      BY <3>1 DEF Q!QueueResult, Q!QueueState
    <3>. QED
      BY <1>5, <2>4, <3>2, <3>3
  <2>. QED
    BY <2>5, <2>6
<1>. QED
  BY <1>6, <1>7

LEMMA QRefines == QIInv /\ (Q!Next \/ UNCHANGED q_vars) => [Q!Fifo!Next]_(Q!Fifo!vars)
<1>1. ASSUME UNCHANGED q_vars PROVE UNCHANGED Q!Fifo!vars
  BY <1>1 DEF q_vars, Q!Fifo!vars, Q!Content, Q!ContentUpTo, Q!Reached, Q!Served, Q!SkipsFirst
<1>2. ASSUME QIInv, Q!Next PROVE [Q!Fifo!Next]_(Q!Fifo!vars)
  BY <1>2, QCallRefines, QStutters, QLinkRefines, QAdvanceRefines DEF Q!Next, Q!Fifo!Next
<1>. QED
  BY <1>1, <1>2

LEMMA QStarts == Q!Init => Q!Fifo!Init
<1>. SUFFICES ASSUME Q!Init PROVE Q!Fifo!Init
  OBVIOUS
<1>1. QIInv
  BY QInit
<1>2. q_next[q_first] = NULL
  BY QConstants DEF Q!Init, Q!Nodes
<1>3. Q!Content = <<>>
  BY <1>1, <1>2, QIsEmpty
<1>4. \A t \in Threads : Q!Served(t) = Q!Idle
  BY DEF Q!Init, Q!Served
<1>. QED
  BY <1>3, <1>4 DEF Q!Init, Q!Fifo!Init, Q!Idle, Q!Fifo!Idle

-----------------------------------------------------------------------------
(*                     The queues side by side                             *)

LEMMA QueuesKeep == (QIInv /\ MIInv) /\ [MCNext]_mc_vars => (QIInv /\ MIInv)'
<1>. SUFFICES ASSUME QIInv, MIInv, [MCNext]_mc_vars PROVE QIInv' /\ MIInv'
  OBVIOUS
<1>1. Q!Next \/ UNCHANGED q_vars
  BY DEF MCNext, mc_vars
<1>2. [M!Next]_(M!vars)
  BY DEF MCNext, mc_vars, m_vars, M!vars, M!mem
<1>. QED
  BY <1>1, <1>2, QNext, MNext

LEMMA QueuesRefine ==
  (QIInv /\ MIInv) /\ [MCNext]_mc_vars =>
    /\ [which = "CCQueue" => Q!Fifo!Next]_<<which, Q!Fifo!vars>>
    /\ [which = "MSQueue" => M!Fifo!Next]_<<which, M!Fifo!vars>>
<1>. SUFFICES ASSUME QIInv, MIInv, [MCNext]_mc_vars
              PROVE  /\ [which = "CCQueue" => Q!Fifo!Next]_<<which, Q!Fifo!vars>>
                     /\ [which = "MSQueue" => M!Fifo!Next]_<<which, M!Fifo!vars>>
  OBVIOUS
<1>1. which' = which /\ (Q!Next \/ UNCHANGED q_vars)
  BY DEF MCNext, mc_vars
<1>2. [M!Next]_(M!vars)
  BY DEF MCNext, mc_vars, m_vars, M!vars, M!mem
<1>3. [Q!Fifo!Next]_(Q!Fifo!vars)
  BY <1>1, QRefines
<1>4. [M!Fifo!Next]_(M!Fifo!vars)
  BY <1>2, MRefines
<1>. QED
  BY <1>1, <1>3, <1>4

(* The queue on two combining objects (ccqueue.c:24-61) and the Michael-    *)
(* Scott queue (msqueue.c:17-64) are linearizable and first in, first out,  *)
(* for any threads and any number of nodes. On two combining objects, an    *)
(* element equal to GUARD_VALUE is lost, as the serial functions have it.   *)
THEOREM QueuesAreFifoHolds == MCSpec => QueuesAreFifo
<1>1. MCInit => Q!Init /\ M!Init
  BY DEF MCInit
<1>2. MCInit => QIInv /\ MIInv
  BY <1>1, QInit, MInit
<1>3. MCInit => Q!Fifo!Init /\ M!Fifo!Init
  BY <1>1, QStarts, MStarts
<1>4. MCSpec => [](QIInv /\ MIInv)
  BY <1>2, QueuesKeep, PTL DEF MCSpec, mc_vars
<1>. QED
  BY <1>3, <1>4, QueuesRefine, PTL DEF MCSpec, QueuesAreFifo, mc_vars

(* A node that a dequeuer has recycled is out of the list for good: the     *)
(* enqueuing side writes neither to it nor through it, although it runs at  *)
(* the same time and last may still point to it for a moment. The tail of   *)
(* the Michael-Scott queue is one node behind its end at most.              *)
THEOREM QueueNodesAreApartHolds == MCSpec => []QueueNodesAreApart
<1>1. MCInit => QIInv /\ MIInv
  BY QInit, MInit DEF MCInit
<1>2. QIInv /\ MIInv => QueueNodesAreApart
  BY QApart, MTail DEF QueueNodesAreApart
<1>. QED
  BY <1>1, <1>2, QueuesKeep, PTL DEF MCSpec, mc_vars
=============================================================================
