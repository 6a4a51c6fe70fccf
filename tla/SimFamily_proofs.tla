-------------------------- MODULE SimFamily_proofs --------------------------
(***************************************************************************)
(* PSim is linearizable, and no thread needs a third attempt, for any      *)
(* number of threads, any requests and any sfunc. Three facts about time   *)
(* carry the proof, and all are read off the sequence number of sp, which  *)
(* counts the installations:                                               *)
(*   - two installations after a request was announced it has been applied *)
(*     (WhenApplied), as the second was prepared after the announcement;   *)
(*   - a record found in sp is not written again before two further        *)
(*     installations of its owner (Rounds), so who reads a torn or newer   *)
(*     record has been served meanwhile, or fails at its CAS;              *)
(*   - the record being prepared is the installed one after the requests   *)
(*     served so far, in some order (Served).                              *)
(*                                                                         *)
(* SimStack never has a node in two places, for any number of threads, any *)
(* requests and any number of nodes: there is a Layout that gives each     *)
(* node its one place, and an attempt whose CAS can still succeed has a    *)
(* list of its own nodes on those of the stack (OnStack), whatever the     *)
(* others have popped and recycled under its eyes.                         *)
(***************************************************************************)
EXTENDS MCSimFamily, SequencesExt, FiniteSetTheorems, WellFoundedInduction, TLAPS

(* The places of a thread between its read of sp and the end of the attempt.*)
Attempt == {"readApplied", "copyState", "copyApplied", "copyRet", "readToggles",
            "recheck", "own", "help", "cas"}
InLoop(t) == pc[t] \in {"readSp"} \cup Attempt

(* t holds the index of a record that it reads or compares with sp.         *)
Reading(t) == pc[t] \in Attempt \cup {"readRet"}

(* The attempt of t can still succeed. *)
Current(t) == pc[t] \in Attempt /\ old_sp[t].seq = sp.seq

(* The installed record has applied what t announced last.                  *)
Applied(t) == applied[sp.index][t] = a_toggles[t]

(* The k-th record of w, and the index after k in the round of the pool.    *)
Rec(w, k) == w * PoolSize + k
After(k) == IF k + 1 = PoolSize THEN 0 ELSE k + 1
Indices == 0 .. PoolSize - 1

Bits == \A t \in Threads : my_bit[t] = a_toggles[t] <=> pc[t] = "toggle"

Attempts ==
  \A t \in Threads :
    /\ pc[t] \in {"idle", "toggle"} => j[t] = 0
    /\ InLoop(t) => j[t] \in {0, 1}

Announced ==
  \A t \in Threads :
    pc[t] # "idle" =>
      calls[t] \in 1 .. Len(Requests[t]) /\ announce[t] = Requests[t][calls[t]]

(* The calls that have had their chance to install a record.                *)
Past ==
  {c \in Calls : \/ c[2] < calls[c[1]]
                 \/ c[2] = calls[c[1]] /\ pc[c[1]] \in {"idle", "returnOwn"}}

(* Every installation has the next number, and there are no more of them    *)
(* than calls, so a number tells which installation sp was read at.         *)
Stamps ==
  /\ sp.seq <= Cardinality(Past)
  /\ \A t \in Threads :
       Reading(t) => /\ old_sp[t].seq <= sp.seq
                     /\ old_sp[t].seq = sp.seq => old_sp[t] = sp

(* Right after w has installed its record k, until it installs another.     *)
JustInstalled(w, k) ==
  \/ pc[w] = "returnOwn" /\ local_index[w] = k
  \/ pc[w] # "returnOwn" /\ local_index[w] = After(k)

LastInstalled ==
  \A w \in Threads, k \in Indices : sp.index = Rec(w, k) => JustInstalled(w, k)

(* w goes round its pool: before it writes again into a record that t has   *)
(* found in sp, it has installed two others, and has read sp after that.    *)
Rounds ==
  \A t, w \in Threads, k \in Indices :
    Reading(t) /\ old_sp[t].index = Rec(w, k) =>
      \/ JustInstalled(w, k)
      \/ JustInstalled(w, After(k)) /\ sp.seq >= old_sp[t].seq + 1
      \/ /\ sp.seq >= old_sp[t].seq + 2
         /\ pc[w] \in Attempt => old_sp[w].seq >= old_sp[t].seq + 2

(* What a current attempt has copied is the installed record.               *)
Copies ==
  \A t \in Threads : Current(t) =>
    /\ pc[t] \in {"copyApplied", "copyRet", "readToggles", "recheck", "own"} =>
         state[Mine(t)] = state[sp.index]
    /\ pc[t] \in {"copyRet", "readToggles", "recheck", "own", "help"} =>
         applied[Mine(t)] = applied[sp.index]
    /\ pc[t] \in {"readToggles", "recheck", "own"} => ret[Mine(t)] = ret[sp.index]
    /\ pc[t] # "readApplied" => ~Applied(t)

(* How many installations there have been since t announced its request, at *)
(* least.                                                                   *)
Known(t) == IF pc[t] = "readSp" THEN j[t] ELSE j[t] + sp.seq - old_sp[t].seq

Compared == {"recheck", "own", "help", "cas"}

(* The vector of an attempt that will succeed has the bit of every thread   *)
(* that has seen an installation since its request: the attempt began after *)
(* that one.                                                                *)
Toggles ==
  \A u \in Threads :
    /\ Current(u) /\ pc[u] \in Compared =>
         \A t \in Threads :
           Applied(t) \/ (InLoop(t) /\ Known(t) >= 1) => l_toggles[u][t] = a_toggles[t]
    /\ pc[u] \in Compared => l_toggles[u][u] = a_toggles[u]
    /\ pc[u] = "cas" => applied[Mine(u)] = l_toggles[u]

(* After two installations a request has been applied.                      *)
WhenApplied ==
  \A t \in Threads :
    /\ ~InLoop(t) => Applied(t)
    /\ InLoop(t) /\ Known(t) >= 2 => Applied(t)
    /\ pc[t] = "readApplied" /\ applied[old_sp[t].index][t] = a_toggles[t] => Applied(t)

(* The answer to a request that has been applied is in every record that    *)
(* may come under the eyes of its thread, and nobody serves it again.       *)
Answers ==
  \A t \in Threads :
    /\ pc[t] = "returnOwn" => ret[Mine(t)][t] = ret[sp.index][t]
    /\ pc[t] = "readRet" =>
         /\ ret[old_sp[t].index][t] = ret[sp.index][t]
         /\ \A u \in Threads : old_sp[u].seq >= old_sp[t].seq =>
              /\ pc[u] \in {"readApplied", "copyState", "copyApplied", "copyRet"} =>
                   ret[old_sp[u].index][t] = ret[sp.index][t]
              /\ pc[u] \in {"own", "help"} => t \notin diffs[u]

(* The states of the object as the requests args of the threads order are   *)
(* applied one after the other.                                             *)
Replay(s, order, args) == Ob!Replay(s, order, args)

(* What u is to serve in an attempt, and what it has served.                *)
Todo(u) == Differ(applied[sp.index], l_toggles[u])
Done(u) == Todo(u) \ diffs[u]

ArgsOf(order) == [i \in DOMAIN order |-> announce[order[i]]]

(* The requests args of the threads order take the object from old to new,  *)
(* with these answers.                                                      *)
Outcome(old, new, answers, order, args) ==
  LET after == Replay(old, order, args)
  IN  /\ new = after[Len(order)]
      /\ \A i \in DOMAIN order : answers[order[i]] = Result(after[i - 1], args[i], order[i])

ServedIn(u, order) ==
  Outcome(state[sp.index], state[Mine(u)], ret[Mine(u)], order, ArgsOf(order))

(* The record being prepared is the installed one after the requests served *)
(* so far, in some order.                                                   *)
Served ==
  \A u \in Threads :
    /\ Current(u) /\ pc[u] = "own" => diffs[u] = Todo(u)
    /\ Current(u) /\ pc[u] \in {"help", "cas"} =>
         /\ diffs[u] \subseteq Todo(u) /\ u \in Done(u)
         /\ \A q \in Threads \ Done(u) : ret[Mine(u)][q] = ret[sp.index][q]
         /\ \E order \in SetToSeqs(Done(u)) : ServedIn(u, order)
    /\ pc[u] = "cas" => diffs[u] = {}

(* The inductive invariant. *)
IInv ==
  /\ TypeOK /\ Bits /\ Attempts /\ Announced
  /\ Stamps /\ LastInstalled /\ Rounds
  /\ Copies /\ Toggles /\ WhenApplied /\ Answers /\ Served

-----------------------------------------------------------------------------
LEMMA Constants ==
  /\ N \in Nat \ {0} /\ PoolSize \in Nat /\ PoolSize >= 3 /\ SeqModulus \in Nat
  /\ Threads \subseteq Nat /\ 0 \in Indices
  /\ \A t \in Threads : t < N
  BY ConstantsAssumption DEF Threads, Indices

(* The pool of a thread is a round of at least three records. *)
LEMMA Round ==
  \A k \in Indices :
    /\ (k + 1) % PoolSize = After(k)
    /\ After(k) \in Indices /\ After(k) # k /\ After(After(k)) # k
<1>1. \A k \in Indices : k + 1 # PoolSize => (k + 1) % PoolSize = k + 1
  BY Constants DEF Indices
<1>2. PoolSize % PoolSize = 0
  BY Constants
<1>. QED
  BY <1>1, <1>2, Constants DEF Indices, After

LEMMA Rows ==
  ASSUME NEW t \in Nat, NEW u \in Nat, t < u
  PROVE  t * PoolSize + PoolSize <= u * PoolSize /\ t * PoolSize \in Nat
<1>1. PICK d \in Nat : u = t + 1 + d
  <2>1. u - t - 1 \in Nat
    OBVIOUS
  <2>. QED
    BY <2>1
<1>2. u * PoolSize = t * PoolSize + PoolSize + d * PoolSize
  BY <1>1, Constants
<1>3. d * PoolSize \in Nat /\ t * PoolSize \in Nat
  BY Constants
<1>. QED
  BY <1>2, <1>3, Constants

(* Every record but the first installed one has one owner. *)
LEMMA Owners ==
  /\ \A t, u \in Threads, k, l \in Indices : Rec(t, k) = Rec(u, l) => t = u /\ k = l
  /\ \A t \in Threads, k \in Indices : Rec(t, k) \in Records /\ Rec(t, k) # PoolSize * N
  /\ PoolSize * N \in Records
<1>1. ASSUME NEW t \in Threads, NEW u \in Threads, NEW k \in Indices, NEW l \in Indices,
             t < u
      PROVE  Rec(t, k) < Rec(u, l)
  <2>1. t * PoolSize + PoolSize <= u * PoolSize /\ t * PoolSize \in Nat
    BY <1>1, Rows, Constants
  <2>2. u * PoolSize \in Nat
    BY Constants
  <2>. QED
    BY <2>1, <2>2, Constants DEF Rec, Indices
<1>2. ASSUME NEW t \in Threads, NEW k \in Indices, NEW l \in Indices, Rec(t, k) = Rec(t, l)
      PROVE  k = l
  <2>1. t * PoolSize \in Nat
    BY Constants
  <2>. QED
    BY <1>2, <2>1, Constants DEF Rec, Indices
<1>3. ASSUME NEW t \in Threads, NEW k \in Indices
      PROVE  Rec(t, k) \in Nat /\ Rec(t, k) < N * PoolSize
  <2>1. t * PoolSize + PoolSize <= N * PoolSize /\ t * PoolSize \in Nat
    BY Rows, Constants
  <2>. QED
    BY <2>1, Constants DEF Rec, Indices
<1>4. N * PoolSize = PoolSize * N /\ PoolSize * N \in Nat
  BY Constants
<1>5. \A t, u \in Threads, k, l \in Indices : Rec(t, k) = Rec(u, l) => t = u
  <2>. SUFFICES ASSUME NEW t \in Threads, NEW u \in Threads, NEW k \in Indices, NEW l \in Indices,
                       Rec(t, k) = Rec(u, l), t # u
                PROVE  FALSE
    OBVIOUS
  <2>1. Rec(t, k) \in Nat /\ Rec(u, l) \in Nat
    BY <1>3
  <2>2. t < u \/ u < t
    BY Constants
  <2>. QED
    BY <1>1, <2>1, <2>2
<1>6. \A t \in Threads, k \in Indices : Rec(t, k) \in Records /\ Rec(t, k) # PoolSize * N
  BY <1>3, <1>4 DEF Records
<1>7. PoolSize * N \in Records
  BY <1>4 DEF Records
<1>. QED
  BY <1>2, <1>5, <1>6, <1>7

LEMMA MineIsRec ==
  ASSUME TypeOK, NEW t \in Threads
  PROVE  /\ local_index[t] \in Indices /\ Mine(t) = Rec(t, local_index[t])
         /\ Mine(t) \in Records
         /\ \A u \in Threads : Mine(u) = Mine(t) => u = t
<1>1. \A u \in Threads : local_index[u] \in Indices /\ Mine(u) = Rec(u, local_index[u])
  BY DEF TypeOK, Indices, Mine, Rec
<1>. QED
  BY <1>1, Owners

(* Nobody prepares the installed record. *)
LEMMA InstalledIsNotMine ==
  ASSUME TypeOK, LastInstalled, NEW t \in Threads, pc[t] # "returnOwn"
  PROVE  Mine(t) # sp.index
<1>1. local_index[t] \in Indices /\ Mine(t) = Rec(t, local_index[t])
  BY MineIsRec
<1>2. After(local_index[t]) # local_index[t]
  BY <1>1, Round
<1>. QED
  BY <1>1, <1>2 DEF LastInstalled, JustInstalled

(* Whoever prepares the record that t is reading is two installations ahead.*)
LEMMA Overtaken ==
  ASSUME TypeOK, Stamps, Rounds, NEW t \in Threads, NEW w \in Threads,
         Reading(t), pc[w] \in Attempt, old_sp[t].index = Mine(w)
  PROVE  /\ sp.seq >= old_sp[t].seq + 2 /\ old_sp[w].seq >= old_sp[t].seq + 2
         /\ w # t /\ ~Current(t)
<1>1. local_index[w] \in Indices /\ Mine(w) = Rec(w, local_index[w])
  BY MineIsRec
<1>2. LET k == local_index[w] IN k # After(k) /\ k # After(After(k))
  BY <1>1, Round
<1>3. pc[w] # "returnOwn"
  BY DEF Attempt
<1>4. sp.seq >= old_sp[t].seq + 2 /\ old_sp[w].seq >= old_sp[t].seq + 2
  BY <1>1, <1>2, <1>3 DEF Rounds, JustInstalled
<1>5. sp.seq \in Nat /\ old_sp[t].seq \in Nat
  BY DEF TypeOK
<1>. QED
  BY <1>4, <1>5 DEF Current

(* The calls are finitely many, and so are those that are past. *)
LEMMA CallsFinite == IsFiniteSet(Calls)
<1>1. IsFiniteSet(Threads)
  BY FS_Interval, Constants DEF Threads
<1>2. LET W == {{t} \X (1 .. Len(Requests[t])) : t \in Threads}
      IN  IsFiniteSet(W) /\ \A T \in W : IsFiniteSet(T)
  <2>. DEFINE Row(t) == {t} \X (1 .. Len(Requests[t]))
              W == {Row(t) : t \in Threads}
              row == [t \in Threads |-> Row(t)]
  <2>1. row \in Surjection(Threads, W)
    BY DEF Surjection
  <2>2. IsFiniteSet(W)
    <3>. HIDE DEF row, W
    <3>. QED
      BY <1>1, <2>1, FS_Surjection
  <2>3. ASSUME NEW t \in Threads PROVE IsFiniteSet(Row(t))
    <3>1. IsFiniteSet({t})
      BY FS_Singleton
    <3>2. Len(Requests[t]) \in Nat
      BY ConstantsAssumption
    <3>3. IsFiniteSet(1 .. Len(Requests[t]))
      BY <3>2, FS_Interval
    <3>. QED
      BY <3>1, <3>3, FS_Product
  <2>. QED
    BY <2>2, <2>3
<1>. QED
  BY <1>2, FS_UNION DEF Calls

LEMMA PastFinite ==
  /\ IsFiniteSet(Past) /\ Cardinality(Past) \in Nat /\ Cardinality(Past) < SeqModulus
<1>1. IsFiniteSet(Past) /\ Cardinality(Past) <= Cardinality(Calls)
  BY CallsFinite, FS_Subset DEF Past
<1>. QED
  BY <1>1, CallsFinite, FS_CardinalityType, ConstantsAssumption

LEMMA PastFiniteToo ==
  /\ IsFiniteSet(Past') /\ Cardinality(Past') \in Nat /\ Cardinality(Past') < SeqModulus
<1>1. IsFiniteSet(Past') /\ Cardinality(Past') <= Cardinality(Calls)
  BY CallsFinite, FS_Subset DEF Past
<1>. QED
  BY <1>1, CallsFinite, FS_CardinalityType, ConstantsAssumption

-----------------------------------------------------------------------------
(* The values the locals are reset to are of their types. *)
LEMMA Zero == 0 \in Records /\ 0 \in 0 .. SeqModulus - 1
<1>1. PoolSize * N \in Nat
  BY Constants
<1>2. SeqModulus > 0
  BY PastFinite, Constants
<1>. QED
  BY <1>1, <1>2, Constants DEF Records

(* The initial state. *)
LEMMA InitIInv == Init => IInv
<1>. SUFFICES ASSUME Init PROVE IInv
  OBVIOUS
<1>0. PoolSize * N \in Records /\ 0 \in 0 .. SeqModulus - 1 /\ 0 \in Records
  BY Owners, Zero
<1>1. TypeOK
  BY <1>0, Constants DEF Init, TypeOK, PCs, NoBits, NoSp
<1>2. Bits /\ Attempts /\ Announced
  BY DEF Init, Bits, Attempts, Announced, NoBits, InLoop, Attempt
<1>3. Stamps
  <2>1. Cardinality(Past) \in Nat
    BY PastFinite
  <2>. QED
    BY <2>1 DEF Init, Stamps, Reading, Attempt
<1>4. LastInstalled /\ Rounds
  BY Owners DEF Init, LastInstalled, Rounds, Reading, Attempt
<1>5. Copies /\ Answers /\ Served
  BY DEF Init, Copies, Current, Answers, Served, Attempt
<1>6. Toggles /\ WhenApplied
  BY <1>0 DEF Init, Toggles, WhenApplied, Applied, InLoop, Attempt, Compared, NoBits
<1>. QED
  BY <1>1, <1>2, <1>3, <1>4, <1>5, <1>6 DEF IInv

(* Types. *)
LEMMA TypeStep ==
  ASSUME TypeOK, Attempts, NEW t \in Threads, Step(t)
  PROVE  TypeOK'
<1>. USE DEF TypeOK, PCs, Goto, recordVars, attemptVars
<1>0. \A u \in Threads : Mine(u) \in Records
  BY MineIsRec
<1>1. CASE Announce(t)
  BY <1>1 DEF Announce
<1>2. CASE Toggle(t)
  BY <1>2 DEF Toggle
<1>3. CASE ReadSp(t)
  BY <1>3 DEF ReadSp
<1>4. CASE FindApplied(t) \/ FindPending(t)
  BY <1>4 DEF FindApplied, FindPending
<1>5. CASE CopyState(t) \/ CopyApplied(t) \/ CopyRet(t)
  <2>1. CASE CopyState(t)
    BY <1>0, <2>1 DEF CopyState
  <2>2. CASE CopyApplied(t)
    BY <1>0, <2>2 DEF CopyApplied
  <2>3. CASE CopyRet(t)
    BY <1>0, <2>3 DEF CopyRet
  <2>. QED
    BY <1>5, <2>1, <2>2, <2>3
<1>6. CASE ReadToggles(t)
  BY <1>6 DEF ReadToggles
<1>7. CASE RecheckFails(t) \/ InstallFails(t)
  <2>1. j[t] \in {0, 1}
    BY <1>7 DEF Attempts, InLoop, Attempt, RecheckFails, InstallFails, NextAttempt
  <2>2. j' = [j EXCEPT ![t] = j[t] + 1] /\ j[t] + 1 \in 0 .. 2
    BY <1>7, <2>1 DEF RecheckFails, InstallFails, NextAttempt
  <2>3. \E to \in {"readSp", "last"} : pc' = [pc EXCEPT ![t] = to]
    BY <1>7 DEF RecheckFails, InstallFails, NextAttempt
  <2>. QED
    BY <1>7, <2>2, <2>3 DEF RecheckFails, InstallFails, NextAttempt
<1>8. CASE RecheckHolds(t)
  BY <1>8 DEF RecheckHolds, Differ
<1>9. CASE ServeOwn(t)
  BY <1>0, <1>9 DEF ServeOwn, Serve
<1>10. ASSUME NEW q \in Threads, Help(t, q) PROVE TypeOK'
  BY <1>0, <1>10 DEF Help, Serve
<1>11. CASE SetApplied(t)
  BY <1>0, <1>11 DEF SetApplied
<1>12. CASE Install(t)
  <2>1. (old_sp[t].seq + 1) % SeqModulus \in 0 .. SeqModulus - 1
    BY Constants, Zero
  <2>. QED
    BY <1>0, <1>12, <2>1 DEF Install
<1>13. CASE ReturnOwn(t)
  <2>1. (local_index[t] + 1) % PoolSize \in 0 .. PoolSize - 1
    BY Constants
  <2>. QED
    BY <1>13, <2>1, Zero DEF ReturnOwn, Return, NoSp, NoBits
<1>14. CASE ReadLastSp(t)
  BY <1>14 DEF ReadLastSp
<1>15. CASE ReturnHelped(t)
  BY <1>15, Zero DEF ReturnHelped, Return, NoSp, NoBits
<1>. QED
  BY <1>1, <1>2, <1>3, <1>4, <1>5, <1>6, <1>7, <1>8, <1>9, <1>10, <1>11, <1>12, <1>13,
     <1>14, <1>15 DEF Step

(* The bit, the number of the attempt and the announcement. *)
LEMMA CallStep ==
  ASSUME TypeOK, Bits, Attempts, Announced, NEW t \in Threads, Step(t)
  PROVE  Bits' /\ Attempts' /\ Announced'
<1>0. PICK from \in PCs, to \in PCs : Goto(t, from, to)
  BY DEF Step, Announce, Toggle, ReadSp, FindApplied, FindPending, CopyState, CopyApplied,
     CopyRet, ReadToggles, RecheckFails, RecheckHolds, NextAttempt, ServeOwn, Help,
     SetApplied, Install, InstallFails, ReturnOwn, ReadLastSp, ReturnHelped, Goto, PCs
<1>. /\ pc[t] = from /\ pc'[t] = to
     /\ \A u \in Threads \ {t} : pc'[u] = pc[u]
  BY <1>0 DEF TypeOK, Goto
<1>. USE DEF TypeOK
<1>1. CASE Announce(t)
  <2>. from = "idle" /\ to = "toggle"
    BY <1>1 DEF Announce, Goto
  <2>1. Len(Requests[t]) \in Nat
    BY ConstantsAssumption
  <2>2. Bits'
    <3>1. my_bit'[t] = ~my_bit[t] /\ \A u \in Threads \ {t} : my_bit'[u] = my_bit[u]
      BY <1>1 DEF Announce
    <3>2. a_toggles' = a_toggles
      BY <1>1 DEF Announce
    <3>3. my_bit[t] # a_toggles[t] /\ my_bit[t] \in BOOLEAN /\ a_toggles[t] \in BOOLEAN
      BY DEF Bits
    <3>4. my_bit'[t] = a_toggles'[t]
      BY <3>1, <3>2, <3>3
    <3>5. pc'[t] = "toggle"
      OBVIOUS
    <3>. QED
      BY <3>1, <3>2, <3>4, <3>5 DEF Bits
  <2>3. Attempts'
    BY <1>1 DEF Announce, attemptVars, Attempts, InLoop, Attempt
  <2>4. Announced'
    BY <1>1, <2>1 DEF Announce, Announced
  <2>. QED
    BY <2>2, <2>3, <2>4
<1>2. CASE Toggle(t)
  <2>. from = "toggle" /\ to = "readSp"
    BY <1>2 DEF Toggle, Goto
  <2>. QED
    BY <1>2 DEF Toggle, attemptVars, Bits, Attempts, Announced, InLoop, Attempt
<1>3. CASE RecheckFails(t) \/ InstallFails(t)
  <2>. from \in {"recheck", "cas"} /\ to = IF j[t] = 0 THEN "readSp" ELSE "last"
    BY <1>3 DEF RecheckFails, InstallFails, NextAttempt, Goto
  <2>1. j' = [j EXCEPT ![t] = j[t] + 1] /\ UNCHANGED <<announce, a_toggles, calls, my_bit>>
    BY <1>3 DEF RecheckFails, InstallFails, NextAttempt
  <2>. QED
    BY <2>1 DEF Bits, Attempts, Announced, InLoop, Attempt
<1>4. CASE ReturnOwn(t) \/ ReturnHelped(t)
  <2>. from \in {"returnOwn", "readRet"} /\ to = "idle"
    BY <1>4 DEF ReturnOwn, ReturnHelped, Goto
  <2>1. j' = [j EXCEPT ![t] = 0] /\ UNCHANGED <<announce, a_toggles, calls, my_bit>>
    BY <1>4 DEF ReturnOwn, ReturnHelped, Return
  <2>. QED
    BY <2>1 DEF Bits, Attempts, Announced, InLoop, Attempt
<1>5. ASSUME ~Announce(t), ~Toggle(t), ~RecheckFails(t), ~InstallFails(t), ~ReturnOwn(t),
             ~ReturnHelped(t)
      PROVE  Bits' /\ Attempts' /\ Announced'
  <2>1. UNCHANGED <<announce, a_toggles, calls, my_bit, j>>
    BY <1>5 DEF Step, ReadSp, FindApplied, FindPending, CopyState, CopyApplied, CopyRet,
       ReadToggles, RecheckHolds, ServeOwn, Help, Serve, SetApplied, Install, ReadLastSp,
       attemptVars
  <2>2. from \notin {"idle", "toggle"} /\ to \notin {"idle", "toggle"}
    BY <1>0, <1>5 DEF Step, ReadSp, FindApplied, FindPending, CopyState, CopyApplied, CopyRet,
       ReadToggles, RecheckHolds, ServeOwn, Help, Serve, SetApplied, Install, ReadLastSp, Goto
  <2>3. to \in {"readSp"} \cup Attempt => from \in {"readSp"} \cup Attempt
    BY <1>0, <1>5 DEF Step, ReadSp, FindApplied, FindPending, CopyState, CopyApplied, CopyRet,
       ReadToggles, RecheckHolds, ServeOwn, Help, Serve, SetApplied, Install, ReadLastSp, Goto,
       Attempt
  <2>. QED
    BY <2>1, <2>2, <2>3 DEF Bits, Attempts, Announced, InLoop
<1>. QED
  BY <1>1, <1>2, <1>3, <1>4, <1>5

-----------------------------------------------------------------------------
(* A step of t moves t only. *)
LEMMA Moves ==
  ASSUME TypeOK, NEW t \in Threads, Step(t)
  PROVE  /\ pc[t] \in PCs /\ pc'[t] \in PCs
         /\ \A u \in Threads \ {t} : pc'[u] = pc[u]
<1>1. \E from, to \in PCs : Goto(t, from, to)
  BY DEF Step, Announce, Toggle, ReadSp, FindApplied, FindPending, CopyState, CopyApplied,
     CopyRet, ReadToggles, RecheckFails, RecheckHolds, NextAttempt, ServeOwn, Help,
     SetApplied, Install, InstallFails, ReturnOwn, ReadLastSp, ReturnHelped, Goto, PCs
<1>. QED
  BY <1>1 DEF TypeOK, Goto

LEMMA CallsOf ==
  /\ \A c \in Calls : c[1] \in Threads /\ c[2] \in Nat /\ c = <<c[1], c[2]>>
  /\ \A t \in Threads, n \in Nat : n \in 1 .. Len(Requests[t]) => <<t, n>> \in Calls
<1>1. \A t \in Threads : Len(Requests[t]) \in Nat
  BY ConstantsAssumption
<1>. QED
  BY <1>1 DEF Calls

(* The steps that leave sp, old_sp, the pools and the calls alone.          *)
Plain(t) ==
  /\ UNCHANGED <<sp, old_sp, local_index, calls>>
  /\ {pc[t], pc'[t]} \cap {"idle", "returnOwn"} = {}
  /\ pc'[t] \in Attempt => pc[t] \in Attempt
  /\ pc'[t] # "readRet"

LEMMA PlainSteps ==
  ASSUME TypeOK, NEW t \in Threads, Step(t),
         ~Announce(t), ~ReadSp(t), ~Install(t), ~ReturnOwn(t), ~ReadLastSp(t), ~ReturnHelped(t)
  PROVE  Plain(t)
<1>1. UNCHANGED <<sp, old_sp, local_index, calls>>
  BY DEF Step, Toggle, FindApplied, FindPending, CopyState, CopyApplied, CopyRet, ReadToggles,
     RecheckFails, RecheckHolds, NextAttempt, ServeOwn, Help, Serve, SetApplied, InstallFails,
     attemptVars
<1>2. PICK from \in PCs, to \in PCs :
        /\ Goto(t, from, to)
        /\ from \notin {"idle", "returnOwn"} /\ to \notin {"idle", "returnOwn", "readRet"}
        /\ to \in Attempt => from \in Attempt
  BY DEF Step, Toggle, FindApplied, FindPending, CopyState, CopyApplied, CopyRet, ReadToggles,
     RecheckFails, RecheckHolds, NextAttempt, ServeOwn, Help, SetApplied, InstallFails, Goto,
     Attempt, PCs
<1>. QED
  BY <1>1, <1>2 DEF Plain, Goto, TypeOK

(* An installation takes the next number. *)
LEMMA NextNumber ==
  ASSUME IInv, NEW t \in Threads, Install(t)
  PROVE  /\ sp'.seq = sp.seq + 1 /\ sp'.seq <= Cardinality(Past')
         /\ Cardinality(Past') \in Nat
<1>. TypeOK /\ TypeOK' /\ Announced /\ Stamps
  BY TypeStep DEF IInv, Step
<1>1. /\ pc[t] = "cas" /\ pc'[t] = "returnOwn" /\ calls' = calls
      /\ \A u \in Threads \ {t} : pc'[u] = pc[u]
      /\ sp = old_sp[t] /\ sp'.seq = (sp.seq + 1) % SeqModulus
  BY DEF Install, Goto, TypeOK
<1>2. /\ sp.seq \in Nat /\ Cardinality(Past) \in Nat
      /\ \A u \in Threads : calls[u] \in Nat
  BY PastFinite DEF TypeOK
<1>. DEFINE c == <<t, calls[t]>>
<1>3. c \in Calls /\ c \notin Past
  BY <1>1, <1>2, CallsOf DEF Announced, Past
<1>4. Past' = Past \cup {c}
  BY <1>1, <1>2, <1>3, CallsOf DEF Past
<1>5. Cardinality(Past') = Cardinality(Past) + 1
  BY <1>3, <1>4, PastFinite, FS_AddElement
<1>6. Cardinality(Past') < SeqModulus
  BY PastFiniteToo
<1>. QED
  BY <1>1, <1>2, <1>5, <1>6, Constants DEF Stamps

(* The numbers count the installations, and the rounds of the pools keep    *)
(* pace with them.                                                          *)
LEMMA GeometryStep ==
  ASSUME IInv, NEW t \in Threads, Step(t)
  PROVE  Stamps' /\ LastInstalled' /\ Rounds'
<1>. TypeOK /\ TypeOK' /\ Announced /\ Stamps /\ LastInstalled /\ Rounds
  BY TypeStep DEF IInv
<1>1. /\ pc[t] \in PCs /\ pc'[t] \in PCs
      /\ \A u \in Threads \ {t} : pc'[u] = pc[u]
  BY Moves
<1>2. /\ sp.seq \in Nat /\ sp'.seq \in Nat /\ \A u \in Threads : calls[u] \in Nat
      /\ \A u \in Threads : old_sp[u].seq \in Nat
      /\ \A u \in Threads : old_sp'[u].seq \in Nat
      /\ Cardinality(Past) \in Nat
  BY PastFinite DEF TypeOK
<1>3. CASE Plain(t)
  <2>1. Past' = Past
    BY <1>1, <1>3, CallsOf DEF Past, Plain
  <2>2. Stamps'
    BY <1>1, <1>3, <2>1 DEF Stamps, Plain, Reading
  <2>3. \A w \in Threads, k \in Indices : JustInstalled(w, k)' <=> JustInstalled(w, k)
    BY <1>1, <1>3 DEF JustInstalled, Plain
  <2>4. LastInstalled'
    BY <1>3, <2>3 DEF LastInstalled, Plain
  <2>5. Rounds'
    BY <1>1, <1>3, <2>3, Round DEF Rounds, Plain, Reading
  <2>. QED
    BY <2>2, <2>4, <2>5
<1>4. CASE Announce(t)
  <2>1. /\ pc[t] = "idle" /\ pc'[t] = "toggle" /\ UNCHANGED <<sp, old_sp, local_index>>
        /\ calls'[t] = calls[t] + 1 /\ \A u \in Threads \ {t} : calls'[u] = calls[u]
    BY <1>4 DEF Announce, Goto, attemptVars, TypeOK
  <2>2. Past' = Past
    BY <1>1, <1>2, <2>1, CallsOf DEF Past
  <2>3. \A w \in Threads, k \in Indices : JustInstalled(w, k)' <=> JustInstalled(w, k)
    BY <1>1, <2>1 DEF JustInstalled
  <2>4. Stamps'
    BY <1>1, <2>1, <2>2 DEF Stamps, Reading, Attempt
  <2>5. LastInstalled' /\ Rounds'
    BY <1>1, <2>1, <2>3, Round DEF LastInstalled, Rounds, Reading, Attempt
  <2>. QED
    BY <2>4, <2>5
<1>5. CASE ReadSp(t) \/ ReadLastSp(t)
  <2>1. /\ pc[t] \in {"readSp", "last"} /\ pc'[t] \in {"readApplied", "readRet"}
        /\ UNCHANGED <<sp, local_index, calls>>
        /\ old_sp'[t] = sp /\ \A u \in Threads \ {t} : old_sp'[u] = old_sp[u]
    BY <1>5 DEF ReadSp, ReadLastSp, Goto, TypeOK
  <2>2. Past' = Past
    BY <1>1, <2>1, CallsOf DEF Past
  <2>3. \A w \in Threads, k \in Indices : JustInstalled(w, k)' <=> JustInstalled(w, k)
    BY <1>1, <2>1 DEF JustInstalled
  <2>4. Stamps'
    BY <1>1, <1>2, <2>1, <2>2 DEF Stamps, Reading
  <2>5. LastInstalled'
    BY <2>1, <2>3 DEF LastInstalled
  <2>6. ASSUME NEW u \in Threads, NEW w \in Threads, NEW k \in Indices,
               Reading(u)', old_sp'[u].index = Rec(w, k), ~JustInstalled(w, k)'
        PROVE  \/ JustInstalled(w, After(k))' /\ sp'.seq >= old_sp'[u].seq + 1
               \/ /\ sp'.seq >= old_sp'[u].seq + 2
                  /\ pc'[w] \in Attempt => old_sp'[w].seq >= old_sp'[u].seq + 2
    <3>1. u # t
      BY <2>1, <2>3, <2>6 DEF LastInstalled
    <3>2. Reading(u) /\ old_sp[u].index = Rec(w, k) /\ ~JustInstalled(w, k)
      BY <1>1, <2>1, <2>3, <2>6, <3>1 DEF Reading
    <3>3. CASE w = t
      BY <1>1, <1>2, <2>1, <2>3, <3>1, <3>2, <3>3, Round DEF Rounds
    <3>4. CASE w # t
      BY <1>1, <1>2, <2>1, <2>3, <3>1, <3>2, <3>4, Round DEF Rounds
    <3>. QED
      BY <3>3, <3>4
  <2>7. Rounds'
    BY <2>6 DEF Rounds
  <2>. QED
    BY <2>4, <2>5, <2>7
<1>6. CASE Install(t)
  <2>1. /\ pc[t] = "cas" /\ pc'[t] = "returnOwn" /\ UNCHANGED <<old_sp, local_index, calls>>
        /\ sp = old_sp[t] /\ sp'.index = Mine(t) /\ sp'.seq = (sp.seq + 1) % SeqModulus
    BY <1>6 DEF Install, Goto, attemptVars, TypeOK
  <2>4. sp'.seq = sp.seq + 1 /\ sp'.seq <= Cardinality(Past')
    BY <1>6, NextNumber
  <2>5. Stamps'
    BY <1>1, <1>2, <2>1, <2>4 DEF Stamps, Reading, Attempt
  <2>6. /\ local_index[t] \in Indices /\ sp'.index = Rec(t, local_index[t])
        /\ \A w \in Threads \ {t}, k \in Indices : JustInstalled(w, k)' <=> JustInstalled(w, k)
        /\ \A k \in Indices : JustInstalled(t, k)' <=> local_index[t] = k
        /\ \A k \in Indices : JustInstalled(t, k) <=> local_index[t] = After(k)
    BY <1>1, <2>1, MineIsRec DEF JustInstalled
  <2>7. LastInstalled'
    <3>1. ASSUME NEW w \in Threads, NEW k \in Indices, sp'.index = Rec(w, k)
          PROVE  JustInstalled(w, k)'
      <4>1. w = t /\ k = local_index[t]
        <5>1. Rec(w, k) = Rec(t, local_index[t]) /\ local_index[t] \in Indices
          BY <2>6, <3>1
        <5>. QED
          BY <5>1, Owners
      <4>. QED
        BY <2>1, <4>1 DEF JustInstalled
    <3>. QED
      BY <3>1 DEF LastInstalled
  <2>8. ASSUME NEW u \in Threads, NEW w \in Threads, NEW k \in Indices,
               Reading(u)', old_sp'[u].index = Rec(w, k), ~JustInstalled(w, k)'
        PROVE  \/ JustInstalled(w, After(k))' /\ sp'.seq >= old_sp'[u].seq + 1
               \/ /\ sp'.seq >= old_sp'[u].seq + 2
                  /\ pc'[w] \in Attempt => old_sp'[w].seq >= old_sp'[u].seq + 2
    <3>1. Reading(u) /\ old_sp[u].index = Rec(w, k) /\ old_sp[u].seq <= sp.seq
      BY <1>1, <2>1, <2>8 DEF Reading, Attempt, Stamps
    <3>2. CASE w = t
      BY <1>2, <2>1, <2>4, <2>6, <2>8, <3>1, <3>2, Round DEF Rounds, Attempt
    <3>3. CASE w # t
      BY <1>1, <1>2, <2>1, <2>4, <2>6, <2>8, <3>1, <3>3, Round DEF Rounds
    <3>. QED
      BY <3>2, <3>3
  <2>9. Rounds'
    BY <2>8 DEF Rounds
  <2>. QED
    BY <2>5, <2>7, <2>9
<1>7. CASE ReturnOwn(t)
  <2>1. /\ pc[t] = "returnOwn" /\ pc'[t] = "idle" /\ UNCHANGED <<sp, calls>>
        /\ local_index'[t] = After(local_index[t])
        /\ \A u \in Threads \ {t} : old_sp'[u] = old_sp[u] /\ local_index'[u] = local_index[u]
    BY <1>7, MineIsRec, Round DEF ReturnOwn, Return, Goto, TypeOK
  <2>2. Past' = Past
    BY <1>1, <2>1, CallsOf DEF Past
  <2>3. \A w \in Threads, k \in Indices : JustInstalled(w, k) => JustInstalled(w, k)'
    BY <1>1, <2>1 DEF JustInstalled
  <2>4. Stamps'
    BY <1>1, <2>1, <2>2 DEF Stamps, Reading, Attempt
  <2>5. LastInstalled'
    BY <2>1, <2>3 DEF LastInstalled
  <2>6. \A u \in Threads : Reading(u)' => u # t /\ Reading(u)
    BY <1>1, <2>1 DEF Reading, Attempt
  <2>7. \A w \in Threads : pc'[w] \in Attempt => w # t /\ pc[w] \in Attempt
    BY <1>1, <2>1 DEF Attempt
  <2>8. Rounds'
    BY <2>1, <2>3, <2>6, <2>7, Round DEF Rounds
  <2>. QED
    BY <2>4, <2>5, <2>8
<1>8. CASE ReturnHelped(t)
  <2>1. /\ pc[t] = "readRet" /\ pc'[t] = "idle" /\ UNCHANGED <<sp, calls, local_index>>
        /\ \A u \in Threads \ {t} : old_sp'[u] = old_sp[u]
    BY <1>8 DEF ReturnHelped, Return, Goto, TypeOK
  <2>2. Past \subseteq Past'
    BY <1>1, <2>1, CallsOf DEF Past
  <2>3. Cardinality(Past) <= Cardinality(Past')
    BY <2>2, PastFiniteToo, FS_Subset
  <2>4. \A w \in Threads, k \in Indices : JustInstalled(w, k)' <=> JustInstalled(w, k)
    BY <1>1, <2>1 DEF JustInstalled
  <2>5. Stamps'
    BY <1>1, <1>2, <2>1, <2>3, PastFiniteToo DEF Stamps, Reading, Attempt
  <2>6. \A u \in Threads : Reading(u)' => u # t /\ Reading(u)
    BY <1>1, <2>1 DEF Reading, Attempt
  <2>7. \A w \in Threads : pc'[w] \in Attempt => w # t /\ pc[w] \in Attempt
    BY <1>1, <2>1 DEF Attempt
  <2>8. LastInstalled' /\ Rounds'
    BY <2>1, <2>4, <2>6, <2>7, Round DEF LastInstalled, Rounds
  <2>. QED
    BY <2>5, <2>8
<1>. QED
  BY <1>3, <1>4, <1>5, <1>6, <1>7, <1>8, PlainSteps

-----------------------------------------------------------------------------
Writing == {"copyState", "copyApplied", "copyRet", "own", "help"}

(* A step of t leaves what belongs to the others alone. *)
LEMMA OthersStay ==
  ASSUME TypeOK, NEW t \in Threads, Step(t)
  PROVE  /\ \A u \in Threads \ {t} :
              /\ pc'[u] = pc[u] /\ j'[u] = j[u] /\ old_sp'[u] = old_sp[u]
              /\ l_toggles'[u] = l_toggles[u] /\ diffs'[u] = diffs[u]
              /\ local_index'[u] = local_index[u] /\ Mine(u)' = Mine(u)
              /\ a_toggles'[u] = a_toggles[u] /\ announce'[u] = announce[u]
         /\ ~Install(t) => sp' = sp
         /\ ~Toggle(t) => a_toggles' = a_toggles
         /\ ~Announce(t) => announce' = announce
         /\ ~ReturnOwn(t) => local_index' = local_index /\ Mine(t)' = Mine(t)
<1>. USE DEF TypeOK, Goto
<1>1. CASE Announce(t) \/ Toggle(t)
  BY <1>1 DEF Announce, Toggle, attemptVars, Mine
<1>2. CASE ReadSp(t) \/ ReadLastSp(t) \/ ReadToggles(t)
  BY <1>2 DEF ReadSp, ReadLastSp, ReadToggles, Mine
<1>3. CASE FindApplied(t) \/ FindPending(t) \/ SetApplied(t) \/ Install(t)
  BY <1>3 DEF FindApplied, FindPending, SetApplied, Install, attemptVars, Mine
<1>4. CASE CopyState(t) \/ CopyApplied(t) \/ CopyRet(t)
  BY <1>4 DEF CopyState, CopyApplied, CopyRet, attemptVars, Mine
<1>5. CASE RecheckFails(t) \/ InstallFails(t)
  BY <1>5 DEF RecheckFails, InstallFails, NextAttempt, Mine
<1>6. CASE RecheckHolds(t)
  BY <1>6 DEF RecheckHolds, Mine
<1>7. CASE ServeOwn(t)
  BY <1>7 DEF ServeOwn, Serve, Mine
<1>8. ASSUME NEW q \in Threads, Help(t, q)
      PROVE  /\ \A u \in Threads \ {t} : diffs'[u] = diffs[u] /\ pc'[u] = pc[u]
             /\ UNCHANGED <<j, old_sp, l_toggles, local_index, a_toggles, announce, sp>>
             /\ \A u \in Threads : Mine(u)' = Mine(u)
  BY <1>8 DEF Help, Serve, Mine
<1>9. CASE ReturnOwn(t) \/ ReturnHelped(t)
  BY <1>9 DEF ReturnOwn, ReturnHelped, Return, Mine
<1>. QED
  BY <1>1, <1>2, <1>3, <1>4, <1>5, <1>6, <1>7, <1>8, <1>9 DEF Step

(* It writes into its own record only, which is not the installed one.      *)
LEMMA Writes ==
  ASSUME TypeOK, LastInstalled, NEW t \in Threads, Step(t)
  PROVE  /\ \A r \in Records : r # Mine(t) \/ pc[t] \notin Writing =>
              state'[r] = state[r] /\ applied'[r] = applied[r] /\ ret'[r] = ret[r]
         /\ \A u \in Threads \ {t} : Mine(u) \in Records /\ Mine(u) # Mine(t)
         /\ sp.index \in Records
         /\ pc[t] \in Writing => sp.index # Mine(t)
<1>. USE DEF TypeOK, Goto, Writing
<1>0. /\ Mine(t) \in Records /\ sp.index \in Records
      /\ \A u \in Threads : Mine(u) \in Records
      /\ \A u \in Threads \ {t} : Mine(u) # Mine(t)
  BY MineIsRec
<1>1. CASE Announce(t) \/ Toggle(t) \/ ReadSp(t) \/ ReadLastSp(t) \/ ReadToggles(t)
  BY <1>0, <1>1 DEF Announce, Toggle, ReadSp, ReadLastSp, ReadToggles, recordVars
<1>2. CASE FindApplied(t) \/ FindPending(t) \/ Install(t) \/ RecheckFails(t) \/ InstallFails(t)
  BY <1>0, <1>2 DEF FindApplied, FindPending, Install, RecheckFails, InstallFails,
     NextAttempt, recordVars
<1>3. CASE RecheckHolds(t) \/ ReturnOwn(t) \/ ReturnHelped(t)
  BY <1>0, <1>3 DEF RecheckHolds, ReturnOwn, ReturnHelped, recordVars
<1>4. CASE CopyState(t) \/ CopyApplied(t) \/ CopyRet(t) \/ SetApplied(t)
  BY <1>0, <1>4, InstalledIsNotMine DEF CopyState, CopyApplied, CopyRet, SetApplied
<1>5. CASE ServeOwn(t)
  BY <1>0, <1>5, InstalledIsNotMine DEF ServeOwn, Serve
<1>6. ASSUME NEW q \in Threads, Help(t, q)
      PROVE  /\ \A r \in Records \ {Mine(t)} :
                  state'[r] = state[r] /\ applied'[r] = applied[r] /\ ret'[r] = ret[r]
             /\ pc[t] = "help" /\ sp.index # Mine(t)
  BY <1>0, <1>6, InstalledIsNotMine DEF Help, Serve
<1>. QED
  BY <1>0, <1>1, <1>2, <1>3, <1>4, <1>5, <1>6 DEF Step

(* The installed record and those of the others are as they were.           *)
LEMMA RecordsStay ==
  ASSUME TypeOK, LastInstalled, NEW t \in Threads, Step(t),
         NEW r, r = sp.index \/ \E u \in Threads \ {t} : r = Mine(u)
  PROVE  state'[r] = state[r] /\ applied'[r] = applied[r] /\ ret'[r] = ret[r]
BY Writes

-----------------------------------------------------------------------------
(* Where t is after a step tells which step it was. *)
LEMMA Entries ==
  ASSUME TypeOK, NEW t \in Threads, Step(t)
  PROVE  /\ pc'[t] = "toggle" => Announce(t)
         /\ pc'[t] = "readApplied" => ReadSp(t)
         /\ pc'[t] = "copyState" => FindPending(t)
         /\ pc'[t] = "copyApplied" => CopyState(t)
         /\ pc'[t] = "copyRet" => CopyApplied(t)
         /\ pc'[t] = "recheck" => ReadToggles(t)
         /\ pc'[t] = "own" => RecheckHolds(t)
         /\ pc'[t] = "help" => ServeOwn(t) \/ \E q \in Threads : Help(t, q)
         /\ pc'[t] = "cas" => SetApplied(t)
         /\ pc'[t] = "returnOwn" => Install(t)
         /\ pc'[t] = "readRet" => ReadLastSp(t)
         /\ pc'[t] = "idle" => ReturnOwn(t) \/ ReturnHelped(t)
<1>. USE DEF Goto, TypeOK
<1>1. /\ Announce(t) => pc'[t] = "toggle"
      /\ Toggle(t) => pc'[t] = "readSp"
      /\ ReadSp(t) => pc'[t] = "readApplied"
      /\ FindApplied(t) => pc'[t] = "last"
      /\ FindPending(t) => pc'[t] = "copyState"
  BY DEF Announce, Toggle, ReadSp, FindApplied, FindPending
<1>2. /\ CopyState(t) => pc'[t] = "copyApplied"
      /\ CopyApplied(t) => pc'[t] = "copyRet"
      /\ CopyRet(t) => pc'[t] = "readToggles"
      /\ ReadToggles(t) => pc'[t] = "recheck"
      /\ RecheckHolds(t) => pc'[t] = "own"
  BY DEF CopyState, CopyApplied, CopyRet, ReadToggles, RecheckHolds
<1>3. /\ ServeOwn(t) => pc'[t] = "help"
      /\ \A q \in Threads : Help(t, q) => pc'[t] = "help"
      /\ SetApplied(t) => pc'[t] = "cas"
      /\ Install(t) => pc'[t] = "returnOwn"
  BY DEF ServeOwn, Help, SetApplied, Install
<1>4. RecheckFails(t) \/ InstallFails(t) => pc'[t] \in {"readSp", "last"}
  BY DEF RecheckFails, InstallFails, NextAttempt
<1>5. /\ ReturnOwn(t) \/ ReturnHelped(t) => pc'[t] = "idle"
      /\ ReadLastSp(t) => pc'[t] = "readRet"
  BY DEF ReturnOwn, ReturnHelped, ReadLastSp
<1>. HIDE DEF Goto, TypeOK
<1>. QED
  BY <1>1, <1>2, <1>3, <1>4, <1>5 DEF Step

(* t is in its loop and has seen an installation, or has been served.       *)
Seen(t) == Applied(t) \/ (InLoop(t) /\ Known(t) >= 1)

LEMMA SameApplied ==
  ASSUME TypeOK, LastInstalled, NEW t \in Threads, Step(t), ~Install(t),
         NEW u \in Threads, ~Toggle(t) \/ u # t
  PROVE  (Applied(u)' <=> Applied(u)) /\ a_toggles'[u] = a_toggles[u]
  BY OthersStay, RecordsStay DEF Applied

(* An installation is the end of the attempts under way, ... *)
LEMMA NoneCurrent ==
  ASSUME IInv, NEW t \in Threads, Install(t), NEW u \in Threads
  PROVE  ~Current(u)'
<1>. TypeOK /\ Stamps /\ Step(t)
  BY DEF IInv, Step
<1>1. pc'[t] = "returnOwn" /\ old_sp' = old_sp
  BY DEF Install, Goto, TypeOK, attemptVars
<1>2. u # t => pc'[u] = pc[u]
  BY OthersStay
<1>3. sp'.seq = sp.seq + 1 /\ sp.seq \in Nat /\ old_sp[u].seq \in Nat
  BY NextNumber DEF TypeOK
<1>4. CASE u = t
  BY <1>1, <1>4 DEF Current, Attempt
<1>5. CASE u # t
  BY <1>1, <1>2, <1>3, <1>5 DEF Current, Stamps, Reading
<1>. QED
  BY <1>4, <1>5

(* ... and other steps do not revive one. *)
LEMMA StillCurrent ==
  ASSUME TypeOK, NEW t \in Threads, Step(t), ~Install(t)
  PROVE  /\ \A u \in Threads \ {t} : Current(u)' <=> Current(u)
         /\ Current(t)' /\ ~ReadSp(t) => Current(t)
<1>1. sp' = sp /\ \A u \in Threads \ {t} : pc'[u] = pc[u] /\ old_sp'[u] = old_sp[u]
  BY OthersStay
<1>2. CASE Plain(t)
  BY <1>1, <1>2 DEF Plain, Current
<1>3. CASE ~ReadSp(t) /\ ~Plain(t)
  <2>1. pc'[t] \in {"toggle", "idle", "readRet"}
    BY <1>3, PlainSteps DEF Announce, ReturnOwn, ReadLastSp, ReturnHelped, Goto, TypeOK
  <2>. QED
    BY <1>1, <2>1 DEF Current, Attempt
<1>. QED
  BY <1>1, <1>2, <1>3 DEF Current

(* Only installations, and the requests themselves, bring a thread forward. *)
LEMMA SeenBefore ==
  ASSUME IInv, NEW t \in Threads, Step(t), ~Install(t), NEW u \in Threads
  PROVE  /\ Seen(u)' => Seen(u) /\ a_toggles'[u] = a_toggles[u]
         /\ InLoop(u)' /\ Known(u)' >= 2 => InLoop(u) /\ Known(u) >= 2
<1>. TypeOK /\ LastInstalled /\ Attempts /\ Stamps /\ WhenApplied
  BY DEF IInv
<1>1. sp' = sp /\ \A v \in Threads \ {t} : pc'[v] = pc[v] /\ old_sp'[v] = old_sp[v] /\ j'[v] = j[v]
  BY OthersStay
<1>2. CASE u # t
  BY <1>1, <1>2, SameApplied DEF Seen, InLoop, Known
<1>3. CASE u = t /\ Toggle(t)
  <2>1. pc'[t] = "readSp" /\ j'[t] = 0 /\ Applied(t) /\ ~Applied(t)'
    BY <1>1, <1>3 DEF Toggle, Goto, TypeOK, attemptVars, Attempts, Applied, WhenApplied, InLoop,
       Attempt, recordVars
  <2>. QED
    BY <1>3, <2>1 DEF Seen, Known
<1>4. CASE u = t /\ ~Toggle(t)
  <2>1. (Applied(t)' <=> Applied(t)) /\ a_toggles'[t] = a_toggles[t]
    BY <1>4, SameApplied
  <2>2. j[t] \in Int /\ sp.seq \in Int /\ old_sp[t].seq \in Int
    BY DEF TypeOK
  <2>3. CASE RecheckFails(t) \/ InstallFails(t)
    <3>1. /\ pc[t] \in {"recheck", "cas"} /\ sp # old_sp[t] /\ j'[t] = j[t] + 1
          /\ pc'[t] = IF j[t] = 0 THEN "readSp" ELSE "last"
      BY <2>3 DEF RecheckFails, InstallFails, NextAttempt, Goto, TypeOK
    <3>2. InLoop(t) /\ Known(t) >= j[t] + 1 /\ j[t] \in {0, 1}
      BY <2>2, <3>1 DEF InLoop, Known, Attempt, Attempts, Stamps, Reading
    <3>3. InLoop(t)' => Known(t)' = 1 /\ j[t] = 0
      BY <3>1, <3>2 DEF InLoop, Known, Attempt
    <3>. QED
      BY <1>4, <2>1, <3>2, <3>3 DEF Seen
  <2>4. CASE ReadSp(t)
    <3>1. pc[t] = "readSp" /\ pc'[t] = "readApplied" /\ j' = j /\ old_sp'[t] = sp
      BY <2>4 DEF ReadSp, Goto, TypeOK
    <3>2. InLoop(t) /\ Known(t)' = Known(t)
      BY <1>1, <2>2, <3>1 DEF InLoop, Known
    <3>. QED
      BY <1>4, <2>1, <3>2 DEF Seen
  <2>5. CASE ~InLoop(t)'
    BY <1>4, <2>1, <2>5 DEF Seen
  <2>6. CASE ~RecheckFails(t) /\ ~InstallFails(t) /\ ~ReadSp(t) /\ InLoop(t)'
    <3>1. Plain(t)
      BY <2>6, PlainSteps DEF Announce, ReturnOwn, ReadLastSp, ReturnHelped, Goto, TypeOK,
         InLoop, Attempt
    <3>2. pc'[t] # "readSp" /\ j'[t] = j[t]
      BY <1>4, <2>6 DEF Step, Announce, FindApplied, FindPending, CopyState,
         CopyApplied, CopyRet, ReadToggles, RecheckHolds, ServeOwn, Help, Serve, SetApplied,
         ReturnOwn, ReadLastSp, ReturnHelped, Goto, TypeOK, attemptVars, InLoop, Attempt
    <3>3. InLoop(t) /\ pc[t] # "readSp"
      BY <2>6, <3>1, <3>2 DEF Plain, InLoop, Attempt
    <3>4. Known(t)' = Known(t)
      BY <3>1, <3>2, <3>3 DEF Plain, Known
    <3>. QED
      BY <1>4, <2>1, <3>3, <3>4 DEF Seen
  <2>. QED
    BY <2>3, <2>4, <2>5, <2>6
<1>. QED
  BY <1>2, <1>3, <1>4

-----------------------------------------------------------------------------
(* An attempt that can succeed copies the installed record.                 *)
LEMMA CopiesStep ==
  ASSUME IInv, NEW t \in Threads, Step(t)
  PROVE  Copies'
<1>. TypeOK /\ TypeOK' /\ Bits /\ Stamps /\ LastInstalled /\ Copies
  BY TypeStep DEF IInv
<1>. SUFFICES ASSUME NEW u \in Threads, Current(u)'
              PROVE  /\ pc'[u] \in {"copyApplied", "copyRet", "readToggles", "recheck", "own"} =>
                          state'[Mine(u)'] = state'[sp'.index]
                     /\ pc'[u] \in {"copyRet", "readToggles", "recheck", "own", "help"} =>
                          applied'[Mine(u)'] = applied'[sp'.index]
                     /\ pc'[u] \in {"readToggles", "recheck", "own"} =>
                          ret'[Mine(u)'] = ret'[sp'.index]
                     /\ pc'[u] # "readApplied" => ~Applied(u)'
  BY DEF Copies
<1>1. ~Install(t)
  BY NoneCurrent
<1>2. sp' = sp
  BY <1>1, OthersStay
<1>3. /\ state'[sp.index] = state[sp.index] /\ applied'[sp.index] = applied[sp.index]
      /\ ret'[sp.index] = ret[sp.index]
  BY RecordsStay
<1>4. CASE u # t
  <2>1. Current(u) /\ pc'[u] = pc[u] /\ Mine(u)' = Mine(u)
    BY <1>1, <1>4, StillCurrent, OthersStay
  <2>2. /\ state'[Mine(u)] = state[Mine(u)] /\ applied'[Mine(u)] = applied[Mine(u)]
        /\ ret'[Mine(u)] = ret[Mine(u)]
    BY <1>4, RecordsStay
  <2>3. Applied(u)' <=> Applied(u)
    BY <1>1, <1>4, SameApplied
  <2>. QED
    BY <1>2, <1>3, <2>1, <2>2, <2>3 DEF Copies
<1>5. CASE u = t /\ ReadSp(t)
  BY <1>5 DEF ReadSp, Goto, TypeOK
<1>6. CASE u = t /\ ~ReadSp(t)
  <2>1. Current(t) /\ pc[t] \in Attempt /\ pc'[t] \in Attempt
    BY <1>1, <1>6, StillCurrent DEF Current
  <2>2. ~Toggle(t) /\ ~Announce(t) /\ ~ReturnOwn(t)
    BY <2>1 DEF Toggle, Announce, ReturnOwn, Goto, Attempt
  <2>3. (Applied(t)' <=> Applied(t)) /\ Mine(t)' = Mine(t) /\ Mine(t) \in Records
    BY <1>1, <2>2, SameApplied, OthersStay, MineIsRec
  <2>4. old_sp[t] = sp
    BY <2>1 DEF Current, Stamps, Reading
  <2>5. CASE FindPending(t)
    BY <1>6, <2>3, <2>4, <2>5 DEF FindPending, AppliedBit, Bits, Applied, Goto, TypeOK
  <2>6. CASE CopyState(t)
    BY <1>2, <1>3, <1>6, <2>1, <2>3, <2>4, <2>6 DEF CopyState, Copies, Goto, TypeOK
  <2>7. CASE CopyApplied(t)
    BY <1>2, <1>3, <1>6, <2>1, <2>3, <2>4, <2>7 DEF CopyApplied, Copies, Goto, TypeOK
  <2>8. CASE CopyRet(t)
    BY <1>2, <1>3, <1>6, <2>1, <2>3, <2>4, <2>8 DEF CopyRet, Copies, Goto, TypeOK
  <2>9. CASE ReadToggles(t)
    BY <1>2, <1>6, <2>1, <2>3, <2>9 DEF ReadToggles, Copies, Goto, TypeOK, recordVars
  <2>10. CASE RecheckHolds(t)
    BY <1>2, <1>6, <2>1, <2>3, <2>10 DEF RecheckHolds, Copies, Goto, TypeOK, recordVars
  <2>11. CASE ServeOwn(t)
    BY <1>2, <1>6, <2>1, <2>3, <2>11 DEF ServeOwn, Serve, Copies, Goto, TypeOK
  <2>12. ASSUME NEW q \in Threads, Help(t, q)
         PROVE  pc[t] = "help" /\ pc'[t] = "help" /\ applied' = applied
    BY <2>12 DEF Help, Serve, Goto, TypeOK
  <2>13. CASE \E q \in Threads : Help(t, q)
    BY <1>2, <1>6, <2>1, <2>3, <2>12, <2>13 DEF Copies
  <2>14. CASE SetApplied(t)
    BY <1>6, <2>1, <2>3, <2>14 DEF SetApplied, Copies, Goto, TypeOK
  <2>15. ~FindApplied(t) /\ ~RecheckFails(t) /\ ~InstallFails(t) /\ ~ReadLastSp(t) /\ ~ReturnHelped(t)
    BY <2>1, <2>4 DEF FindApplied, RecheckFails, InstallFails, ReadLastSp, ReturnHelped, Goto,
       Attempt, TypeOK
  <2>. QED
    BY <1>1, <1>6, <2>2, <2>5, <2>6, <2>7, <2>8, <2>9, <2>10, <2>11, <2>13, <2>14, <2>15 DEF Step
<1>. QED
  BY <1>4, <1>5, <1>6

(* What t compares its copy with is newer than the copy. *)
LEMMA TogglesStep ==
  ASSUME IInv, NEW t \in Threads, Step(t)
  PROVE  Toggles'
<1>. TypeOK /\ TypeOK' /\ Bits /\ Stamps /\ LastInstalled /\ Toggles
  BY TypeStep DEF IInv
<1>1. ASSUME NEW u \in Threads, u # t, pc'[u] \in Compared
      PROVE  l_toggles'[u][u] = a_toggles'[u]
  BY <1>1, OthersStay DEF Toggles
<1>2. ASSUME NEW u \in Threads, u # t, pc'[u] = "cas"
      PROVE  applied'[Mine(u)'] = l_toggles'[u]
  BY <1>2, OthersStay, RecordsStay DEF Toggles
<1>3. ASSUME pc'[t] \in Compared
      PROVE  /\ l_toggles'[t][t] = a_toggles'[t]
             /\ pc'[t] = "cas" => applied'[Mine(t)'] = l_toggles'[t]
             /\ l_toggles'[t] # a_toggles' =>
                  l_toggles'[t] = l_toggles[t] /\ pc[t] \in Compared /\ ~ReadSp(t)
  <2>1. \/ ReadToggles(t) \/ RecheckHolds(t) \/ ServeOwn(t) \/ (\E q \in Threads : Help(t, q))
        \/ SetApplied(t)
    BY <1>3, Entries DEF Compared
  <2>2. ASSUME NEW q \in Threads, Help(t, q)
        PROVE  pc[t] = "help" /\ pc'[t] = "help" /\ l_toggles' = l_toggles /\ a_toggles' = a_toggles
    BY <2>2 DEF Help, Serve, Goto, TypeOK
  <2>3. CASE ReadToggles(t)
    BY <2>3 DEF ReadToggles, Goto, TypeOK
  <2>4. CASE RecheckHolds(t)
    BY <2>4 DEF RecheckHolds, ReadSp, Goto, TypeOK, Toggles, Compared
  <2>5. CASE ServeOwn(t)
    BY <2>5 DEF ServeOwn, Serve, ReadSp, Goto, TypeOK, Toggles, Compared
  <2>6. CASE \E q \in Threads : Help(t, q)
    BY <2>2, <2>6 DEF ReadSp, Goto, Toggles, Compared
  <2>7. CASE SetApplied(t)
    <3>1. Mine(t)' = Mine(t) /\ Mine(t) \in Records
      BY <2>7, OthersStay, MineIsRec DEF SetApplied, ReturnOwn, Goto
    <3>2. /\ pc[t] = "help" /\ applied' = [applied EXCEPT ![Mine(t)] = l_toggles[t]]
          /\ l_toggles' = l_toggles /\ a_toggles' = a_toggles
      BY <2>7 DEF SetApplied, Goto, attemptVars
    <3>. QED
      BY <3>1, <3>2 DEF ReadSp, Goto, Toggles, Compared, TypeOK
  <2>. QED
    BY <2>1, <2>3, <2>4, <2>5, <2>6, <2>7
<1>4. /\ pc'[t] \in Compared => l_toggles'[t][t] = a_toggles'[t]
      /\ pc'[t] = "cas" => applied'[Mine(t)'] = l_toggles'[t]
      /\ pc'[t] \in Compared /\ l_toggles'[t] # a_toggles' =>
           l_toggles'[t] = l_toggles[t] /\ pc[t] \in Compared /\ ~ReadSp(t)
  BY <1>3 DEF Compared
<1>5. ASSUME NEW u \in Threads, Current(u)', pc'[u] \in Compared, NEW v \in Threads, Seen(v)'
      PROVE  l_toggles'[u][v] = a_toggles'[v]
  <2>1. ~Install(t)
    BY <1>5, NoneCurrent
  <2>2. Seen(v) /\ a_toggles'[v] = a_toggles[v]
    BY <1>5, <2>1, SeenBefore
  <2>3. CASE u # t
    <3>1. Current(u) /\ pc[u] \in Compared /\ l_toggles'[u] = l_toggles[u]
      BY <1>5, <2>1, <2>3, StillCurrent, OthersStay
    <3>. QED
      BY <2>2, <3>1 DEF Toggles, Seen
  <2>4. CASE u = t /\ l_toggles'[t] # a_toggles'
    <3>1. Current(t) /\ pc[t] \in Compared /\ l_toggles'[t] = l_toggles[t]
      BY <1>4, <1>5, <2>1, <2>4, StillCurrent
    <3>. QED
      BY <2>2, <2>4, <3>1 DEF Toggles, Seen
  <2>. QED
    BY <2>3, <2>4
<1>. QED
  BY <1>1, <1>2, <1>4, <1>5 DEF Toggles, Seen

(* An installation applies the requests that have seen one before. *)
LEMMA InstallApplies ==
  ASSUME IInv, NEW t \in Threads, Install(t), NEW u \in Threads
  PROVE  /\ Seen(u) \/ u = t => Applied(u)'
         /\ sp' = [index |-> Mine(t), seq |-> sp.seq + 1] /\ UNCHANGED <<recordVars, a_toggles>>
         /\ Current(t) /\ pc[t] = "cas" /\ applied[Mine(t)] = l_toggles[t]
<1>. TypeOK /\ Toggles
  BY DEF IInv
<1>1. /\ pc[t] = "cas" /\ sp = old_sp[t] /\ UNCHANGED <<recordVars, a_toggles>>
      /\ sp' = [index |-> Mine(t), seq |-> sp.seq + 1]
  BY NextNumber DEF Install, Goto
<1>2. Current(t) /\ pc[t] \in Compared
  BY <1>1 DEF Current, Attempt, Compared
<1>3. applied[Mine(t)] = l_toggles[t] /\ (Seen(u) \/ u = t => l_toggles[t][u] = a_toggles[u])
  BY <1>1, <1>2 DEF Toggles, Seen
<1>. QED
  BY <1>1, <1>2, <1>3 DEF Applied, recordVars

(* A thread that leaves the loop has been served. *)
LEMMA WhenAppliedStep ==
  ASSUME IInv, NEW t \in Threads, Step(t)
  PROVE  WhenApplied'
<1>. TypeOK /\ TypeOK' /\ Bits /\ Attempts /\ Stamps /\ LastInstalled /\ Rounds /\ WhenApplied
  BY TypeStep DEF IInv
<1>0. \A u \in Threads : j[u] \in Int /\ sp.seq \in Int /\ old_sp[u].seq \in Int
  BY DEF TypeOK
<1>. SUFFICES ASSUME NEW u \in Threads
              PROVE  /\ ~InLoop(u)' => Applied(u)'
                     /\ InLoop(u)' /\ Known(u)' >= 2 => Applied(u)'
                     /\ pc'[u] = "readApplied" /\ applied'[old_sp'[u].index][u] = a_toggles'[u] =>
                          Applied(u)'
  BY DEF WhenApplied
<1>1. CASE Install(t)
  <2>1. /\ Seen(u) \/ u = t => Applied(u)'
        /\ sp'.seq = sp.seq + 1 /\ UNCHANGED <<recordVars, a_toggles, old_sp, j>>
        /\ u # t => pc'[u] = pc[u]
    BY <1>1, InstallApplies, OthersStay DEF Install, attemptVars
  <2>2. InLoop(u)' /\ Known(u)' >= 2 /\ u # t => Seen(u)
    BY <1>0, <2>1 DEF Seen, InLoop, Known
  <2>. QED
    BY <2>1, <2>2 DEF WhenApplied, InLoop, Seen, recordVars
<1>2. CASE ~Install(t) /\ Toggle(t) /\ u = t
  <2>1. pc'[t] = "readSp" /\ j'[t] = 0
    BY <1>2 DEF Toggle, Goto, TypeOK, attemptVars, Attempts
  <2>. QED
    BY <1>2, <2>1 DEF Known, InLoop
<1>3. CASE ~Install(t) /\ ~(Toggle(t) /\ u = t)
  <2>1. /\ (Applied(u)' <=> Applied(u)) /\ a_toggles'[u] = a_toggles[u]
        /\ InLoop(u)' /\ Known(u)' >= 2 => Applied(u)'
    BY <1>3, SameApplied, SeenBefore DEF WhenApplied
  <2>2. CASE u # t
    <3>1. pc'[u] = pc[u] /\ old_sp'[u] = old_sp[u]
      BY <2>2, OthersStay
    <3>2. ASSUME pc[u] = "readApplied", old_sp[u].index = Mine(t), pc[t] \in Writing
          PROVE  Applied(u)
      <4>1. Reading(u) /\ InLoop(u) /\ pc[t] \in Attempt
        BY <3>2 DEF Reading, InLoop, Attempt, Writing
      <4>2. Known(u) >= 2
        BY <1>0, <3>2, <4>1, Overtaken DEF Known, Attempts
      <4>. QED
        BY <4>1, <4>2 DEF WhenApplied
    <3>3. old_sp[u].index \in Records
      BY DEF TypeOK
    <3>4. old_sp[u].index # Mine(t) \/ pc[t] \notin Writing =>
            applied'[old_sp[u].index] = applied[old_sp[u].index]
      BY <3>3, Writes
    <3>. QED
      BY <2>1, <3>1, <3>2, <3>4 DEF WhenApplied, InLoop
  <2>3. CASE u = t
    <3>1. ASSUME ~InLoop(t)', InLoop(t) PROVE Applied(t)
      <4>1. FindApplied(t) \/ RecheckFails(t) \/ InstallFails(t)
        BY <1>3, <3>1 DEF Step, Announce, Toggle, ReadSp, FindPending, CopyState,
           CopyApplied, CopyRet, ReadToggles, RecheckHolds, ServeOwn, Help, SetApplied, ReturnOwn,
           ReadLastSp, ReturnHelped, Goto, TypeOK, InLoop, Attempt
      <4>2. CASE FindApplied(t)
        <5>1. pc[t] = "readApplied" /\ applied[old_sp[t].index][t] # my_bit[t]
          BY <4>2 DEF FindApplied, AppliedBit, Goto
        <5>2. my_bit[t] # a_toggles[t]
          BY <5>1 DEF Bits
        <5>3. /\ my_bit[t] \in BOOLEAN /\ a_toggles[t] \in BOOLEAN
              /\ applied[old_sp[t].index][t] \in BOOLEAN
          BY DEF TypeOK
        <5>4. applied[old_sp[t].index][t] = a_toggles[t]
          BY <5>1, <5>2, <5>3
        <5>. QED
          BY <5>1, <5>4 DEF WhenApplied
      <4>3. CASE RecheckFails(t) \/ InstallFails(t)
        <5>1. /\ pc[t] \in {"recheck", "cas"} /\ sp # old_sp[t]
              /\ pc'[t] = IF j[t] = 0 THEN "readSp" ELSE "last"
          BY <4>3 DEF RecheckFails, InstallFails, NextAttempt, Goto, TypeOK
        <5>2. j[t] = 1 /\ old_sp[t].seq < sp.seq
          BY <1>0, <3>1, <5>1 DEF InLoop, Attempt, Attempts, Stamps, Reading
        <5>3. Known(t) >= 2
          BY <1>0, <5>1, <5>2 DEF Known
        <5>. QED
          BY <3>1, <5>3 DEF WhenApplied
      <4>. QED
        BY <4>1, <4>2, <4>3
    <3>2. ASSUME pc'[t] = "readApplied"
          PROVE  old_sp'[t] = sp /\ UNCHANGED <<applied, sp>>
      BY <3>2, <1>3 DEF Step, Announce, Toggle, ReadSp, FindApplied, FindPending, CopyState,
         CopyApplied, CopyRet, ReadToggles, RecheckFails, RecheckHolds, NextAttempt, ServeOwn,
         Help, SetApplied, InstallFails, ReturnOwn, ReadLastSp, ReturnHelped, Goto,
         TypeOK, recordVars
    <3>3. pc'[t] = "readApplied" /\ applied'[old_sp'[t].index][t] = a_toggles'[t] => Applied(t)'
      BY <3>2 DEF Applied
    <3>. QED
      BY <2>1, <2>3, <3>1, <3>3 DEF WhenApplied
  <2>. QED
    BY <2>2, <2>3
<1>. QED
  BY <1>1, <1>2, <1>3


-----------------------------------------------------------------------------
(* A thread that prepares a record that can still be installed carries the  *)
(* answers to the requests already applied over, and does not serve them.   *)
LEMMA AnswerKept ==
  ASSUME IInv, NEW u \in Threads, Current(u),
         pc[u] \in {"readToggles", "recheck", "own", "help", "cas"},
         NEW v \in Threads, Applied(v)
  PROVE  /\ ret[Mine(u)][v] = ret[sp.index][v]
         /\ pc[u] \in {"own", "help"} => v \notin diffs[u]
         /\ pc[u] \in Compared => v \notin Todo(u)
<1>. Copies /\ Toggles /\ Served
  BY DEF IInv
<1>1. ASSUME pc[u] \in Compared PROVE v \notin Todo(u)
  BY <1>1 DEF Toggles, Todo, Differ, Applied
<1>2. CASE pc[u] \in {"readToggles", "recheck"}
  BY <1>1, <1>2 DEF Copies
<1>3. CASE pc[u] = "own"
  BY <1>1, <1>3 DEF Copies, Served, Compared
<1>4. CASE pc[u] \in {"help", "cas"}
  BY <1>1, <1>4 DEF Served, Done, Compared
<1>. QED
  BY <1>1, <1>2, <1>3, <1>4

(* Who reuses a record that a slow thread is about to read an answer from   *)
(* started late enough to have copied that answer.                          *)
LEMMA RetKept ==
  ASSUME IInv, NEW t \in Threads, Step(t),
         NEW v \in Threads, v # t, pc[v] = "readRet",
         NEW x \in Threads, Reading(x), old_sp[x].seq >= old_sp[v].seq,
         ret[old_sp[x].index][v] = ret[sp.index][v]
  PROVE  ret'[old_sp[x].index][v] = ret[sp.index][v]
<1>. DEFINE r == old_sp[x].index
<1>. TypeOK /\ Stamps /\ LastInstalled /\ Rounds /\ Answers
  BY DEF IInv
<1>1. r \in Records /\ Mine(t) \in Records /\ DOMAIN ret[r] = Threads
  BY MineIsRec DEF TypeOK
<1>2. CASE r # Mine(t) \/ pc[t] \notin Writing
  BY <1>1, <1>2, Writes
<1>3. CASE r = Mine(t) /\ pc[t] \in Writing
  <2>1. pc[t] \in Attempt
    BY <1>3 DEF Writing, Attempt
  <2>2. old_sp[t].seq >= old_sp[x].seq + 2
    BY <1>3, <2>1, Overtaken
  <2>3. /\ old_sp[t].seq \in Int /\ old_sp[x].seq \in Int /\ old_sp[v].seq \in Int
    BY DEF TypeOK
  <2>4. /\ pc[t] = "copyRet" => ret[old_sp[t].index][v] = ret[sp.index][v]
        /\ pc[t] \in {"own", "help"} => v \notin diffs[t]
    <3>1. old_sp[t].seq >= old_sp[v].seq
      BY <2>2, <2>3
    <3>. QED
      BY <3>1 DEF Answers
  <2>5. CASE CopyRet(t)
    BY <1>1, <1>3, <2>4, <2>5 DEF CopyRet, Goto, TypeOK
  <2>6. CASE ServeOwn(t)
    <3>1. ret'[Mine(t)][v] = ret[Mine(t)][v]
      BY <1>1, <1>3, <2>6 DEF ServeOwn, Serve, TypeOK
    <3>. QED
      BY <1>3, <3>1
  <2>7. ASSUME NEW q \in Threads, Help(t, q)
        PROVE  ret'[Mine(t)][v] = ret[Mine(t)][v]
    <3>1. q # v
      BY <2>4, <2>7 DEF Help, Goto
    <3>. QED
      BY <1>1, <1>3, <2>7, <3>1 DEF Help, Serve, TypeOK
  <2>8. CASE \E q \in Threads : Help(t, q)
    BY <1>3, <2>7, <2>8
  <2>9. CASE CopyState(t) \/ CopyApplied(t)
    BY <2>9 DEF CopyState, CopyApplied
  <2>10. ASSUME ~CopyRet(t), ~ServeOwn(t), ~\E q \in Threads : Help(t, q)
         PROVE  ret' = ret
    BY <2>10 DEF Step, Announce, Toggle, ReadSp, FindApplied, FindPending, CopyState,
       CopyApplied, ReadToggles, RecheckFails, RecheckHolds, NextAttempt, SetApplied, Install,
       InstallFails, ReturnOwn, ReadLastSp, ReturnHelped, recordVars
  <2>. QED
    BY <2>5, <2>6, <2>8, <2>10
<1>. QED
  BY <1>2, <1>3

(* The answers. *)
LEMMA AnswersStep ==
  ASSUME IInv, NEW t \in Threads, Step(t)
  PROVE  Answers'
<1>. TypeOK /\ TypeOK' /\ Stamps /\ LastInstalled /\ Copies /\ Toggles /\ WhenApplied /\ Answers
  BY TypeStep DEF IInv
<1>0. /\ \A u \in Threads \ {t} : /\ pc'[u] = pc[u] /\ old_sp'[u] = old_sp[u]
                                  /\ diffs'[u] = diffs[u] /\ Mine(u)' = Mine(u)
      /\ ~Install(t) => sp' = sp
      /\ ret'[sp.index] = ret[sp.index]
  BY OthersStay, RecordsStay
<1>1. \A u \in Threads : sp.seq \in Int /\ old_sp[u].seq \in Int
  BY DEF TypeOK
<1>2. ASSUME NEW v \in Threads, Install(t), v # t, pc[v] \in {"returnOwn", "readRet"}
      PROVE  ret'[sp'.index][v] = ret[sp.index][v] /\ ret' = ret
  <2>1. Applied(v)
    BY <1>2 DEF WhenApplied, InLoop, Attempt
  <2>2. Current(t) /\ pc[t] = "cas" /\ sp'.index = Mine(t) /\ ret' = ret
    BY <1>2, InstallApplies DEF recordVars
  <2>3. ret[Mine(t)][v] = ret[sp.index][v]
    BY <2>1, <2>2, AnswerKept
  <2>. QED
    BY <2>2, <2>3
<1>3. ASSUME NEW v \in Threads, pc'[v] = "returnOwn"
      PROVE  ret'[Mine(v)'][v] = ret'[sp'.index][v]
  <2>1. CASE v # t /\ ~Install(t)
    <3>1. ret'[Mine(v)] = ret[Mine(v)]
      BY <2>1, RecordsStay
    <3>. QED
      BY <1>0, <1>3, <2>1, <3>1 DEF Answers
  <2>2. CASE v # t /\ Install(t)
    BY <1>0, <1>2, <1>3, <2>2 DEF Answers
  <2>3. CASE v = t
    <3>1. Install(t)
      BY <1>3, <2>3, Entries
    <3>2. sp'.index = Mine(t) /\ local_index' = local_index
      BY <3>1 DEF Install
    <3>. QED
      BY <2>3, <3>2 DEF Mine
  <2>. QED
    BY <2>1, <2>2, <2>3
<1>4. ASSUME pc'[t] = "readRet"
      PROVE  /\ ret'[old_sp'[t].index][t] = ret'[sp'.index][t]
             /\ \A u \in Threads : old_sp'[u].seq >= old_sp'[t].seq =>
                  /\ pc'[u] \in {"readApplied", "copyState", "copyApplied", "copyRet"} =>
                       ret'[old_sp'[u].index][t] = ret'[sp'.index][t]
                  /\ pc'[u] \in {"own", "help"} => t \notin diffs'[u]
  <2>1. pc[t] = "last" /\ old_sp'[t] = sp /\ sp' = sp /\ ret' = ret
    BY <1>4, Entries DEF ReadLastSp, Goto, TypeOK, recordVars
  <2>2. Applied(t)
    BY <2>1 DEF WhenApplied, InLoop, Attempt
  <2>3. ASSUME NEW u \in Threads, u # t, old_sp'[u].seq >= sp.seq, pc'[u] \in Attempt
        PROVE  Current(u) /\ old_sp'[u] = sp
    BY <1>0, <1>1, <2>3 DEF Stamps, Reading, Current
  <2>4. ASSUME NEW u \in Threads, u # t, old_sp'[u].seq >= sp.seq, pc'[u] \in {"own", "help"}
        PROVE  t \notin diffs'[u]
    <3>1. Current(u) /\ pc[u] = pc'[u] /\ diffs'[u] = diffs[u]
      BY <1>0, <2>3, <2>4 DEF Attempt
    <3>. QED
      BY <2>2, <2>4, <3>1, AnswerKept
  <2>. QED
    BY <1>4, <2>1, <2>3, <2>4 DEF Attempt
<1>5. ASSUME NEW v \in Threads, v # t, pc'[v] = "readRet", NEW u \in Threads,
             old_sp'[u].seq >= old_sp'[v].seq
      PROVE  /\ pc'[u] \in {"readApplied", "copyState", "copyApplied", "copyRet"} =>
                  ret'[old_sp'[u].index][v] = ret'[sp'.index][v]
             /\ pc'[u] \in {"own", "help"} => v \notin diffs'[u]
  <2>0. pc[v] = "readRet" /\ old_sp'[v] = old_sp[v]
    BY <1>0, <1>5
  <2>1. CASE Install(t)
    <3>1. ret'[sp'.index][v] = ret[sp.index][v] /\ ret' = ret
      BY <1>2, <1>5, <2>0, <2>1
    <3>2. pc'[t] = "returnOwn" /\ old_sp' = old_sp /\ diffs' = diffs
      BY <2>1 DEF Install, Goto, TypeOK, attemptVars
    <3>. QED
      BY <1>0, <1>5, <2>0, <3>1, <3>2 DEF Answers
  <2>2. CASE ~Install(t) /\ u # t
    <3>1. pc'[u] = pc[u] /\ old_sp'[u] = old_sp[u] /\ diffs'[u] = diffs[u] /\ sp' = sp
      BY <1>0, <2>2
    <3>2. ASSUME pc[u] \in {"readApplied", "copyState", "copyApplied", "copyRet"}
          PROVE  ret'[old_sp[u].index][v] = ret[sp.index][v]
      <4>1. Reading(u) /\ ret[old_sp[u].index][v] = ret[sp.index][v]
        BY <1>5, <2>0, <3>1, <3>2 DEF Answers, Reading, Attempt
      <4>. QED
        BY <1>5, <2>0, <3>1, <4>1, RetKept
    <3>. QED
      BY <1>0, <1>5, <2>0, <3>1, <3>2 DEF Answers
  <2>3. CASE ~Install(t) /\ u = t /\ pc'[t] \in {"readApplied", "copyState", "copyApplied", "copyRet"}
    <3>1. CASE ReadSp(t)
      <4>1. old_sp'[t] = sp
        BY <3>1 DEF ReadSp, TypeOK
      <4>. QED
        BY <1>0, <2>3, <4>1
    <3>2. CASE FindPending(t) \/ CopyState(t) \/ CopyApplied(t)
      <4>1. /\ pc[t] \in {"readApplied", "copyState", "copyApplied"}
            /\ old_sp' = old_sp /\ ret' = ret
        BY <3>2 DEF FindPending, CopyState, CopyApplied, Goto, attemptVars, recordVars
      <4>. QED
        BY <1>0, <1>5, <2>0, <2>3, <4>1 DEF Answers
    <3>. QED
      BY <2>3, <3>1, <3>2, Entries
  <2>4. CASE ~Install(t) /\ u = t /\ pc'[t] \in {"own", "help"}
    <3>1. CASE RecheckHolds(t)
      <4>1. pc[t] = "recheck" /\ sp = old_sp[t] /\ diffs'[t] = Differ(applied[Mine(t)], l_toggles[t])
        BY <3>1 DEF RecheckHolds, Goto, TypeOK
      <4>2. Current(t) /\ Applied(v)
        BY <2>0, <4>1 DEF Current, Attempt, WhenApplied, InLoop
      <4>3. applied[Mine(t)] = applied[sp.index]
        BY <4>1, <4>2 DEF Copies
      <4>4. v \notin Todo(t)
        BY <4>1, <4>2, AnswerKept DEF Compared
      <4>. QED
        BY <2>4, <4>1, <4>3, <4>4 DEF Todo, Attempt
    <3>2. CASE ServeOwn(t)
      <4>1. pc[t] = "own" /\ old_sp' = old_sp /\ diffs'[t] = (diffs[t] \ {t}) \cup ({t} \ diffs[t])
        BY <3>2 DEF ServeOwn, Serve, Goto, TypeOK
      <4>2. v \notin diffs[t]
        BY <1>5, <2>0, <2>4, <4>1 DEF Answers
      <4>. QED
        BY <1>5, <2>4, <4>1, <4>2
    <3>3. ASSUME NEW q \in Threads, Help(t, q)
          PROVE  v \notin diffs'[t]
      <4>1. pc[t] = "help" /\ old_sp' = old_sp /\ diffs'[t] = diffs[t] \ {q}
        BY <3>3 DEF Help, Serve, Goto, TypeOK
      <4>2. v \notin diffs[t]
        BY <1>5, <2>0, <2>4, <4>1 DEF Answers
      <4>. QED
        BY <4>1, <4>2
    <3>. QED
      BY <2>4, <3>1, <3>2, <3>3, Entries
  <2>. QED
    BY <2>1, <2>2, <2>3, <2>4
<1>6. ASSUME NEW v \in Threads, v # t, pc'[v] = "readRet"
      PROVE  ret'[old_sp'[v].index][v] = ret'[sp'.index][v]
  <2>0. pc[v] = "readRet" /\ old_sp'[v] = old_sp[v]
    BY <1>0, <1>6
  <2>1. CASE Install(t)
    BY <1>2, <1>6, <2>0, <2>1 DEF Answers
  <2>2. CASE ~Install(t)
    <3>1. Reading(v) /\ ret[old_sp[v].index][v] = ret[sp.index][v]
      BY <2>0 DEF Answers, Reading
    <3>2. ret'[old_sp[v].index][v] = ret[sp.index][v]
      BY <1>1, <1>6, <2>0, <3>1, RetKept
    <3>. QED
      BY <1>0, <2>0, <2>2, <3>2
  <2>. QED
    BY <2>1, <2>2
<1>. QED
  BY <1>3, <1>4, <1>5, <1>6 DEF Answers

-----------------------------------------------------------------------------
(* Every set of natural numbers with an element has a least one. *)
LEMMA LeastNatural ==
  ASSUME NEW T, T \subseteq Nat, T # {}
  PROVE  \E n \in T : \A m \in T : n <= m
<1>1. \E x \in T : \A y \in T : ~ (<<y, x>> \in OpToRel(<, Nat))
  BY NatLessThanWellFounded, WFMin
<1>2. \A x, y \in T : x < y => <<x, y>> \in OpToRel(<, Nat)
  BY DEF OpToRel
<1>3. PICK x \in T : \A y \in T : ~ (y < x)
  BY <1>1, <1>2
<1>4. \A y \in T : x <= y
  BY <1>3
<1>. QED
  BY <1>4

(* g is the sequence of states of the first n requests. *)
States(g, n, s, order, args) ==
  g = [i \in 0 .. n |-> IF i = 0 THEN s ELSE NewState(g[i - 1], args[i], order[i])]

LEMMA StatesExist ==
  ASSUME NEW s, NEW order, NEW args
  PROVE  \A n \in Nat : \E g : States(g, n, s, order, args)
<1>. DEFINE T == {n \in Nat : ~\E g : States(g, n, s, order, args)}
<1>. SUFFICES ASSUME T # {} PROVE FALSE
  OBVIOUS
<1>1. PICK n \in T : \A m \in T : n <= m
  <2>. HIDE DEF T
  <2>1. T \subseteq Nat
    BY DEF T
  <2>. QED
    BY <2>1, LeastNatural
<1>2. CASE n = 0
  <2>1. States([i \in 0 .. 0 |-> s], 0, s, order, args)
    BY DEF States
  <2>. QED
    BY <1>1, <1>2, <2>1
<1>3. CASE n # 0
  <2>1. n - 1 \in Nat /\ n - 1 \notin T
    BY <1>1, <1>3
  <2>2. PICK g : States(g, n - 1, s, order, args)
    BY <2>1
  <2>. DEFINE h == [i \in 0 .. n |-> IF i = n THEN NewState(g[n - 1], args[n], order[n]) ELSE g[i]]
  <2>3. \A i \in 0 .. n - 1 : g[i] = IF i = 0 THEN s ELSE NewState(g[i - 1], args[i], order[i])
    BY <2>2 DEF States
  <2>4. \A i \in 0 .. n : h[i] = IF i = 0 THEN s ELSE NewState(h[i - 1], args[i], order[i])
    BY <1>1, <1>3, <2>3
  <2>5. States(h, n, s, order, args)
    <3>1. h = [i \in 0 .. n |-> h[i]]
      OBVIOUS
    <3>. HIDE DEF h
    <3>2. h = [i \in 0 .. n |-> IF i = 0 THEN s ELSE NewState(h[i - 1], args[i], order[i])]
      BY <2>4, <3>1
    <3>. QED
      BY <3>2 DEF States
  <2>. QED
    BY <1>1, <2>5
<1>. QED
  BY <1>2, <1>3

LEMMA ReplayIs ==
  ASSUME NEW s, NEW order \in Seq(Threads), NEW args
  PROVE  States(Replay(s, order, args), Len(order), s, order, args)
<1>0. Len(order) \in Nat
  OBVIOUS
<1>1. PICK g : States(g, Len(order), s, order, args)
  BY <1>0, StatesExist
<1>2. g = [i \in 0 .. Len(order) |-> IF i = 0 THEN s ELSE NewState(g[i - 1], args[i], order[i])]
  BY <1>1 DEF States
<1>. QED
  BY <1>2 DEF States, Replay, Ob!Replay

(* Two replays agree as far as their requests do. *)
LEMMA SameStates ==
  ASSUME NEW s, NEW n \in Nat, NEW m \in Nat, n <= m,
         NEW g, NEW o, NEW a, States(g, n, s, o, a),
         NEW h, NEW p, NEW b, States(h, m, s, p, b),
         \A i \in 1 .. n : o[i] = p[i] /\ a[i] = b[i]
  PROVE  \A i \in 0 .. n : g[i] = h[i]
<1>. DEFINE T == {i \in 0 .. n : g[i] # h[i]}
<1>. SUFFICES ASSUME T # {} PROVE FALSE
  OBVIOUS
<1>1. PICK i \in T : \A k \in T : i <= k
  <2>1. T \subseteq Nat
    OBVIOUS
  <2>. HIDE DEF T
  <2>. QED
    BY <2>1, LeastNatural
<1>2. \A k \in 0 .. n : g[k] = IF k = 0 THEN s ELSE NewState(g[k - 1], a[k], o[k])
  BY DEF States
<1>3. \A k \in 0 .. m : h[k] = IF k = 0 THEN s ELSE NewState(h[k - 1], b[k], p[k])
  BY DEF States
<1>4. i \in 1 .. n /\ i - 1 \in 0 .. n
  BY <1>1, <1>2, <1>3
<1>5. g[i - 1] = h[i - 1]
  BY <1>1, <1>4
<1>. QED
  BY <1>1, <1>2, <1>3, <1>4, <1>5

(* One more request takes the object one state further. *)
LEMMA ReplayAppend ==
  ASSUME NEW s, NEW order \in Seq(Threads), NEW q \in Threads, NEW a, NEW b,
         \A i \in 1 .. Len(order) : a[i] = b[i]
  PROVE  /\ \A i \in 0 .. Len(order) :
               Replay(s, Append(order, q), b)[i] = Replay(s, order, a)[i]
         /\ Replay(s, Append(order, q), b)[Len(order) + 1] =
              NewState(Replay(s, order, a)[Len(order)], b[Len(order) + 1], q)
<1>. DEFINE g == Replay(s, order, a)
            long == Append(order, q)
            h == Replay(s, long, b)
            n == Len(order)
<1>1. /\ long \in Seq(Threads) /\ Len(long) = n + 1 /\ n \in Nat /\ long[n + 1] = q
      /\ \A i \in 1 .. n : order[i] = long[i]
  OBVIOUS
<1>2. States(g, n, s, order, a) /\ States(h, n + 1, s, long, b)
  BY <1>1, ReplayIs
<1>. HIDE DEF g, h, long
<1>3. \A i \in 0 .. n : g[i] = h[i]
  <2>1. \A i \in 1 .. n : order[i] = long[i] /\ a[i] = b[i]
    BY <1>1
  <2>2. n <= n + 1 /\ n + 1 \in Nat /\ n \in Nat
    BY <1>1
  <2>. HIDE DEF n
  <2>. QED
    BY <1>2, <2>1, <2>2, SameStates
<1>4. h[n + 1] = NewState(h[n], b[n + 1], long[n + 1])
  <2>1. n + 1 \in 0 .. n + 1 /\ n + 1 # 0 /\ (n + 1) - 1 = n
    BY <1>1
  <2>. HIDE DEF n
  <2>2. \A i \in 0 .. n + 1 : h[i] = IF i = 0 THEN s ELSE NewState(h[i - 1], b[i], long[i])
    BY <1>2 DEF States
  <2>. QED
    BY <2>1, <2>2
<1>. QED
  BY <1>1, <1>3, <1>4 DEF g, h, long

(* A replay does not depend on what is beyond its requests. *)
LEMMA SameReplay ==
  ASSUME NEW s, NEW order \in Seq(Threads), NEW a, NEW b,
         \A i \in 1 .. Len(order) : a[i] = b[i]
  PROVE  Replay(s, order, a) = Replay(s, order, b)
<1>1. /\ States(Replay(s, order, a), Len(order), s, order, a)
      /\ States(Replay(s, order, b), Len(order), s, order, b)
  BY ReplayIs
<1>2. \A i \in 0 .. Len(order) : Replay(s, order, a)[i] = Replay(s, order, b)[i]
  BY <1>1, SameStates
<1>. QED
  BY <1>1, <1>2 DEF States

(* What the orders of a set are. *)
LEMMA Orders ==
  ASSUME NEW W \in SUBSET Threads, NEW order \in SetToSeqs(W)
  PROVE  /\ order \in Seq(Threads) /\ DOMAIN order = 1 .. Len(order)
         /\ Len(order) \in Nat /\ Len(order) = Cardinality(W)
         /\ \A i \in 1 .. Len(order) : order[i] \in W
         /\ \A i, k \in 1 .. Len(order) : order[i] = order[k] => i = k
         /\ \A q \in W : \E i \in 1 .. Len(order) : order[i] = q
<1>1. IsFiniteSet(Threads)
  BY FS_Interval, Constants DEF Threads
<1>2. IsFiniteSet(W) /\ Cardinality(W) \in Nat
  BY <1>1, FS_Subset, FS_CardinalityType
<1>. DEFINE n == Cardinality(W)
<1>3. /\ order \in [1 .. n -> W]
      /\ \A i, k \in 1 .. n : order[i] = order[k] => i = k
  BY DEF SetToSeqs
<1>4. order \in Injection(1 .. n, W)
  BY <1>3 DEF Injection, IsInjective
<1>5. Cardinality(1 .. n) = n
  BY <1>2, FS_Interval
<1>6. order \in Surjection(1 .. n, W)
  BY <1>2, <1>4, <1>5, FS_Injection
<1>7. \A q \in W : \E i \in 1 .. n : order[i] = q
  BY <1>6 DEF Surjection
<1>8. order \in Seq(Threads) /\ Len(order) = n
  BY <1>2, <1>3
<1>. QED
  BY <1>2, <1>3, <1>7, <1>8

LEMMA OrderAppend ==
  ASSUME NEW W \in SUBSET Threads, NEW order \in SetToSeqs(W), NEW q \in Threads, q \notin W
  PROVE  Append(order, q) \in SetToSeqs(W \cup {q})
<1>. DEFINE n == Len(order)
<1>1. /\ order \in Seq(Threads) /\ n \in Nat /\ n = Cardinality(W)
      /\ \A i \in 1 .. n : order[i] \in W
      /\ \A i, k \in 1 .. n : order[i] = order[k] => i = k
  BY Orders
<1>2. IsFiniteSet(Threads)
  BY FS_Interval, Constants DEF Threads
<1>3. Cardinality(W \cup {q}) = n + 1
  BY <1>1, <1>2, FS_Subset, FS_AddElement
<1>4. /\ Append(order, q) \in [1 .. n + 1 -> W \cup {q}]
      /\ \A i \in 1 .. n : Append(order, q)[i] = order[i]
      /\ Append(order, q)[n + 1] = q
  <2>1. /\ Append(order, q) \in Seq(Threads) /\ Len(Append(order, q)) = n + 1
        /\ \A i \in 1 .. n : Append(order, q)[i] = order[i]
        /\ Append(order, q)[n + 1] = q
    BY <1>1
  <2>2. \A i \in 1 .. n + 1 : Append(order, q)[i] \in W \cup {q}
    <3>1. \A i \in 1 .. n + 1 : i \in 1 .. n \/ i = n + 1
      BY <1>1
    <3>. QED
      BY <1>1, <2>1, <3>1
  <2>. DEFINE long == Append(order, q)
  <2>. HIDE DEF n, long
  <2>3. long \in [1 .. n + 1 -> Threads]
    <3>1. long \in Seq(Threads) /\ Len(long) = n + 1
      BY <2>1 DEF long
    <3>. QED
      BY <3>1
  <2>4. \A i \in 1 .. n + 1 : long[i] \in W \cup {q}
    BY <2>2 DEF long
  <2>5. long \in [1 .. n + 1 -> W \cup {q}]
    BY <2>3, <2>4
  <2>. QED
    BY <2>1, <2>5 DEF long
<1>5. \A i, k \in 1 .. n + 1 : i # k => Append(order, q)[i] # Append(order, q)[k]
  BY <1>1, <1>4
<1>. QED
  BY <1>3, <1>4, <1>5 DEF SetToSeqs

LEMMA SameOutcome ==
  ASSUME NEW W \in SUBSET Threads, NEW order \in SetToSeqs(W),
         NEW s, NEW new, NEW answers, NEW a, Outcome(s, new, answers, order, a),
         NEW b, \A i \in 1 .. Len(order) : b[i] = a[i],
         NEW others, \A q \in W : others[q] = answers[q]
  PROVE  Outcome(s, new, others, order, b)
<1>1. /\ order \in Seq(Threads) /\ DOMAIN order = 1 .. Len(order)
      /\ \A i \in 1 .. Len(order) : order[i] \in W
  BY Orders
<1>2. Replay(s, order, a) = Replay(s, order, b)
  BY <1>1, SameReplay
<1>. QED
  BY <1>1, <1>2 DEF Outcome

LEMMA OutcomeAppend ==
  ASSUME NEW W \in SUBSET Threads, NEW order \in SetToSeqs(W), NEW q \in Threads, q \notin W,
         NEW s, NEW new, NEW answers, NEW a, Outcome(s, new, answers, order, a),
         NEW b, \A i \in 1 .. Len(order) : b[i] = a[i],
         NEW others, \A p \in W : others[p] = answers[p],
         others[q] = Result(new, b[Len(order) + 1], q)
  PROVE  Outcome(s, NewState(new, b[Len(order) + 1], q), others, Append(order, q), b)
<1>0. /\ \A i \in 0 .. Len(order) : Replay(s, Append(order, q), b)[i] = Replay(s, order, a)[i]
      /\ Replay(s, Append(order, q), b)[Len(order) + 1] =
           NewState(Replay(s, order, a)[Len(order)], b[Len(order) + 1], q)
  <2>1. order \in Seq(Threads)
    BY Orders
  <2>2. \A i \in 1 .. Len(order) : a[i] = b[i]
    OBVIOUS
  <2>. QED
    BY ONLY <2>1, <2>2, q \in Threads, ReplayAppend
<1>. DEFINE n == Len(order)
            long == Append(order, q)
            g == Replay(s, order, a)
            h == Replay(s, long, b)
<1>1. /\ order \in Seq(Threads) /\ DOMAIN order = 1 .. n /\ n \in Nat
      /\ \A i \in 1 .. n : order[i] \in W
  BY Orders
<1>2. /\ Len(long) = n + 1 /\ DOMAIN long = 1 .. n + 1 /\ long[n + 1] = q
      /\ \A i \in 1 .. n : long[i] = order[i]
  BY <1>1
<1>3. /\ \A i \in 0 .. n : h[i] = g[i]
      /\ h[n + 1] = NewState(g[n], b[n + 1], q)
  BY <1>0
<1>4. /\ new = g[n]
      /\ \A i \in 1 .. n : answers[order[i]] = Result(g[i - 1], a[i], order[i])
  BY <1>1 DEF Outcome
<1>. HIDE DEF g, h, long
<1>5. ASSUME NEW i \in 1 .. n + 1
      PROVE  others[long[i]] = Result(h[i - 1], b[i], long[i])
  <2>1. CASE i = n + 1
    BY <1>1, <1>2, <1>3, <1>4, <2>1
  <2>2. CASE i # n + 1
    <3>1. i \in 1 .. n /\ i - 1 \in 0 .. n
      BY <1>1, <2>2
    <3>. QED
      BY <1>1, <1>2, <1>3, <1>4, <3>1
  <2>. QED
    BY <2>1, <2>2
<1>6. NewState(new, b[n + 1], q) = h[Len(long)]
  BY <1>2, <1>3, <1>4
<1>. QED
  BY <1>2, <1>5, <1>6 DEF Outcome, h, long

LEMMA NoOutcome ==
  ASSUME NEW s, NEW answers, NEW a
  PROVE  <<>> \in SetToSeqs({}) /\ Outcome(s, s, answers, <<>>, a)
<1>1. Cardinality({}) = 0 /\ 1 .. 0 = {}
  BY FS_EmptySet
<1>2. <<>> \in SetToSeqs({})
  BY <1>1 DEF SetToSeqs
<1>3. <<>> \in Seq(Threads) /\ Len(<<>>) = 0 /\ DOMAIN <<>> = {}
  OBVIOUS
<1>4. Replay(s, <<>>, a)[0] = s
  <2>1. States(Replay(s, <<>>, a), 0, s, <<>>, a)
    BY <1>3, ReplayIs
  <2>. QED
    BY <2>1 DEF States
<1>. QED
  BY <1>2, <1>3, <1>4 DEF Outcome

-----------------------------------------------------------------------------
(* ServedIn, with its arguments spelled out as they are after a step.       *)
LEMMA SameService ==
  ASSUME NEW W \in SUBSET Threads, NEW order \in SetToSeqs(W), NEW u \in Threads,
         ServedIn(u, order),
         state'[sp'.index] = state[sp.index], state'[Mine(u)'] = state[Mine(u)],
         ret'[Mine(u)'] = ret[Mine(u)], \A q \in W : announce'[q] = announce[q]
  PROVE  ServedIn(u, order)'
<1>1. /\ DOMAIN order = 1 .. Len(order) /\ \A i \in 1 .. Len(order) : order[i] \in W
  BY Orders
<1>2. \A i \in 1 .. Len(order) : ArgsOf(order)'[i] = ArgsOf(order)[i]
  BY <1>1 DEF ArgsOf
<1>3. Outcome(state[sp.index], state[Mine(u)], ret[Mine(u)], order, ArgsOf(order))
  BY DEF ServedIn
<1>4. Outcome(state[sp.index], state[Mine(u)], ret[Mine(u)], order, ArgsOf(order)')
  <2>. DEFINE a == ArgsOf(order)
              b == ArgsOf(order)'
              old == state[sp.index]
              new == state[Mine(u)]
              answers == ret[Mine(u)]
  <2>1. \A i \in 1 .. Len(order) : b[i] = a[i]
    BY <1>2
  <2>2. Outcome(old, new, answers, order, a)
    BY <1>3
  <2>. HIDE DEF a, b, old, new, answers
  <2>3. \A q \in W : answers[q] = answers[q]
    OBVIOUS
  <2>4. Outcome(old, new, answers, order, b)
    BY <2>1, <2>2, <2>3, SameOutcome
  <2>. QED
    BY <2>4 DEF b, old, new, answers
<1>. QED
  BY <1>4 DEF ServedIn

(* A request served on the copy is the next of the order. *)
LEMMA NextService ==
  ASSUME NEW W \in SUBSET Threads, NEW order \in SetToSeqs(W), NEW u \in Threads,
         NEW q \in Threads, q \notin W,
         Outcome(state[sp.index], state[Mine(u)], ret[Mine(u)], order, ArgsOf(order)),
         announce' = announce, state'[sp'.index] = state[sp.index],
         state'[Mine(u)'] = NewState(state[Mine(u)], announce[q], q),
         ret'[Mine(u)'][q] = Result(state[Mine(u)], announce[q], q),
         \A p \in W : ret'[Mine(u)'][p] = ret[Mine(u)][p]
  PROVE  /\ Append(order, q) \in SetToSeqs(W \cup {q})
         /\ ServedIn(u, Append(order, q))'
<1>. DEFINE long == Append(order, q)
            b == ArgsOf(long)'
<1>1. /\ DOMAIN order = 1 .. Len(order) /\ Len(order) \in Nat /\ order \in Seq(Threads)
  BY Orders
<1>2. /\ DOMAIN long = 1 .. Len(order) + 1 /\ long[Len(order) + 1] = q
      /\ \A i \in 1 .. Len(order) : long[i] = order[i]
  BY <1>1
<1>3. /\ \A i \in 1 .. Len(order) : b[i] = ArgsOf(order)[i]
      /\ b[Len(order) + 1] = announce[q]
  <2>. HIDE DEF long
  <2>. QED
    BY <1>1, <1>2 DEF ArgsOf
<1>. HIDE DEF b
<1>4. Outcome(state[sp.index], NewState(state[Mine(u)], b[Len(order) + 1], q),
              ret'[Mine(u)'], long, b)
  <2>. DEFINE others == ret'[Mine(u)']
  <2>1. /\ \A p \in W : others[p] = ret[Mine(u)][p]
        /\ others[q] = Result(state[Mine(u)], b[Len(order) + 1], q)
    BY <1>3
  <2>. HIDE DEF others
  <2>2. Outcome(state[sp.index], NewState(state[Mine(u)], b[Len(order) + 1], q), others, long, b)
    BY <1>3, <2>1, OutcomeAppend
  <2>. QED
    BY <2>2 DEF others
<1>5. Outcome(state'[sp'.index], state'[Mine(u)'], ret'[Mine(u)'], long, b)
  BY <1>3, <1>4
<1>. QED
  BY <1>5, OrderAppend DEF ServedIn, b

(* What has been served. *)
LEMMA ServedStep ==
  ASSUME IInv, NEW t \in Threads, Step(t)
  PROVE  Served'
<1>. /\ TypeOK /\ TypeOK' /\ Announced /\ Stamps /\ LastInstalled /\ Copies /\ Toggles
     /\ WhenApplied /\ Served
  BY TypeStep DEF IInv
<1>0. \A u \in Threads \ {t} : /\ pc'[u] = pc[u] /\ diffs'[u] = diffs[u]
                               /\ l_toggles'[u] = l_toggles[u] /\ Mine(u)' = Mine(u)
                               /\ state'[Mine(u)] = state[Mine(u)] /\ ret'[Mine(u)] = ret[Mine(u)]
  BY OthersStay, RecordsStay
<1>1. ASSUME NEW u \in Threads, pc'[u] = "cas" PROVE diffs'[u] = {}
  <2>1. CASE u = t
    <3>1. SetApplied(t)
      BY <1>1, <2>1, Entries
    <3>. QED
      BY <2>1, <3>1 DEF SetApplied, attemptVars
  <2>2. CASE u # t
    BY <1>0, <1>1, <2>2 DEF Served
  <2>. QED
    BY <2>1, <2>2
<1>2. ASSUME NEW u \in Threads, Current(u)'
      PROVE  /\ sp' = sp /\ ~Install(t)
             /\ state'[sp.index] = state[sp.index] /\ applied'[sp.index] = applied[sp.index]
             /\ ret'[sp.index] = ret[sp.index]
  BY <1>2, NoneCurrent, OthersStay, RecordsStay
<1>3. ASSUME NEW u \in Threads, u # t, Current(u)', pc'[u] \in {"own", "help", "cas"}
      PROVE  /\ pc'[u] = "own" => diffs'[u] = Todo(u)'
             /\ pc'[u] \in {"help", "cas"} =>
                  /\ diffs'[u] \subseteq Todo(u)' /\ u \in Done(u)'
                  /\ \A q \in Threads \ Done(u)' : ret'[Mine(u)'][q] = ret'[sp'.index][q]
                  /\ \E order \in SetToSeqs(Done(u)') : ServedIn(u, order)'
  <2>1. /\ Current(u) /\ pc'[u] = pc[u] /\ Mine(u)' = Mine(u) /\ diffs'[u] = diffs[u]
    BY <1>0, <1>2, <1>3, StillCurrent
  <2>2. Todo(u)' = Todo(u) /\ Done(u)' = Done(u)
    BY <1>0, <1>2, <1>3 DEF Todo, Done, Differ
  <2>3. ASSUME NEW q \in Done(u) PROVE announce'[q] = announce[q]
    <3>1. q \in Threads /\ ~Applied(q)
      <4>1. q \in Todo(u) /\ q \in Threads
        BY DEF Done, Todo, Differ
      <4>. QED
        BY <1>3, <2>1, <4>1, AnswerKept DEF Compared
    <3>2. ~(q = t /\ Announce(t))
      BY <3>1 DEF WhenApplied, InLoop, Attempt, Announce, Goto
    <3>. QED
      BY <3>1, <3>2, OthersStay
  <2>4. CASE pc[u] = "own"
    BY <2>1, <2>2, <2>4 DEF Served
  <2>5. CASE pc[u] \in {"help", "cas"}
    <3>1. /\ diffs[u] \subseteq Todo(u) /\ u \in Done(u)
          /\ \A q \in Threads \ Done(u) : ret[Mine(u)][q] = ret[sp.index][q]
      BY <2>1, <2>5 DEF Served
    <3>2. PICK order \in SetToSeqs(Done(u)) : ServedIn(u, order)
      BY <2>1, <2>5 DEF Served
    <3>3. Done(u) \in SUBSET Threads
      BY DEF Done, Todo, Differ
    <3>4. ServedIn(u, order)'
      BY <1>0, <1>2, <1>3, <2>1, <2>3, <3>2, <3>3, SameService
    <3>. QED
      BY <1>0, <1>2, <1>3, <2>1, <2>2, <2>5, <3>1, <3>2, <3>4
  <2>. QED
    BY <1>3, <2>1, <2>4, <2>5
<1>4. ASSUME Current(t)', pc'[t] = "own"
      PROVE  diffs'[t] = Todo(t)'
  <2>1. RecheckHolds(t)
    BY <1>4, Entries
  <2>2. /\ pc[t] = "recheck" /\ sp = old_sp[t] /\ l_toggles' = l_toggles
        /\ diffs'[t] = Differ(applied[Mine(t)], l_toggles[t])
    BY <2>1 DEF RecheckHolds, Goto, TypeOK
  <2>3. applied[Mine(t)] = applied[sp.index]
    BY <2>2 DEF Copies, Current, Attempt
  <2>. QED
    BY <1>2, <1>4, <2>2, <2>3 DEF Todo, Differ
<1>5. ASSUME Current(t)', pc'[t] \in {"help", "cas"}
      PROVE  /\ diffs'[t] \subseteq Todo(t)' /\ t \in Done(t)'
             /\ \A q \in Threads \ Done(t)' : ret'[Mine(t)'][q] = ret'[sp'.index][q]
             /\ \E order \in SetToSeqs(Done(t)') : ServedIn(t, order)'
  <2>1. ServeOwn(t) \/ (\E q \in Threads : Help(t, q)) \/ SetApplied(t)
    BY <1>5, Entries
  <2>2. /\ sp' = sp /\ state'[sp.index] = state[sp.index] /\ applied'[sp.index] = applied[sp.index]
        /\ ret'[sp.index] = ret[sp.index]
    BY <1>2, <1>5
  <2>3. Mine(t) \in Records /\ DOMAIN ret[Mine(t)] = Threads /\ Mine(t)' = Mine(t)
    <3>1. ~ReturnOwn(t)
      BY <1>5 DEF ReturnOwn, Goto, TypeOK
    <3>. QED
      BY <3>1, MineIsRec, OthersStay DEF TypeOK
  <2>4. l_toggles' = l_toggles /\ old_sp' = old_sp /\ announce' = announce
    <3>1. ASSUME NEW q \in Threads, Help(t, q)
          PROVE  l_toggles' = l_toggles /\ old_sp' = old_sp /\ announce' = announce
      BY <3>1 DEF Help, Serve
    <3>. QED
      BY <2>1, <3>1 DEF ServeOwn, Serve, SetApplied, attemptVars
  <2>5. Todo(t)' = Todo(t)
    BY <2>2, <2>4 DEF Todo, Differ
  <2>6. Done(t) \in SUBSET Threads
    BY DEF Done, Todo, Differ
  <2>7. pc[t] \in {"own", "help"} => Current(t)
    BY <1>5, <2>2, <2>4 DEF Current, Attempt
  <2>8. CASE ServeOwn(t)
    <3>1. /\ pc[t] = "own" /\ diffs'[t] = (diffs[t] \ {t}) \cup ({t} \ diffs[t])
          /\ state' = [state EXCEPT ![Mine(t)] = NewState(@, Requests[t][calls[t]], t)]
          /\ ret' = [ret EXCEPT ![Mine(t)][t] =
                       Result(state[Mine(t)], Requests[t][calls[t]], t)]
      BY <2>8 DEF ServeOwn, Serve, Goto, TypeOK
    <3>2. announce[t] = Requests[t][calls[t]]
      BY <3>1 DEF Announced
    <3>3. /\ state[Mine(t)] = state[sp.index] /\ ret[Mine(t)] = ret[sp.index]
          /\ diffs[t] = Todo(t)
      BY <2>7, <3>1 DEF Copies, Served
    <3>4. t \in Todo(t)
      BY <2>7, <3>1 DEF Copies, Toggles, Todo, Differ, Applied, Compared
    <3>5. diffs'[t] = Todo(t) \ {t}
      BY <3>1, <3>3, <3>4
    <3>6. Done(t)' = {t}
      BY <2>5, <3>4, <3>5 DEF Done
    <3>7. /\ state'[Mine(t)] = NewState(state[Mine(t)], announce[t], t)
          /\ ret'[Mine(t)][t] = Result(state[Mine(t)], announce[t], t)
          /\ \A q \in Threads \ {t} : ret'[Mine(t)][q] = ret[Mine(t)][q]
      BY <2>3, <3>1, <3>2 DEF TypeOK
    <3>8. Outcome(state[sp.index], state[Mine(t)], ret[Mine(t)], <<>>, ArgsOf(<<>>))
      BY <3>3, NoOutcome
    <3>9. <<>> \in SetToSeqs({}) /\ {} \in SUBSET Threads
      BY NoOutcome
    <3>10. /\ Append(<<>>, t) \in SetToSeqs({} \cup {t})
           /\ ServedIn(t, Append(<<>>, t))'
      BY <2>2, <2>3, <2>4, <3>7, <3>8, <3>9, NextService
    <3>. QED
      BY <2>2, <2>3, <2>5, <3>3, <3>5, <3>6, <3>7, <3>10
  <2>9. ASSUME NEW q \in Threads, Help(t, q)
        PROVE  /\ diffs'[t] \subseteq Todo(t)' /\ t \in Done(t)'
               /\ \A p \in Threads \ Done(t)' : ret'[Mine(t)'][p] = ret'[sp'.index][p]
               /\ \E order \in SetToSeqs(Done(t)') : ServedIn(t, order)'
    <3>1. /\ pc[t] = "help" /\ q \in diffs[t] /\ diffs'[t] = diffs[t] \ {q}
          /\ state' = [state EXCEPT ![Mine(t)] = NewState(@, announce[q], q)]
          /\ ret' = [ret EXCEPT ![Mine(t)][q] = Result(state[Mine(t)], announce[q], q)]
      BY <2>9 DEF Help, Serve, Goto, TypeOK
    <3>2. /\ diffs[t] \subseteq Todo(t) /\ t \in Done(t)
          /\ \A p \in Threads \ Done(t) : ret[Mine(t)][p] = ret[sp.index][p]
      BY <2>7, <3>1 DEF Served
    <3>3. PICK order \in SetToSeqs(Done(t)) : ServedIn(t, order)
      BY <2>7, <3>1 DEF Served
    <3>4. q \in Todo(t) /\ q \notin Done(t) /\ Done(t)' = Done(t) \cup {q}
      BY <2>5, <3>1, <3>2 DEF Done
    <3>5. /\ state'[Mine(t)] = NewState(state[Mine(t)], announce[q], q)
          /\ ret'[Mine(t)][q] = Result(state[Mine(t)], announce[q], q)
          /\ \A p \in Threads \ {q} : ret'[Mine(t)][p] = ret[Mine(t)][p]
      BY <2>3, <3>1 DEF TypeOK
    <3>6. Outcome(state[sp.index], state[Mine(t)], ret[Mine(t)], order, ArgsOf(order))
      BY <3>3 DEF ServedIn
    <3>7. \A p \in Done(t) : ret'[Mine(t)'][p] = ret[Mine(t)][p]
      BY <2>3, <2>6, <3>4, <3>5
    <3>8. /\ Append(order, q) \in SetToSeqs(Done(t) \cup {q})
          /\ ServedIn(t, Append(order, q))'
      BY <2>2, <2>3, <2>4, <2>6, <3>4, <3>5, <3>6, <3>7, NextService
    <3>. QED
      BY <2>2, <2>3, <2>5, <3>1, <3>2, <3>4, <3>5, <3>8
  <2>10. CASE SetApplied(t)
    <3>1. /\ pc[t] = "help" /\ diffs' = diffs /\ state' = state /\ ret' = ret
      BY <2>10 DEF SetApplied, Goto, attemptVars
    <3>2. /\ diffs[t] \subseteq Todo(t) /\ t \in Done(t)
          /\ \A p \in Threads \ Done(t) : ret[Mine(t)][p] = ret[sp.index][p]
      BY <2>7, <3>1 DEF Served
    <3>3. PICK order \in SetToSeqs(Done(t)) : ServedIn(t, order)
      BY <2>7, <3>1 DEF Served
    <3>4. Done(t)' = Done(t)
      BY <2>5, <3>1 DEF Done
    <3>5. ServedIn(t, order)'
      BY <2>2, <2>3, <2>4, <2>6, <3>1, <3>3, SameService
    <3>. QED
      BY <2>2, <2>3, <2>5, <3>1, <3>2, <3>3, <3>4, <3>5
  <2>. QED
    BY <2>1, <2>8, <2>9, <2>10
<1>. QED
  BY <1>1, <1>3, <1>4, <1>5 DEF Served

-----------------------------------------------------------------------------
LEMMA NextIInv == IInv /\ [Next]_vars => IInv'
<1>1. ASSUME IInv, UNCHANGED vars PROVE IInv'
  <2>. USE <1>1 DEF IInv, vars, recordVars, attemptVars
  <2>1. TypeOK' /\ Bits' /\ Attempts' /\ Announced'
    BY DEF TypeOK, Bits, Attempts, InLoop, Announced
  <2>2. Stamps' /\ LastInstalled' /\ Rounds'
    BY DEF Stamps, Past, Reading, LastInstalled, JustInstalled, Rounds
  <2>3. \A t \in Threads : (Current(t)' <=> Current(t)) /\ Mine(t)' = Mine(t)
    BY DEF Current, Mine
  <2>4. \A t \in Threads :
          /\ Applied(t)' <=> Applied(t)
          /\ InLoop(t)' <=> InLoop(t)
          /\ Known(t)' = Known(t)
    BY DEF Applied, InLoop, Known
  <2>5. Copies' /\ Toggles' /\ WhenApplied'
    BY <2>3, <2>4 DEF Copies, Toggles, WhenApplied
  <2>6. Answers'
    BY <2>3 DEF Answers
  <2>7. ASSUME NEW u \in Threads
        PROVE  /\ Todo(u)' = Todo(u) /\ Done(u)' = Done(u)
               /\ \A order : ServedIn(u, order) => ServedIn(u, order)'
    BY <2>3 DEF Todo, Done, Differ, ServedIn, ArgsOf
  <2>8. Served'
    BY <2>3, <2>7 DEF Served
  <2>. QED
    BY <2>1, <2>2, <2>5, <2>6, <2>8
<1>2. ASSUME IInv, NEW t \in Threads, Step(t) PROVE IInv'
  <2>1. TypeOK /\ Bits /\ Attempts /\ Announced
    BY <1>2 DEF IInv
  <2>2. TypeOK' /\ Bits' /\ Attempts' /\ Announced'
    BY <1>2, <2>1, TypeStep, CallStep
  <2>3. Stamps' /\ LastInstalled' /\ Rounds' /\ Copies' /\ Toggles' /\ WhenApplied'
    BY <1>2, GeometryStep, CopiesStep, TogglesStep, WhenAppliedStep
  <2>4. Answers' /\ Served'
    BY <1>2, AnswersStep, ServedStep
  <2>. QED
    BY <2>2, <2>3, <2>4 DEF IInv
<1>. QED
  BY <1>1, <1>2 DEF Next

(* The invariant holds in every reachable state. *)
THEOREM IInvHolds == Spec => []IInv
<1>. QED
  BY InitIInv, NextIInv, PTL DEF Spec

(* The type of the state. *)
THEOREM TypeCorrect == Spec => []TypeOK
<1>1. IInv => TypeOK
  BY DEF IInv
<1>. QED
  BY <1>1, IInvHolds, PTL

(* A thread that leaves the loop, by break or after its two attempts, has   *)
(* been served: the wait-freedom argument of SimApplyOp.                    *)
THEOREM AppliedWhenLeavingLoopHolds == Spec => []AppliedWhenLeavingLoop
<1>1. IInv => AppliedWhenLeavingLoop
  BY DEF IInv, WhenApplied, AppliedWhenLeavingLoop, Applied, InLoop, Attempt
<1>. QED
  BY <1>1, IInvHolds, PTL

(* A copy that passed the recheck, and can still be installed, is one       *)
(* version of the object.                                                   *)
THEOREM CopyIsNotTornHolds == Spec => []CopyIsNotTorn
<1>1. IInv => CopyIsNotTorn
  BY DEF IInv, Copies, CopyIsNotTorn, Current, Attempt
<1>. QED
  BY <1>1, IInvHolds, PTL

(* Nobody writes into the installed record. *)
THEOREM InstalledRecordStays == Spec => InstalledRecordIsStable
<1>. DEFINE Stable == \A r \in Records : r = sp.index =>
              state'[r] = state[r] /\ applied'[r] = applied[r] /\ ret'[r] = ret[r]
<1>1. ASSUME IInv, Next PROVE Stable
  <2>. PICK t \in Threads : Step(t)
    BY <1>1 DEF Next
  <2>. TypeOK /\ LastInstalled
    BY <1>1 DEF IInv
  <2>. QED
    BY RecordsStay
<1>2. IInv /\ [Next]_vars => [Stable]_vars
  BY <1>1
<1>. QED
  BY <1>2, IInvHolds, PTL DEF Spec, InstalledRecordIsStable

-----------------------------------------------------------------------------
(* What the request of a thread looks like from outside, before and after   *)
(* a step.                                                                  *)
LEMMA OpIs ==
  ASSUME NEW t \in Threads
  PROVE  /\ pc[t] = "idle" => AbstractOp(t) = [status |-> "idle"]
         /\ Started(t) /\ Applied(t) =>
              AbstractOp(t) = [status |-> "done", ret |-> ret[sp.index][t]]
         /\ pc[t] # "idle" /\ ~(Started(t) /\ Applied(t)) =>
              AbstractOp(t) = [status |-> "pending", arg |-> announce[t]]
         /\ pc'[t] = "idle" => AbstractOp(t)' = [status |-> "idle"]
         /\ Started(t)' /\ Applied(t)' =>
              AbstractOp(t)' = [status |-> "done", ret |-> ret'[sp'.index][t]]
         /\ pc'[t] # "idle" /\ ~(Started(t)' /\ Applied(t)') =>
              AbstractOp(t)' = [status |-> "pending", arg |-> announce'[t]]
BY DEF AbstractOp, Started, Applied

(* Only the threads that a step is about see a change. *)
LEMMA SameOp ==
  ASSUME NEW t \in Threads, ret'[sp'.index][t] = ret[sp.index][t], announce'[t] = announce[t],
         pc'[t] = "idle" <=> pc[t] = "idle",
         (Started(t)' /\ Applied(t)') <=> (Started(t) /\ Applied(t))
  PROVE  AbstractOp(t)' = AbstractOp(t)
BY OpIs DEF Started

LEMMA InitRefines == Init => Ob!Init
<1>. SUFFICES ASSUME Init PROVE Ob!Init
  OBVIOUS
<1>1. state[sp.index] = InitialState
  BY Owners DEF Init
<1>2. \A t \in Threads : AbstractOp(t) = [status |-> "idle"]
  BY OpIs DEF Init
<1>. QED
  BY <1>1, <1>2 DEF Init, Ob!Init, Ob!One!Init, Ob!One!Idle

LEMMA CallRefines ==
  ASSUME IInv, NEW t \in Threads, Announce(t)
  PROVE  \E a \in Args : Ob!Call(t, a)
<1>. TypeOK /\ LastInstalled
  BY DEF IInv
<1>. DEFINE a == Requests[t][calls[t] + 1]
<1>1. /\ pc[t] = "idle" /\ pc'[t] = "toggle" /\ calls[t] < Len(Requests[t])
      /\ announce' = [announce EXCEPT ![t] = a] /\ result' = [result EXCEPT ![t] = NULL]
      /\ UNCHANGED <<a_toggles, sp, state, applied, ret>>
      /\ \A u \in Threads \ {t} : pc'[u] = pc[u]
  BY DEF Announce, Goto, TypeOK, recordVars
<1>2. a \in Args
  <2>1. Requests[t] \in Seq(Args) /\ calls[t] \in Nat
    BY ConstantsAssumption DEF TypeOK
  <2>2. calls[t] + 1 \in 1 .. Len(Requests[t])
    BY <1>1, <2>1
  <2>. QED
    BY <2>1, <2>2
<1>3. AbstractOp(t) = [status |-> "idle"] /\ AbstractOp(t)' = [status |-> "pending", arg |-> a]
  BY <1>1, OpIs DEF Started, TypeOK
<1>4. ASSUME NEW u \in Threads, u # t PROVE AbstractOp(u)' = AbstractOp(u)
  BY <1>1, <1>4, SameOp DEF Started, Applied
<1>5. [u \in Threads |-> AbstractOp(u)'] =
        [[u \in Threads |-> AbstractOp(u)] EXCEPT ![t] = [status |-> "pending", arg |-> a]]
  BY <1>3, <1>4
<1>6. Ob!Call(t, a)
  BY <1>1, <1>3, <1>5 DEF Ob!Call, Ob!One!Call, Ob!One!Idle, Ob!One!Pending
<1>. QED
  BY <1>2, <1>6

LEMMA ReturnRefines ==
  ASSUME IInv, NEW t \in Threads, ReturnOwn(t) \/ ReturnHelped(t)
  PROVE  Ob!Return(t)
<1>. TypeOK /\ WhenApplied /\ Answers
  BY DEF IInv
<1>. DEFINE v == ret[sp.index][t]
<1>1. /\ pc[t] \in {"returnOwn", "readRet"} /\ pc'[t] = "idle"
      /\ UNCHANGED <<announce, a_toggles, sp, state, applied, ret>>
      /\ \A u \in Threads \ {t} : pc'[u] = pc[u]
  BY DEF ReturnOwn, ReturnHelped, Goto, TypeOK, recordVars
<1>2. result' = [result EXCEPT ![t] = v]
  <2>1. CASE ReturnOwn(t)
    BY <2>1 DEF ReturnOwn, Return, Goto, Answers
  <2>2. CASE ReturnHelped(t)
    BY <2>2 DEF ReturnHelped, Return, Goto, Answers
  <2>. QED
    BY <2>1, <2>2
<1>3. /\ AbstractOp(t) = [status |-> "done", ret |-> v]
      /\ AbstractOp(t)' = [status |-> "idle"]
  BY <1>1, OpIs DEF Started, WhenApplied, InLoop, Attempt
<1>4. ASSUME NEW u \in Threads, u # t PROVE AbstractOp(u)' = AbstractOp(u)
  BY <1>1, <1>4, SameOp DEF Started, Applied
<1>5. [u \in Threads |-> AbstractOp(u)'] =
        [[u \in Threads |-> AbstractOp(u)] EXCEPT ![t] = [status |-> "idle"]]
  BY <1>3, <1>4
<1>6. AbstractOp(t).status = "done" /\ AbstractOp(t).ret = v
  BY <1>3
<1>. QED
  BY <1>1, <1>2, <1>5, <1>6 DEF Ob!Return, Ob!One!Return, Ob!One!Idle

(* The CAS is where the requests of a batch take effect. *)
LEMMA InstallRefines ==
  ASSUME IInv, NEW t \in Threads, Install(t)
  PROVE  \E W \in SUBSET Threads : \E order \in SetToSeqs(W) : Ob!ApplyBatch(order)
<1>. TypeOK /\ Toggles /\ WhenApplied /\ Served /\ Step(t)
  BY DEF IInv, Step
<1>. DEFINE W == Done(t)
            op == [u \in Threads |-> AbstractOp(u)]
<1>1. /\ Current(t) /\ pc[t] = "cas" /\ pc'[t] = "returnOwn"
      /\ \A u \in Threads \ {t} : pc'[u] = pc[u]
      /\ sp'.index = Mine(t) /\ applied[Mine(t)] = l_toggles[t]
      /\ UNCHANGED <<announce, a_toggles, state, applied, ret, result>>
  BY InstallApplies DEF Install, Goto, TypeOK, recordVars
<1>2. PICK order \in SetToSeqs(W) : ServedIn(t, order)
  BY <1>1 DEF Served
<1>3. /\ W = Todo(t) /\ t \in W /\ W \in SUBSET Threads
      /\ \A q \in Threads \ W : ret[Mine(t)][q] = ret[sp.index][q]
  BY <1>1 DEF Served, Done, Todo, Differ
<1>4. /\ order \in Seq(Threads) /\ DOMAIN order = 1 .. Len(order) /\ Len(order) \in Nat
      /\ \A i \in 1 .. Len(order) : order[i] \in W
      /\ \A i, k \in 1 .. Len(order) : order[i] = order[k] => i = k
      /\ \A q \in W : \E i \in 1 .. Len(order) : order[i] = q
  BY <1>3, Orders
<1>. DEFINE after == Replay(state[sp.index], order, ArgsOf(order))
<1>. HIDE DEF W
<1>5. ASSUME NEW q \in W
      PROVE  /\ q \in Threads /\ Started(q) /\ Started(q)' /\ ~Applied(q) /\ Applied(q)'
             /\ op[q] = [status |-> "pending", arg |-> announce[q]]
             /\ AbstractOp(q)' = [status |-> "done", ret |-> ret[Mine(t)][q]]
  <2>1. q \in Threads /\ ~Applied(q)
    BY <1>1, <1>3, AnswerKept DEF Compared
  <2>2. InLoop(q)
    BY <2>1 DEF WhenApplied
  <2>3. Started(q) /\ Started(q)'
    BY <1>1, <2>1, <2>2 DEF Started, InLoop, Attempt
  <2>4. Applied(q)'
    <3>1. l_toggles[t][q] # applied[sp.index][q]
      BY <1>3 DEF Todo, Differ
    <3>2. /\ l_toggles[t][q] \in BOOLEAN /\ applied[sp.index][q] \in BOOLEAN
          /\ a_toggles[q] \in BOOLEAN
      BY <2>1 DEF TypeOK
    <3>3. l_toggles[t][q] = a_toggles[q]
      BY <2>1, <3>1, <3>2 DEF Applied
    <3>. QED
      BY <1>1, <3>3 DEF Applied
  <2>. QED
    BY <1>1, <2>1, <2>3, <2>4, OpIs DEF Started
<1>6. ASSUME NEW q \in Threads \ W
      PROVE  AbstractOp(q)' = AbstractOp(q)
  <2>1. q # t /\ pc'[q] = pc[q]
    BY <1>1, <1>3
  <2>2. Applied(q)' <=> Applied(q)
    BY <1>1, <1>3 DEF Todo, Differ, Applied
  <2>. QED
    BY <1>1, <1>3, <2>1, <2>2, SameOp DEF Started
<1>7. /\ ArgsOf(order) = [i \in DOMAIN order |-> op[order[i]].arg]
      /\ \A i \in DOMAIN order : op[order[i]].status = "pending"
  <2>1. \A q \in W : op[q] = [status |-> "pending", arg |-> announce[q]]
    BY <1>5
  <2>. HIDE DEF op
  <2>2. ASSUME NEW q \in W PROVE op[q].status = "pending" /\ op[q].arg = announce[q]
    <3>1. op[q] = [status |-> "pending", arg |-> announce[q]]
      BY <2>1
    <3>2. ASSUME NEW r, r = [status |-> "pending", arg |-> announce[q]]
          PROVE  r.status = "pending" /\ r.arg = announce[q]
      BY <3>2
    <3>. QED
      BY <3>1, <3>2
  <2>3. \A i \in DOMAIN order : order[i] \in W
    BY <1>4
  <2>. QED
    BY <2>2, <2>3 DEF ArgsOf
<1>8. /\ state'[sp'.index] = after[Len(order)]
      /\ \A i \in 1 .. Len(order) :
           ret[Mine(t)][order[i]] = Result(after[i - 1], op[order[i]].arg, order[i])
  BY <1>1, <1>2, <1>4, <1>7 DEF ServedIn, Outcome
<1>9. ASSUME NEW q \in W
      PROVE  LET i == CHOOSE k \in DOMAIN order : order[k] = q
             IN  /\ i \in 1 .. Len(order) /\ order[i] = q
                 /\ AbstractOp(q)' =
                      [status |-> "done", ret |-> Result(after[i - 1], op[order[i]].arg, order[i])]
  <2>. DEFINE i == CHOOSE k \in DOMAIN order : order[k] = q
  <2>1. i \in 1 .. Len(order) /\ order[i] = q
    BY <1>4
  <2>. HIDE DEF i, op, after
  <2>2. ret[Mine(t)][order[i]] = Result(after[i - 1], op[order[i]].arg, order[i])
    BY <1>8, <2>1
  <2>3. ret[Mine(t)][q] = Result(after[i - 1], op[order[i]].arg, order[i])
    BY <2>1, <2>2
  <2>4. AbstractOp(q)' = [status |-> "done", ret |-> Result(after[i - 1], op[order[i]].arg, order[i])]
    BY <1>5, <2>3
  <2>. QED
    BY <2>1, <2>4 DEF i
<1>10. [u \in Threads |-> AbstractOp(u)'] =
         [u \in Threads |->
            IF \E i \in DOMAIN order : order[i] = u
            THEN LET i == CHOOSE k \in DOMAIN order : order[k] = u
                 IN  [status |-> "done", ret |-> Result(after[i - 1], op[order[i]].arg, order[i])]
            ELSE op[u]]
  <2>1. \A u \in Threads : (\E i \in DOMAIN order : order[i] = u) <=> u \in W
    BY <1>4
  <2>2. \A u \in Threads \ W : AbstractOp(u)' = op[u]
    BY <1>6
  <2>. HIDE DEF op, after
  <2>. QED
    BY <1>9, <2>1, <2>2
<1>11. order # <<>>
  BY <1>3, <1>4
<1>13. Ob!ApplyBatch(order)
  BY <1>1, <1>7, <1>8, <1>10, <1>11 DEF Ob!ApplyBatch, Ob!One!Done, Replay
<1>. QED
  BY <1>2, <1>3, <1>13

(* The other steps cannot be seen from outside. *)
LEMMA OthersRefine ==
  ASSUME IInv, NEW t \in Threads, Step(t),
         ~Announce(t), ~Install(t), ~ReturnOwn(t), ~ReturnHelped(t)
  PROVE  UNCHANGED Ob!vars
<1>. TypeOK /\ TypeOK' /\ LastInstalled /\ WhenApplied
  BY TypeStep DEF IInv
<1>1. /\ sp' = sp /\ announce' = announce /\ state'[sp.index] = state[sp.index]
      /\ ret'[sp.index] = ret[sp.index]
  BY OthersStay, RecordsStay
<1>2. result' = result
  BY DEF Step, Toggle, ReadSp, FindApplied, FindPending, CopyState, CopyApplied, CopyRet,
     ReadToggles, RecheckFails, RecheckHolds, NextAttempt, ServeOwn, Help, Serve, SetApplied,
     InstallFails, ReadLastSp
<1>3. ASSUME NEW u \in Threads PROVE AbstractOp(u)' = AbstractOp(u)
  <2>1. CASE u # t
    <3>1. pc'[u] = pc[u] /\ (Applied(u)' <=> Applied(u))
      BY <2>1, OthersStay, SameApplied
    <3>. QED
      BY <1>1, <3>1, SameOp DEF Started
  <2>2. CASE u = t /\ Toggle(t)
    <3>1. /\ pc[t] = "toggle" /\ pc'[t] = "readSp" /\ applied' = applied
          /\ a_toggles'[t] = ~a_toggles[t]
      BY <2>2 DEF Toggle, Goto, TypeOK, recordVars
    <3>2. Applied(t)
      BY <3>1 DEF WhenApplied, InLoop, Attempt
    <3>3. ~Applied(t)'
      BY <1>1, <3>1, <3>2 DEF Applied, TypeOK
    <3>. QED
      BY <1>1, <2>2, <3>1, <3>3, SameOp DEF Started
  <2>3. CASE u = t /\ ~Toggle(t)
    <3>1. Applied(t)' <=> Applied(t)
      BY <2>3, SameApplied
    <3>2. pc'[t] \notin {"idle", "toggle"}
      BY Entries
    <3>3. pc[t] \notin {"idle", "toggle"}
      <4>1. ASSUME NEW q \in Threads, Help(t, q) PROVE pc[t] = "help"
        BY <4>1 DEF Help, Goto
      <4>. QED
        BY <2>3, <4>1 DEF Step, ReadSp, FindApplied, FindPending, CopyState, CopyApplied,
           CopyRet, ReadToggles, RecheckFails, RecheckHolds, NextAttempt, ServeOwn, SetApplied,
           InstallFails, ReadLastSp, Goto
    <3>. QED
      BY <1>1, <2>3, <3>1, <3>2, <3>3, SameOp DEF Started
  <2>. QED
    BY <2>1, <2>2, <2>3
<1>. QED
  BY <1>1, <1>2, <1>3 DEF Ob!vars

(* The orders of a set are the same in the module of the batched object.    *)
LEMMA SameSets == \A W \in SUBSET Threads : Ob!SetToSeqs(W) = SetToSeqs(W)
<1>1. \A W : Ob!Cardinality(W) = Cardinality(W)
  BY DEF Cardinality, Ob!Cardinality, IsFiniteSet, Ob!IsFiniteSet
<1>. QED
  BY <1>1 DEF SetToSeqs, Ob!SetToSeqs

(* Sim is linearizable: it implements the batched object, one step of which *)
(* serves the pending requests of several threads. Every request takes      *)
(* effect once, at the CAS that installs a record that has applied it, and  *)
(* every call returns the answer to its own request.                        *)
THEOREM Linearizable == Spec => ImplementsBatchedObject
<1>1. ASSUME IInv, [Next]_vars PROVE [Ob!Next]_(Ob!vars)
  <2>1. CASE UNCHANGED vars
    <3>1. \A u \in Threads : AbstractOp(u)' = AbstractOp(u)
      BY <2>1, SameOp DEF vars, recordVars, Started, Applied
    <3>. QED
      BY <2>1, <3>1 DEF Ob!vars, vars, recordVars
  <2>2. ASSUME NEW t \in Threads, Step(t) PROVE Ob!Next \/ UNCHANGED Ob!vars
    <3>1. CASE Announce(t)
      BY <1>1, <3>1, CallRefines DEF Ob!Next
    <3>2. CASE Install(t)
      BY <1>1, <3>2, InstallRefines, SameSets DEF Ob!Next
    <3>3. CASE ReturnOwn(t) \/ ReturnHelped(t)
      BY <1>1, <3>3, ReturnRefines DEF Ob!Next
    <3>4. CASE ~Announce(t) /\ ~Install(t) /\ ~ReturnOwn(t) /\ ~ReturnHelped(t)
      BY <1>1, <2>2, <3>4, OthersRefine
    <3>. QED
      BY <3>1, <3>2, <3>3, <3>4
  <2>. QED
    BY <1>1, <2>1, <2>2 DEF Next
<1>. QED
  BY <1>1, InitRefines, IInvHolds, PTL DEF Spec, ImplementsBatchedObject, Ob!Spec
-----------------------------------------------------------------------------
(* Where a thread of SimStack is: from the copy of sp to the end of the     *)
(* attempt, and in the part in which the attempt may have nodes of its own. *)
StackAttempt == {"readApplied", "copy", "copyRest", "readToggles", "recheck",
                 "push", "pop", "recheckPop", "setApplied", "cas"}
Linking == {"push", "pop", "recheckPop", "setApplied", "cas"}
StackPCs == StackAttempt \cup {"idle", "toggle", "readSp", "installed", "last", "readRet"}

MaybeNode == S!Nodes \cup {NULL}

(* The attempt of t has compared its copy with sp, and sp has not moved.    *)
StackCurrent(t) == s_pc[t] \in Linking /\ s_my[t].old_sp = s_sp

(* The nodes that t alone holds, outside its pool: how many, and the top    *)
(* one. Those it has pushed on its copy or, after the CAS, those it popped. *)
OwnSize(t) == IF s_pc[t] = "installed" THEN s_my[t].pop_counter ELSE s_my[t].push_counter
OwnTop(t) == IF s_pc[t] = "push" THEN s_rec[S!lsp(t)].head ELSE s_my[t].free_list

(* The fields of the records and of the locals, and their types.            *)
RecordFields == {"head", "applied", "ret"}
StateFields == {"my_bit", "local_index", "pool"}
LocalFields == {"j", "old_sp", "l_toggles", "diffs", "pops", "push_counter", "pop_counter",
                "free_list"}
Stamped == [index : S!Records, seq : Nat]

StackTypes ==
  /\ s_sp \in Stamped
  /\ DOMAIN s_rec = S!Records
  /\ \A r \in S!Records : DOMAIN s_rec[r] = RecordFields /\ s_rec[r].head \in MaybeNode
  /\ s_next \in [S!Nodes -> MaybeNode]
  /\ s_used \in 0 .. MaxNodes
  /\ DOMAIN s_pc = S!Threads /\ DOMAIN s_th = S!Threads /\ DOMAIN s_my = S!Threads

ThreadTypes(t) ==
  /\ s_pc[t] \in StackPCs
  /\ DOMAIN s_th[t] = StateFields
  /\ s_th[t].local_index \in Indices /\ s_th[t].pool \in Seq(S!Nodes)
  /\ DOMAIN s_my[t] = LocalFields
  /\ s_my[t].push_counter \in Nat /\ s_my[t].pop_counter \in Nat
  /\ s_pc[t] \in StackAttempt \cup {"readRet"} => s_my[t].old_sp \in Stamped

(* Between the attempts the locals have their first values.                 *)
LocalsAreFresh(t) ==
  /\ s_pc[t] \notin Linking \cup {"installed"} => s_my[t].push_counter = 0
  /\ s_pc[t] \notin (Linking \ {"push"}) \cup {"installed"} =>
       s_my[t].pop_counter = 0 /\ s_my[t].free_list = NULL

(* Each CAS takes the next sequence number.                                 *)
StampIsOlder(t) ==
  s_pc[t] \in StackAttempt =>
    /\ s_my[t].old_sp.seq <= s_sp.seq
    /\ s_my[t].old_sp.seq = s_sp.seq => s_my[t].old_sp = s_sp

(* The record t writes to is not the installed one.                         *)
RecordIsPrivate(t) ==
  /\ s_pc[t] # "installed" => s_sp.index # S!lsp(t)
  /\ s_pc[t] = "installed" =>
       \A k \in Indices : s_sp.index = Rec(t, k) => k = s_th[t].local_index

CopyIsGood(t) ==
  s_pc[t] \in {"copyRest", "readToggles", "recheck"} /\ s_my[t].old_sp = s_sp =>
    s_rec[S!lsp(t)].head = s_rec[s_sp.index].head

ThreadShape(t) ==
  ThreadTypes(t) /\ LocalsAreFresh(t) /\ StampIsOlder(t) /\ RecordIsPrivate(t) /\ CopyIsGood(t)

StackShape == StackTypes /\ \A t \in S!Threads : ThreadShape(t)

(* The layout of the nodes: stk[1], ..., stk[h] are the nodes of the stack, *)
(* from the bottom to the top, own[t][1], ... those t has outside its pool, *)
(* and loc[n] is the one place of n.                                        *)
InStack(h, stk, loc) ==
  /\ h \in Nat
  /\ s_rec[s_sp.index].head = IF h = 0 THEN NULL ELSE stk[h]
  /\ \A i \in 1 .. h : /\ stk[i] \in S!Nodes
                       /\ loc[stk[i]] = <<"stack", 0, i>>
                       /\ s_next[stk[i]] = IF i = 1 THEN NULL ELSE stk[i - 1]

Unused(loc) == \A n \in S!Nodes : n > s_used => loc[n] = <<"unused", 0, 0>>

InPool(loc, t) ==
  \A i \in 1 .. Len(s_th[t].pool) :
    loc[s_th[t].pool[i]] = <<"pool", t, Len(s_th[t].pool) - i>>

OwnedBy(own, loc, t) ==
  /\ \A i \in 1 .. OwnSize(t) : /\ own[t][i] \in S!Nodes
                                /\ loc[own[t][i]] = <<"own", t, i>>
                                /\ i # 1 => s_next[own[t][i]] = own[t][i - 1]
  /\ OwnSize(t) > 0 => OwnTop(t) = own[t][OwnSize(t)]

(* The list that a current attempt has made: the node at height i.          *)
At(h, stk, own, t, i) == IF i = 0 THEN NULL ELSE IF i <= h THEN stk[i] ELSE own[t][i - h]

OnStack(h, stk, own, t) ==
  StackCurrent(t) =>
    /\ s_my[t].push_counter > 0 => s_next[own[t][1]] = At(h, stk, own, t, h)
    /\ OwnTop(t) = At(h, stk, own, t, h + s_my[t].push_counter)
    /\ s_my[t].pop_counter <= h + s_my[t].push_counter
    /\ s_rec[S!lsp(t)].head =
         At(h, stk, own, t, h + s_my[t].push_counter - s_my[t].pop_counter)

ThreadLayout(h, stk, own, loc, t) ==
  InPool(loc, t) /\ OwnedBy(own, loc, t) /\ OnStack(h, stk, own, t)

Layout(h, stk, own, loc) ==
  /\ DOMAIN loc = S!Nodes
  /\ InStack(h, stk, loc) /\ Unused(loc)
  /\ \A t \in S!Threads : ThreadLayout(h, stk, own, loc, t)

StackInv == StackShape /\ \E h, stk, own, loc : Layout(h, stk, own, loc)

-----------------------------------------------------------------------------
LEMMA SConstants ==
  /\ S!Threads = Threads /\ S!Records = Records
  /\ S!Nodes = 1 .. MaxNodes /\ MaxNodes \in Nat /\ NULL \notin S!Nodes
  /\ S!Threads \subseteq Nat
  BY FamilyAssumption, Constants DEF S!ConstantsAssumption, S!Threads, Threads, S!Records, Records,
    S!Nodes

LEMMA StackMine ==
  ASSUME NEW t \in S!Threads, ThreadTypes(t)
  PROVE  /\ S!lsp(t) = Rec(t, s_th[t].local_index) /\ S!lsp(t) \in S!Records
         /\ \A u \in S!Threads : ThreadTypes(u) /\ S!lsp(u) = S!lsp(t) => u = t
<1>1. \A u \in S!Threads : S!lsp(u) = Rec(u, s_th[u].local_index)
  BY DEF S!lsp, Rec
<1>2. \A u \in S!Threads : ThreadTypes(u) => s_th[u].local_index \in Indices
  BY DEF ThreadTypes
<1>. QED
  BY <1>1, <1>2, Owners, SConstants

(* A step of t that leaves to the other threads what is theirs, and the     *)
(* installed record.                                                        *)
OthersRest(t) ==
  \A u \in S!Threads \ {t} :
    /\ s_pc'[u] = s_pc[u] /\ s_my'[u] = s_my[u] /\ s_th'[u] = s_th[u]
    /\ s_rec'[S!lsp(u)].head = s_rec[S!lsp(u)].head

InstalledStays == s_sp' = s_sp /\ s_rec'[s_sp.index].head = s_rec[s_sp.index].head

LEMMA OthersKeepShape ==
  ASSUME NEW t \in S!Threads, OthersRest(t), InstalledStays,
         NEW u \in S!Threads \ {t}, ThreadShape(u)
  PROVE  ThreadShape(u)'
<1>1. /\ s_pc'[u] = s_pc[u] /\ s_my'[u] = s_my[u] /\ s_th'[u] = s_th[u]
      /\ s_rec'[S!lsp(u)].head = s_rec[S!lsp(u)].head
  BY DEF OthersRest
<1>2. S!lsp(u)' = S!lsp(u)
  BY <1>1 DEF S!lsp
<1>3. ThreadTypes(u)' /\ LocalsAreFresh(u)' /\ StampIsOlder(u)'
  BY <1>1 DEF ThreadShape, ThreadTypes, LocalsAreFresh, StampIsOlder, InstalledStays
<1>4. RecordIsPrivate(u)' /\ CopyIsGood(u)'
  BY <1>1, <1>2 DEF ThreadShape, RecordIsPrivate, CopyIsGood, InstalledStays
<1>. QED
  BY <1>3, <1>4 DEF ThreadShape

(* The nodes of a thread keep their places and their links.                 *)
Undisturbed(own, loc, loc2, u) ==
  /\ \A i \in 1 .. OwnSize(u) : /\ s_next'[own[u][i]] = s_next[own[u][i]]
                                /\ loc2[own[u][i]] = loc[own[u][i]]
  /\ \A i \in 1 .. Len(s_th[u].pool) : loc2[s_th[u].pool[i]] = loc[s_th[u].pool[i]]

LEMMA OthersKeepLayout ==
  ASSUME NEW t \in S!Threads, OthersRest(t), s_sp' = s_sp, NEW u \in S!Threads \ {t},
         ThreadTypes(u), NEW h, NEW stk, NEW own, NEW loc, NEW own2, NEW loc2,
         own2[u] = own[u], Undisturbed(own, loc, loc2, u), ThreadLayout(h, stk, own, loc, u)
  PROVE  ThreadLayout(h, stk, own2, loc2, u)'
<1>1. /\ s_pc'[u] = s_pc[u] /\ s_my'[u] = s_my[u] /\ s_th'[u] = s_th[u]
      /\ s_rec'[S!lsp(u)].head = s_rec[S!lsp(u)].head
  BY DEF OthersRest
<1>2. S!lsp(u)' = S!lsp(u)
  BY <1>1 DEF S!lsp
<1>3. OwnSize(u)' = OwnSize(u) /\ OwnTop(u)' = OwnTop(u) /\ StackCurrent(u)' = StackCurrent(u)
  BY <1>1, <1>2 DEF OwnSize, OwnTop, StackCurrent
<1>4. InPool(loc2, u)'
  BY <1>1 DEF InPool, Undisturbed, ThreadLayout
<1>5. OwnedBy(own2, loc2, u)'
  BY <1>3 DEF OwnedBy, Undisturbed, ThreadLayout
<1>6. OnStack(h, stk, own2, u)'
  <2>. SUFFICES ASSUME StackCurrent(u) PROVE OnStack(h, stk, own2, u)'
    BY <1>3 DEF OnStack
  <2>1. OwnSize(u) = s_my[u].push_counter /\ s_my[u].push_counter \in Nat
    BY DEF OwnSize, StackCurrent, Linking, ThreadTypes
  <2>2. s_my[u].push_counter > 0 => s_next'[own[u][1]] = s_next[own[u][1]]
    BY <2>1 DEF Undisturbed
  <2>3. \A i : At(h, stk, own2, u, i) = At(h, stk, own, u, i)
    BY DEF At
  <2>. QED
    BY <1>1, <1>2, <1>3, <2>2, <2>3 DEF OnStack, ThreadLayout
<1>. QED
  BY <1>4, <1>5, <1>6 DEF ThreadLayout

(* The variables of the threads remain functions, and t alone moves.        *)
Alone(t) ==
  /\ DOMAIN s_pc' = S!Threads /\ DOMAIN s_th' = S!Threads /\ DOMAIN s_my' = S!Threads
  /\ \A u \in S!Threads \ {t} : s_pc'[u] = s_pc[u] /\ s_my'[u] = s_my[u] /\ s_th'[u] = s_th[u]

(* What t owns is the same before and after a step.                         *)
KeepsOwn(t) ==
  /\ s_th'[t].pool = s_th[t].pool
  /\ OwnSize(t)' = OwnSize(t) /\ (OwnSize(t) > 0 => OwnTop(t)' = OwnTop(t))

(* A step of t that moves no node. *)
LEMMA NodesRest ==
  ASSUME StackInv, NEW t \in S!Threads, Alone(t), OthersRest(t), InstalledStays,
         s_next' = s_next, s_used' = s_used, StackTypes', ThreadShape(t)', KeepsOwn(t),
         \A h, stk, own, loc : Layout(h, stk, own, loc) => OnStack(h, stk, own, t)'
  PROVE  StackInv'
<1>1. PICK h, stk, own, loc : Layout(h, stk, own, loc)
  BY DEF StackInv
<1>2. \A u \in S!Threads : ThreadShape(u)'
  BY OthersKeepShape DEF StackInv, StackShape
<1>3. InStack(h, stk, loc)' /\ Unused(loc)'
  BY <1>1 DEF Layout, InStack, Unused, InstalledStays
<1>4. ASSUME NEW u \in S!Threads \ {t}
      PROVE  ThreadLayout(h, stk, own, loc, u)'
  <2>1. ThreadTypes(u) /\ ThreadLayout(h, stk, own, loc, u) /\ s_sp' = s_sp
    BY <1>1 DEF StackInv, StackShape, ThreadShape, Layout, InstalledStays
  <2>2. Undisturbed(own, loc, loc, u)
    BY DEF Undisturbed
  <2>. QED
    BY <2>1, <2>2, OthersKeepLayout
<1>5. ThreadLayout(h, stk, own, loc, t)'
  <2>1. ThreadLayout(h, stk, own, loc, t)
    BY <1>1 DEF Layout
  <2>2. InPool(loc, t)' /\ OwnedBy(own, loc, t)'
    BY <2>1 DEF ThreadLayout, InPool, OwnedBy, KeepsOwn
  <2>. QED
    BY <1>1, <2>2 DEF ThreadLayout
<1>6. Layout(h, stk, own, loc)'
  BY <1>1, <1>3, <1>4, <1>5 DEF Layout
<1>. QED
  BY <1>2, <1>6 DEF StackInv, StackShape

(* A step of t that writes its own locals only.                             *)
OwnStep(t) == Alone(t) /\ UNCHANGED <<s_sp, s_rec, s_next, s_used>>

LEMMA LocalStep ==
  ASSUME StackInv, NEW t \in S!Threads, OwnStep(t), ThreadShape(t)', KeepsOwn(t),
         \A h, stk, own, loc : Layout(h, stk, own, loc) => OnStack(h, stk, own, t)'
  PROVE  StackInv'
<1>1. OthersRest(t) /\ InstalledStays
  BY DEF OwnStep, Alone, OthersRest, InstalledStays
<1>2. StackTypes'
  BY DEF OwnStep, Alone, StackInv, StackShape, StackTypes, MaybeNode
<1>. QED
  BY <1>1, <1>2, NodesRest DEF OwnStep

LEMMA AnnounceKeepsStack ==
  ASSUME StackInv, NEW t \in S!Threads, S!Announce(t)
  PROVE  StackInv'
<1>0. StackTypes /\ ThreadShape(t)
  BY DEF StackInv, StackShape
<1>1. /\ OwnStep(t) /\ s_my' = s_my /\ s_pc[t] = "idle" /\ s_pc'[t] = "toggle"
      /\ s_th'[t].pool = s_th[t].pool /\ s_th'[t].local_index = s_th[t].local_index
      /\ DOMAIN s_th'[t] = StateFields
  BY <1>0 DEF S!Announce, S!Goto, OwnStep, Alone, StackTypes, ThreadShape, ThreadTypes, S!nodeVars,
    StateFields
<1>2. S!lsp(t)' = S!lsp(t)
  BY <1>1 DEF S!lsp
<1>3. ThreadShape(t)'
  BY <1>0, <1>1, <1>2 DEF ThreadShape, ThreadTypes, LocalsAreFresh, StampIsOlder, RecordIsPrivate,
    CopyIsGood, OwnStep, StackPCs, StackAttempt, Linking
<1>4. KeepsOwn(t) /\ ~StackCurrent(t)'
  BY <1>1 DEF KeepsOwn, OwnSize, OwnTop, StackCurrent, Linking
<1>. QED
  BY <1>1, <1>3, <1>4, LocalStep DEF OnStack

LEMMA ToggleKeepsStack ==
  ASSUME StackInv, NEW t \in S!Threads, S!Toggle(t) \/ S!ReadApplied(t) \/ S!RecheckPop(t)
  PROVE  StackInv'
<1>0. StackTypes /\ ThreadShape(t)
  BY DEF StackInv, StackShape
<1>1. /\ OwnStep(t) /\ s_my' = s_my /\ s_th' = s_th
      /\ \/ s_pc[t] = "toggle" /\ s_pc'[t] = "readSp"
         \/ s_pc[t] = "readApplied" /\ s_pc'[t] \in {"last", "copy"}
         \/ s_pc[t] = "recheckPop" /\ s_pc'[t] \in {"setApplied", "pop"}
  BY <1>0 DEF S!Toggle, S!ReadApplied, S!RecheckPop, S!Goto, OwnStep, Alone, StackTypes, S!nodeVars
<1>2. S!lsp(t)' = S!lsp(t)
  BY <1>1 DEF S!lsp
<1>3. ThreadShape(t)'
  BY <1>0, <1>1, <1>2 DEF ThreadShape, ThreadTypes, LocalsAreFresh, StampIsOlder, RecordIsPrivate,
    CopyIsGood, OwnStep, StackPCs, StackAttempt, Linking
<1>4. KeepsOwn(t)
  BY <1>1 DEF KeepsOwn, OwnSize, OwnTop
<1>5. \A h, stk, own, loc : Layout(h, stk, own, loc) => OnStack(h, stk, own, t)'
  <2>1. OwnTop(t)' = OwnTop(t) /\ (StackCurrent(t)' => StackCurrent(t))
    BY <1>1 DEF OwnTop, StackCurrent, Linking, OwnStep
  <2>2. s_rec' = s_rec
    BY <1>1 DEF OwnStep
  <2>3. ASSUME NEW h, NEW stk, NEW own, OnStack(h, stk, own, t)
        PROVE  OnStack(h, stk, own, t)'
    BY <1>1, <1>2, <2>1, <2>2, <2>3 DEF OnStack, OwnStep
  <2>. QED
    BY <2>3 DEF Layout, ThreadLayout
<1>. QED
  BY <1>1, <1>3, <1>4, <1>5, LocalStep

(* The copy of sp is new, or read for the last time.                        *)
LEMMA ReadSpKeepsStack ==
  ASSUME StackInv, NEW t \in S!Threads, S!ReadSp(t) \/ S!ReadLastSp(t) \/ S!ReadToggles(t)
  PROVE  StackInv'
<1>0. StackTypes /\ ThreadShape(t)
  BY DEF StackInv, StackShape
<1>1. /\ OwnStep(t) /\ s_th' = s_th
      /\ DOMAIN s_my'[t] = LocalFields /\ s_my'[t].push_counter = s_my[t].push_counter
      /\ s_my'[t].pop_counter = s_my[t].pop_counter /\ s_my'[t].free_list = s_my[t].free_list
      /\ \/ s_pc[t] = "readSp" /\ s_pc'[t] = "readApplied" /\ s_my'[t].old_sp = s_sp
         \/ s_pc[t] = "last" /\ s_pc'[t] = "readRet" /\ s_my'[t].old_sp = s_sp
         \/ /\ s_pc[t] = "readToggles" /\ s_pc'[t] = "recheck"
            /\ s_my'[t].old_sp = s_my[t].old_sp
  BY <1>0 DEF S!ReadSp, S!ReadLastSp, S!ReadToggles, S!Goto, OwnStep, Alone, StackTypes, S!nodeVars,
    LocalFields, ThreadShape, ThreadTypes
<1>2. S!lsp(t)' = S!lsp(t)
  BY <1>1 DEF S!lsp
<1>3. ThreadShape(t)'
  <2>1. ThreadTypes(t)' /\ LocalsAreFresh(t)'
    BY <1>0, <1>1 DEF ThreadShape, ThreadTypes, LocalsAreFresh, StackPCs, StackAttempt, Linking,
      StackTypes
  <2>2. StampIsOlder(t)'
    BY <1>0, <1>1 DEF ThreadShape, StampIsOlder, StackAttempt, OwnStep, StackTypes, Stamped
  <2>3. RecordIsPrivate(t)' /\ CopyIsGood(t)'
    BY <1>0, <1>1, <1>2 DEF ThreadShape, RecordIsPrivate, CopyIsGood, OwnStep
  <2>. QED
    BY <2>1, <2>2, <2>3 DEF ThreadShape
<1>4. KeepsOwn(t) /\ ~StackCurrent(t)'
  BY <1>0, <1>1 DEF KeepsOwn, OwnSize, OwnTop, StackCurrent, Linking
<1>. QED
  BY <1>1, <1>3, <1>4, LocalStep DEF OnStack

(* The locals are set back.                                                 *)
LEMMA RecheckFailsKeepsStack ==
  ASSUME StackInv, NEW t \in S!Threads, S!RecheckFails(t) \/ S!ReturnHelped(t)
  PROVE  StackInv'
<1>0. StackTypes /\ ThreadShape(t)
  BY DEF StackInv, StackShape
<1>1. /\ OwnStep(t) /\ s_th' = s_th
      /\ DOMAIN s_my'[t] = LocalFields /\ s_my'[t].push_counter = 0
      /\ s_my'[t].pop_counter = 0 /\ s_my'[t].free_list = NULL
      /\ \/ s_pc[t] = "recheck" /\ s_pc'[t] \in {"readSp", "last"}
         \/ s_pc[t] = "readRet" /\ s_pc'[t] = "idle"
  BY <1>0 DEF S!RecheckFails, S!ReturnHelped, S!NextTurn, S!Return, S!Fresh, S!Goto, OwnStep, Alone,
    StackTypes, S!nodeVars, LocalFields
<1>2. S!lsp(t)' = S!lsp(t)
  BY <1>1 DEF S!lsp
<1>3. ThreadShape(t)'
  BY <1>0, <1>1, <1>2 DEF ThreadShape, ThreadTypes, LocalsAreFresh, StampIsOlder, RecordIsPrivate,
    CopyIsGood, OwnStep, StackPCs, StackAttempt, Linking
<1>4. KeepsOwn(t) /\ ~StackCurrent(t)'
  BY <1>0, <1>1 DEF KeepsOwn, OwnSize, OwnTop, StackCurrent, Linking, ThreadShape, LocalsAreFresh
<1>. QED
  BY <1>1, <1>3, <1>4, LocalStep DEF OnStack

(* The copy is that of the installed record: the attempt becomes current.   *)
LEMMA RecheckHoldsKeepsStack ==
  ASSUME StackInv, NEW t \in S!Threads, S!RecheckHolds(t)
  PROVE  StackInv'
<1>0. StackTypes /\ ThreadShape(t)
  BY DEF StackInv, StackShape
<1>1. /\ OwnStep(t) /\ s_th' = s_th
      /\ DOMAIN s_my'[t] = LocalFields /\ s_my'[t].push_counter = s_my[t].push_counter
      /\ s_my'[t].pop_counter = s_my[t].pop_counter /\ s_my'[t].free_list = s_my[t].free_list
      /\ s_pc[t] = "recheck" /\ s_pc'[t] = "push"
      /\ s_my'[t].old_sp = s_sp /\ s_my[t].old_sp = s_sp
  BY <1>0 DEF S!RecheckHolds, S!Goto, OwnStep, Alone, StackTypes, S!nodeVars, LocalFields,
    ThreadShape, ThreadTypes
<1>2. S!lsp(t)' = S!lsp(t) /\ s_my[t].push_counter = 0 /\ s_my[t].pop_counter = 0
  BY <1>0, <1>1 DEF S!lsp, ThreadShape, LocalsAreFresh, Linking
<1>3. ThreadShape(t)'
  BY <1>0, <1>1, <1>2 DEF ThreadShape, ThreadTypes, LocalsAreFresh, StampIsOlder, RecordIsPrivate,
    CopyIsGood, OwnStep, StackPCs, StackAttempt, Linking
<1>4. KeepsOwn(t)
  BY <1>0, <1>1, <1>2 DEF KeepsOwn, OwnSize
<1>5. ASSUME NEW h, NEW stk, NEW own, NEW loc, Layout(h, stk, own, loc)
      PROVE  OnStack(h, stk, own, t)'
  <2>1. h \in Nat /\ s_rec[s_sp.index].head = At(h, stk, own, t, h)
    BY <1>5 DEF Layout, InStack, At
  <2>2. s_rec[S!lsp(t)].head = s_rec[s_sp.index].head
    BY <1>0, <1>1 DEF ThreadShape, CopyIsGood
  <2>3. OwnTop(t)' = s_rec[S!lsp(t)].head
    BY <1>1, <1>2 DEF OwnTop, OwnStep
  <2>. QED
    BY <1>1, <1>2, <2>1, <2>2, <2>3 DEF OnStack, OwnStep
<1>. QED
  BY <1>1, <1>3, <1>4, <1>5, LocalStep

(* The next request is a pop, or there is none and the pops begin.          *)
LEMMA FindPopKeepsStack ==
  ASSUME StackInv, NEW t \in S!Threads, S!FindPop(t) \/ S!StartPops(t)
  PROVE  StackInv'
<1>0. StackTypes /\ ThreadShape(t)
  BY DEF StackInv, StackShape
<1>1. /\ OwnStep(t) /\ s_th' = s_th
      /\ DOMAIN s_my'[t] = LocalFields /\ s_my'[t].push_counter = s_my[t].push_counter
      /\ s_my'[t].pop_counter = s_my[t].pop_counter /\ s_my'[t].old_sp = s_my[t].old_sp
      /\ s_pc[t] = "push"
      /\ \/ s_pc'[t] = "push" /\ s_my'[t].free_list = s_my[t].free_list
         \/ s_pc'[t] \in {"setApplied", "pop"} /\ s_my'[t].free_list = s_rec[S!lsp(t)].head
  BY <1>0 DEF S!FindPop, S!StartPops, S!Goto, OwnStep, Alone, StackTypes, S!nodeVars, LocalFields,
    ThreadShape, ThreadTypes
<1>2. S!lsp(t)' = S!lsp(t)
  BY <1>1 DEF S!lsp
<1>3. ThreadShape(t)'
  BY <1>0, <1>1, <1>2 DEF ThreadShape, ThreadTypes, LocalsAreFresh, StampIsOlder, RecordIsPrivate,
    CopyIsGood, OwnStep, StackPCs, StackAttempt, Linking
<1>4. OwnTop(t)' = OwnTop(t) /\ (StackCurrent(t)' => StackCurrent(t)) /\ KeepsOwn(t)
  BY <1>1, <1>2 DEF OwnTop, OwnSize, KeepsOwn, StackCurrent, Linking, OwnStep
<1>5. ASSUME NEW h, NEW stk, NEW own, OnStack(h, stk, own, t)
      PROVE  OnStack(h, stk, own, t)'
  BY <1>1, <1>2, <1>4, <1>5 DEF OnStack, OwnStep
<1>. QED
  BY <1>1, <1>3, <1>4, <1>5, LocalStep DEF Layout, ThreadLayout

(* A step of t that writes the record it prepares, but no node.             *)
RecordStep(t) ==
  /\ Alone(t) /\ UNCHANGED <<s_sp, s_next, s_used, s_th>>
  /\ DOMAIN s_rec' = S!Records
  /\ \A r \in S!Records : DOMAIN s_rec'[r] = RecordFields
  /\ \A r \in S!Records \ {S!lsp(t)} : s_rec'[r] = s_rec[r]

LEMMA RecordIsOwn ==
  ASSUME StackShape, NEW t \in S!Threads, s_pc[t] # "installed", s_sp' = s_sp,
         \A r \in S!Records \ {S!lsp(t)} : s_rec'[r] = s_rec[r],
         \A u \in S!Threads \ {t} : s_pc'[u] = s_pc[u] /\ s_my'[u] = s_my[u] /\ s_th'[u] = s_th[u]
  PROVE  OthersRest(t) /\ InstalledStays
<1>1. \A u \in S!Threads : ThreadTypes(u)
  BY DEF StackShape, ThreadShape
<1>2. \A u \in S!Threads \ {t} : S!lsp(u) \in S!Records \ {S!lsp(t)}
  BY <1>1, StackMine
<1>3. s_sp.index \in S!Records \ {S!lsp(t)}
  BY DEF StackShape, StackTypes, Stamped, ThreadShape, RecordIsPrivate
<1>. QED
  BY <1>2, <1>3 DEF OthersRest, InstalledStays

LEMMA PrepareStep ==
  ASSUME StackInv, NEW t \in S!Threads, RecordStep(t), s_pc[t] # "installed",
         s_rec'[S!lsp(t)].head \in MaybeNode, ThreadShape(t)', KeepsOwn(t),
         \A h, stk, own, loc : Layout(h, stk, own, loc) => OnStack(h, stk, own, t)'
  PROVE  StackInv'
<1>1. OthersRest(t) /\ InstalledStays
  BY RecordIsOwn DEF RecordStep, Alone, StackInv
<1>2. StackTypes'
  BY DEF RecordStep, Alone, StackInv, StackShape, StackTypes, MaybeNode
<1>. QED
  BY <1>1, <1>2, NodesRest DEF RecordStep

(* The copy, head first.                                                    *)
LEMMA CopyKeepsStack ==
  ASSUME StackInv, NEW t \in S!Threads, S!CopyHead(t) \/ S!CopyRest(t)
  PROVE  StackInv'
<1>0. StackTypes /\ ThreadShape(t)
  BY DEF StackInv, StackShape
<1>1. /\ s_pc[t] \in {"copy", "copyRest"} /\ s_my' = s_my /\ s_th' = s_th /\ Alone(t)
      /\ s_pc'[t] = IF s_pc[t] = "copy" THEN "copyRest" ELSE "readToggles"
      /\ UNCHANGED <<s_sp, s_next, s_used>>
  BY <1>0 DEF S!CopyHead, S!CopyRest, S!Goto, Alone, StackTypes, S!nodeVars
<1>2. S!lsp(t)' = S!lsp(t) /\ S!lsp(t) \in S!Records /\ s_my[t].old_sp.index \in S!Records
      /\ s_sp.index # S!lsp(t)
  BY <1>0, <1>1, StackMine DEF S!lsp, ThreadShape, ThreadTypes, Stamped, StackAttempt,
    RecordIsPrivate
<1>3. /\ RecordStep(t)
      /\ s_rec'[S!lsp(t)].head =
           IF s_pc[t] = "copy" THEN s_rec[s_my[t].old_sp.index].head ELSE s_rec[S!lsp(t)].head
  <2>1. PICK l \in S!Records, o \in S!Records : l = S!lsp(t) /\ o = s_my[t].old_sp.index
    BY <1>2
  <2>2. CASE S!CopyHead(t)
    <3>1. s_pc[t] = "copy" /\ s_rec' = [s_rec EXCEPT ![l].head = s_rec[o].head]
      BY <2>1, <2>2 DEF S!CopyHead, S!Goto
    <3>. QED
      BY <1>0, <1>1, <2>1, <3>1 DEF RecordStep, StackTypes, RecordFields
  <2>3. CASE S!CopyRest(t)
    <3>1. s_pc[t] = "copyRest"
          /\ s_rec' = [s_rec EXCEPT ![l] = [s_rec[o] EXCEPT !.head = s_rec[l].head]]
      BY <2>1, <2>3 DEF S!CopyRest, S!Goto
    <3>. QED
      BY <1>0, <1>1, <2>1, <3>1 DEF RecordStep, StackTypes, RecordFields
  <2>. QED
    BY <2>2, <2>3
<1>4. s_rec'[S!lsp(t)].head \in MaybeNode
  BY <1>0, <1>2, <1>3 DEF StackTypes
<1>5. ThreadShape(t)'
  <2>1. ThreadTypes(t)' /\ LocalsAreFresh(t)' /\ StampIsOlder(t)' /\ RecordIsPrivate(t)'
    BY <1>0, <1>1, <1>2 DEF ThreadShape, ThreadTypes, LocalsAreFresh, StampIsOlder,
      RecordIsPrivate, StackPCs, StackAttempt, Linking
  <2>2. s_rec'[s_sp.index] = s_rec[s_sp.index]
    BY <1>0, <1>2, <1>3 DEF RecordStep, StackTypes, Stamped
  <2>3. CopyIsGood(t)'
    BY <1>0, <1>1, <1>2, <1>3, <2>2 DEF ThreadShape, CopyIsGood
  <2>. QED
    BY <2>1, <2>3 DEF ThreadShape
<1>6. KeepsOwn(t) /\ ~StackCurrent(t)'
  BY <1>0, <1>1 DEF KeepsOwn, OwnSize, StackCurrent, Linking, ThreadShape, LocalsAreFresh
<1>. QED
  BY <1>1, <1>3, <1>4, <1>5, <1>6, PrepareStep DEF OnStack

LEMMA SetAppliedKeepsStack ==
  ASSUME StackInv, NEW t \in S!Threads, S!SetApplied(t)
  PROVE  StackInv'
<1>0. StackTypes /\ ThreadShape(t)
  BY DEF StackInv, StackShape
<1>1. /\ s_pc[t] = "setApplied" /\ s_pc'[t] = "cas" /\ s_my' = s_my /\ s_th' = s_th /\ Alone(t)
      /\ UNCHANGED <<s_sp, s_next, s_used>>
  BY <1>0 DEF S!SetApplied, S!Goto, Alone, StackTypes, S!nodeVars
<1>2. S!lsp(t)' = S!lsp(t) /\ S!lsp(t) \in S!Records
  BY <1>0, <1>1, StackMine DEF S!lsp, ThreadShape
<1>3. RecordStep(t) /\ s_rec'[S!lsp(t)].head = s_rec[S!lsp(t)].head
  <2>1. PICK l \in S!Records : l = S!lsp(t)
    BY <1>2
  <2>2. s_rec' = [s_rec EXCEPT ![l].applied = s_my[t].l_toggles]
    BY <2>1 DEF S!SetApplied
  <2>. QED
    BY <1>0, <1>1, <2>1, <2>2 DEF RecordStep, StackTypes, RecordFields
<1>4. s_rec'[S!lsp(t)].head \in MaybeNode
  BY <1>0, <1>2, <1>3 DEF StackTypes
<1>5. ThreadShape(t)'
  BY <1>0, <1>1, <1>2 DEF ThreadShape, ThreadTypes, LocalsAreFresh, StampIsOlder, RecordIsPrivate,
    CopyIsGood, StackPCs, StackAttempt, Linking
<1>6. OwnTop(t)' = OwnTop(t) /\ (StackCurrent(t)' => StackCurrent(t)) /\ KeepsOwn(t)
  BY <1>1 DEF OwnTop, OwnSize, KeepsOwn, StackCurrent, Linking
<1>7. ASSUME NEW h, NEW stk, NEW own, OnStack(h, stk, own, t)
      PROVE  OnStack(h, stk, own, t)'
  BY <1>1, <1>2, <1>3, <1>6, <1>7 DEF OnStack
<1>. QED
  BY <1>1, <1>3, <1>4, <1>5, <1>6, <1>7, PrepareStep DEF Layout, ThreadLayout

(* The list of a current attempt: its own nodes on those of the stack.      *)
LEMMA ListIsLinked ==
  ASSUME NEW h, NEW stk, NEW own, NEW loc, Layout(h, stk, own, loc), NEW t \in S!Threads,
         ThreadTypes(t), StackCurrent(t)
  PROVE  \A i \in 1 .. h + s_my[t].push_counter :
           /\ At(h, stk, own, t, i) \in S!Nodes
           /\ s_next[At(h, stk, own, t, i)] = At(h, stk, own, t, i - 1)
           /\ loc[At(h, stk, own, t, i)] =
                IF i <= h THEN <<"stack", 0, i>> ELSE <<"own", t, i - h>>
<1>1. h \in Nat /\ s_my[t].push_counter \in Nat /\ OwnSize(t) = s_my[t].push_counter
  BY DEF Layout, InStack, ThreadTypes, OwnSize, StackCurrent, Linking
<1>2. /\ \A i \in 1 .. h : /\ stk[i] \in S!Nodes
                           /\ loc[stk[i]] = <<"stack", 0, i>>
                           /\ s_next[stk[i]] = IF i = 1 THEN NULL ELSE stk[i - 1]
      /\ \A i \in 1 .. s_my[t].push_counter :
           /\ own[t][i] \in S!Nodes /\ loc[own[t][i]] = <<"own", t, i>>
           /\ i # 1 => s_next[own[t][i]] = own[t][i - 1]
      /\ s_my[t].push_counter > 0 => s_next[own[t][1]] = At(h, stk, own, t, h)
  BY <1>1 DEF Layout, InStack, ThreadLayout, OwnedBy, OnStack
<1>3. ASSUME NEW i \in 1 .. h
      PROVE  /\ At(h, stk, own, t, i) = stk[i]
             /\ At(h, stk, own, t, i - 1) = IF i = 1 THEN NULL ELSE stk[i - 1]
  BY <1>1 DEF At
<1>4. ASSUME NEW i \in 1 .. s_my[t].push_counter
      PROVE  /\ At(h, stk, own, t, h + i) = own[t][i]
             /\ At(h, stk, own, t, h + i - 1) =
                  IF i = 1 THEN At(h, stk, own, t, h) ELSE own[t][i - 1]
  BY <1>1 DEF At
<1>. TAKE i \in 1 .. h + s_my[t].push_counter
<1>5. CASE i <= h
  BY <1>1, <1>2, <1>3, <1>5
<1>6. CASE i > h
  <2>1. PICK k \in 1 .. s_my[t].push_counter : i = h + k /\ i - h = k /\ i - 1 = h + k - 1
    <3>1. i - h \in 1 .. s_my[t].push_counter /\ i = h + (i - h) /\ i - 1 = h + (i - h) - 1
      BY <1>1, <1>6
    <3>. QED
      BY <3>1
  <2>2. /\ At(h, stk, own, t, i) = own[t][k]
        /\ At(h, stk, own, t, i - 1) =
             IF k = 1 THEN At(h, stk, own, t, h) ELSE own[t][k - 1]
    BY <1>4, <2>1
  <2>3. /\ own[t][k] \in S!Nodes /\ loc[own[t][k]] = <<"own", t, k>>
        /\ s_next[own[t][k]] = IF k = 1 THEN At(h, stk, own, t, h) ELSE own[t][k - 1]
    <3>1. own[t][k] \in S!Nodes /\ loc[own[t][k]] = <<"own", t, k>>
          /\ (k # 1 => s_next[own[t][k]] = own[t][k - 1])
      BY <1>2
    <3>2. k = 1 => s_next[own[t][1]] = At(h, stk, own, t, h)
      BY <1>1, <1>2
    <3>. QED
      BY <3>1, <3>2
  <2>4. ~(i <= h)
    BY <1>1, <1>6
  <2>. QED
    BY <2>1, <2>2, <2>3, <2>4
<1>. QED
  BY <1>1, <1>5, <1>6

LEMMA SerialPopKeepsStack ==
  ASSUME StackInv, NEW t \in S!Threads, S!SerialPop(t)
  PROVE  StackInv'
<1>0. StackTypes /\ ThreadShape(t)
  BY DEF StackInv, StackShape
<1>1. S!lsp(t) \in S!Records
  BY <1>0, StackMine DEF ThreadShape
<1>2a. PICK l \in S!Records : l = S!lsp(t)
  BY <1>1
<1>2. PICK x, q, v :
        /\ l = S!lsp(t) /\ x = s_rec[l].head
        /\ s_rec' = [s_rec EXCEPT ![l].ret[q] = v,
                                  ![l].head = IF x = NULL THEN x ELSE s_next[x]]
  BY <1>2a, Zenon DEF S!SerialPop
<1>3. /\ s_pc[t] = "pop" /\ s_pc'[t] = "recheckPop" /\ s_th' = s_th /\ Alone(t)
      /\ UNCHANGED <<s_sp, s_next, s_used>>
      /\ DOMAIN s_my'[t] = LocalFields /\ s_my'[t].push_counter = s_my[t].push_counter
      /\ s_my'[t].pop_counter = IF x = NULL THEN s_my[t].pop_counter ELSE s_my[t].pop_counter + 1
      /\ s_my'[t].old_sp = s_my[t].old_sp /\ s_my'[t].free_list = s_my[t].free_list
  BY <1>0, <1>2 DEF S!SerialPop, S!Goto, Alone, StackTypes, S!nodeVars, LocalFields, ThreadShape,
    ThreadTypes
<1>4. S!lsp(t)' = l
  BY <1>2, <1>3 DEF S!lsp
<1>5. /\ RecordStep(t)
      /\ s_rec'[S!lsp(t)].head = IF x = NULL THEN x ELSE s_next[x]
  BY <1>0, <1>2, <1>3 DEF RecordStep, StackTypes, RecordFields
<1>6. s_rec'[S!lsp(t)].head \in MaybeNode
  BY <1>0, <1>2, <1>5 DEF StackTypes, MaybeNode
<1>7. ThreadShape(t)'
  BY <1>0, <1>2, <1>3, <1>4 DEF ThreadShape, ThreadTypes, LocalsAreFresh, StampIsOlder,
    RecordIsPrivate, CopyIsGood, StackPCs, StackAttempt, Linking
<1>8. OwnTop(t)' = OwnTop(t) /\ (StackCurrent(t)' => StackCurrent(t)) /\ KeepsOwn(t)
  BY <1>3 DEF OwnTop, OwnSize, KeepsOwn, StackCurrent, Linking
<1>9. ASSUME NEW h, NEW stk, NEW own, NEW loc, Layout(h, stk, own, loc)
      PROVE  OnStack(h, stk, own, t)'
  <2>. SUFFICES ASSUME StackCurrent(t)' PROVE OnStack(h, stk, own, t)'
    BY DEF OnStack
  <2>. DEFINE k == s_my[t].push_counter
             p == s_my[t].pop_counter
  <2>1. StackCurrent(t) /\ k \in Nat /\ p \in Nat /\ h \in Nat
    BY <1>0, <1>8, <1>9 DEF ThreadShape, ThreadTypes, Layout, InStack
  <2>2. /\ k > 0 => s_next[own[t][1]] = At(h, stk, own, t, h)
        /\ OwnTop(t) = At(h, stk, own, t, h + k)
        /\ p <= h + k /\ x = At(h, stk, own, t, h + k - p)
    BY <1>2, <1>9, <2>1 DEF OnStack, Layout, ThreadLayout
  <2>3. \A i \in 1 .. h + k :
           /\ At(h, stk, own, t, i) \in S!Nodes
           /\ s_next[At(h, stk, own, t, i)] = At(h, stk, own, t, i - 1)
    BY <1>0, <1>9, <2>1, ListIsLinked DEF ThreadShape
  <2>. HIDE DEF k, p
  <2>4. x = NULL => h + k - p = 0
    <3>1. h + k - p \in 0 .. h + k
      BY <2>1, <2>2
    <3>. QED
      BY <2>2, <2>3, <3>1, SConstants
  <2>5. x # NULL => p + 1 <= h + k /\ s_next[x] = At(h, stk, own, t, h + k - (p + 1))
    <3>. SUFFICES ASSUME x # NULL
                  PROVE  p + 1 <= h + k /\ s_next[x] = At(h, stk, own, t, h + k - (p + 1))
      OBVIOUS
    <3>1. h + k - p # 0
      BY <2>1, <2>2 DEF At
    <3>2. h + k - p \in 1 .. h + k /\ (h + k - p) - 1 = h + k - (p + 1)
      BY <2>1, <2>2, <3>1
    <3>. QED
      BY <2>1, <2>2, <2>3, <3>2
  <2>6. s_my'[t].push_counter = k /\ s_my'[t].pop_counter = IF x = NULL THEN p ELSE p + 1
    BY <1>3 DEF k, p
  <2>7. s_rec'[S!lsp(t)'].head = IF x = NULL THEN x ELSE s_next[x]
    BY <1>2, <1>4, <1>5
  <2>8. s_rec'[S!lsp(t)'].head = At(h, stk, own, t, h + k - s_my'[t].pop_counter)
        /\ s_my'[t].pop_counter <= h + k
    BY <2>1, <2>2, <2>5, <2>6, <2>7
  <2>. QED
    BY <1>3, <1>8, <2>2, <2>6, <2>8 DEF OnStack
<1>. QED
  BY <1>3, <1>5, <1>6, <1>7, <1>8, <1>9, PrepareStep

-----------------------------------------------------------------------------
(* recycleList gives the nodes of a chain back, the top one last.           *)
IsChain(f, k, x) ==
  /\ \A i \in 1 .. k : i # 1 => s_next[f[i]] = f[i - 1]
  /\ k > 0 => x = f[k]

LEMMA FirstNodesAre ==
  ASSUME NEW k \in Nat, NEW x, NEW f, IsChain(f, k, x)
  PROVE  S!FirstNodes(x, k) = [i \in 1 .. k |-> f[k + 1 - i]]
<1>. DEFINE Walk(w) == w = [i \in 1 .. k |-> IF i = 1 THEN x ELSE s_next[w[i - 1]]]
            g == [i \in 1 .. k |-> f[k + 1 - i]]
<1>1. Walk(g)
  <2>1. ASSUME NEW i \in 1 .. k
        PROVE  g[i] = IF i = 1 THEN x ELSE s_next[g[i - 1]]
    <3>1. CASE i = 1
      BY <3>1 DEF IsChain
    <3>2. CASE i # 1
      <4>1. i - 1 \in 1 .. k /\ k + 1 - (i - 1) \in 1 .. k /\ k + 1 - (i - 1) # 1
            /\ k + 1 - (i - 1) - 1 = k + 1 - i
        BY <3>2
      <4>. QED
        BY <3>2, <4>1 DEF IsChain
    <3>. QED
      BY <3>1, <3>2
  <2>. QED
    BY <2>1
<1>2. ASSUME NEW w, Walk(w)
      PROVE  w = g
  <2>. DEFINE T == {i \in 1 .. k : w[i] # g[i]}
  <2>. HIDE DEF g
  <2>1. /\ \A i \in 1 .. k : w[i] = IF i = 1 THEN x ELSE s_next[w[i - 1]]
        /\ \A i \in 1 .. k : g[i] = IF i = 1 THEN x ELSE s_next[g[i - 1]]
    BY <1>1, <1>2
  <2>2. T = {}
    <3>. SUFFICES ASSUME T # {} PROVE FALSE
      OBVIOUS
    <3>1. PICK i \in T : \A m \in T : i <= m
      <4>1. T \subseteq Nat
        OBVIOUS
      <4>. HIDE DEF T
      <4>. QED
        BY <4>1, LeastNatural
    <3>2. i # 1 => i - 1 \in 1 .. k /\ ~(i <= i - 1)
      BY <3>1
    <3>. QED
      BY <2>1, <3>1, <3>2
  <2>3. DOMAIN w = 1 .. k /\ DOMAIN g = 1 .. k
    BY <1>2 DEF g
  <2>4. w = [i \in 1 .. k |-> w[i]]
    BY <1>2
  <2>5. g = [i \in 1 .. k |-> g[i]]
    BY DEF g
  <2>. QED
    BY <2>2, <2>4, <2>5
<1>3. S!FirstNodes(x, k) = [i \in 1 .. k |-> (CHOOSE w : Walk(w))[i]]
  BY Zenon DEF S!FirstNodes
<1>4. (CHOOSE w : Walk(w)) = g
  <2>. HIDE DEF Walk, g
  <2>. QED
    BY <1>1, <1>2
<1>. QED
  BY <1>3, <1>4

PoolWith(x, k, pool) == S!Reverse(S!FirstNodes(x, k)) \o pool

LEMMA RecycledPool ==
  ASSUME NEW k \in Nat, NEW x, NEW f, IsChain(f, k, x), \A i \in 1 .. k : f[i] \in S!Nodes,
         NEW pool \in Seq(S!Nodes)
  PROVE  /\ PoolWith(x, k, pool) \in Seq(S!Nodes)
         /\ Len(PoolWith(x, k, pool)) = k + Len(pool)
         /\ \A i \in 1 .. k : PoolWith(x, k, pool)[i] = f[i]
         /\ \A i \in 1 .. Len(pool) : PoolWith(x, k, pool)[k + i] = pool[i]
<1>. DEFINE list == S!FirstNodes(x, k)
            back == [i \in 1 .. k |-> f[i]]
<1>1. list = [i \in 1 .. k |-> f[k + 1 - i]]
  BY FirstNodesAre
<1>2. Len(list) = k /\ \A i \in 1 .. k : list[i] = f[k + 1 - i]
  BY <1>1
<1>3. S!Reverse(list) = back
  <2>1. S!Reverse(list) = [i \in 1 .. Len(list) |-> list[Len(list) - i + 1]]
    BY DEF S!Reverse
  <2>2. \A i \in 1 .. k : list[k - i + 1] = f[i]
    <3>1. \A i \in 1 .. k : k - i + 1 \in 1 .. k /\ k + 1 - (k - i + 1) = i
      OBVIOUS
    <3>. HIDE DEF list
    <3>. QED
      BY <1>2, <3>1
  <2>. HIDE DEF list
  <2>. QED
    BY <1>2, <2>1, <2>2
<1>4. back \in Seq(S!Nodes) /\ Len(back) = k
  OBVIOUS
<1>5. PoolWith(x, k, pool) = back \o pool
  BY <1>3 DEF PoolWith
<1>. HIDE DEF back
<1>6. /\ back \o pool \in Seq(S!Nodes) /\ Len(back \o pool) = k + Len(pool)
      /\ \A i \in 1 .. k : (back \o pool)[i] = back[i]
      /\ \A i \in 1 .. Len(pool) : (back \o pool)[k + i] = pool[i]
  BY <1>4
<1>7. \A i \in 1 .. k : back[i] = f[i]
  BY DEF back
<1>. QED
  BY <1>5, <1>6, <1>7

(* Some nodes, each named once, get new places. *)
AreNodes(f, k) ==
  /\ \A i \in 1 .. k : f[i] \in S!Nodes
  /\ \A i, m \in 1 .. k : f[i] = f[m] => i = m

Relocated(loc2, loc, f, k, place) ==
  /\ DOMAIN loc2 = S!Nodes
  /\ \A i \in 1 .. k : loc2[f[i]] = place[i]
  /\ \A n \in S!Nodes : (\A i \in 1 .. k : n # f[i]) => loc2[n] = loc[n]

LEMMA Relocate ==
  ASSUME NEW k, NEW f, AreNodes(f, k), NEW loc, NEW place
  PROVE  \E loc2 : Relocated(loc2, loc, f, k, place)
<1>. DEFINE loc2 == [n \in S!Nodes |-> IF \E i \in 1 .. k : n = f[i]
                                        THEN place[CHOOSE i \in 1 .. k : n = f[i]]
                                        ELSE loc[n]]
<1>1. ASSUME NEW i \in 1 .. k
      PROVE  loc2[f[i]] = place[i]
  <2>1. (CHOOSE m \in 1 .. k : f[i] = f[m]) = i
    BY <1>1 DEF AreNodes
  <2>. QED
    BY <2>1 DEF AreNodes
<1>2. \A n \in S!Nodes : (\A i \in 1 .. k : n # f[i]) => loc2[n] = loc[n]
  OBVIOUS
<1>3. DOMAIN loc2 = S!Nodes
  OBVIOUS
<1>. HIDE DEF loc2
<1>. QED
  BY <1>1, <1>2, <1>3 DEF Relocated

(* The nodes that t owns are different ones.                                *)
LEMMA OwnIsInjective ==
  ASSUME NEW own, NEW loc, NEW t \in S!Threads, ThreadTypes(t), OwnedBy(own, loc, t)
  PROVE  /\ OwnSize(t) \in Nat
         /\ \A i, m \in 1 .. OwnSize(t) : own[t][i] = own[t][m] => i = m
         /\ IsChain(own[t], OwnSize(t), OwnTop(t))
<1>1. OwnSize(t) \in Nat
  BY DEF OwnSize, ThreadTypes
<1>. QED
  BY <1>1 DEF OwnedBy, IsChain

(* A thread gives all it owns to its pool. *)
Recycles(t) ==
  /\ Alone(t) /\ UNCHANGED <<s_sp, s_rec, s_next, s_used>>
  /\ s_th'[t].pool = PoolWith(OwnTop(t), OwnSize(t), s_th[t].pool)
  /\ OwnSize(t)' = 0 /\ ~StackCurrent(t)'

LEMMA RecyclesIntoPool ==
  ASSUME StackInv, NEW t \in S!Threads, Recycles(t)
  PROVE  s_th'[t].pool \in Seq(S!Nodes)
<1>1. PICK h, stk, own, loc : Layout(h, stk, own, loc)
  BY DEF StackInv
<1>2. ThreadTypes(t) /\ OwnedBy(own, loc, t)
  BY <1>1 DEF StackInv, StackShape, ThreadShape, Layout, ThreadLayout
<1>3. OwnSize(t) \in Nat /\ IsChain(own[t], OwnSize(t), OwnTop(t))
  BY <1>2, OwnIsInjective
<1>4. \A i \in 1 .. OwnSize(t) : own[t][i] \in S!Nodes
  BY <1>2 DEF OwnedBy
<1>5. s_th[t].pool \in Seq(S!Nodes)
  BY <1>2 DEF ThreadTypes
<1>6. s_th'[t].pool = PoolWith(OwnTop(t), OwnSize(t), s_th[t].pool)
  BY DEF Recycles
<1>. QED
  BY ONLY <1>3, <1>4, <1>5, <1>6, RecycledPool

LEMMA RecycleStep ==
  ASSUME StackInv, NEW t \in S!Threads, Recycles(t), ThreadShape(t)'
  PROVE  StackInv'
<1>1. PICK h, stk, own, loc : Layout(h, stk, own, loc)
  BY DEF StackInv
<1>2. /\ \A u \in S!Threads : ThreadShape(u) /\ ThreadTypes(u) /\ ThreadLayout(h, stk, own, loc, u)
      /\ StackTypes
  BY <1>1 DEF StackInv, StackShape, ThreadShape, Layout
<1>3. OthersRest(t) /\ InstalledStays
  BY DEF Recycles, Alone, OthersRest, InstalledStays
<1>4. \A u \in S!Threads : ThreadShape(u)'
  BY <1>2, <1>3, OthersKeepShape
<1>5. StackTypes'
  BY <1>2 DEF Recycles, Alone, StackTypes, MaybeNode
<1>. DEFINE k == OwnSize(t)
            c == Len(s_th[t].pool)
<1>6. /\ k \in Nat /\ IsChain(own[t], k, OwnTop(t))
      /\ \A i \in 1 .. k : own[t][i] \in S!Nodes /\ loc[own[t][i]] = <<"own", t, i>>
      /\ \A i, m \in 1 .. k : own[t][i] = own[t][m] => i = m
  <2>1. OwnedBy(own, loc, t) /\ ThreadTypes(t)
    BY <1>2 DEF ThreadLayout
  <2>2. /\ k \in Nat /\ IsChain(own[t], k, OwnTop(t))
        /\ \A i, m \in 1 .. k : own[t][i] = own[t][m] => i = m
    BY <2>1, OwnIsInjective
  <2>3. \A i \in 1 .. k : own[t][i] \in S!Nodes /\ loc[own[t][i]] = <<"own", t, i>>
    BY <2>1 DEF OwnedBy
  <2>. QED
    BY <2>2, <2>3
<1>7. s_th[t].pool \in Seq(S!Nodes) /\ c \in Nat
  BY <1>2 DEF ThreadTypes
<1>. HIDE DEF k
<1>. DEFINE place == [i \in 1 .. k |-> <<"pool", t, k + c - i>>]
<1>7a. PICK loc2 : Relocated(loc2, loc, own[t], k, place)
  <2>. HIDE DEF place
  <2>1. AreNodes(own[t], k)
    BY <1>6 DEF AreNodes
  <2>. QED
    BY ONLY <2>1, Relocate
<1>8. /\ DOMAIN loc2 = S!Nodes
      /\ \A i \in 1 .. k : loc2[own[t][i]] = <<"pool", t, k + c - i>>
      /\ \A n \in S!Nodes : (\A i \in 1 .. k : n # own[t][i]) => loc2[n] = loc[n]
  BY <1>7a DEF Relocated
<1>9. \A n \in S!Nodes : (\A i \in 1 .. k : loc[n] # <<"own", t, i>>) => loc2[n] = loc[n]
  BY <1>6, <1>8
<1>10. InStack(h, stk, loc2)'
  <2>1. InStack(h, stk, loc)
    BY <1>1 DEF Layout
  <2>2. ASSUME NEW i \in 1 .. h
        PROVE  loc2[stk[i]] = <<"stack", 0, i>>
    <3>1. stk[i] \in S!Nodes /\ loc[stk[i]] = <<"stack", 0, i>>
      BY <2>1 DEF InStack
    <3>2. \A m \in 1 .. k : loc[stk[i]] # <<"own", t, m>>
      BY <3>1
    <3>. QED
      BY <1>9, <3>1, <3>2
  <2>. QED
    BY <2>1, <2>2 DEF InStack, Recycles
<1>11. Unused(loc2)'
  <2>1. Unused(loc)
    BY <1>1 DEF Layout
  <2>. QED
    BY <1>9, <2>1 DEF Unused, Recycles
<1>12. ASSUME NEW u \in S!Threads \ {t}
       PROVE  ThreadLayout(h, stk, own, loc2, u)'
  <2>1. ThreadTypes(u) /\ OwnedBy(own, loc, u) /\ InPool(loc, u)
    BY <1>2 DEF ThreadLayout
  <2>2. \A i \in 1 .. OwnSize(u) : loc2[own[u][i]] = loc[own[u][i]]
    BY <1>9, <2>1 DEF OwnedBy
  <2>3. \A i \in 1 .. Len(s_th[u].pool) : loc2[s_th[u].pool[i]] = loc[s_th[u].pool[i]]
    <3>1. \A i \in 1 .. Len(s_th[u].pool) : s_th[u].pool[i] \in S!Nodes
      BY <2>1 DEF ThreadTypes
    <3>. QED
      BY <1>9, <2>1, <3>1 DEF InPool
  <2>4. Undisturbed(own, loc, loc2, u)
    BY <2>2, <2>3 DEF Undisturbed, Recycles
  <2>5. s_sp' = s_sp /\ own[u] = own[u]
    BY DEF Recycles
  <2>. QED
    BY <1>2, <1>3, <2>4, <2>5, OthersKeepLayout
<1>13. ThreadLayout(h, stk, own, loc2, t)'
  <2>1. OwnedBy(own, loc2, t)' /\ OnStack(h, stk, own, t)'
    BY DEF OwnedBy, OnStack, Recycles
  <2>2. InPool(loc2, t)'
    <3>. DEFINE new == s_th'[t].pool
    <3>1. /\ Len(new) = k + c
          /\ \A i \in 1 .. k : new[i] = own[t][i]
          /\ \A i \in 1 .. c : new[k + i] = s_th[t].pool[i]
      <4>1. new = PoolWith(OwnTop(t), k, s_th[t].pool)
        BY DEF Recycles, k
      <4>2. k \in Nat /\ IsChain(own[t], k, OwnTop(t))
        BY <1>6
      <4>3. \A i \in 1 .. k : own[t][i] \in S!Nodes
        BY <1>6
      <4>4. s_th[t].pool \in Seq(S!Nodes)
        BY <1>7
      <4>5. /\ Len(PoolWith(OwnTop(t), k, s_th[t].pool)) = k + Len(s_th[t].pool)
            /\ \A i \in 1 .. k : PoolWith(OwnTop(t), k, s_th[t].pool)[i] = own[t][i]
            /\ \A i \in 1 .. Len(s_th[t].pool) :
                 PoolWith(OwnTop(t), k, s_th[t].pool)[k + i] = s_th[t].pool[i]
        <5>. DEFINE x == OwnTop(t)
                    f == own[t]
                    pool == s_th[t].pool
        <5>1. k \in Nat /\ IsChain(f, k, x) /\ (\A i \in 1 .. k : f[i] \in S!Nodes)
              /\ pool \in Seq(S!Nodes)
          BY ONLY <4>2, <4>3, <4>4
        <5>. HIDE DEF x, f, pool
        <5>2. /\ Len(PoolWith(x, k, pool)) = k + Len(pool)
              /\ \A i \in 1 .. k : PoolWith(x, k, pool)[i] = f[i]
              /\ \A i \in 1 .. Len(pool) : PoolWith(x, k, pool)[k + i] = pool[i]
          BY ONLY <5>1, RecycledPool
        <5>. QED
          BY ONLY <5>2, Zenon DEF x, f, pool
      <4>. HIDE DEF new
      <4>. QED
        BY ONLY <4>1, <4>5, Zenon DEF c
    <3>. HIDE DEF new
    <3>2. InPool(loc, t)
      BY <1>2 DEF ThreadLayout
    <3>3. \A i \in 1 .. c : /\ s_th[t].pool[i] \in S!Nodes
                            /\ loc[s_th[t].pool[i]] = <<"pool", t, c - i>>
      BY <1>7, <3>2 DEF InPool
    <3>. HIDE DEF c
    <3>4. ASSUME NEW i \in 1 .. c
          PROVE  loc2[s_th[t].pool[i]] = <<"pool", t, c - i>>
      <4>1. /\ s_th[t].pool[i] \in S!Nodes
            /\ loc[s_th[t].pool[i]] = <<"pool", t, c - i>>
        BY <3>3
      <4>2. \A m \in 1 .. k : loc[s_th[t].pool[i]] # <<"own", t, m>>
        BY ONLY <4>1
      <4>. QED
        BY <1>9, <4>1, <4>2, Zenon
    <3>5. ASSUME NEW i \in 1 .. Len(new)
          PROVE  loc2[new[i]] = <<"pool", t, Len(new) - i>>
      <4>1. CASE i <= k
        <5>1. i \in 1 .. k /\ Len(new) - i = k + c - i
          BY <1>6, <1>7, <3>1, <4>1
        <5>. QED
          BY <1>8, <3>1, <5>1
      <4>2. CASE i > k
        <5>1. PICK m \in 1 .. c : i = k + m /\ Len(new) - i = c - m
          <6>1. i - k \in 1 .. c /\ i = k + (i - k) /\ Len(new) - i = c - (i - k)
            BY <1>6, <1>7, <3>1, <4>2
          <6>. QED
            BY <6>1
        <5>. QED
          BY <3>1, <3>4, <5>1
      <4>. QED
        BY <1>6, <1>7, <3>1, <4>1, <4>2
    <3>. QED
      BY <3>5, Zenon DEF InPool, new
  <2>. QED
    BY <2>1, <2>2 DEF ThreadLayout
<1>14. Layout(h, stk, own, loc2)'
  BY <1>8, <1>10, <1>11, <1>12, <1>13 DEF Layout
<1>. QED
  BY <1>4, <1>5, <1>14 DEF StackInv, StackShape

LEMMA InstallFailsKeepsStack ==
  ASSUME StackInv, NEW t \in S!Threads, S!InstallFails(t)
  PROVE  StackInv'
<1>0. StackTypes /\ ThreadShape(t)
  BY DEF StackInv, StackShape
<1>1. /\ s_pc[t] = "cas" /\ s_pc'[t] \in {"readSp", "last"} /\ Alone(t)
      /\ UNCHANGED <<s_sp, s_rec, s_next, s_used>>
      /\ s_my'[t] = [S!Fresh EXCEPT !.j = s_my[t].j + 1]
      /\ s_th' = [s_th EXCEPT ![t].pool = PoolWith(s_my[t].free_list, s_my[t].push_counter, @)]
  BY <1>0 DEF S!InstallFails, S!NextTurn, S!Goto, S!RecycleList, PoolWith, Alone, StackTypes
<1>2. /\ DOMAIN s_th'[t] = StateFields /\ s_th'[t].local_index = s_th[t].local_index
      /\ s_th'[t].pool = PoolWith(s_my[t].free_list, s_my[t].push_counter, s_th[t].pool)
  BY <1>0, <1>1 DEF StackTypes, ThreadShape, ThreadTypes, StateFields
<1>3. /\ DOMAIN s_my'[t] = LocalFields /\ s_my'[t].push_counter = 0
      /\ s_my'[t].pop_counter = 0 /\ s_my'[t].free_list = NULL
  BY <1>1 DEF S!Fresh, LocalFields
<1>4. Recycles(t)
  BY <1>1, <1>2, <1>3 DEF Recycles, OwnTop, OwnSize, StackCurrent, Linking
<1>5. s_th'[t].pool \in Seq(S!Nodes)
  BY <1>4, RecyclesIntoPool
<1>6. S!lsp(t)' = S!lsp(t)
  BY <1>2 DEF S!lsp
<1>7. ThreadShape(t)'
  BY <1>0, <1>1, <1>2, <1>3, <1>5, <1>6 DEF ThreadShape, ThreadTypes, LocalsAreFresh,
    StampIsOlder, RecordIsPrivate, CopyIsGood, StackPCs, StackAttempt, Linking
<1>. QED
  BY <1>4, <1>7, RecycleStep

LEMMA ReturnOwnKeepsStack ==
  ASSUME StackInv, NEW t \in S!Threads, S!ReturnOwn(t)
  PROVE  StackInv'
<1>0. StackTypes /\ ThreadShape(t)
  BY DEF StackInv, StackShape
<1>1. /\ s_pc[t] = "installed" /\ s_pc'[t] = "idle" /\ Alone(t)
      /\ UNCHANGED <<s_sp, s_rec, s_next, s_used>>
      /\ s_my'[t] = S!Fresh
      /\ s_th' = [s_th EXCEPT
           ![t].pool = PoolWith(s_my[t].free_list, s_my[t].pop_counter, @),
           ![t].local_index = (@ + 1) % PoolSize]
  BY <1>0 DEF S!ReturnOwn, S!Return, S!Goto, PoolWith, Alone, StackTypes
<1>2. /\ DOMAIN s_th'[t] = StateFields
      /\ s_th'[t].local_index = (s_th[t].local_index + 1) % PoolSize
      /\ s_th'[t].pool = PoolWith(s_my[t].free_list, s_my[t].pop_counter, s_th[t].pool)
  BY <1>0, <1>1 DEF StackTypes, ThreadShape, ThreadTypes, StateFields
<1>3. /\ DOMAIN s_my'[t] = LocalFields /\ s_my'[t].push_counter = 0
      /\ s_my'[t].pop_counter = 0 /\ s_my'[t].free_list = NULL
  BY <1>1 DEF S!Fresh, LocalFields
<1>4. Recycles(t)
  BY <1>1, <1>2, <1>3 DEF Recycles, OwnTop, OwnSize, StackCurrent, Linking
<1>5. s_th'[t].pool \in Seq(S!Nodes)
  BY <1>4, RecyclesIntoPool
<1>6. /\ s_th'[t].local_index \in Indices /\ s_th'[t].local_index # s_th[t].local_index
      /\ S!lsp(t)' = Rec(t, s_th'[t].local_index)
  BY <1>0, <1>2, Round DEF ThreadShape, ThreadTypes, S!lsp, Rec
<1>7. ThreadTypes(t)' /\ LocalsAreFresh(t)' /\ StampIsOlder(t)' /\ CopyIsGood(t)'
  BY <1>0, <1>1, <1>2, <1>3, <1>5, <1>6 DEF ThreadShape, ThreadTypes, LocalsAreFresh,
    StampIsOlder, CopyIsGood, StackPCs, StackAttempt, Linking
<1>8. RecordIsPrivate(t)'
  BY <1>0, <1>1, <1>6 DEF ThreadShape, RecordIsPrivate
<1>. QED
  BY <1>4, <1>7, <1>8, RecycleStep DEF ThreadShape

(* The CAS: the list of the attempt, less the nodes it popped, becomes the  *)
(* stack; these are its own now.                                            *)
LEMMA InstallKeepsShape ==
  ASSUME StackShape, NEW t \in S!Threads, S!Install(t)
  PROVE  /\ StackShape'
         /\ \A u \in S!Threads \ {t} : ~StackCurrent(u)'
<1>0. StackTypes /\ \A u \in S!Threads : ThreadShape(u) /\ ThreadTypes(u)
  BY DEF StackShape, ThreadShape
<1>1. /\ s_pc[t] = "cas" /\ s_pc'[t] = "installed" /\ Alone(t) /\ s_th' = s_th /\ s_my' = s_my
      /\ s_sp'.index = S!lsp(t) /\ s_sp'.seq = s_sp.seq + 1 /\ s_sp' \in Stamped
      /\ UNCHANGED <<s_rec, s_next, s_used>>
  <2>1. S!lsp(t) \in S!Records /\ s_sp.seq \in Nat
    BY <1>0, StackMine DEF StackTypes, Stamped
  <2>. QED
    BY <1>0, <2>1 DEF S!Install, S!Goto, Alone, StackTypes, S!nodeVars, Stamped
<1>2. \A u \in S!Threads : S!lsp(u)' = S!lsp(u)
  BY <1>1 DEF S!lsp
<1>3. StackTypes'
  BY <1>0, <1>1 DEF StackTypes, Alone, MaybeNode
<1>4. ASSUME NEW u \in S!Threads, s_pc'[u] \in StackAttempt
      PROVE  /\ s_my'[u].old_sp # s_sp' /\ s_my'[u].old_sp.seq < s_sp'.seq
             /\ s_my'[u].old_sp \in Stamped
  <2>1. u # t
    BY <1>1, <1>4 DEF StackAttempt
  <2>2. s_pc[u] \in StackAttempt
    BY <1>1, <1>4, <2>1 DEF Alone
  <2>3. /\ s_my[u].old_sp \in Stamped /\ s_my[u].old_sp.seq \in Nat
        /\ s_my[u].old_sp.seq <= s_sp.seq /\ s_sp.seq \in Nat
    BY <1>0, <2>2 DEF ThreadShape, ThreadTypes, StampIsOlder, Stamped, StackTypes
  <2>4. s_my[u].old_sp.seq < s_sp'.seq
    BY <1>1, <2>3
  <2>5. s_my[u].old_sp # s_sp'
    BY <2>3, <2>4
  <2>. QED
    BY <1>1, <2>3, <2>4, <2>5
<1>5. ASSUME NEW u \in S!Threads
      PROVE  ThreadShape(u)'
  <2>1. ThreadTypes(u)' /\ LocalsAreFresh(u)'
    <3>1. CASE u = t
      BY <1>0, <1>1, <3>1 DEF ThreadShape, ThreadTypes, LocalsAreFresh, StackPCs, StackAttempt,
        Linking
    <3>2. CASE u # t
      BY <1>0, <1>1, <3>2 DEF ThreadShape, ThreadTypes, LocalsAreFresh, Alone
    <3>. QED
      BY <3>1, <3>2
  <2>2. StampIsOlder(u)' /\ CopyIsGood(u)'
    <3>1. /\ s_pc'[u] \in StackAttempt => s_my'[u].old_sp.seq <= s_sp'.seq
          /\ s_pc'[u] \in StackAttempt => s_my'[u].old_sp.seq # s_sp'.seq
      BY <1>1, <1>4 DEF Stamped
    <3>. QED
      BY <1>4, <3>1 DEF StampIsOlder, CopyIsGood, StackAttempt
  <2>3. RecordIsPrivate(u)'
    <3>1. /\ s_th[u].local_index \in Indices /\ s_th[t].local_index \in Indices
          /\ S!lsp(t) = Rec(t, s_th[t].local_index) /\ S!lsp(u) = Rec(u, s_th[u].local_index)
      BY <1>0 DEF ThreadTypes, S!lsp, Rec
    <3>2. \A k \in Indices : Rec(t, s_th[t].local_index) = Rec(u, k) =>
                                t = u /\ k = s_th[t].local_index
      BY <3>1, Owners, SConstants
    <3>3. CASE u = t
      BY <1>1, <3>1, <3>2, <3>3 DEF RecordIsPrivate
    <3>4. CASE u # t
      BY <1>1, <1>2, <3>1, <3>2, <3>4 DEF RecordIsPrivate
    <3>. QED
      BY <3>3, <3>4
  <2>. QED
    BY <2>1, <2>2, <2>3 DEF ThreadShape
<1>6. \A u \in S!Threads \ {t} : ~StackCurrent(u)'
  BY <1>4 DEF StackCurrent, Linking, StackAttempt
<1>. QED
  BY <1>3, <1>5, <1>6 DEF StackShape

LEMMA InstallKeepsStack ==
  ASSUME StackInv, NEW t \in S!Threads, S!Install(t)
  PROVE  StackInv'
<1>0. /\ StackTypes /\ \A u \in S!Threads : ThreadTypes(u)
      /\ StackShape' /\ \A u \in S!Threads \ {t} : ~StackCurrent(u)'
  BY InstallKeepsShape DEF StackInv, StackShape, ThreadShape
<1>1. /\ s_pc[t] = "cas" /\ s_pc'[t] = "installed" /\ Alone(t) /\ s_th' = s_th /\ s_my' = s_my
      /\ s_sp'.index = S!lsp(t) /\ UNCHANGED <<s_rec, s_next, s_used>> /\ StackCurrent(t)
  BY <1>0 DEF S!Install, S!Goto, Alone, StackTypes, S!nodeVars, StackCurrent, Linking
<1>2. PICK h, stk, own, loc : Layout(h, stk, own, loc)
  BY DEF StackInv
<1>2a. PICK k, p : k = s_my[t].push_counter /\ p = s_my[t].pop_counter
  OBVIOUS
<1>. DEFINE full == [i \in 1 .. h + k |-> At(h, stk, own, t, i)]
            m == h + k - p
<1>3. /\ h \in Nat /\ k \in Nat /\ p \in Nat /\ p <= h + k /\ m \in 0 .. h + k
      /\ s_rec[S!lsp(t)].head = At(h, stk, own, t, m)
      /\ s_my[t].free_list = At(h, stk, own, t, h + k)
  <2>1. h \in Nat /\ k \in Nat /\ p \in Nat
    BY <1>0, <1>2, <1>2a DEF Layout, InStack, ThreadTypes
  <2>2. OnStack(h, stk, own, t)
    BY <1>2 DEF Layout, ThreadLayout
  <2>3. OwnTop(t) = s_my[t].free_list
    BY <1>1 DEF OwnTop
  <2>. QED
    BY <1>1, <1>2a, <2>1, <2>2, <2>3 DEF OnStack
<1>4. \A i \in 1 .. h + k :
        /\ full[i] = At(h, stk, own, t, i) /\ full[i] \in S!Nodes
        /\ s_next[full[i]] = IF i = 1 THEN NULL ELSE full[i - 1]
        /\ loc[full[i]] = IF i <= h THEN <<"stack", 0, i>> ELSE <<"own", t, i - h>>
  <2>1. \A i \in 1 .. h + k :
           /\ At(h, stk, own, t, i) \in S!Nodes
           /\ s_next[At(h, stk, own, t, i)] = At(h, stk, own, t, i - 1)
           /\ loc[At(h, stk, own, t, i)] =
                IF i <= h THEN <<"stack", 0, i>> ELSE <<"own", t, i - h>>
    BY <1>0, <1>1, <1>2, <1>2a, ListIsLinked
  <2>2. ASSUME NEW i \in 1 .. h + k
        PROVE  At(h, stk, own, t, i - 1) = IF i = 1 THEN NULL ELSE full[i - 1]
    <3>1. CASE i = 1
      BY <3>1 DEF At
    <3>2. CASE i # 1
      <4>1. i - 1 \in 1 .. h + k
        BY <1>3, <3>2
      <4>. QED
        BY <3>2, <4>1
    <3>. QED
      BY <3>1, <3>2
  <2>. QED
    BY <2>1, <2>2
<1>5. AreNodes(full, h + k)
  <2>. HIDE DEF full
  <2>. SUFFICES ASSUME NEW i \in 1 .. h + k, NEW n \in 1 .. h + k, full[i] = full[n]
                PROVE  i = n
    BY <1>4 DEF AreNodes
  <2>1. (IF i <= h THEN <<"stack", 0, i>> ELSE <<"own", t, i - h>>)
         = (IF n <= h THEN <<"stack", 0, n>> ELSE <<"own", t, n - h>>)
    BY <1>4
  <2>2. \/ i <= h /\ n <= h /\ i = n
        \/ ~(i <= h) /\ ~(n <= h) /\ i - h = n - h
    BY <2>1
  <2>. QED
    BY <1>3, <2>2
<1>. DEFINE place == [i \in 1 .. h + k |-> IF i <= m THEN <<"stack", 0, i>> ELSE <<"own", t, i - m>>]
            own2 == [u \in S!Threads |-> IF u = t THEN [i \in 1 .. p |-> full[m + i]] ELSE own[u]]
<1>6. PICK loc2 : Relocated(loc2, loc, full, h + k, place)
  <2>. HIDE DEF full, place, m
  <2>. QED
    BY <1>5, Relocate
<1>7. \A i \in 1 .. h + k : loc2[full[i]] = IF i <= m THEN <<"stack", 0, i>> ELSE <<"own", t, i - m>>
  <2>1. \A i \in 1 .. h + k : loc2[full[i]] = place[i]
    BY <1>6 DEF Relocated
  <2>. HIDE DEF full
  <2>. QED
    BY <2>1
<1>8. ASSUME NEW n \in S!Nodes,
             \A i \in 1 .. h : loc[n] # <<"stack", 0, i>>,
             \A i \in 1 .. k : loc[n] # <<"own", t, i>>
      PROVE  loc2[n] = loc[n]
  <2>. HIDE DEF full, place
  <2>1. ASSUME NEW i \in 1 .. h + k PROVE n # full[i]
    <3>1. CASE i <= h
      <4>1. i \in 1 .. h
        BY <1>3, <3>1
      <4>2. loc[full[i]] = <<"stack", 0, i>>
        BY <1>4, <3>1
      <4>. QED
        BY <1>8, <4>1, <4>2
    <3>2. CASE ~(i <= h)
      <4>1. i - h \in 1 .. k
        BY <1>3, <3>2
      <4>2. loc[full[i]] = <<"own", t, i - h>>
        BY <1>4, <3>2
      <4>. QED
        BY <1>8, <4>1, <4>2
    <3>. QED
      BY <3>1, <3>2
  <2>. QED
    BY <1>6, <2>1 DEF Relocated
<1>9. InStack(m, full, loc2)'
  <2>1. m \in Nat /\ \A i \in 1 .. m : i \in 1 .. h + k /\ i <= m
    BY <1>3
  <2>2. s_rec'[s_sp'.index].head = IF m = 0 THEN NULL ELSE full[m]
    <3>1. m # 0 => m \in 1 .. h + k
      BY <1>3
    <3>. HIDE DEF m
    <3>. QED
      BY <1>1, <1>3, <3>1 DEF At
  <2>3. \A i \in 1 .. m : /\ full[i] \in S!Nodes
                          /\ loc2[full[i]] = <<"stack", 0, i>>
                          /\ s_next'[full[i]] = IF i = 1 THEN NULL ELSE full[i - 1]
    <3>. HIDE DEF full, m
    <3>. QED
      BY <1>1, <1>4, <1>7, <2>1
  <2>. HIDE DEF full, m
  <2>. QED
    BY <2>1, <2>2, <2>3 DEF InStack
<1>10. Unused(loc2)'
  <2>1. Unused(loc)
    BY <1>2 DEF Layout
  <2>. QED
    BY <1>1, <1>8, <2>1 DEF Unused
<1>11. ASSUME NEW u \in S!Threads
       PROVE  InPool(loc2, u)'
  <2>1. InPool(loc, u) /\ \A i \in 1 .. Len(s_th[u].pool) : s_th[u].pool[i] \in S!Nodes
    BY <1>0, <1>2 DEF Layout, ThreadLayout, ThreadTypes
  <2>2. ASSUME NEW i \in 1 .. Len(s_th[u].pool)
        PROVE  loc2[s_th[u].pool[i]] = loc[s_th[u].pool[i]]
    <3>1. loc[s_th[u].pool[i]] = <<"pool", u, Len(s_th[u].pool) - i>>
      BY <2>1 DEF InPool
    <3>2. \A n : /\ loc[s_th[u].pool[i]] # <<"stack", 0, n>>
                 /\ loc[s_th[u].pool[i]] # <<"own", t, n>>
      BY <3>1
    <3>. QED
      BY <1>8, <2>1, <3>2
  <2>. QED
    BY <1>1, <2>1, <2>2 DEF InPool
<1>12. ASSUME NEW u \in S!Threads \ {t}
       PROVE  OwnedBy(own2, loc2, u)'
  <2>1. OwnedBy(own, loc, u) /\ own2[u] = own[u]
    BY <1>2 DEF Layout, ThreadLayout
  <2>2. OwnSize(u)' = OwnSize(u) /\ OwnTop(u)' = OwnTop(u)
    BY <1>1 DEF Alone, OwnSize, OwnTop, S!lsp
  <2>3. ASSUME NEW i \in 1 .. OwnSize(u)
        PROVE  loc2[own[u][i]] = loc[own[u][i]]
    <3>1. own[u][i] \in S!Nodes /\ loc[own[u][i]] = <<"own", u, i>>
      BY <2>1 DEF OwnedBy
    <3>2. \A n : /\ loc[own[u][i]] # <<"stack", 0, n>>
                 /\ loc[own[u][i]] # <<"own", t, n>>
      BY <3>1
    <3>. QED
      BY <1>8, <3>1, <3>2
  <2>. HIDE DEF own2
  <2>. QED
    BY <1>1, <2>1, <2>2, <2>3 DEF OwnedBy
<1>13. OwnedBy(own2, loc2, t)'
  <2>1. OwnSize(t)' = p /\ OwnTop(t)' = s_my[t].free_list
    BY <1>1, <1>2a DEF OwnSize, OwnTop
  <2>2. \A i \in 1 .. p : m + i \in 1 .. h + k /\ ~(m + i <= m) /\ (m + i) - m = i
    BY <1>3
  <2>3. ASSUME NEW i \in 1 .. p
        PROVE  /\ own2[t][i] = full[m + i] /\ full[m + i] \in S!Nodes
               /\ loc2[full[m + i]] = <<"own", t, i>>
               /\ i # 1 => s_next[full[m + i]] = own2[t][i - 1]
    <3>1. own2[t] = [n \in 1 .. p |-> full[m + n]]
      OBVIOUS
    <3>2. i # 1 => i - 1 \in 1 .. p /\ m + i # 1 /\ (m + i) - 1 = m + (i - 1)
      BY <1>3
    <3>. HIDE DEF full, own2
    <3>3. own2[t][i] = full[m + i] /\ (i # 1 => own2[t][i - 1] = full[m + (i - 1)])
      BY <3>1, <3>2
    <3>. HIDE DEF m
    <3>4. full[m + i] \in S!Nodes /\ loc2[full[m + i]] = <<"own", t, i>>
      BY <1>4, <1>7, <2>2
    <3>5. i # 1 => s_next[full[m + i]] = full[(m + i) - 1]
      BY <1>4, <2>2, <3>2
    <3>. QED
      BY <3>2, <3>3, <3>4, <3>5
  <2>4. p > 0 => s_my[t].free_list = own2[t][p]
    <3>1. p > 0 => p \in 1 .. p /\ m + p = h + k /\ h + k \in 1 .. h + k
      BY <1>3
    <3>2. p > 0 => own2[t][p] = full[m + p]
      BY <2>3, <3>1
    <3>3. p > 0 => full[h + k] = At(h, stk, own, t, h + k)
      BY <1>4, <3>1
    <3>. HIDE DEF m, own2, full
    <3>. QED
      BY <1>3, <3>1, <3>2, <3>3
  <2>. HIDE DEF m, own2, full
  <2>. QED
    BY <1>1, <2>1, <2>3, <2>4 DEF OwnedBy
<1>14. ASSUME NEW u \in S!Threads
       PROVE  OnStack(m, full, own2, u)'
  <2>1. ~StackCurrent(u)'
    BY <1>0, <1>1 DEF StackCurrent, Linking
  <2>. QED
    BY <2>1 DEF OnStack
<1>15. DOMAIN loc2 = S!Nodes
  BY <1>6 DEF Relocated
<1>. HIDE DEF m, own2, full
<1>16. \A u \in S!Threads : ThreadLayout(m, full, own2, loc2, u)'
  BY <1>11, <1>12, <1>13, <1>14 DEF ThreadLayout
<1>17. Layout(m, full, own2, loc2)'
  BY <1>9, <1>10, <1>15, <1>16 DEF Layout
<1>18. \E hh, ss, oo, ll : Layout(hh, ss, oo, ll)'
  BY <1>17
<1>. QED
  BY <1>0, <1>18 DEF StackInv

(* A push: a node of the pool, or a new one, goes on top of the list of the *)
(* attempt.                                                                 *)
LEMMA AllocTakes ==
  ASSUME StackInv, NEW t \in S!Threads, NEW n \in S!Nodes, S!Alloc(t, n),
         NEW h, NEW stk, NEW own, NEW loc, Layout(h, stk, own, loc)
  PROVE  /\ DOMAIN s_th' = S!Threads /\ \A u \in S!Threads \ {t} : s_th'[u] = s_th[u]
         /\ DOMAIN s_th'[t] = StateFields /\ s_th'[t].local_index = s_th[t].local_index
         /\ s_th'[t].pool \in Seq(S!Nodes) /\ s_used' \in s_used .. MaxNodes
         /\ \E c \in Nat : loc[n] \in {<<"unused", 0, 0>>, <<"pool", t, c>>}
         /\ \A m \in S!Nodes : m > s_used' => m # n /\ m > s_used
         /\ \A i \in 1 .. Len(s_th'[t].pool) :
              /\ s_th'[t].pool[i] # n
              /\ loc[s_th'[t].pool[i]] = <<"pool", t, Len(s_th'[t].pool) - i>>
<1>. DEFINE pool == s_th[t].pool
<1>0. /\ StackTypes /\ ThreadTypes(t) /\ pool \in Seq(S!Nodes) /\ Unused(loc)
      /\ \A i \in 1 .. Len(pool) : loc[pool[i]] = <<"pool", t, Len(pool) - i>>
  BY DEF StackInv, StackShape, ThreadShape, ThreadTypes, Layout, ThreadLayout, InPool
<1>1. CASE pool # <<>>
  <2>1. n = Head(pool) /\ s_th' = [s_th EXCEPT ![t].pool = Tail(@)] /\ s_used' = s_used
    BY <1>1 DEF S!Alloc
  <2>2. /\ DOMAIN s_th' = S!Threads /\ \A u \in S!Threads \ {t} : s_th'[u] = s_th[u]
        /\ DOMAIN s_th'[t] = StateFields /\ s_th'[t].local_index = s_th[t].local_index
        /\ s_th'[t].pool = Tail(pool)
    BY <1>0, <2>1 DEF StackTypes, ThreadTypes, StateFields
  <2>. HIDE DEF pool
  <2>3. /\ Tail(pool) \in Seq(S!Nodes) /\ Len(pool) \in Nat /\ Len(pool) >= 1
        /\ Len(Tail(pool)) = Len(pool) - 1 /\ n = pool[1]
        /\ \A i \in 1 .. Len(Tail(pool)) : Tail(pool)[i] = pool[i + 1]
    BY <1>0, <1>1, <2>1
  <2>4. loc[n] = <<"pool", t, Len(pool) - 1>> /\ Len(pool) - 1 \in Nat
    BY <1>0, <2>3
  <2>5. ASSUME NEW i \in 1 .. Len(Tail(pool))
        PROVE  Tail(pool)[i] # n /\ loc[Tail(pool)[i]] = <<"pool", t, Len(Tail(pool)) - i>>
    <3>1. i + 1 \in 1 .. Len(pool) /\ Len(pool) - (i + 1) = Len(Tail(pool)) - i
          /\ Len(pool) - (i + 1) # Len(pool) - 1
      BY <2>3
    <3>2. loc[Tail(pool)[i]] = <<"pool", t, Len(pool) - (i + 1)>>
      BY <1>0, <2>3, <3>1
    <3>3. loc[Tail(pool)[i]] # loc[n]
      BY <2>4, <3>1, <3>2
    <3>. QED
      BY <3>1, <3>2, <3>3
  <2>6. s_used' \in s_used .. MaxNodes /\ s_used \in Nat
    BY <1>0, <2>1, SConstants DEF StackTypes
  <2>7. \A m \in S!Nodes : m > s_used' => m # n /\ m > s_used
    BY <1>0, <2>1, <2>4 DEF Unused
  <2>. QED
    BY <2>2, <2>3, <2>4, <2>5, <2>6, <2>7
<1>2. CASE pool = <<>>
  <2>1. n = s_used + 1 /\ s_used' = n /\ s_th' = s_th
    BY <1>2 DEF S!Alloc
  <2>2. s_used \in 0 .. MaxNodes /\ n \in 1 .. MaxNodes /\ MaxNodes \in Nat
    BY <1>0, SConstants DEF StackTypes
  <2>3. s_used' \in s_used .. MaxNodes /\ n > s_used
    BY <2>1, <2>2
  <2>4. loc[n] = <<"unused", 0, 0>>
    BY <1>0, <2>3 DEF Unused
  <2>5. \A m \in S!Nodes : m > s_used' => m # n /\ m > s_used
    BY <2>1, <2>2, SConstants
  <2>6. Len(s_th'[t].pool) = 0 /\ s_th'[t].pool \in Seq(S!Nodes)
    BY <1>0, <1>2, <2>1
  <2>7. DOMAIN s_th' = S!Threads /\ DOMAIN s_th'[t] = StateFields
    BY <1>0, <2>1 DEF StackTypes, ThreadTypes
  <2>. QED
    BY <2>1, <2>3, <2>4, <2>5, <2>6, <2>7
<1>. QED
  BY <1>1, <1>2

LEMMA SerialPushKeepsStack ==
  ASSUME StackInv, NEW t \in S!Threads, S!SerialPush(t)
  PROVE  StackInv'
<1>0. /\ StackTypes /\ StackShape /\ ThreadShape(t)
      /\ \A u \in S!Threads : ThreadShape(u) /\ ThreadTypes(u)
  BY DEF StackInv, StackShape, ThreadShape
<1>1. PICK h, stk, own, loc : Layout(h, stk, own, loc)
  BY DEF StackInv
<1>2. PICK l \in S!Records, k \in Nat : l = S!lsp(t) /\ k = s_my[t].push_counter
  BY <1>0, StackMine DEF ThreadTypes
<1>3. PICK n \in S!Nodes :
        /\ S!Alloc(t, n)
        /\ s_next' = [s_next EXCEPT ![n] = s_rec[l].head]
        /\ s_rec' = [s_rec EXCEPT ![l].head = n]
        /\ \E q : s_my' = [s_my EXCEPT ![t].diffs = @ \ {q}, ![t].push_counter = @ + 1]
  BY <1>2 DEF S!SerialPush
<1>4. /\ s_pc[t] = "push" /\ s_pc'[t] = "push" /\ s_sp' = s_sp
      /\ DOMAIN s_pc' = S!Threads /\ \A u \in S!Threads \ {t} : s_pc'[u] = s_pc[u]
  <2>1. s_pc[t] = "push" /\ s_pc' = [s_pc EXCEPT ![t] = "push"] /\ s_sp' = s_sp
    BY DEF S!SerialPush, S!Goto
  <2>. QED
    BY <1>0, <2>1 DEF StackTypes
<1>5. /\ DOMAIN s_my' = S!Threads /\ \A u \in S!Threads \ {t} : s_my'[u] = s_my[u]
      /\ DOMAIN s_my'[t] = LocalFields /\ s_my'[t].push_counter = k + 1
      /\ s_my'[t].pop_counter = s_my[t].pop_counter /\ s_my'[t].free_list = s_my[t].free_list
      /\ s_my'[t].old_sp = s_my[t].old_sp
  BY <1>0, <1>2, <1>3 DEF StackTypes, ThreadTypes, LocalFields
<1>6. /\ DOMAIN s_th' = S!Threads /\ \A u \in S!Threads \ {t} : s_th'[u] = s_th[u]
      /\ DOMAIN s_th'[t] = StateFields /\ s_th'[t].local_index = s_th[t].local_index
      /\ s_th'[t].pool \in Seq(S!Nodes) /\ s_used' \in s_used .. MaxNodes
      /\ \E c \in Nat : loc[n] \in {<<"unused", 0, 0>>, <<"pool", t, c>>}
      /\ \A m \in S!Nodes : m > s_used' => m # n /\ m > s_used
      /\ \A i \in 1 .. Len(s_th'[t].pool) :
           /\ s_th'[t].pool[i] # n
           /\ loc[s_th'[t].pool[i]] = <<"pool", t, Len(s_th'[t].pool) - i>>
  BY <1>1, <1>3, AllocTakes
<1>7. /\ DOMAIN s_rec' = S!Records
      /\ \A r \in S!Records : DOMAIN s_rec'[r] = RecordFields
      /\ \A r \in S!Records \ {l} : s_rec'[r] = s_rec[r]
      /\ s_rec'[l].head = n
  BY <1>0, <1>3 DEF StackTypes, RecordFields
<1>8. /\ s_next' \in [S!Nodes -> MaybeNode] /\ s_next'[n] = s_rec[l].head
      /\ \A m \in S!Nodes \ {n} : s_next'[m] = s_next[m]
  BY <1>0, <1>3 DEF StackTypes
<1>9. OthersRest(t) /\ InstalledStays
  BY <1>0, <1>2, <1>4, <1>5, <1>6, <1>7, RecordIsOwn
<1>10. StackTypes'
  <2>1. s_used' \in 0 .. MaxNodes
    BY <1>0, <1>6, SConstants DEF StackTypes
  <2>2. \A r \in S!Records : s_rec'[r].head \in MaybeNode
    BY <1>0, <1>7 DEF StackTypes, MaybeNode
  <2>. QED
    BY <1>0, <1>4, <1>5, <1>6, <1>7, <1>8, <2>1, <2>2 DEF StackTypes, MaybeNode
<1>11. S!lsp(t)' = S!lsp(t)
  BY <1>6 DEF S!lsp
<1>12. ThreadShape(t)'
  <2>1. k + 1 \in Nat
    OBVIOUS
  <2>2. ThreadTypes(t)' /\ LocalsAreFresh(t)' /\ StampIsOlder(t)'
    BY <1>0, <1>4, <1>5, <1>6, <2>1 DEF ThreadShape, ThreadTypes, LocalsAreFresh, StampIsOlder,
      StackAttempt, Linking
  <2>3. RecordIsPrivate(t)' /\ CopyIsGood(t)'
    BY <1>0, <1>4, <1>11 DEF ThreadShape, RecordIsPrivate, CopyIsGood
  <2>. QED
    BY <2>2, <2>3 DEF ThreadShape
<1>13. \A u \in S!Threads : ThreadShape(u)'
  BY <1>0, <1>9, <1>12, OthersKeepShape
<1>. DEFINE own2 == [u \in S!Threads |->
                       IF u = t THEN [i \in 1 .. k + 1 |-> IF i = k + 1 THEN n ELSE own[t][i]]
                                ELSE own[u]]
            loc2 == [m \in S!Nodes |-> IF m = n THEN <<"own", t, k + 1>> ELSE loc[m]]
<1>14. /\ \A i \in 1 .. k : own2[t][i] = own[t][i] /\ own2[t][k + 1] = n
       /\ own2[t][k + 1] = n
       /\ \A u \in S!Threads \ {t} : own2[u] = own[u]
       /\ DOMAIN loc2 = S!Nodes /\ loc2[n] = <<"own", t, k + 1>>
       /\ \A m \in S!Nodes \ {n} : loc2[m] = loc[m]
  OBVIOUS
<1>. HIDE DEF own2, loc2
<1>15. /\ \A i : loc[n] # <<"stack", 0, i>>
       /\ \A u, i : loc[n] # <<"own", u, i>>
       /\ \A u, i : u # t => loc[n] # <<"pool", u, i>>
  BY <1>6
<1>16. InStack(h, stk, loc2)'
  <2>1. InStack(h, stk, loc)
    BY <1>1 DEF Layout
  <2>2. ASSUME NEW i \in 1 .. h PROVE stk[i] \in S!Nodes \ {n}
    <3>1. stk[i] \in S!Nodes /\ loc[stk[i]] = <<"stack", 0, i>>
      BY <2>1 DEF InStack
    <3>. QED
      BY <1>15, <3>1
  <2>3. \A i \in 1 .. h : loc2[stk[i]] = loc[stk[i]] /\ s_next'[stk[i]] = s_next[stk[i]]
    BY <1>8, <1>14, <2>2
  <2>. QED
    BY <1>9, <2>1, <2>3 DEF InStack, InstalledStays
<1>17. Unused(loc2)'
  BY <1>1, <1>6, <1>14 DEF Layout, Unused
<1>18. ASSUME NEW u \in S!Threads \ {t}
       PROVE  ThreadLayout(h, stk, own2, loc2, u)'
  <2>1. ThreadLayout(h, stk, own, loc, u) /\ ThreadTypes(u)
    BY <1>0, <1>1 DEF Layout
  <2>2. \A i \in 1 .. OwnSize(u) : own[u][i] \in S!Nodes \ {n}
    BY <1>15, <2>1 DEF ThreadLayout, OwnedBy
  <2>3. \A i \in 1 .. Len(s_th[u].pool) : s_th[u].pool[i] \in S!Nodes \ {n}
    <3>1. \A i \in 1 .. Len(s_th[u].pool) : s_th[u].pool[i] \in S!Nodes
      BY <2>1 DEF ThreadTypes
    <3>. QED
      BY <1>15, <2>1, <3>1 DEF ThreadLayout, InPool
  <2>4. Undisturbed(own, loc, loc2, u)
    BY <1>8, <1>14, <2>2, <2>3 DEF Undisturbed
  <2>. QED
    BY <1>4, <1>9, <1>14, <2>1, <2>4, OthersKeepLayout
<1>19. InPool(loc2, t)'
  <2>1. \A i \in 1 .. Len(s_th'[t].pool) : s_th'[t].pool[i] \in S!Nodes \ {n}
    BY <1>6
  <2>. QED
    BY <1>6, <1>14, <2>1 DEF InPool
<1>20. /\ OwnSize(t) = k /\ OwnSize(t)' = k + 1
       /\ OwnTop(t) = s_rec[l].head /\ OwnTop(t)' = n
       /\ StackCurrent(t)' => StackCurrent(t)
       /\ s_my[t].pop_counter = 0
  BY <1>0, <1>2, <1>4, <1>5, <1>7, <1>11 DEF OwnSize, OwnTop, StackCurrent, ThreadShape,
    LocalsAreFresh, Linking
<1>21. /\ \A i \in 1 .. k : /\ own[t][i] \in S!Nodes \ {n} /\ loc[own[t][i]] = <<"own", t, i>>
                            /\ i # 1 => s_next[own[t][i]] = own[t][i - 1]
       /\ k > 0 => s_rec[l].head = own[t][k]
  BY <1>1, <1>15, <1>20 DEF Layout, ThreadLayout, OwnedBy
<1>22. OwnedBy(own2, loc2, t)'
  <2>1. ASSUME NEW i \in 1 .. k + 1
        PROVE  /\ own2[t][i] \in S!Nodes /\ loc2[own2[t][i]] = <<"own", t, i>>
               /\ i # 1 => s_next'[own2[t][i]] = own2[t][i - 1]
    <3>1. CASE i = k + 1
      <4>1. i # 1 => k \in 1 .. k /\ i - 1 = k /\ k > 0
        BY <3>1
      <4>. QED
        BY <1>8, <1>14, <1>21, <3>1, <4>1
    <3>2. CASE i # k + 1
      <4>1. i \in 1 .. k /\ (i # 1 => i - 1 \in 1 .. k)
        BY <3>2
      <4>. QED
        BY <1>8, <1>14, <1>21, <4>1
    <3>. QED
      BY <3>1, <3>2
  <2>. QED
    BY <1>14, <1>20, <2>1 DEF OwnedBy
<1>23. OnStack(h, stk, own2, t)'
  <2>. SUFFICES ASSUME StackCurrent(t) PROVE OnStack(h, stk, own2, t)'
    BY <1>20 DEF OnStack
  <2>1. h \in Nat /\ s_rec[l].head = At(h, stk, own, t, h + k)
        /\ (k > 0 => s_next[own[t][1]] = At(h, stk, own, t, h))
    BY <1>1, <1>2, <1>20 DEF Layout, InStack, ThreadLayout, OnStack
  <2>2. At(h, stk, own2, t, h) = At(h, stk, own, t, h)
    BY <2>1 DEF At
  <2>3. At(h, stk, own2, t, h + (k + 1)) = n
    <3>1. PICK top \in Nat : top = h + (k + 1)
      BY <2>1
    <3>2. top # 0 /\ ~(top <= h) /\ top - h = k + 1
      BY <2>1, <3>1
    <3>3. At(h, stk, own2, t, top) = n
      BY <1>14, <3>2 DEF At
    <3>. QED
      BY <3>1, <3>3
  <2>4. s_next'[own2[t][1]] = At(h, stk, own2, t, h)
    <3>1. CASE k = 0
      <4>1. own2[t][1] = n /\ h + k = h
        BY <1>14, <2>1, <3>1
      <4>. QED
        BY <1>8, <2>1, <2>2, <4>1
    <3>2. CASE k > 0
      <4>1. 1 \in 1 .. k
        BY <3>2
      <4>. QED
        BY <1>8, <1>14, <1>21, <2>1, <2>2, <3>2, <4>1
    <3>. QED
      BY <3>1, <3>2
  <2>5. 0 <= h + (k + 1) /\ h + (k + 1) - 0 = h + (k + 1)
    BY <2>1
  <2>6. s_rec'[S!lsp(t)'].head = n
    BY <1>2, <1>7, <1>11
  <2>. QED
    BY <1>5, <1>20, <2>3, <2>4, <2>5, <2>6 DEF OnStack
<1>24. \A u \in S!Threads : ThreadLayout(h, stk, own2, loc2, u)'
  BY <1>18, <1>19, <1>22, <1>23 DEF ThreadLayout
<1>25. Layout(h, stk, own2, loc2)'
  BY <1>14, <1>16, <1>17, <1>24 DEF Layout
<1>26. \E hh, ss, oo, ll : Layout(hh, ss, oo, ll)'
  BY <1>25
<1>. QED
  BY <1>10, <1>13, <1>26 DEF StackInv, StackShape

-----------------------------------------------------------------------------
LEMMA StackInvInit == S!Init => StackInv
<1>. SUFFICES ASSUME S!Init PROVE StackInv
  OBVIOUS
<1>1. s_sp.index = PoolSize * N /\ s_sp.seq = 0 /\ s_sp \in Stamped
  BY Owners, SConstants DEF S!Init, Stamped
<1>2. \A r \in S!Records : DOMAIN s_rec[r] = RecordFields /\ s_rec[r].head = NULL
  BY DEF S!Init, RecordFields
<1>3. \A t \in S!Threads : /\ DOMAIN s_th[t] = StateFields /\ s_th[t].local_index = 0
                           /\ s_th[t].pool = <<>> /\ s_pc[t] = "idle"
  BY DEF S!Init, StateFields
<1>4. \A t \in S!Threads : /\ DOMAIN s_my[t] = LocalFields
                           /\ s_my[t].push_counter = 0 /\ s_my[t].pop_counter = 0
                           /\ s_my[t].free_list = NULL
  BY DEF S!Init, S!Fresh, LocalFields
<1>5. StackTypes
  <2>1. s_used \in 0 .. MaxNodes
    BY SConstants DEF S!Init
  <2>. QED
    BY <1>1, <1>2, <2>1 DEF StackTypes, S!Init, MaybeNode
<1>6. ASSUME NEW t \in S!Threads
      PROVE  ThreadShape(t)
  <2>0. ThreadTypes(t)
    <3>1. s_th[t].pool \in Seq(S!Nodes) /\ s_th[t].local_index \in Indices
      <4>1. <<>> \in Seq(S!Nodes)
        OBVIOUS
      <4>. QED
        BY <1>3, <4>1, Constants, Zenon
    <3>2. s_pc[t] \in StackPCs /\ s_pc[t] \notin StackAttempt \cup {"readRet"}
      BY <1>3 DEF StackPCs, StackAttempt
    <3>3. s_my[t].push_counter \in Nat /\ s_my[t].pop_counter \in Nat
      BY <1>4
    <3>. QED
      BY <1>3, <1>4, <3>1, <3>2, <3>3 DEF ThreadTypes
  <2>1. LocalsAreFresh(t) /\ StampIsOlder(t) /\ CopyIsGood(t)
    BY <1>3, <1>4 DEF LocalsAreFresh, StampIsOlder, CopyIsGood, StackAttempt, Linking
  <2>2. RecordIsPrivate(t)
    BY <1>1, <1>3, Owners, SConstants, Constants DEF RecordIsPrivate, S!lsp, Rec
  <2>. QED
    BY <2>0, <2>1, <2>2 DEF ThreadShape
<1>. DEFINE loc == [n \in S!Nodes |-> <<"unused", 0, 0>>]
<1>7. InStack(0, loc, loc) /\ Unused(loc)
  BY <1>1, <1>2, Owners, SConstants DEF InStack, Unused
<1>8. ASSUME NEW t \in S!Threads
      PROVE  ThreadLayout(0, loc, loc, loc, t)
  BY <1>3, <1>4 DEF ThreadLayout, InPool, OwnedBy, OnStack, OwnSize, StackCurrent, Linking
<1>9. Layout(0, loc, loc, loc)
  BY <1>7, <1>8 DEF Layout
<1>10. \E h, ss, oo, ll : Layout(h, ss, oo, ll)
  BY <1>9
<1>. QED
  BY <1>5, <1>6, <1>10 DEF StackInv, StackShape

LEMMA StackInvNext == StackInv /\ S!Next => StackInv'
<1>. SUFFICES ASSUME StackInv, NEW t \in S!Threads, S!Step(t) PROVE StackInv'
  BY DEF S!Next
<1>. QED
  BY AnnounceKeepsStack, ToggleKeepsStack, ReadSpKeepsStack, RecheckFailsKeepsStack,
    RecheckHoldsKeepsStack, FindPopKeepsStack, CopyKeepsStack, SetAppliedKeepsStack,
    SerialPopKeepsStack, SerialPushKeepsStack, InstallKeepsStack, InstallFailsKeepsStack,
    ReturnOwnKeepsStack DEF S!Step

LEMMA StackInvStutter == StackInv /\ UNCHANGED s_vars => StackInv'
<1>. SUFFICES ASSUME StackInv, UNCHANGED s_vars PROVE StackInv'
  OBVIOUS
<1>0. /\ s_sp' = s_sp /\ s_rec' = s_rec /\ s_next' = s_next /\ s_used' = s_used
      /\ s_pc' = s_pc /\ s_th' = s_th /\ s_my' = s_my
  BY DEF s_vars
<1>1. StackTypes'
  BY <1>0 DEF StackInv, StackShape, StackTypes, MaybeNode
<1>2. ASSUME NEW t \in S!Threads
      PROVE  ThreadShape(t)'
  <2>1. S!lsp(t)' = S!lsp(t) /\ ThreadShape(t)
    BY <1>0 DEF S!lsp, StackInv, StackShape
  <2>. QED
    BY <1>0, <2>1 DEF ThreadShape, ThreadTypes, LocalsAreFresh, StampIsOlder, RecordIsPrivate,
      CopyIsGood
<1>3. ASSUME NEW h, NEW stk, NEW own, NEW loc, Layout(h, stk, own, loc)
      PROVE  Layout(h, stk, own, loc)'
  <2>1. InStack(h, stk, loc)' /\ Unused(loc)'
    BY <1>0, <1>3 DEF Layout, InStack, Unused
  <2>2. ASSUME NEW t \in S!Threads
        PROVE  ThreadLayout(h, stk, own, loc, t)'
    <3>1. S!lsp(t)' = S!lsp(t) /\ ThreadLayout(h, stk, own, loc, t)
      BY <1>0, <1>3 DEF S!lsp, Layout
    <3>2. OwnTop(t)' = OwnTop(t) /\ OwnSize(t)' = OwnSize(t) /\ StackCurrent(t)' = StackCurrent(t)
      BY <1>0, <3>1 DEF OwnTop, OwnSize, StackCurrent
    <3>. QED
      BY <1>0, <3>1, <3>2 DEF ThreadLayout, InPool, OwnedBy, OnStack
  <2>. QED
    BY <1>3, <2>1, <2>2 DEF Layout
<1>. QED
  BY <1>1, <1>2, <1>3 DEF StackInv, StackShape

-----------------------------------------------------------------------------
(* The nodes that ListFrom finds are those of the stack.                    *)
LEMMA ListFromIsStack ==
  ASSUME NEW h, NEW stk, NEW loc, InStack(h, stk, loc), NEW x, x = s_rec[s_sp.index].head
  PROVE  \E size \in 0 .. h : S!ListFrom(x) = [i \in 1 .. size |-> stk[h + 1 - i]]
<1>. DEFINE top == MaxNodes + 1
            Walk(w) == w = [i \in 1 .. top |->
              IF i = 1 THEN x ELSE IF w[i - 1] = NULL THEN NULL ELSE s_next[w[i - 1]]]
            g == [i \in 1 .. top |-> IF i <= h THEN stk[h + 1 - i] ELSE NULL]
<1>0. /\ h \in Nat /\ MaxNodes \in Nat /\ x = IF h = 0 THEN NULL ELSE stk[h]
      /\ \A i \in 1 .. h : /\ stk[i] # NULL
                           /\ s_next[stk[i]] = IF i = 1 THEN NULL ELSE stk[i - 1]
  BY SConstants DEF InStack
<1>1. \A i \in 1 .. top :
        g[i] = IF i = 1 THEN x ELSE IF g[i - 1] = NULL THEN NULL ELSE s_next[g[i - 1]]
  <2>. SUFFICES ASSUME NEW i \in 1 .. top
                PROVE  g[i] = IF i = 1 THEN x ELSE IF g[i - 1] = NULL THEN NULL
                                                   ELSE s_next[g[i - 1]]
    OBVIOUS
  <2>1. CASE i = 1
    <3>1. h + 1 - 1 = h /\ (1 <= h <=> h # 0)
      BY <1>0
    <3>. QED
      BY <1>0, <2>1, <3>1
  <2>2. CASE i # 1 /\ i - 1 <= h
    <3>1. PICK n \in 1 .. h : n = h + 1 - (i - 1)
      BY <1>0, <2>2
    <3>2. i - 1 \in 1 .. top /\ (n = 1 <=> ~(i <= h)) /\ (n # 1 => n - 1 = h + 1 - i)
      BY <1>0, <2>2, <3>1
    <3>3. g[i - 1] = stk[n]
      BY <2>2, <3>1, <3>2
    <3>4. g[i] = IF n = 1 THEN NULL ELSE stk[n - 1]
      BY <3>2
    <3>. HIDE DEF g
    <3>. QED
      BY <1>0, <2>2, <3>3, <3>4
  <2>3. CASE i # 1 /\ ~(i - 1 <= h)
    <3>1. i - 1 \in 1 .. top /\ ~(i <= h)
      BY <1>0, <2>3
    <3>. QED
      BY <2>3, <3>1
  <2>. QED
    BY <2>1, <2>2, <2>3
<1>2. Walk(g)
  BY <1>1
<1>3. ASSUME NEW w, Walk(w)
      PROVE  w = g
  <2>. DEFINE T == {i \in 1 .. top : w[i] # g[i]}
  <2>1. \A i \in 1 .. top :
          w[i] = IF i = 1 THEN x ELSE IF w[i - 1] = NULL THEN NULL ELSE s_next[w[i - 1]]
    BY <1>3
  <2>2. w = [i \in 1 .. top |-> w[i]] /\ g = [i \in 1 .. top |-> g[i]]
    <3>1. g = [i \in 1 .. top |-> g[i]]
      OBVIOUS
    <3>. HIDE DEF g
    <3>. QED
      BY <1>3, <3>1
  <2>. HIDE DEF g
  <2>3. T = {}
    <3>. SUFFICES ASSUME T # {} PROVE FALSE
      OBVIOUS
    <3>1. PICK i \in T : \A m \in T : i <= m
      <4>1. T \subseteq Nat
        BY <1>0
      <4>. HIDE DEF T
      <4>. QED
        BY <4>1, LeastNatural
    <3>2. i # 1 => i - 1 \in 1 .. top /\ ~(i <= i - 1)
      BY <1>0, <3>1
    <3>. QED
      BY <1>1, <2>1, <3>1, <3>2
  <2>. QED
    BY <2>2, <2>3
<1>. DEFINE node == CHOOSE w : Walk(w)
            size == S!Cardinality({i \in S!Nodes : node[i] # NULL})
<1>4. S!ListFrom(x) = [i \in 1 .. size |-> node[i]]
  BY Zenon DEF S!ListFrom
<1>5. node = g
  <2>. HIDE DEF Walk, g
  <2>. QED
    BY <1>2, <1>3
<1>6. size \in 0 .. h /\ \A i \in 1 .. size : i \in 1 .. top
  <2>. DEFINE W == {i \in S!Nodes : node[i] # NULL}
  <2>1. W \subseteq 1 .. h /\ W \subseteq 1 .. MaxNodes
    <3>1. \A i \in 1 .. MaxNodes : i \in 1 .. top /\ (~(i <= h) => g[i] = NULL)
      BY <1>0
    <3>. HIDE DEF g, node
    <3>. QED
      BY <1>0, <1>5, <3>1, SConstants
  <2>2. size = Cardinality(W)
    BY DEF S!Cardinality, Cardinality
  <2>. HIDE DEF W, size
  <2>3. \A n \in Nat : IsFiniteSet(1 .. n) /\ Cardinality(1 .. n) = n
    BY FS_Interval
  <2>4. size \in Nat /\ size <= h /\ size <= MaxNodes
    <3>1. /\ IsFiniteSet(1 .. h) /\ Cardinality(1 .. h) = h
          /\ IsFiniteSet(1 .. MaxNodes) /\ Cardinality(1 .. MaxNodes) = MaxNodes
      BY <1>0, <2>3
    <3>2. /\ Cardinality(W) <= Cardinality(1 .. h) /\ IsFiniteSet(W)
          /\ Cardinality(W) <= Cardinality(1 .. MaxNodes)
      BY <2>1, <3>1, FS_Subset
    <3>. QED
      BY <2>2, <3>1, <3>2, FS_CardinalityType
  <2>. QED
    BY <1>0, <2>4
<1>7. \A i \in 1 .. size : node[i] = stk[h + 1 - i]
  <2>1. \A i \in 1 .. top : i <= h => g[i] = stk[h + 1 - i]
    OBVIOUS
  <2>. HIDE DEF g, node, size
  <2>. QED
    BY <1>0, <1>5, <1>6, <2>1
<1>8. S!ListFrom(x) = [i \in 1 .. size |-> stk[h + 1 - i]]
  <2>. HIDE DEF node, size
  <2>. QED
    BY <1>4, <1>7
<1>. HIDE DEF size
<1>. QED
  BY <1>6, <1>8

(* f is a sequence of nodes whose places are the c - 1, c - 2, ... of a     *)
(* kind.                                                                    *)
Placed(f, kind, u, loc) ==
  \E len \in Nat, c \in Int :
    DOMAIN f = 1 .. len /\ \A i \in 1 .. len : loc[f[i]] = <<kind, u, c - i>>

LEMMA PlacedApart ==
  ASSUME NEW f, NEW g, NEW k1, NEW u1, NEW k2, NEW u2, NEW loc,
         Placed(f, k1, u1, loc), Placed(g, k2, u2, loc)
  PROVE  /\ S!IsInjective(f)
         /\ k1 # k2 \/ u1 # u2 => S!ToSet(f) \cap S!ToSet(g) = {}
<1>1. PICK len \in Nat, c \in Int :
        DOMAIN f = 1 .. len /\ \A i \in 1 .. len : loc[f[i]] = <<k1, u1, c - i>>
  BY DEF Placed
<1>2. PICK len2 \in Nat, c2 \in Int :
        DOMAIN g = 1 .. len2 /\ \A i \in 1 .. len2 : loc[g[i]] = <<k2, u2, c2 - i>>
  BY DEF Placed
<1>3. S!IsInjective(f)
  <2>1. \A i, m \in 1 .. len : f[i] = f[m] => i = m
    <3>. SUFFICES ASSUME NEW i \in 1 .. len, NEW m \in 1 .. len, f[i] = f[m] PROVE i = m
      OBVIOUS
    <3>1. <<k1, u1, c - i>> = <<k1, u1, c - m>>
      BY <1>1
    <3>2. c - i = c - m
      BY <3>1
    <3>. QED
      BY <3>2
  <2>. QED
    BY <1>1, <2>1 DEF S!IsInjective
<1>4. ASSUME NEW i \in 1 .. len, NEW m \in 1 .. len2, f[i] = g[m]
      PROVE  k1 = k2 /\ u1 = u2
  <2>1. <<k1, u1, c - i>> = <<k2, u2, c2 - m>>
    BY <1>1, <1>2, <1>4
  <2>. QED
    BY <2>1
<1>. QED
  BY <1>1, <1>2, <1>3, <1>4 DEF S!ToSet

(* The sequences of which NoNodeTwice speaks.                               *)
StackPlaces == {<<"stack", NULL>>} \cup ({"pool", "pushed", "popped"} \X S!Threads)

NodesAt(p) ==
  CASE p[1] = "stack" -> S!ListFrom(s_rec[s_sp.index].head)
    [] p[1] = "pool" -> s_th[p[2]].pool
    [] p[1] = "pushed" -> S!Pushed(p[2])
    [] p[1] = "popped" -> S!Popped(p[2])

Kind(p) == IF p[1] \in {"pushed", "popped"} THEN "own" ELSE p[1]
Holder(p) == IF p[1] = "stack" THEN 0 ELSE p[2]

LEMMA OwnedArePlaced ==
  ASSUME StackShape, NEW t \in S!Threads, NEW own, NEW loc, OwnedBy(own, loc, t)
  PROVE  /\ Placed(S!Pushed(t), "own", t, loc) /\ Placed(S!Popped(t), "own", t, loc)
         /\ S!Pushed(t) = <<>> \/ S!Popped(t) = <<>>
<1>1. ThreadShape(t) /\ ThreadTypes(t)
  BY DEF StackShape, ThreadShape
<1>2. PICK k \in Nat : k = OwnSize(t)
  BY <1>1 DEF ThreadTypes, OwnSize
<1>3. /\ IsChain(own[t], k, OwnTop(t))
      /\ \A i \in 1 .. k : own[t][i] \in S!Nodes /\ loc[own[t][i]] = <<"own", t, i>>
      /\ k > 0 => OwnTop(t) \in S!Nodes
  <2>1. k > 0 => k \in 1 .. k
    OBVIOUS
  <2>. QED
    BY <1>2, <2>1 DEF OwnedBy, IsChain
<1>4. ASSUME NEW x, k > 0 => x = OwnTop(t)
      PROVE  Placed(S!FirstNodes(x, k), "own", t, loc)
  <2>1. IsChain(own[t], k, x)
    BY <1>3, <1>4 DEF IsChain
  <2>2. S!FirstNodes(x, k) = [i \in 1 .. k |-> own[t][k + 1 - i]]
    BY <2>1, FirstNodesAre
  <2>3. ASSUME NEW i \in 1 .. k
        PROVE  loc[own[t][k + 1 - i]] = <<"own", t, k + 1 - i>>
    <3>1. k + 1 - i \in 1 .. k
      OBVIOUS
    <3>. QED
      BY <1>3, <3>1
  <2>4. DOMAIN S!FirstNodes(x, k) = 1 .. k
        /\ \A i \in 1 .. k : loc[S!FirstNodes(x, k)[i]] = <<"own", t, (k + 1) - i>>
    BY <2>2, <2>3
  <2>5. k + 1 \in Int
    OBVIOUS
  <2>. QED
    BY <2>4, <2>5 DEF Placed
<1>5. Placed(<<>>, "own", t, loc)
  <2>1. DOMAIN <<>> = 1 .. 0 /\ 0 \in Nat /\ 0 \in Int
    OBVIOUS
  <2>. QED
    BY <2>1 DEF Placed
<1>6. Placed(S!Pushed(t), "own", t, loc)
  <2>1. CASE s_pc[t] \in Linking
    <3>1. k = s_my[t].push_counter
      BY <1>2, <2>1 DEF OwnSize, Linking
    <3>2. PICK x : x = IF s_my[t].free_list = NULL THEN s_rec[S!lsp(t)].head ELSE s_my[t].free_list
      OBVIOUS
    <3>3. k > 0 => x = OwnTop(t)
      BY <1>1, <1>3, <3>2, <2>1, SConstants DEF OwnTop, ThreadShape, LocalsAreFresh, Linking
    <3>4. S!Pushed(t) = S!FirstNodes(x, k)
      BY <2>1, <3>1, <3>2 DEF S!Pushed, Linking
    <3>. QED
      BY <1>4, <3>3, <3>4
  <2>2. CASE s_pc[t] \notin Linking
    BY <1>5, <2>2 DEF S!Pushed, Linking
  <2>. QED
    BY <2>1, <2>2
<1>7. Placed(S!Popped(t), "own", t, loc)
  <2>1. CASE s_pc[t] = "installed"
    <3>1. S!Popped(t) = S!FirstNodes(OwnTop(t), k)
      BY <1>2, <2>1 DEF OwnSize, OwnTop, S!Popped
    <3>. QED
      BY <1>4, <3>1
  <2>2. CASE s_pc[t] # "installed"
    BY <1>5, <2>2 DEF S!Popped
  <2>. QED
    BY <2>1, <2>2
<1>8. S!Pushed(t) = <<>> \/ S!Popped(t) = <<>>
  BY DEF S!Pushed, S!Popped
<1>. QED
  BY <1>6, <1>7, <1>8

LEMMA NodesArePlaced ==
  ASSUME StackShape, NEW h, NEW stk, NEW own, NEW loc, Layout(h, stk, own, loc),
         NEW p \in StackPlaces
  PROVE  Placed(NodesAt(p), Kind(p), Holder(p), loc)
<1>1. CASE p = <<"stack", NULL>>
  <2>1. InStack(h, stk, loc) /\ h \in Nat
    BY DEF Layout, InStack
  <2>2. PICK size \in 0 .. h :
          S!ListFrom(s_rec[s_sp.index].head) = [i \in 1 .. size |-> stk[h + 1 - i]]
    BY <2>1, ListFromIsStack
  <2>3. NodesAt(p) = [i \in 1 .. size |-> stk[h + 1 - i]] /\ Kind(p) = "stack" /\ Holder(p) = 0
    BY <1>1, <2>2 DEF NodesAt, Kind, Holder
  <2>4. ASSUME NEW i \in 1 .. size
        PROVE  loc[stk[h + 1 - i]] = <<"stack", 0, (h + 1) - i>>
    <3>1. h + 1 - i \in 1 .. h
      BY <2>1
    <3>. QED
      BY <2>1, <3>1 DEF InStack
  <2>5. size \in Nat /\ h + 1 \in Int
    BY <2>1
  <2>6. DOMAIN NodesAt(p) = 1 .. size
        /\ \A i \in 1 .. size : loc[NodesAt(p)[i]] = <<"stack", 0, (h + 1) - i>>
    BY <2>3, <2>4
  <2>. QED
    BY <2>3, <2>5, <2>6 DEF Placed
<1>2. ASSUME NEW t \in S!Threads, p = <<"pool", t>>
      PROVE  Placed(NodesAt(p), Kind(p), Holder(p), loc)
  <2>1. InPool(loc, t) /\ s_th[t].pool \in Seq(S!Nodes)
    BY DEF Layout, ThreadLayout, StackShape, ThreadShape, ThreadTypes
  <2>2. NodesAt(p) = s_th[t].pool /\ Kind(p) = "pool" /\ Holder(p) = t
    BY <1>2 DEF NodesAt, Kind, Holder
  <2>3. /\ Len(s_th[t].pool) \in Nat /\ Len(s_th[t].pool) \in Int
        /\ DOMAIN s_th[t].pool = 1 .. Len(s_th[t].pool)
    BY <2>1
  <2>. QED
    BY <2>1, <2>2, <2>3 DEF Placed, InPool
<1>3. ASSUME NEW t \in S!Threads, p = <<"pushed", t>> \/ p = <<"popped", t>>
      PROVE  Placed(NodesAt(p), Kind(p), Holder(p), loc)
  <2>1. NodesAt(p) \in {S!Pushed(t), S!Popped(t)} /\ Kind(p) = "own" /\ Holder(p) = t
    BY <1>3 DEF NodesAt, Kind, Holder
  <2>2. OwnedBy(own, loc, t)
    BY DEF Layout, ThreadLayout
  <2>. QED
    BY <2>1, <2>2, OwnedArePlaced
<1>. QED
  BY <1>1, <1>2, <1>3 DEF StackPlaces

LEMMA NoNodeTwiceFollows == StackInv => S!NoNodeTwice
<1>. SUFFICES ASSUME StackInv PROVE S!NoNodeTwice
  OBVIOUS
<1>1. PICK h, stk, own, loc : Layout(h, stk, own, loc)
  BY DEF StackInv
<1>2. \A p \in StackPlaces : Placed(NodesAt(p), Kind(p), Holder(p), loc)
  BY <1>1, NodesArePlaced DEF StackInv
<1>3. \A p \in StackPlaces : S!IsInjective(NodesAt(p))
  BY <1>2, PlacedApart
<1>4. ASSUME NEW p \in StackPlaces, NEW q \in StackPlaces, p # q
      PROVE  S!ToSet(NodesAt(p)) \cap S!ToSet(NodesAt(q)) = {}
  <2>1. CASE Kind(p) # Kind(q) \/ Holder(p) # Holder(q)
    BY <1>2, <2>1, PlacedApart
  <2>2. CASE Kind(p) = Kind(q) /\ Holder(p) = Holder(q)
    <3>1. PICK t \in S!Threads : \/ p = <<"pushed", t>> /\ q = <<"popped", t>>
                                 \/ p = <<"popped", t>> /\ q = <<"pushed", t>>
      BY <1>4, <2>2 DEF StackPlaces, Kind, Holder
    <3>2. NodesAt(p) = <<>> \/ NodesAt(q) = <<>>
      <4>1. OwnedBy(own, loc, t)
        BY <1>1 DEF Layout, ThreadLayout
      <4>2. S!Pushed(t) = <<>> \/ S!Popped(t) = <<>>
        BY <4>1, OwnedArePlaced DEF StackInv
      <4>. QED
        BY <3>1, <4>2 DEF NodesAt
    <3>3. S!ToSet(<<>>) = {}
      BY DEF S!ToSet
    <3>. QED
      BY <3>2, <3>3
  <2>. QED
    BY <2>1, <2>2
<1>. QED
  BY <1>3, <1>4, Zenon DEF S!NoNodeTwice, StackPlaces, NodesAt

(* No node of SimStack is in two places, of the stack, the pools and the    *)
(* attempts under way, whoever reads what nodes that have been recycled.    *)
THEOREM StackNodesAreInOnePlaceHolds == MCSpec => []StackNodesAreInOnePlace
<1>. DEFINE Inv == which = "SimStack" => StackInv
<1>1. MCInit => Inv
  BY StackInvInit DEF MCInit
<1>2. Inv /\ [MCNext]_allVars => Inv'
  <2>. SUFFICES ASSUME Inv, [MCNext]_allVars, (which = "SimStack")' PROVE StackInv'
    OBVIOUS
  <2>1. CASE UNCHANGED allVars
    BY <2>1, StackInvStutter DEF allVars
  <2>2. CASE MCNext
    BY <2>2, StackInvNext DEF MCNext
  <2>. QED
    BY <2>1, <2>2
<1>3. Inv => StackNodesAreInOnePlace
  BY NoNodeTwiceFollows DEF StackNodesAreInOnePlace
<1>. QED
  BY <1>1, <1>2, <1>3, PTL DEF MCSpec
=============================================================================
