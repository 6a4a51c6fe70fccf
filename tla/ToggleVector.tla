---------------------------- MODULE ToggleVector ----------------------------
(***************************************************************************)
(* The bit vectors of libconcurrent/includes/tvec.h, in words, as Sim uses *)
(* them (sim.c, and likewise simstack.c and simqueue.c): a thread flips    *)
(* its bit of a_toggles by adding +mask or -mask to one word; a combiner   *)
(* copies a_toggles word by word and takes the bits in which it differs    *)
(* from applied for the requests to serve. Module Sim has the competition  *)
(* of combiners, and functions from threads to bits for the vectors; here  *)
(* is one combiner at a time, and the arithmetic.                          *)
(***************************************************************************)
EXTENDS Integers, FiniteSetsExt

CONSTANTS
  nthreads,
  Width,     (* _TVEC_BIWORD_SIZE_, 64 in the code                         *)
  NULL

ConstantsAssumption ==
  nthreads \in Nat \ {0} /\ Width \in Nat \ {0} /\ NULL \notin Int

Threads == 0 .. nthreads - 1
tvec_cells == nthreads \div Width + 1
Banks == 0 .. tvec_cells - 1
Words == 0 .. 2 ^ Width - 1

VARIABLES
  a_toggles,
  my_bit, toggle,           (* vectors of each thread                      *)
  pc,
  applied,                  (* of the installed record                     *)
  l_toggles, diffs,         (* of the combiner                             *)
  combiner, bank,           (* who it is, and the next word to be copied   *)
  waiting,                  (* history: threads whose call is not served,  *)
  due                       (* and those that waited when the copy began   *)

threadVars == <<a_toggles, my_bit, toggle, pc>>
combinerVars == <<applied, l_toggles, diffs, combiner, bank, due>>
vars == <<threadVars, combinerVars, waiting>>

-----------------------------------------------------------------------------
(* A word as the set of its bits that are 1, and back. (The operators of    *)
(* Bitwise are RECURSIVE, which the modules beside this one, about which    *)
(* there are proofs, may not reach.)                                        *)
Ones(v) == {i \in 0 .. Width - 1 : (v \div 2 ^ i) % 2 = 1}
Word(bits) == MapThenSumSet(LAMBDA i : 2 ^ i, bits)

v ^^ w == Word((Ones(v) \ Ones(w)) \cup (Ones(w) \ Ones(v)))
v | w == Word(Ones(v) \cup Ones(w))

Zero == [b \in Banks |-> 0]                               \* TVEC_SET_ZERO
TVEC_REVERSE_BIT(v, bit) == [v EXCEPT ![bit \div Width] = @ ^^ (2 ^ (bit % Width))]
TVEC_SET_BIT(v, bit) == [v EXCEPT ![bit \div Width] = @ | (2 ^ (bit % Width))]
TVEC_IS_SET(v, bit) == bit % Width \in Ones(v[bit \div Width])
TVEC_XOR(v, w) == [b \in Banks |-> v[b] ^^ w[b]]

(* Mutant of TVEC_NEGATIVE_BANK: the sign stays. *)
TVEC_SAME_BANK(v, b) == v

TVEC_NEGATIVE_BANK(v, b) == [v EXCEPT ![b] = (-@) % 2 ^ Width]

TVEC_NEGATIVE(v) == [b \in Banks |-> (-v[b]) % 2 ^ Width]
TVEC_ATOMIC_ADD_BANK(v, w, b) == [v EXCEPT ![b] = (@ + w[b]) % 2 ^ Width]

TVEC_GET_BANK_OF_BIT(bit) == IF nthreads > Width THEN bit \div Width ELSE 0

(* synchSimStructInit and SimThreadStateInit: my_bit starts with the bit of *)
(* the thread set, a_toggles and applied with no bit set.                   *)
Init ==
  /\ a_toggles = Zero
  /\ my_bit = [t \in Threads |-> TVEC_REVERSE_BIT(Zero, t)]
  /\ toggle = [t \in Threads |-> TVEC_NEGATIVE(TVEC_SET_BIT(Zero, t))]
  /\ pc = [t \in Threads |-> "out"]
  /\ applied = Zero /\ l_toggles = Zero /\ diffs = Zero
  /\ combiner = NULL /\ bank = 0
  /\ waiting = {} /\ due = {}

(* The thread prepares its vectors, *)
Call(t) ==
  /\ pc[t] = "out"
  /\ my_bit' = [my_bit EXCEPT ![t] = TVEC_REVERSE_BIT(@, t)]
  /\ toggle' = [toggle EXCEPT ![t] = TVEC_NEGATIVE_BANK(@, TVEC_GET_BANK_OF_BIT(t))]
  /\ pc' = [pc EXCEPT ![t] = "add"]
  /\ UNCHANGED <<a_toggles, combinerVars, waiting>>

(* and adds one word of toggle to a_toggles.                                *)
Add(t) ==
  /\ pc[t] = "add"
  /\ a_toggles' = TVEC_ATOMIC_ADD_BANK(a_toggles, toggle[t], TVEC_GET_BANK_OF_BIT(t))
  /\ pc' = [pc EXCEPT ![t] = "called"]
  /\ waiting' = waiting \cup {t}
  /\ UNCHANGED <<my_bit, toggle, combinerVars>>

(* TVEC_ATOMIC_COPY_BANKS of applied, TVEC_XOR_BANKS with my_bit and        *)
(* TVEC_IS_SET: has the request of t been applied already?                  *)
IsApplied(t) ==
  LET b == TVEC_GET_BANK_OF_BIT(t)
  IN  TVEC_IS_SET([Zero EXCEPT ![b] = applied[b] ^^ my_bit[t][b]], t)

(* If it has, the thread returns; *)
Return(t) ==
  /\ pc[t] = "called" /\ combiner # t
  /\ IsApplied(t)
  /\ pc' = [pc EXCEPT ![t] = "out"]
  /\ UNCHANGED <<a_toggles, my_bit, toggle, combinerVars, waiting>>

(* if not, it prepares a record.                                            *)
Combine(t) ==
  /\ pc[t] = "called" /\ combiner = NULL
  /\ ~IsApplied(t)
  /\ combiner' = t /\ bank' = 0
  /\ due' = waiting
  /\ UNCHANGED <<threadVars, applied, l_toggles, diffs, waiting>>

(* TVEC_COPY of a_toggles, a memcpy: one word after the other. *)
CopyBank ==
  /\ combiner # NULL /\ bank \in Banks
  /\ l_toggles' = [l_toggles EXCEPT ![bank] = a_toggles[bank]]
  /\ bank' = bank + 1
  /\ UNCHANGED <<threadVars, applied, diffs, combiner, due, waiting>>

(* TVEC_XOR; the combiner serves its own request and takes its bit out.     *)
Compare ==
  /\ bank = tvec_cells
  /\ diffs' = TVEC_REVERSE_BIT(TVEC_XOR(applied, l_toggles), combiner)
  /\ bank' = bank + 1
  /\ waiting' = waiting \ {combiner}
  /\ UNCHANGED <<threadVars, applied, l_toggles, combiner, due>>

(* One round of the loop: the lowest bit of the first bank that is not 0    *)
(* (synchBitSearchFirst) is cleared, and its thread's request served.       *)
Serve ==
  /\ bank = tvec_cells + 1
  /\ \E b \in Banks, pos \in 0 .. Width - 1 :
       /\ \A c \in Banks : c < b => diffs[c] = 0
       /\ diffs[b] % 2 ^ (pos + 1) = 2 ^ pos
       /\ diffs' = [diffs EXCEPT ![b] = @ ^^ (2 ^ pos)]
       /\ waiting' = waiting \ {b * Width + pos}
  /\ UNCHANGED <<threadVars, applied, l_toggles, combiner, bank, due>>

(* TVEC_COPY to applied; the record is installed and the combiner returns.  *)
SetApplied ==
  /\ bank = tvec_cells + 1 /\ diffs = Zero
  /\ applied' = l_toggles
  /\ pc' = [pc EXCEPT ![combiner] = "out"]
  /\ combiner' = NULL /\ bank' = 0 /\ due' = {}
  /\ UNCHANGED <<a_toggles, my_bit, toggle, l_toggles, diffs, waiting>>

Next ==
  \/ \E t \in Threads : Call(t) \/ Add(t) \/ Return(t) \/ Combine(t)
  \/ CopyBank \/ Compare \/ Serve \/ SetApplied

Spec == Init /\ [][Next]_vars

-----------------------------------------------------------------------------
(* What one word's addition and the copy of words one by one come to: a     *)
(* thread finds its request applied when it has been served, and only then; *)
(* no carry or borrow of an addition reaches the bit of another thread.     *)
AppliedExactlyWhenServed ==
  combiner = NULL =>
    \A t \in Threads :
      /\ pc[t] = "called" => (IsApplied(t) <=> t \notin waiting)
      /\ pc[t] # "called" => t \notin waiting

(* A record serves requests that wait, and none twice; and all those that   *)
(* were announced before the copy of a_toggles began, though that copy may  *)
(* be of a vector that a_toggles never was.                                 *)
RoundServesWhoWaits ==
  bank = tvec_cells + 1 =>
    \A t \in Threads :
      /\ TVEC_IS_SET(diffs, t) => t \in waiting
      /\ t \in due /\ ~TVEC_IS_SET(diffs, t) => t \notin waiting
=============================================================================
