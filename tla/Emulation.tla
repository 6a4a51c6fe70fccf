----------------------------- MODULE Emulation -----------------------------
(***************************************************************************)
(* _SWAP, _FAA32 and _FAA64 of libconcurrent/primitives/primitives.c as    *)
(* they are built with SYNCH_EMULATE_SWAP and SYNCH_EMULATE_FAA: loops     *)
(* around a CAS. All other modules take these operations as atomic steps.  *)
(***************************************************************************)
EXTENDS Integers

CONSTANTS
  Threads,
  Bits32, Bits64,   (* widths of the words, 32 and 64 in the code          *)
  Addends,          (* what is swapped in or added                         *)
  NULL

ConstantsAssumption ==
  /\ Bits32 \in Nat \ {0} /\ Bits64 \in Nat \ {0}
  /\ Addends \subseteq Int /\ NULL \notin Int

Ops == {"SWAP", "FAA32", "FAA64"}

VARIABLES
  word,      (* word[o]: the memory at A that operation o works on         *)
  pc,
  call,      (* the operation and B                                        *)
  old_val,   (* local                                                      *)
  answer

vars == <<word, pc, call, old_val, answer>>

Goto(t, from, to) ==
  /\ pc[t] = from
  /\ pc' = [pc EXCEPT ![t] = to]

-----------------------------------------------------------------------------
Init ==
  /\ word = [o \in Ops |-> 0]
  /\ pc = [t \in Threads |-> "out"]
  /\ call = [t \in Threads |-> NULL]
  /\ old_val = [t \in Threads |-> NULL]
  /\ answer = [t \in Threads |-> NULL]

(* new_val = B *)
Swapped(old, b) == b

(* new_val = old_val + B, in two's complement *)
Wrapped(i, bits) == ((i + 2^(bits - 1)) % 2^bits) - 2^(bits - 1)
Added32(old, b) == Wrapped(old + b, Bits32)
Added64(old, b) == Wrapped(old + b, Bits64)

NewVal(o, old, b) ==
  IF o = "SWAP" THEN Swapped(old, b)
  ELSE IF o = "FAA32" THEN Added32(old, b)
  ELSE Added64(old, b)

Call(t, o, b) ==
  /\ Goto(t, "out", "read")
  /\ call' = [call EXCEPT ![t] = <<o, b>>]
  /\ answer' = [answer EXCEPT ![t] = NULL]
  /\ UNCHANGED <<word, old_val>>

Read(t) ==
  /\ Goto(t, "read", "check")
  /\ old_val' = [old_val EXCEPT ![t] = word[call[t][1]]]
  /\ UNCHANGED <<word, call, answer>>

(* The loop looks first whether *A == old_val still holds ...               *)
Check(t) ==
  /\ Goto(t, "check", IF word[call[t][1]] = old_val[t] THEN "cas" ELSE "read")
  /\ UNCHANGED <<word, call, old_val, answer>>

(* Mutant of TryInstall: the check stands in for the CAS. *)
Store(t) ==
  /\ Goto(t, "cas", "return")
  /\ word' = [word EXCEPT ![call[t][1]] = NewVal(call[t][1], old_val[t], call[t][2])]
  /\ UNCHANGED <<call, old_val, answer>>

(* ... and then tries synchCAS(A, old_val, new_val).                        *)
TryInstall(t) ==
  LET o    == call[t][1]
      done == word[o] = old_val[t]
  IN  /\ Goto(t, "cas", IF done THEN "return" ELSE "read")
      /\ word' = [word EXCEPT ![o] = IF done THEN NewVal(o, @, call[t][2]) ELSE @]
      /\ UNCHANGED <<call, old_val, answer>>

(* return old_val *)
Return(t) ==
  /\ Goto(t, "return", "out")
  /\ answer' = [answer EXCEPT ![t] = old_val[t]]
  /\ old_val' = [old_val EXCEPT ![t] = NULL]
  /\ call' = [call EXCEPT ![t] = NULL]
  /\ UNCHANGED word

Step(t) == Read(t) \/ Check(t) \/ TryInstall(t) \/ Return(t)

Next == \E t \in Threads : Step(t) \/ \E o \in Ops, b \in Addends : Call(t, o, b)

Spec == Init /\ [][Next]_vars

-----------------------------------------------------------------------------
Served(t) ==
  IF pc[t] = "out" THEN [status |-> "idle"]
  ELSE IF pc[t] = "return" THEN [status |-> "done", ret |-> old_val[t]]
  ELSE [status |-> "pending", arg |-> call[t]]

NewWords(w, c, t) == [w EXCEPT ![c[1]] = NewVal(c[1], @, c[2])]
OldWord(w, c, t) == w[c[1]]

Atomic == INSTANCE AtomicObject WITH
            Args <- Ops \X Addends,
            InitialState <- [o \in Ops |-> 0],
            NoResult <- NULL,
            NewState <- NewWords,
            Result <- OldWord,
            obj <- word,
            op <- [t \in Threads |-> Served(t)],
            result <- answer

(* The emulated operations are atomic, as those of the processor.           *)
ImplementsAtomicWord == Atomic!Spec

=============================================================================
