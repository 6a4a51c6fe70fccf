--------------------------- MODULE BatchedObject ---------------------------
(***************************************************************************)
(* What Sim promises (includes/sim.h): as AtomicObject, except that one    *)
(* step may serve the pending requests of several threads, one after the   *)
(* other. The requests of one such step are all pending together, so any   *)
(* order among them is a linearization.                                    *)
(***************************************************************************)
EXTENDS Integers, Sequences, SequencesExt

CONSTANTS
  Threads,            (* the calling threads                               *)
  Args,               (* the requests they may pass                        *)
  InitialState,       (* the object before any request                     *)
  NoResult,           (* "this thread has had no answer yet"               *)
  NewState(_, _, _),  (* the two halves of sfunc, see AtomicObject         *)
  Result(_, _, _)

VARIABLES obj, op, result

vars == <<obj, op, result>>

One == INSTANCE AtomicObject

Init == One!Init

Call(t, a) == One!Call(t, a)

(* The states of the object as the requests args of the threads order take   *)
(* effect one after the other.                                              *)
Replay(s, order, args) ==
  LET after[i \in 0 .. Len(order)] ==
        IF i = 0 THEN s ELSE NewState(after[i - 1], args[i], order[i])
  IN  after

(* The pending requests of the threads in order take effect, in that order. *)
ApplyBatch(order) ==
  LET args == [i \in DOMAIN order |-> op[order[i]].arg]
      after == Replay(obj, order, args)
      answer(i) == Result(after[i - 1], args[i], order[i])
  IN  /\ order # <<>>
      /\ \A i \in DOMAIN order : op[order[i]].status = "pending"
      /\ obj' = after[Len(order)]
      /\ op' = [t \in Threads |->
                  IF \E i \in DOMAIN order : order[i] = t
                  THEN One!Done(answer(CHOOSE i \in DOMAIN order : order[i] = t))
                  ELSE op[t]]
      /\ UNCHANGED result

Return(t) == One!Return(t)

Next ==
  \/ \E t \in Threads : (\E a \in Args : Call(t, a)) \/ Return(t)
  \/ \E S \in SUBSET Threads : \E order \in SetToSeqs(S) : ApplyBatch(order)

Spec == Init /\ [][Next]_vars
=============================================================================
