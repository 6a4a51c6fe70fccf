----------------------------- MODULE QueueLock -----------------------------
(***************************************************************************)
(* What the queue locks of the framework promise (includes/clh.h, mcs.h):  *)
(* at most one thread is between the end of *Lock and the start of *Unlock,*)
(* and threads enter in the order in which they joined the queue.          *)
(***************************************************************************)
EXTENDS Sequences

CONSTANT Threads

VARIABLES
  queue,   (* the threads that have joined, in order; the head may enter   *)
  inside   (* the threads between the return of Lock and Unlock            *)

vars == <<queue, inside>>

Init ==
  /\ queue = <<>>
  /\ inside = {}

Joined(t) == \E i \in DOMAIN queue : queue[i] = t

(* t takes its place in the queue, inside its call of Lock. *)
Join(t) ==
  /\ ~Joined(t)
  /\ queue' = Append(queue, t)
  /\ UNCHANGED inside

(* The call of Lock returns. *)
Enter(t) ==
  /\ queue # <<>> /\ Head(queue) = t
  /\ t \notin inside
  /\ inside' = inside \cup {t}
  /\ UNCHANGED queue

(* Unlock makes the lock available to the next thread in the queue. *)
Leave(t) ==
  /\ t \in inside
  /\ inside' = inside \ {t}
  /\ queue' = Tail(queue)

Next == \E t \in Threads : Join(t) \/ Enter(t) \/ Leave(t)

Spec == Init /\ [][Next]_vars
=============================================================================
