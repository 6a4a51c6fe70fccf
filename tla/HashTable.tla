----------------------------- MODULE HashTable -----------------------------
(***************************************************************************)
(* The hash tables of libconcurrent/concurrent/clhhash.c and dsmhash.c: a  *)
(* table of cells, each a linked chain of nodes under a CLH lock of its    *)
(* own, or on a DSM-Synch object of its own. A thread announces its        *)
(* request in its place of an array; serialOperations reads it there.      *)
(*                                                                         *)
(* Lock and combining object appear by what they promise: one request at a *)
(* time is served in each cell. No other thread reads or writes the cell   *)
(* meanwhile, so serialOperations is one action. A chain is the sequence   *)
(* of its nodes' keys; values are never read back, and nodes come from an  *)
(* unbounded pool and are never recycled, so neither appears.              *)
(***************************************************************************)
EXTENDS Integers, Sequences, SequencesExt

CONSTANTS
  Threads,
  Keys,      (* the keys in use, not negative: key % size must be a cell   *)
  size,      (* the number of cells                                        *)
  NULL,
  Variant    (* which table it is, "CLHHash" or "DSMHash"                  *)

ConstantsAssumption ==
  size \in Nat \ {0} /\ Keys \subseteq Nat /\ NULL \notin BOOLEAN

(* With a lock a thread serves its own request, with DSM-Synch a combiner   *)
(* may do it for any thread that calls on the same cell.                    *)
CLHHash == [combines |-> FALSE]
DSMHash == [combines |-> TRUE]

Source == [CLHHash |-> CLHHash, DSMHash |-> DSMHash][Variant]

hash_func(key) == key % size
Cells == 0 .. size - 1

VARIABLES
  cells,      (* the chains                                                *)
  announce,   (* each thread's op and key                                  *)
  pc,
  answer,     (* what the last call of a thread returned                   *)
  members     (* history: the keys inserted and not deleted since          *)

vars == <<cells, announce, pc, answer, members>>

Ops == {"HT_INSERT", "HT_DELETE", "HT_SEARCH"}

-----------------------------------------------------------------------------
(* CLHHashStructInit and DSMHashInit, with the state of every thread. *)
Init ==
  /\ cells = [c \in Cells |-> <<>>]
  /\ announce = [t \in Threads |-> NULL]
  /\ pc = [t \in Threads |-> "out"]
  /\ answer = [t \in Threads |-> NULL]
  /\ members = {}

(* The first part of *HashInsert, *HashDelete and *HashSearch; the thread   *)
(* then waits for the cell.                                                 *)
Announce(t, o, key) ==
  /\ pc[t] = "out"
  /\ announce' = [announce EXCEPT ![t] = [op |-> o, key |-> key, cell |-> hash_func(key)]]
  /\ pc' = [pc EXCEPT ![t] = "called"]
  /\ answer' = [answer EXCEPT ![t] = NULL]
  /\ UNCHANGED <<cells, members>>

(* serialOperations for the request of t, run by t or by a combiner of the  *)
(* cell.                                                                    *)
Serves(c, t, o) ==
  /\ pc[c] # "out" /\ pc[t] = "called"
  /\ announce[t].op = o
  /\ IF Source.combines THEN announce[c].cell = announce[t].cell ELSE c = t
  /\ pc' = [pc EXCEPT ![t] = "done"]
  /\ UNCHANGED announce

Chain(t) == cells[announce[t].cell]
Found(t) == Contains(Chain(t), announce[t].key)

(* Mutant of Insert: the chain is not searched first. *)
InsertAnyway(c, t) ==
  /\ Serves(c, t, "HT_INSERT")
  /\ cells' = [cells EXCEPT ![announce[t].cell] = <<announce[t].key>> \o @]
  /\ members' = members \cup {announce[t].key}
  /\ answer' = [answer EXCEPT ![t] = TRUE]

(* HT_INSERT: a key that is there already leaves the chain as it is, and    *)
(* the answer is true in both cases.                                        *)
Insert(c, t) ==
  /\ Serves(c, t, "HT_INSERT")
  /\ cells' = [cells EXCEPT ![announce[t].cell] =
                 IF Found(t) THEN @ ELSE <<announce[t].key>> \o @]
  /\ members' = members \cup {announce[t].key}
  /\ answer' = [answer EXCEPT ![t] = TRUE]

(* The chain that HT_DELETE leaves when the key is in its i-th node. prev   *)
(* stays at the top node during the first two rounds of the loop, and when  *)
(* top == prev the cell gets cur->next.                                     *)
Unlink(chain, i) ==
  IF i > 2 THEN RemoveAt(chain, i) ELSE SubSeq(chain, i + 1, Len(chain))

(* HT_DELETE *)
Delete(c, t) ==
  /\ Serves(c, t, "HT_DELETE")
  /\ cells' = [cells EXCEPT ![announce[t].cell] =
                 IF Found(t)
                   THEN Unlink(@, CHOOSE i \in 1 .. Len(@) : @[i] = announce[t].key)
                   ELSE @]
  /\ members' = members \ {announce[t].key}
  /\ answer' = [answer EXCEPT ![t] = Found(t)]

(* HT_SEARCH *)
Search(c, t) ==
  /\ Serves(c, t, "HT_SEARCH")
  /\ answer' = [answer EXCEPT ![t] = Found(t)]
  /\ UNCHANGED <<cells, members>>

Return(t) ==
  /\ pc[t] = "done"
  /\ pc' = [pc EXCEPT ![t] = "out"]
  /\ announce' = [announce EXCEPT ![t] = NULL]
  /\ UNCHANGED <<cells, answer, members>>

Next ==
  \/ \E t \in Threads :
       Return(t) \/ \E o \in Ops, key \in Keys : Announce(t, o, key)
  \/ \E c, t \in Threads : Insert(c, t) \/ Delete(c, t) \/ Search(c, t)

Spec == Init /\ [][Next]_vars

-----------------------------------------------------------------------------
(* A key has one node at most, in the cell of its hash, and only while it   *)
(* has been inserted and not deleted since: a second insertion, or one that *)
(* overtakes a deletion, leaves no node behind that a delete would miss.    *)
OneNodePerMember ==
  \A c \in Cells :
    /\ \A i, j \in 1 .. Len(cells[c]) : cells[c][i] = cells[c][j] => i = j
    /\ \A i \in 1 .. Len(cells[c]) :
         hash_func(cells[c][i]) = c /\ cells[c][i] \in members

(* clhhash.h and dsmhash.h: a delete removes its own key. So a key that was *)
(* inserted and not deleted since is in the table.                          *)
DeletesNothingElse == \A key \in members : Contains(cells[hash_func(key)], key)
=============================================================================
