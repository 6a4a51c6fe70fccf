-------------------------------- MODULE Pool --------------------------------
(***************************************************************************)
(* The memory pool of libconcurrent/primitives/pool.c: objects of one size *)
(* are cut out of blocks; objects given back are kept in a list; the last  *)
(* allocations can be cancelled. A pool is used by one thread.             *)
(***************************************************************************)
EXTENDS Integers, Sequences, FiniteSets

CONSTANTS
  Entries,    (* objects in a block                                        *)
  MaxBlocks,  (* a bound on the blocks                                     *)
  NULL

ConstantsAssumption ==
  /\ Entries \in Nat \ {0} /\ MaxBlocks \in Nat \ {0}
  /\ NULL \notin Int

Blocks == 1 .. MaxBlocks

VARIABLES
  entry,          (* entry[b]: cur_entry of block b; free_entries is the   *)
                  (* rest of Entries. NULL: there is no such block         *)
  next, back,     (* of the blocks                                         *)
  head_block, cur_block,
  recycle_list,
  held,           (* the objects the thread holds, in the order in which   *)
                  (* it was given them                                     *)
  usage           (* how the thread uses the pool, see Recycle, Rollback   *)

vars == <<entry, next, back, head_block, cur_block, recycle_list, held, usage>>

-----------------------------------------------------------------------------
(* get_new_block *)
NewBlock == CHOOSE b \in Blocks : entry[b] = NULL /\ \A c \in 1 .. b - 1 : entry[c] # NULL
BlocksLeft == \E b \in Blocks : entry[b] = NULL

(* synchInitPool. The stacks and the list queues recycle objects and never  *)
(* roll back; SimQueue rolls back and never recycles.                       *)
Init ==
  /\ entry = [b \in Blocks |-> IF b = 1 THEN 0 ELSE NULL]
  /\ next = [b \in Blocks |-> NULL]
  /\ back = [b \in Blocks |-> NULL]
  /\ head_block = 1 /\ cur_block = 1
  /\ recycle_list = <<>>
  /\ held = <<>>
  /\ usage \in {"recycles", "rolls back"}

(* synchAllocObj: from the recycle list, *)
AllocRecycled ==
  /\ recycle_list # <<>>
  /\ held' = Append(held, Head(recycle_list))
  /\ recycle_list' = Tail(recycle_list)
  /\ UNCHANGED <<entry, next, back, head_block, cur_block, usage>>

(* from the current block,                                                  *)
AllocFromBlock ==
  /\ recycle_list = <<>> /\ cur_block # NULL
  /\ entry[cur_block] < Entries
  /\ held' = Append(held, <<cur_block, entry[cur_block]>>)
  /\ entry' = [entry EXCEPT ![cur_block] = @ + 1]
  /\ UNCHANGED <<next, back, head_block, cur_block, recycle_list, usage>>

(* or from the next block. A block's next stays NULL, so this is always a   *)
(* new one.                                                                 *)
AllocFromNextBlock ==
  /\ recycle_list = <<>> /\ cur_block # NULL
  /\ entry[cur_block] = Entries
  /\ IF next[cur_block] # NULL
       THEN /\ cur_block' = next[cur_block]
            /\ UNCHANGED back
       ELSE /\ BlocksLeft
            /\ back' = [back EXCEPT ![NewBlock] = cur_block]
            /\ cur_block' = NewBlock
  /\ LET i == IF entry[cur_block'] = NULL THEN 0 ELSE entry[cur_block']
     IN  /\ held' = Append(held, <<cur_block', i>>)
         /\ entry' = [entry EXCEPT ![cur_block'] = i + 1]
  /\ UNCHANGED <<next, head_block, recycle_list, usage>>

(* synchRecycleObj *)
Recycle(i) ==
  /\ usage = "recycles" /\ i \in 1 .. Len(held)
  /\ recycle_list' = <<held[i]>> \o recycle_list
  /\ held' = SubSeq(held, 1, i - 1) \o SubSeq(held, i + 1, Len(held))
  /\ UNCHANGED <<entry, next, back, head_block, cur_block, usage>>

(* Mutant of RollbackStep: num_objs is not reduced by the entries of the    *)
(* block that is left.                                                      *)
RollbackAll(s) ==
  LET num == s[1]  b == s[2]  e == s[3]
  IN  IF num <= e[b] THEN <<0, b, [e EXCEPT ![b] = @ - num]>>
      ELSE IF back[b] # NULL THEN <<num, back[b], [e EXCEPT ![b] = 0]>>
      ELSE <<0, b, [e EXCEPT ![b] = 0]>>

(* The loop of synchRollback, from a state <<num_objs, cur_block, entry>>:  *)
(* a block whose entries are all cancelled is left for the one before it.   *)
RollbackStep(s) ==
  LET num == s[1]  b == s[2]  e == s[3]
  IN  IF num <= e[b] THEN <<0, b, [e EXCEPT ![b] = @ - num]>>
      ELSE IF back[b] # NULL THEN <<num - e[b], back[b], [e EXCEPT ![b] = 0]>>
      ELSE <<0, b, [e EXCEPT ![b] = 0]>>

(* synchRollback of the last k allocations *)
Rollback(k) ==
  LET State[i \in 0 .. MaxBlocks] ==
        IF i = 0 THEN <<k, cur_block, entry>>
        ELSE IF State[i - 1][1] = 0 THEN State[i - 1] ELSE RollbackStep(State[i - 1])
      end == State[MaxBlocks]
  IN  /\ usage = "rolls back" /\ k \in 1 .. Len(held)
      /\ held' = SubSeq(held, 1, Len(held) - k)
      /\ cur_block' = end[2] /\ entry' = end[3]
      /\ UNCHANGED <<next, back, head_block, recycle_list, usage>>

(* synchDestroyPool frees the blocks from head_block on, along next.        *)
Destroy ==
  LET Chain[i \in 0 .. MaxBlocks] ==
        IF i = 0 THEN head_block
        ELSE IF Chain[i - 1] = NULL THEN NULL ELSE next[Chain[i - 1]]
  IN  /\ cur_block # NULL
      /\ entry' = [b \in Blocks |->
                     IF \E i \in 0 .. MaxBlocks : Chain[i] = b THEN NULL ELSE entry[b]]
      /\ head_block' = NULL /\ cur_block' = NULL
      /\ held' = <<>>
      /\ UNCHANGED <<next, back, recycle_list, usage>>

Alloc == AllocRecycled \/ AllocFromBlock \/ AllocFromNextBlock

Use == Alloc \/ \E i \in 1 .. Len(held) : Recycle(i) \/ Rollback(i)

Next == Use \/ Destroy

Spec == Init /\ [][Next]_vars

-----------------------------------------------------------------------------
(* The type of the state. *)
TypeOK ==
  /\ \A b \in Blocks : entry[b] \in 0 .. Entries \cup {NULL}
  /\ cur_block \in Blocks \cup {NULL} /\ head_block \in Blocks \cup {NULL}
  /\ next \in [Blocks -> Blocks \cup {NULL}] /\ back \in [Blocks -> Blocks \cup {NULL}]

(* No object is held twice, nor held and in the recycle list; also after    *)
(* allocations were cancelled across the border of two blocks.              *)
NoObjectTwice ==
  LET all == held \o recycle_list
  IN  cur_block # NULL => Cardinality({all[i] : i \in 1 .. Len(all)}) = Len(all)

(* pool.h: synchDestroyPool "frees all the memory allocated by the pool     *)
(* object".                                                                 *)
DestroyFreesAll == head_block = NULL => \A b \in Blocks : entry[b] = NULL
=============================================================================
