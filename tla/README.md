# Synch framework: TLA+ models, model checking and proofs

This directory holds a formal model of the Synch framework, the C library of
combining objects, locks, queues, stacks and hash tables under
`src/libconcurrent`. Every definition is a translation of the C source (paths
below are relative to `src/libconcurrent`); `PROJECT.json` says which lines each
definition stands for.

Contents: [Inventory](#inventory) · [How the code is modelled](#how-the-code-is-modelled) ·
[Modules](#modules) · [Runs](#runs) · [Fairness](#fairness) · [Proofs](#proofs) ·
[Disagreements](#where-code-and-documentation-disagree) ·
[Not modelled](#not-modelled)

## Inventory

All objects live in memory shared by POSIX threads (optionally by fibers inside a
thread) and are driven through calls `XApplyOp(object, thread_state, sfunc, state,
arg, pid)`. There are no messages, no persistence and no failures short of a thread
that is never scheduled again; what is hard everywhere is the interleaving of single
memory accesses.

| Component | State it keeps | Operations | Hard behaviour | Correct when |
|---|---|---|---|---|
| CC-Synch `concurrent/ccsynch.c` | `Tail`; nodes with `next, locked, completed, arg_ret, pid`; per thread the node it owns | init, `CCSynchApplyOp` | nodes migrate between threads; the combiner walks nodes whose owners return as soon as they are unlocked; bounded service and hand-over | linearizable; one combiner; first come first served; every call returns |
| DSM-Synch `dsmsynch.c` | as CC-Synch, two nodes per thread used in turn; `Tail` may be `NULL` | init, `DSMSynchApplyOp` | race of the CAS that empties the queue with a late SWAP; reuse of a node after one call | as CC-Synch |
| H-Synch `hsynch.c` | one CC-Synch queue per NUMA node, a central CLH lock, a block of nodes per NUMA node | init, `HSynchApplyOp` | hand-over inside a node before the central lock is released; racing allocation of the block; node index | linearizable across nodes |
| Oyama `oyama.c` | stack of announcements `tail`, a test-and-set `lock` | `OyamaApplyOp` | combiner detaches the stack while others push; lost wake-up on release | linearizable; a request left behind gets a combiner |
| Flat combining `fc.c` | publication list, `lock`, request per thread with `pending, active, age` | `FCApplyOp` | requests enlist while being served; lock released with requests pending | linearizable; every pending request is seen |
| Osci `osci.c` | nodes shared by the fibers of a thread, `door`, `current_node` | `OsciApplyOp` | fibers enter requests between the reschedulings of the one that opened the node; a combiner of another thread walks on from a node whose fibers have gone on to their next calls | linearizable; no request lands in a closed node; two nodes per fiber are enough |
| Sim `sim.c`, toggle vectors `includes/tvec.h` | `announce`, `a_toggles`, `sp = [index, seq]`, pool of 4 records per thread with `applied`, `ret`, state | init, `SimApplyOp` | records copied while being overwritten; reuse; two attempts must be enough | linearizable; wait free; no torn copy is installed |
| SimStack, SimQueue `simstack.c`, `simqueue.c` | Sim plus nodes from pools; two Sim instances for the queue | push, pop; enqueue, dequeue | nodes recycled while read; the list of new nodes linked by whoever comes first | linearizable; each node recycled once |
| CLH lock `clh.c` | `Tail`, `MyNode[]`, `MyPred[]`, `locked` per node | `CLHLock`, `CLHUnlock` | a thread takes over its predecessor's node | mutual exclusion, first come first served |
| MCS lock `mcs.c` | `Tail`, per thread a node `locked, next` | `MCSLock`, `MCSUnlock` | marks the node `l->Tail` points to, possibly another thread's; unlock races a late link | mutual exclusion, first come first served, no lost wake-up |
| Linked queues and stacks on a combining object `ccqueue.c, dsmqueue.c, hqueue.c, fcqueue.c, osciqueue.c` and `*stack.c` | `first, last`, nodes; two combining objects per queue | enqueue, dequeue; push, pop | enqueue and dequeue sides run at once and meet at the last node | a FIFO (LIFO) object |
| MS queue, LF stack, LF object `msqueue.c, lfstack.c, lfuobject.c` | `head`, `tail`, nodes | as named | CAS retry loops, lagging tail, recycling | linearizable |
| LCRQ `lcrq.c` | list of rings of cells `(val, idx, unsafe)`, `head`, `tail` with a closed bit | enqueue, dequeue | unsafe cells, closing, empty rings left behind | FIFO |
| Hash tables `clhhash.c`, `dsmhash.c` | a list and a lock or DSM-Synch object per cell | insert, search, delete | as the objects they are built from | a map |
| Barrier `primitives/barrier.c` | `arrive, leave`, two flags | `Set`, `Wait`, `Leave`, `LastLeave` | immediate reuse of the barrier | nobody passes before all have arrived |
| Pool `primitives/pool.c` | blocks, current block, recycle list | alloc, recycle, rollback, destroy | block boundaries | no object handed out twice |
| Threads, placement, fibers `threadtools.c, uthreads.c` | preferred cores, join barrier, fiber queue | start, join, yield | placement arithmetic, fibers of one thread take turns | every fiber runs |
| Primitives, back-off, random, statistics, arguments | none | atomics, timing, parsing | none of their own | - |

Interactions: H-Synch calls the CLH lock; the hash tables call the CLH lock and
DSM-Synch; queues and stacks hand `sfunc` and their list to a combining object (two
combining objects, hence two concurrent combiners, for a queue); Sim's derivatives
inline its loop; nodes of lists come from the per-thread pool, and a node freed by a
combiner goes to the combiner's pool, not to that of the thread that allocated it.

## How the code is modelled

**Grain.** One action is one access to memory that another thread may touch at that
moment: a SWAP, CAS or Fetch&Add, one load, one store. Accesses to memory no other
thread can reach at that moment (the node a thread resets before it publishes it,
locals) are part of the neighbouring action. Where the code reads a pointer and then
writes through it (`l->Tail->locked = true`, `pool[sp.index]->ret[pid]`) these are two
actions. Spin loops are actions that are enabled once the loop condition is false. In
CC-Synch and DSM-Synch `cur->arg_ret = arg; cur->pid = pid` are one step, because
nobody reads either before the `next` pointer of the node is set, which is a step of
its own.

**Program counters and locals.** `pc[t]` names the statement thread `t` is about to
execute. Locals are variables where the code uses them across steps, and are reset
when the call returns, which keeps dead values out of the state.

**Memory model.** Steps interleave in a single order: sequential consistency. The
code separates its dependent stores by `synchNonTSOFence`, `synchStoreFence` or an
atomic operation and targets x86-TSO, where loads and stores keep their order except
a store followed by a load; such pairs on shared memory have an atomic instruction
between them in the modelled functions, with the exception of spinning loads, whose
only effect is to see a value later. Missing or misplaced fences are outside these
models.

**`sfunc`.** The operation the user passes is the pair of constant operators
`NewState(s, a, t)`, `Result(s, a, t)`: the object is any object. `sfunc` runs in one
step; that it may (no two threads inside at once, on one state) is what
`SingleCombiner` and the refinement check establish. For TLC the object is chosen so
that mistakes show: a register whose requests leave a mark and get the previous mark
back (a lost, repeated or misdelivered request changes somebody's answer), or, for
three threads, a bit that every request flips and whose answer is the `pid` passed to
`sfunc`.

**Combining objects inside other objects.** A queue or stack that hands its serial
functions to a combining object is modelled on what the combining object promises and
what the runs on it show: one request at a time is served, each once, by some thread that
is itself inside a call. In the same way `HSynch` takes its central lock from `QueueLock`,
which `CLH` implements, and the hash tables take one request at a time per cell.

**Left out**: prefetches, fences, `DEBUG` counters, `synchResched` (a yield),
back-off delays, fixed addresses and alignment.

## Modules

Abstract specifications:

* `AtomicObject` - the promise of the combining objects: each call takes effect
  exactly once, atomically, between call and return, and returns its own answer.
* `BatchedObject` - the same promise when one step makes several pending calls take
  effect in some order (the CAS of Sim).
* `RetryObject` - the same promise for the CAS loops of the lock-free structures, where
  a request that has changed nothing (an empty dequeue) may be taken back and take effect
  later, until it is settled that it is not.
* `QueueLock` - a first-come first-served lock.

Models of the code, and where to find what:

| Module | Code | Correspondence |
|---|---|---|
| `CCSynch` | `concurrent/ccsynch.c` | `tail` = `l->Tail`; `next, locked, completed, arg_ret, pid` = fields of `CCSynchNode`; `mine[t]` = `st_thread->next`; `cur, p, tmp_next, counter` = locals. `Call` resets the node, `Swap`, `Announce`, `Link`, `StopSpinning`, then `ReturnHelped` or `BecomeCombiner`; the loop is `Visit`, `Apply`, `Complete`, `Unlock`; `StopCombining`, `Release`, `ReturnCombiner` end it |
| `DSMSynch` | `concurrent/dsmsynch.c` | nodes are pairs `<<t, 0>>, <<t, 1>>`, `toggle` chooses; `FindNoNext`, `FindNext`, `StopCombining` are the test that ends or continues the loop; `EndLinked`, `EndUnlinked`, `EmptyQueue`, `EmptyQueueFails`, `StopWaiting`, `HandOver` are what follows it |
| `CLH` | `concurrent/clh.c` | `Prepare`, `Swap`, `Acquire` = `CLHLock`; `Release`, `Recycle` = `CLHUnlock`. `CLHLockInit` initialises `locked` of the tail node only: the others start with an arbitrary value |
| `MCS` | `concurrent/mcs.c` | `Prepare`, `Swap`, `ReadTail`, `MarkTail`, `MarkOwn`, `Link`, `Acquire` = `MCSLock`; the rest = `MCSUnlock`. A thread and its node share a name |
| `HSynch` | `concurrent/hsynch.c` | a node is a pair of the thread that allocated its block and an index; `FindBlock` ... `TakeNode` = `HSynchThreadStateInit`, run by threads that start while others already call; the call is as in `CCSynch`, with `Join`, `Enter`, `Leave` of `QueueLock` for `CLHLock` and `CLHUnlock` |
| `Oyama` | `concurrent/oyama.c` | a thread, its pid and its `my_node` share a name; `ReadTail`, `Push`, `PushFails` = the first loop; `Detach`, `Visit`, `Apply`, `Complete`, `StopCombining` = the two loops of the combiner |
| `FC` | `concurrent/fc.c` | a thread and its `FCRequest` share a name; `ReadHead`, `Push`, `PushFails` = `FCEnqueueRequest`, called from two places (`owner` tells which); `StartRound`, `Skip`, `Apply`, `Finish`, `EndRound` = the rounds of the combiner. Its clean-up loop has no action: `lock->count` is set to 1 on each acquisition, so `count % FC_CLEANUP_FREQUENCY` is never 0, no request ever becomes inactive again, and `age` is never read |
| `Sim` | `concurrent/sim.c`, toggle vectors of `includes/tvec.h` | records are numbers `pid * PoolSize + local_index`; a toggle vector is a function from threads to bits, read and written as one word; `SimStateCopy` is three steps, so a copy can be torn; `NextAttempt` is `continue` and the end of the `for` |
| `ToggleVector` | `includes/tvec.h`, as `sim.c` uses it | vectors are functions from banks to words of `Width` bits, two's complement: `TVEC_NEGATIVE_BANK`, `TVEC_ATOMIC_ADD_BANK` wrap around. `Call` and `Add` announce; `Combine`, `CopyBank`, `Compare`, `Serve`, `SetApplied` are one combiner's round, with a step per bank |
| `SimStack` | `concurrent/simstack.c` | as `Sim`, with toggle vectors as sets of threads; `Alloc`, `SerialPush`, `SerialPop` = `serialPush`, `serialPop`; `RecheckPop` leaves for `outer`; `RecycleList` = `recycleList`, after a failed and after a successful CAS |
| `SimQueue` | `concurrent/simqueue.c` | `Enq...` and `Deq...` are the loops of the two calls, `LinkReadSp` ... `LinkCAS` = `DeqLinkQueue`; `rets` are the arrays of answers and `ret` of a record says which one it points to |
| `Osci` | `concurrent/osci.c`, `synchFiberYield` | fibers of a group run one at a time, so what happens between two reschedulings is one step where only the group touches the memory |
| `LinkedQueue` | `ccqueue.c`, `dsmqueue.c`, `hqueue.c`, `osciqueue.c`, `fcqueue.c` | one enqueuing and one dequeuing combiner: `AllocNode`, `Link`, `SetLast` = `serialEnqueue`; `Advance`, `Skip`, `Take` = `serialDequeue`. `Source` is a record per variant: whether nodes are recycled, whether guards are skipped, whose value is answered, what is announced |
| `LinkedStack` | `ccstack.c`, `dsmstack.c`, `hstack.c`, `oscistack.c`, `fcstack.c` | `Push`, `Pop`, `PopEmpty` = `serialPushPop`; variants as above |
| `MSQueue`, `LFStack`, `LFUObject` | `msqueue.c`, `lfstack.c`, `lfuobject.c` | one action per access |
| `LCRQ` | `lcrq.c` | `EnqTail` ... `EnqSwing` = `LCRQEnqueue` with `close_crq`; `DeqHead` ... `DeqSwing` = `LCRQDequeue` with `fix_state`. The rounds a dequeuer waits for a late enqueuer are counted as first, some, many; `lin` is a history variable, see below |
| `HashTable` | `clhhash.c`, `dsmhash.c` | a chain is the sequence of its keys; `Insert`, `Delete`, `Search` = the branches of `serialOperations`; `Unlink` the pointer change of the delete |
| `Emulation` | `_SWAP`, `_FAA32`, `_FAA64` of `primitives/primitives.c` | words of `Bits32` and `Bits64` bits |
| `Barrier` | `synchBarrierWait` of `primitives/barrier.c` | one action per access; the counters of meetings are kept modulo 3 |
| `StartJoin` | `threadtools.c`, `synchBarrierSet`, `Leave`, `LastLeave` of `barrier.c` | `MainStep` = `synchStartThreadsN` and `synchJoinThreadsN`, `WrapperStep` = `kthreadWrapper` and `uthreadWrapper` of a started thread |
| `UThreads` | `primitives/uthreads.c`, `uthreadWrapper` | the fibers of one POSIX thread: `Spawn`, `Yield`, `End`, `AllEnded` |
| `Pool` | `primitives/pool.c` | `Alloc...`, `Recycle`, `Rollback`, `Destroy`; a client uses either recycling or rollback, as the clients in the library do |
| `Placement` | `threadtools.c`, the topology of `hsynch.c` | `synchPreferredCoreOfThread` and `NodeOfCore` are the arithmetic for each policy, `Topology` and `HSynchNodeOf` what H-Synch makes of it |


The modules `X_proofs` hold the theorems about `X` (`Locks_proofs` those about `CLH` and `MCS`,
`AnnounceLists_proofs` those about `Oyama` and `FC`; `Combining_proofs`,
`SimFamily_proofs`, `Structures_proofs` and `Utilities_proofs` those about the components
of `MCCombining`, `MCSimFamily`, `MCStructures` and `MCUtilities`). Operators under a
comment "Mutant of ..." are variants of the definition they precede, each with one
plausible mistake; they are used by no specification and serve to check that the properties notice it.

`MC*` modules put the components of one family side by side for TLC: the initial state
chooses which of them runs (`which`), the others stay as they are initialised. State
spaces add up and do not multiply, one run answers the question that the family has in
common, and a property names the component it is about in each conjunct. Nothing is
composed by this; the real compositions are `HSynch` on `QueueLock`, `LinkedQueue` on two
combining objects, `Osci` on the scheduler of fibers, `Placement` with the topology of
H-Synch.

## Runs

| Run | Instance | Shows |
|---|---|---|
| `Combining_safety` | CC-Synch: 3 threads calling for ever. H-Synch: 2 threads on one NUMA node and 1 on another, all starting. Osci: 3 fibers on 2 threads. Help factor 1 | CC-Synch: `SingleCombiner`, `ServedInQueueOrder`, `CombinerStaysInQueue`, `ImplementsAtomicObject`. H-Synch and Osci: `OneCombinerAtATime`, `NodesAreNotShared` (the block of a NUMA node is allocated once and shared out; two nodes per fiber are enough), `ImplementAtomicObject` |
| `DSMSynch_safety` | 3 threads calling for ever, help factor 1 | `SingleCombiner`; `ReusedNodeIsFree`: two nodes per thread are enough; `ImplementsAtomicObject` |
| `Combining_live` | the four combining objects with 2 threads (Osci: 3 fibers), H-Synch both on one NUMA node and on two; the lock-free object | `CallsReturn`: every call returns although the others call for ever, for the lock-free object some call does; `IInv`, the inductive invariant of the proof of CC-Synch |
| `Locks` | CLH with 3 threads, MCS with 4 | `MutualExclusion`, `RecycledNodeIsFree`; `IdleMCSNodeIsUnlocked`: `l->Tail->locked = true` may mark somebody else's node, but never leaves an idle one marked, and no `NULL` is followed; `ImplementQueueLocks`; `LocksReturn` |
| `AnnounceLists` | Oyama with 3 threads, FC with 3 threads and 3 rounds | `RequestsStayListed`; `ImplementAtomicObject`; `CallsReturn`. With Oyama a call may starve before its push: the CAS loop is not bounded. With FC it ends, as each thread enlists once |
| `SimFamily` | Sim: a slow thread with 2 calls beside a fast one with 6, pool of 4; three threads with 1 call each. SimStack, SimQueue: 2 threads with 5 calls. Toggle vectors: 3 threads on two words of 2 bits | `AppliedWhenLeavingLoop`, `CopyIsNotTorn`, `InstalledRecordIsStable`, `ImplementBatchedObjects`; `StackNodesAreInOnePlace`; `QueueHoldsEveryElement`: the list that the records of the enqueue side stand for, whoever links the batch; `VectorsFlipAndCompare` |
| `Structures` | 2 or 3 threads each; 2 or 3 nodes per thread; LCRQ: 3 threads on a ring of one cell and 2 threads that enqueue and dequeue on rings of two | `QueuesAreFifo`, `StacksAreLifo`, `LCRQIsLinearizable`, `ImplementsAtomicObject` (lock-free object), `EmulatedWordsAreAtomic`, `QueueNodesAreApart`, `KeysHaveOneNode` |
| `Utilities` | barrier of 3 threads that meet for ever; 4 POSIX threads started and joined twice; 4 fibers; a pool of 3 blocks of 2 objects; machines of 4, 8 and 12 CPUs on 1, 2 or 4 NUMA nodes, and of 3 and 5 CPUs on one | `NobodyPassesAlone`; `JoinWaitsForThreads`, of the first join; `MemoryInUseIsKept`; `PlacementIsConsistent`, with the exceptions named [below](#where-code-and-documentation-disagree); `WaitingEnds`, also of the second join |
| `SimQueue_answers`, `Hash_delete`, `FCQueue_answers`, `Placement_unique` | the smallest instances | violated: see [Disagreements](#where-code-and-documentation-disagree) |

LCRQ has no step that can be named as the effect of an enqueue: an enqueuer with a later
number may overtake it, or a dequeuer spoil its cell. `lin` therefore holds all orders of
the calls that explain the answers given so far; the queue is linearizable as long as
there is one.

The bounds and why they are enough:

* *Threads.* With three threads of CC-Synch a combiner has a request of another
  thread behind its own and a third thread arrives while it works; the combiner role,
  the waiting and the reset of a recycled node take one thread each. The theorems lift
  the limit for CC-Synch, DSM-Synch, H-Synch, Osci, Oyama, FC, Sim, CLH, MCS, the barrier, the
  lock-free object and stack, the emulated instructions, the stacks and queues on combining
  objects, the Michael-Scott queue and the hash tables, and the bounds of `Utilities` on
  threads, fibers, blocks and machines. `MCS` needs a thread behind the one
  whose node is marked in its place (3), and a fourth that follows.
* *Help factor.* `help_bound` is `factor * nthreads`. The factor is 10 in the code and
  1 in the runs, so that the bound is reached within few calls.
* *Requests.* With three threads there is one request value and an object of one bit: a
  lost or repeated request, or one served in the name of another thread, shows in the bit
  or in the answer. That the right request is served is part `Requests` of `IInv` for
  CC-Synch and is proved for any set of requests. The liveness run takes an object with
  one state: whether calls return does not depend on it.
* *Flat combining.* `sfunc` is passed the combiner's pid, so linearizability can only be
  expected of operations that do not use it; those of `fcqueue.c` and `fcstack.c` do not.
  `MCAnnounceLists` hands FC the same object as Oyama, told nobody's pid.
* *Sim.* `PoolSize` is the 4 of the code. A pool of 1 violates
  `InstalledRecordIsStable`, a pool of 2 `AppliedWhenLeavingLoop`, so the run does reach
  reuse; six calls of one thread go round the pool once and a half. `SeqModulus` is 16
  instead of 2^40: at most eight installs happen and, as in the code for any practical
  run, it does not wrap around.
* *Toggle vectors.* Words of two bits: the upper one is the sign bit, where the addition
  of `-mask` overflows; three threads put one bit into the second word.
* *Nodes and rings.* Two or three nodes per thread: nodes that are recycled are taken
  again while an older call is under way. Rings of one cell make the numbers wrap at once
  (every second number meets an older cell), rings of two let two numbers be outstanding.
  The tries of `close_crq` are 2 instead of 10: the first closes a ring by a CAS, which may
  fail, and the second without asking.
* *Finite workloads.* Sim, SimStack, SimQueue and LCRQ make a fixed list of calls, and
  structures that do not recycle run out of nodes; these runs end and say
  `CHECK_DEADLOCK FALSE`. So does `Utilities`, where pools, joins and fibers come to an
  end.
* *Symmetry* is declared where there is no liveness property and threads are
  not ordered.

## Fairness

`FairSpec` of each model is weak fairness of the steps of one thread while it is
inside a call. In the code a thread inside a call is always runnable: it spins with
`synchResched` and never blocks on a kernel object, so the scheduler gives it
processor time again and again. Nothing obliges a thread to make a call (`Call`,
`Prepare` are outside the fairness conditions). For the locks the step that leaves the
critical section is fair as well: critical sections are finite, which is the duty of
the client. Weak fairness is enough: a condition a thread spins on stays true until
the thread has seen it. The
fibers of one POSIX thread are fair together: the thread runs on, and who is next is
decided by the scheduler of `uthreads.c`, which is part of the model. A fiber inside
`func` yields or ends; a thread that has a barrier to meet comes to it. For the lock-free object the promise is only
that some call returns: its CAS may fail again and again for one thread.

## Proofs

Proved for every value of the constants (`tlapm`, SMT, Zenon and PTL):

* **`Combining_proofs`**, CC-Synch. Assumptions: `ConstantsAssumption` of `CCSynch` (the set of
  threads is finite, the names differ, the help factor is a positive number).
  `Linearizable == Spec => ImplementsAtomicObject` for any number of threads, any set
  of requests, any `sfunc`, any help factor, together with `SingleCombinerHolds`,
  `ServedInQueueOrderHolds`, `CombinerStaysInQueueHolds`, `TypeCorrect`.
  The three properties are not inductive. `IInv` adds
  - `Ownership`: every node but the tail is held by exactly one thread (`Held`), which
    is why the node a thread resets is private;
  - `OwnNodes`: what a thread knows of its own nodes at each statement;
  - `Chain`: the part of the queue still to be served is a list without joins, whose
    members after the first are locked and not completed;
  - `CombinerPosition`: the combiner's `p` (or `tmp_next`, between `completed = true`
    and `locked = false`) is the first node to be served;
  - `OneGrant`: the right to combine is held by one thread or waits in one node that
    is unlocked and not completed;
  - `Requests`: the node of a waiting thread holds its request and its pid until
    `sfunc` has run.

  There is one lemma per action, with a step for each part of the invariant it can
  disturb. The refinement proof maps the call to `Call`, `Apply` to the step of the
  abstract object, the two returns to `Return`, and everything else to a stutter;
  `Complete` is a stutter because `Served` already counts the request between the run
  of `sfunc` and `completed = true`.
* **`Combining_proofs`**, Osci and H-Synch as the run `Combining_safety` has them:
  `OneCombinerAtATimeHolds`, `NodesAreNotSharedHolds` and `ObjectsAreAtomic` (both implement the
  atomic object), under `MCAssumption` of `MCCombining`. Osci has any number of
  fibers, any number of them in each thread, the last thread perhaps fewer. Its inductive
  invariant `OsciInv` is along the lines of the one of DSM-Synch, with a node for all fibers of a
  thread instead of one:
  - `NodeQueue`: there is a queue `q[lo] .. q[hi]` of nodes which no variable holds; `q[hi]` is
    `Tail`, `q[lo]` the node of the combiner, and a node behind the first is linked or its fiber
    is about to link it (`QLinks`). The fiber that opened a node served may be in its
    next call already, with its other node, before the combiner has left the first (`QFirst`);
  - `OneIsGranted`: one fiber at most combines or has a request that is unlocked and not served;
  - `CombiningPoints`, `QPlaced`: a node at a combining point is its fiber's and not yet in the
    queue; a fiber to be served has its record in a node of the queue or in one on its way there;
  - `Unserved`: a record not served belongs to a fiber in a call, so a node may be opened again
    as soon as all its records are served;
  - `Position`: what the combiner has served of its node, record by record.

  A call takes effect when the combiner runs `sfunc` for its record. The invariant says nothing
  of who runs on a thread (`running`): it does not matter in which order the scheduler takes
  the fibers that have rescheduled. H-Synch inherits the invariant of `HSynch_proofs`,
  instantiated for the variables of `MCCombining` (the lemmas `...Same` show that its
  definitions are those of the instance `H`).
* **`Locks_proofs`**. `MutualExclusionHolds`, `RecycledNodeIsFreeHolds`, `TypeCorrect`,
  `CLHIsQueueLock` for `CLH`, `MCSMutualExclusionHolds`, `IdleMCSNodeIsUnlockedHolds`,
  `MCSIsQueueLock` for `MCS`, and `BothAreQueueLocks` for the two side by side as the run
  `Locks` has them. The sets of threads need not be finite; `NULL` is no thread.
  - `CLH`: ownership of nodes (`MyNode` until the release, `MyPred` from the swap), the flags
    of held nodes, and `OneGate`, which says that of the tail and the nodes spun on at most
    one is unlocked.
  - `MCS`: there is a queue of threads, `q[lo] .. q[hi]`, held by no variable: only its first
    one may own the lock, a thread that is joining has its predecessor in `prev`, and a thread
    about to execute `l->Tail->locked = true` has read a tail at or behind its own place, which
    is why the store never marks the owner or an idle thread.
  - The refinement of `QueueLock` maps the SWAP to `Join`, the end of the spin loop to `Enter`
    and the step that lets the next thread in to `Leave`. `Order`, the abstract queue, is a
    `CHOOSE` among all sequences of the threads in the queue; `OrderIsLine` shows that where
    each thread leads to one other there is exactly one such sequence (by a least
    counterexample, as the induction theorems of the library are out of reach), so it grows at
    its end and loses its head as the abstract queue does.
* **`SimFamily_proofs`**. `Linearizable == Spec => ImplementsBatchedObject` and
  `AppliedWhenLeavingLoopHolds`, `CopyIsNotTornHolds`, `InstalledRecordStays`, `TypeCorrect`, for
  any number of threads, any requests and any `sfunc`. Assumptions: the pool of a thread has at
  least three records (the code has four), and the threads make fewer calls than the sequence
  number has values (2^40 in the code). Both are needed: TLC finds `InstalledRecordIsStable`
  violated with one record, `AppliedWhenLeavingLoop` with two, and `CopyIsNotTorn` when the
  number wraps around while a thread sleeps. The inductive invariant `IInv` says
  - `Stamps`: `sp.seq` counts installations, so equal numbers mean the same `sp`;
  - `LastInstalled`, `Rounds`: a thread goes round its pool, and comes to write into a record
    that another one has found in `sp` only after two further installations, of which it has
    read the later one;
  - `Copies`: an attempt that can still succeed has copied the installed record and nothing else;
  - `Toggles`, `WhenApplied`: an attempt that began after a request was announced has its bit, so
    after two installations it has been applied: the two attempts of `SimApplyOp` are enough;
  - `Answers`: the answer of a request applied is in every record its thread may still read it from;
  - `Served`: the record in preparation is the installed one after the requests served so far,
    in the order they were served.

  `StackNodesAreInOnePlaceHolds`: no node of SimStack is in two places, for any number of
  threads, any requests and any number of nodes (the bound `MaxNodes` cuts behaviours short,
  whatever its value). The inductive invariant `StackInv` says that there is a `Layout`: a
  function `loc` from nodes to places (a height in the stack, a depth in a pool, a position
  among the nodes a thread holds in an attempt or has popped, or unused), of which every list
  of the model is an image, so no node can be in two of them. An attempt whose CAS can still
  succeed has a list of its own nodes on those of the stack, with its copy of the head as far
  down as it has popped (`OnStack`); of one whose CAS will fail nothing is said but which nodes
  it must give back, as it walks nodes that others have popped and recycled. `Install` makes the
  attempt's nodes those of the stack: its proof renames places, not nodes. `StampIsOlder`,
  `RecordIsPrivate` and `CopyIsGood` say why the head copied is that of the installed record.

  The refinement maps `Install` to one step of the batched object, which applies the requests
  in that order, `Announce` to `Call`, and the returns to `Return`. What
  the recursive function `Replay` yields for an order one longer is proved from its defining
  equation, again by least counterexamples.
* **`AnnounceLists_proofs`**. `OyamaIsLinearizable`, `FCIsLinearizable`, and for the two side by
  side, as the run `AnnounceLists` has them, `BothAreLinearizable` and `RequestsStayListedHolds`;
  for any finite set of threads, any requests and any `sfunc`, which with FC must not look at
  the pid. A list is the sequence of its nodes from the last one to the first, so a push is an
  `Append` and the walk of the combiner is about the other end; the lemmas `PushList`, `PopList`
  and `SameList` say what a push, a step of the walk and a write to a node outside do to it,
  and `ListIs` that the recursive function in `List` yields the members of that sequence.
  - `Placed`: a node announced is on the stack or among those the combiner has still to serve,
    never on both, and no other node is on either; a node is written only then. For FC, where
    nodes stay for good, `FPlaced`: the list has the nodes enlisted, and what is ahead of the
    combiner is part of it.
  - `Own`: a combiner returns its answer without looking at `completed` (Oyama) or `pending` (FC):
    its node is on the first list it detaches, or is ahead of it in the first round.
  - `Counts`: Oyama's combiner detaches a list only while `counter` is below the bound and serves
    all of it, so the counter stays in its range.
* **`Structures_proofs`**, for any threads, values, numbers of nodes and cells. Assumptions:
  `StructuresAssumption` of `MCStructures`, of which the proofs use that `NULL` is no node, no
  value, no thread and no job of a combiner.
  - `LFUObjectIsLinearizable`, `LFUTypeCorrect` for any requests and any `sfunc`: the CAS
    compares the state and not a version, so it may succeed on a state that has changed and
    changed back; the proof shows that this is harmless because the new state and the
    answer are functions of the state compared. The type invariant is inductive and says
    all that is needed. `EmulationIsAtomic`, `EmulatedWordsAreAtomicHolds`: for the same
    reason SWAP and Fetch&Add built from CAS are atomic on words of any width.
  - `LFStackIsLifo`, and `StacksAreLifoHolds` for all the stacks as the run `Structures` has
    them. There are nodes `r[1] .. r[m]`, the stack from its top, which no variable holds
    (`KStack`, `SStack`); the lemmas on lists say what becomes of them when a node is put on
    top or the top is taken off, and that the recursive function `Reached` of the modules
    walks along them. On a combining object (`KIInv`) the nodes in the pools are in one pool
    once and not on the stack. In the lock-free stack (`SIInv`) a node is private until its
    push and never pushed again, so what a pop has read below a node stays true, and a
    CAS that finds the node on top still finds that one below it. The refinement maps a pop
    that finds the stack empty to the read of `NULL`.
  - `MSQueueIsFifo`, `MSTailIsNearEnd`. The nodes ever linked are `q[0] .. q[e]`, head is
    `q[h]`, tail `q[k]` with `k <= e <= k + 1` (`MQueue`); what a thread has read is a node of
    that list, not behind the one it has read before (`MPlaces`, `MHasRead`), and the node an
    enqueuer holds is private until it is linked. A CAS on the link of a node that succeeds
    finds the last node, for no other link is `NULL`. The refinement: an enqueue takes effect
    at the CAS of the link, a dequeue at the CAS of head, one that finds the queue empty at
    its read of `NULL`; when its second look at head differs, it withdraws that answer, which
    changed nothing, and starts again (`Settle` of `RetryObject`).
  - `QueuesAreFifoHolds`, `QueueNodesAreApartHolds`: both queues as the run `Structures` has
    them. For the queue on two combining objects (`LinkedQueue` as `CCQueue`, which is also
    how the DSM, H and Osci queues are), `QIInv` has the list `q[0] .. q[e]` from `first` on.
    `last` is `q[e]` except between the link of a node and the assignment of `last`; then it
    may be anywhere, even a node already recycled, because dequeuers do not wait for it. The
    serial function of the enqueuers writes to its own node and the last one, that of the
    dequeuers to a node in front of `first`; the two requests served are never of one thread.
    An enqueue takes effect at the link, a dequeue when `first` moves to a value that is no
    guard. The content of the list is a recursive function over the nodes reached; the lemmas
    `Select...` say what it becomes when a node is linked or the first one goes.
  - `KeysHaveOneNodeHolds`: `HIInv` says that a chain has the keys of its cell only, each
    once, that they are members, and that a request waits for the cell of its key. What a
    deletion leaves of a chain is made of its keys, by either of its branches.
* **`DSMSynch_proofs`**. `Linearizable`, `CombinersExclude`, `ReuseIsSafe`, `TypeCorrect`
  under the assumptions of `CCSynch`. The right to combine goes down a queue of nodes which
  no variable holds: a node that has been swapped in is linked only later, and the owner of
  a node already served may call again with its other node. `IInv` therefore says that there
  is a queue `q[lo] .. q[hi]` (`q[hi]` is `Tail`) whose neighbours are linked or about to be;
  every action appends to it, drops its first node or leaves it. The other parts are as for
  CC-Synch: `OwnNodes`, `SingleCombiner`, `CombinerPosition` (`p` is the first node; once it
  has been given back, its owner may have toggled, but is then behind it), `OneGrant`.
  `ReusedNodeIsFree` follows from the position: what a combiner still reads is the node
  last served, never the one its owner resets.
* **`HSynch_proofs`**. `Linearizable`, `SingleServerHolds`, `OneCompetitorHolds`,
  `NodesAreHeldOnceHolds`, `TypeCorrect`, assuming `ConstantsAssumption`: the set of threads is
  finite, every thread is placed on a NUMA node, and the block of a node has room for its
  threads and the first tail (`Placement` shows where the code's policies give that). The
  invariant is the one of CC-Synch for each NUMA node, with three additions. `Blocks` and
  `Counted` say what starting threads have set up, and that the index of a block counts the
  threads that have taken a node, which with the assumption bounds it (lemma `Room`: while a
  thread is still to come a node is left besides the last). `Ownership` knows the nodes not
  taken yet (`Fresh`). `LockOrder` relates the central queue to the place of each thread:
  only its head has passed `CLHLock`, so two combiners of different NUMA nodes never serve
  at once. The central lock is `QueueLock`; that `CLH` implements it is `CLHIsQueueLock`.
* **`Utilities_proofs`**, under the assumptions of the modules (`MCAssumption` of
  `MCUtilities`).
  - `NobodyPasses`, `TypeCorrect`, for any finite non-empty set of threads at a barrier.
    The invariant is a circle of four stages: `Gathering`, `AllHere` (the last one resets the
    counter, closes one flag and opens the other), `Dispersing`, `AllGoing`. In each, a counter
    is the cardinality of the threads that have still to pass; that is what the lemmas on
    finite sets are for.
  - `FirstJoinWaits`: `JoinWaitsForThreads`, which is about the first round of start and join,
    for any numbers of threads and of fibers in each. `JoinInv` counts: both counters of the
    barrier are ahead of 0 by the threads that have still to decrement them. Of a second
    round neither the count of `leave` nor the property holds (see below).
  - `MemoryIsKept`: `MemoryInUseIsKept`, for any number of fibers, blocks and objects in a
    block. For fibers (`FibersInv`), where one is tells whether it is active, and only an
    active one is ever switched to. For the pool (`PoolInv`), an object held or to be
    recycled was cut out of its block and is in one place; where allocations are rolled
    back, the blocks from the first to the current one, along `back`, are a list
    `r[1] .. r[c]`, all but the last used up, and the i-th object held is the i-th of that
    list. `RollbackRolls` says, by a least counterexample, that the recursive function in
    `Rollback` goes back along that list and leaves as much as it should.
  - `PlacementConsistent`: `PlacementIsConsistent` for any number of threads, every policy and
    every machine of two or more CPUs whose NUMA nodes are of one size, of pairs of siblings
    where there is SMT. A single node may have an odd number of CPUs: then nothing is said of
    the NUMA node of the last one, `LeftOver`, which the code gets wrong (see below). Of the
    default policy where SMT is detected, neither unique cores nor the room in the blocks
    is claimed. `IsMachine` names the sizes `k * z` and `k * h` that the code divides by; `Dealing` shows
    that dealing threads out to `k` nodes in turn gives no place twice, and `Offsets` that
    the node and the place on it identify a CPU, so the threads on a node are no more than
    its CPUs.
Model-checked only: liveness (fairness and `ENABLED` are beyond this prover); the
linearizability of SimStack; SimQueue; the toggle vectors of several words (the provers know
no powers of two); LCRQ (whose orders of calls would need an induction over sequences), and
the FC queue's answers.

## Where code and documentation disagree

Four runs are expected to find a violation; each checks what a comment says.

* `SimQueue_answers`: `DeqStateCopy` copies "everything except 'applied' and 'ret'
  fields" (`concurrent/simqueue.c:40`), but `ret` lies behind `copy_point` in `DeqState` and
  is copied. The records then share one array of answers; a combiner whose CAS fails has
  overwritten answers there, and two dequeues return one element. (`SimObjectState` and the
  record of SimStack are laid out as their copies expect.)
* `Hash_delete`: deleting the second node of a chain cuts off the first one as well
  (`clhhash.c:76-81`, `dsmhash.c:79-84`), against `includes/clhhash.h:108`.
* `FCQueue_answers`: `serialDequeue` of `fcqueue.c` returns the value of the old dummy
  node, and `FCQueueApplyEnqueue` announces the pid for its argument (lines 46 and 53).
* `Placement_unique`: with the default policy and SMT, the formula of
  `threadtools.c:106-109` gives two threads one core when the CPUs per NUMA node are no
  multiple of twice the nodes (12 CPUs on two nodes), against the "unique integer" of
  `includes/threadtools.h:117`. For that policy `PlacementIsConsistent` leaves out
  uniqueness, and the room in the blocks of H-Synch: that `node_index` (`hsynch.c:114`) stays
  in its block is not shown for the default policy where SMT is detected. `HSynch` and its
  theorems assume it.

Others, seen while modelling, that have no run of their own:

* `Pool`: `synchDestroyPool` follows `next` from the first block, but a block allocated when
  the current one is full is only linked back (`pool.c:59-61`), so only the first block is
  freed, against `includes/pool.h:87` (`DestroyFreesAll` of `Pool` is violated). `synchRollback` does not look at
  the recycle list, so mixing it with `synchRecycleObj` is outside the model.
* `StartJoin`: `includes/threadtools.h:54` says that `synchJoinThreadsN` "returns whenever all
  the created posix threads and fibers spawned by StartThreadsN have completed the execution".
  That holds of the first join of a program only (`JoinWaitsForThreads`); of a second one
  `JoinWaitsForAll` is violated. The loop of `synchBarrierLastLeave` (`barrier.c:48`) ends as
  soon as one of the two counters is 0. The first join may end at `arrive`, when a thread has
  still to decrement `leave`; if it does so after `synchStartThreadsN` has set the static
  barrier again, `leave` comes to 0 in the second round while one of its threads still runs.
  `synchStartThreadsN(n, f, u)` creates `n / u` POSIX threads.
* `Placement`: `numa_node_of_cpu(0) == numa_node_of_cpu(ncpus / 2)`, "SMT or HyperThreading
  detected" (`threadtools.c:137`), is true on every machine with one NUMA node. With an odd
  number of CPUs there the two halves leave the last CPU over, and
  `synchPreferredNumaNodeOfThread` answers node 1 for it (with 3 CPUs, for core 2), a node that
  neither the machine nor the tables of H-Synch have. With one CPU `half_node_size` is 0 and
  the division at line 143 fails; such machines are excluded by `ConstantsAssumption`.
* `UThreads`: there is one slot for the stack to be freed; the stack of a fiber that ends
  right after another one is lost.
* `Osci`: `OsciInit` with more fibers per thread than threads falls back to one fiber per
  thread but sizes `current_node` for the number asked for, one entry (`osci.c:129-133`).
  `osciqueue.c` and `oscistack.c` index their pools by the id of the POSIX thread. These
  configurations are excluded by `ConstantsAssumption`.
* `HSynch`: with `numa_regions` set by the user the node computed for a thread may lie
  outside the nodes allocated (`UserRegions = TRUE` in `Placement`).
* Stacks take `POP_OP` (`INT_MIN`) for a request to pop, queues skip an element that
  equals `GUARD_VALUE`, LCRQ cannot hold -1: values a client may not use. `FCStack`
  answers -1 for empty. Inserting a key that is there leaves its old value; a search
  answers whether the key is there. `includes/ccsynch.h:54` says that `Tail` is `NULL` at
  the start, while `CCSynchStructInit` puts a node there.

## Not modelled

* *Primitives*: built-ins and atomics are the atomic actions of the models, and
  `Emulation` justifies those that may be emulated; allocation, prefetching, bit search and
  clocks have no protocol state. Fences: see the memory model above.
* *Back-off, random numbers, statistics, argument parsing, configuration headers,
  benchmarks*: timing, measurement and drivers; a delay or a `synchResched` changes
  nothing about what may happen (in Osci it does, and is modelled).
* The wrap-around of Sim's 40-bit sequence number, and of the 63-bit numbers of LCRQ, is out
  of reach of any checked instance. Hazard pointers in LCRQ (`HAVE_HPTRS`) are not compiled.
* The debug build, pinning itself, and memory that cannot be allocated (the library
  ends the program).
* No persistence and no messages: threads do not crash and come back.
