# A verification project for Subzero

Subzero (`src/src/`) is the fast code generator of Portable Native Client. It
reads a PNaCl bitcode module, translates each function by itself (lowering,
liveness analysis, register allocation, emission) and writes an ELF object or
assembly text. The functions are translated by several threads, and the output
has to be the same whatever the threads do.

This directory has TLA+ modules that model the coordination between those
threads and the algorithms at the heart of the translation of a function, TLC
configurations that check them on small instances, and proofs about them that
TLAPS checks. `PROJECT.json` is the index: components, runs, the source lines
behind every definition, the hazards of the code, mutants that show each
property able to fail, findings and theorems.

## Running it

    tlc -workers 2 -config MCQueue.cfg MCQueue        # any other run alike
    tlapm BoundedProducerConsumerQueueProofs.tla      # the proofs
    tlapm TranslationPipelineProofs.tla
    tlapm PhiLoweringProofs.tla
    tlapm BundleEmissionProofs.tla
    tlapm BrowserCompileServerProofs.tla
    tlapm RegisterAllocationProofs.tla
    tlapm LivenessProofs.tla
    tlapm LoopProofs.tla

| run | module, configuration | distinct states | result |
|---|---|---|---|
| `queue` | MCQueue, MCQueue.cfg | 48,741 | passes |
| `pipeline` | MCPipeline, MCPipeline.cfg | 570,854 | passes |
| `pipeline_start` | MCPipeline, MCPipelineStart.cfg | | finding 1 |
| `browser` | MCBrowser, MCBrowser.cfg | 701,235 | passes |
| `browser_streams` | MCBrowser, MCBrowserStreams.cfg | | finding 2 |
| `liveness` | MCLiveness, MCLiveness.cfg | 12,012 | passes |
| `liveness_order` | MCLiveness, MCLivenessOrder.cfg | | finding 3 |
| `regalloc` | MCRegAlloc, MCRegAlloc.cfg | 146,843 | passes |
| `phi` | MCPhi, MCPhi.cfg | 120,912 | passes |
| `loops` | MCLoops, MCLoops.cfg | 143,073 | passes |
| `loops_order` | MCLoops, MCLoopsOrder.cfg | | finding 4 |
| `bundles` | MCBundle, MCBundle.cfg | 72,960 | passes |

## 1. Inventory

### How the parts interact

    Compiler::run (main thread)
      startWorkerThreads()
      Translator::translate()
        ModuleParser: global initializers -> EmitQ      sequence number 1
                      function blocks     -> OptQ       sequence numbers 2, 3, ...
        ExitBlock: waitForWorkerThreads()
      waitForWorkerThreads() again, then the last global data and the symbols

    translateFunctions (translator threads):   OptQ -> Cfg::translate() -> EmitQ
    emitItems          (emitter thread):       EmitQ -> in order -> ELF writer or text

    Cfg::translate, for a function: clean-up of the control flow, phis,
      address and loop optimisations -> target lowering -> liveness ->
      linear-scan allocation -> phi lowering -> stack slots -> branches
      -> emission in bundles

With no worker threads the main thread runs `translateFunctions` inside each
push to OptQ, and that runs `emitItems` inside each push to EmitQ.

Inside a function everything is sequential: threads share nothing of a `Cfg`
but the string and constant pools, each behind its own lock.

### The components

**Work queues** (`IceThreading.h`). State: a circular array, the free-running
indices `Front` and `Back`, `IsEnded`, a mutex, the condition variables
`GrewOrEnded` and `Shrunk`. Operations: `blockingPush`, `blockingPop`,
`notifyEnd`. Hard: notifications are sent after the unlock and wake one thread
only, a pop notifies a producer only below a threshold, wakeups may be
spurious. Correct when: first in, first out, each entry once; no wakeup is
lost; a pop returns `nullptr` only when nothing is left and nothing can come;
all threads finish.

**Translation pipeline** (`IceGlobalContext`, `IceTranslator`,
`PNaClTranslator`, `IceCompiler`). State: the two queues, sequence numbers, the
emitter's `Pending` array and window, the accumulated global data, two error
statuses, `WaitForWorkerThreadsCalled`. Hard: items arrive out of order,
functions fail or are excluded, the emitter may shuffle within a window, parse
errors unwind the parser's stack frame while work items refer to it, and the
shutdown is entered twice. Correct when: the output and the exit status depend
on the input and the command line only; nothing is lost or emitted twice; the
compilation ends.

**Browser compile server** (`IceBrowserCompileServer`). State: the browser's
input stream (a buffer and `Done`), the output stream, `HadError`, three places
that note errors, the compile thread. Operations: `onInitCallback`,
`onDataCallback`, `onEndCallback`, the fatal-error handler. Hard: a fatal error
ends the thread it happens in and no other, in the middle of whatever the
others wait for; the streams are owned by one thread and used by others; an
error in one thread ends the input of the parser, wherever it is.
Correct when every callback returns, no error is answered with success, and no
stream is used after it is freed.

**Liveness analysis** (`IceLiveness`, `Cfg::liveness`, `CfgNode::liveness`,
`Inst::liveness`). State: `LiveIn`, `LiveOut`, begin and end numbers of each
node, dead flags, the work list, live ranges. Hard: dead flags change while the
analysis runs and decide which phi operands count; a node is visited again only
if a comparison says so. Correct when: nothing needed is deleted; variables
live together have overlapping ranges; it converges.

**Linear-scan register allocation** (`IceRegAlloc`). State: `Unhandled`,
`Active`, `Inactive`, `Handled`, `Kills`, use counts and weights of registers.
Operations: expire, choose preferred or free register, evict, precolored
variables, second chance. Hard: overlap with inactive ranges, copies that may
share a register, registers that alias. Correct when: on no path is a register
overwritten while its variable will be read; variables that must have a
register get one; the second-chance loop ends.

**Phi lowering** (`CfgNode::advancedPhiLowering`). State: an array of pending
copies with predecessor counts and weights. Hard: the phis of an edge are a
parallel copy over slots and registers that overlap, and cycles need
temporaries. Correct when: the sequence of copies has the effect of the
parallel one and the loops end.

**Bundle-aligned emission** (`BundleEmitHelper`, `CfgNode::emitIAS`). State:
the size of the text so far, the start of the locked region, the two passes.
Hard: sizes measured in one pass are used in the next, alignment to the end of
a bundle. Correct when: no instruction and no locked region crosses a bundle,
every instruction is emitted once.

**Switch lowering** (`IceSwitchLowering`). Clusters of cases and the choice of a
jump table. Hard: unsigned 64-bit arithmetic at the maximum. Correct when: the
clusters cover the cases, in order, each value with its own target.

**Loop analysis and loop-invariant code motion** (`IceLoopAnalyzer`,
`Cfg::loopInvariantCodeMotion`). State: the stacks and numbers of an iterative
Tarjan search, the nodes deleted in earlier rounds, nest depths, loop bodies;
then the instructions of each node. Hard: the search is left and entered again
in the middle of a node's edges, and each round's loops depend on which node of
a component was deleted. Correct when: nest depths are those of the natural
loops; each loop has its header and preheader; what is moved is still computed
before it is used; it ends.

**Control-flow clean-up** (`Cfg::reorderNodes`, `contractEmptyNodes`,
`computeInOutEdges`, ...). Edge lists are rewritten while they are walked.
Correct when: the paths of the function are the same.

**Stack slots and target-independent lowering** (`IceTargetLowering`,
`IceVariableSplitting`). Offsets and alignments of spilled variables. Correct
when: slots that are live together are disjoint and aligned.

**Timers** (`IceTimerTree`): a tree per thread, merged after the join.

**Targets and assemblers, optimisation passes, ELF writer, bitcode reader,
other front ends, instrumentation, support code, scripts**: see *What is not
modelled*.

The hazards of each component, at the line where they bite, are in
`PROJECT.json`, each with the properties that would notice it or the module
that is planned for it.

## 2. Plan

In order of what most affects the output; done means modelled, checked, with a
mutant for every property.

| | module | composes with | theorems |
|---|---|---|---|
| A | `WorkQueue` (abstract), `BoundedProducerConsumerQueue` | A implements `WorkQueue` | **done**: types, `NoLostGrew`, `ExitOnlyWhenDrained`, `NoDeadlock`, the refinement |
| B | `TranslationPipeline` | two instances of `WorkQueue` | **done**: all its invariants, for any number of threads and functions |
| C | `PhiLowering` | | **done**: all its invariants, for any number of phis |
| D | `Liveness` | | **done**: all its invariants; where a function has loops and phis, `InterferenceIsSeen` and `NothingNeededIsDeleted` under the hypothesis that the analysis has settled |
| E | `LinearScan`, `RegisterAllocation` | ranges from an instance of `Liveness`; its result satisfies what `PhiLowering` assumes | **done**: `TypeOK`, `RegUsesExact`, `RequirementsMet`, `RegNumIsFinal`, `NoInterference`; `ValuesKept` for the first allocation of what `IsRegular` describes |
| F | `BundleEmission` | | **done**: all its properties, for every function and bundle size |
| G | `BrowserCompileServer` | the pipeline, abstracted to threads that may die | **done**: all its invariants |
| H | `LoopAnalyzer`, `LoopInvariantCodeMotion` | the second extends the first | **done**: all their invariants: `TypeOK`, with the assertions of the search, `SSAFormIsKept` and `NestDepthIsExact` |
| I | `SwitchLowering` | | left: clusters are disjoint and cover the cases |
| J | stack slots, clean-up of the control flow, timers | | left: model-checked only |

A to H are modelled and checked. I and J remain.

Parameters are CONSTANTs with named assumptions in the module that declares
them; there is one action for each operation, and no RECURSIVE operator anywhere, so that
every module can be proved about.

## 3. The modules and the code

**`WorkQueue`** is what users of a queue may rely on: a sequence, a flag that says it is
closed, and what each consumer's last pop returned. `Push` adds at the end
while the queue is open and below its limit, `TakeHead` removes the oldest
entry, `TakeNothing` is the pop that returns `nullptr`. The `sequential` argument is
the constructor's: no operation blocks then.

**`BoundedProducerConsumerQueue`** is the template of `IceThreading.h`, with
`Sequential = false`. All shared fields are accessed under one mutex, so the
code from lock to unlock, or to `wait`, is one action. The notifications come
after the unlock (`AutoLock`'s scope ends first) and are actions of their own,
with a program counter (`notifyGrew`, `notifyShrunk`, `endPc`) between.
`wait(predicate)` is a sleep from which notifications or `SpuriousWakeup` wake
the thread, and which it leaves only by evaluating the predicate again. The
program's use of the queue is part of the module: `notifyEnd` is called when
all producers have returned from their last push, as `waitForWorkerThreads`
does it for both queues. `Front` and `Back` are the unwrapped counters and
`Slot` is the mask. They are `size_t` in the code and are not wrapped here:
2^64 pushes are out of reach.

**`TranslationPipeline`** has the main thread (`mainPc`), the translators
(`trPc`) and the emitter (`emPc`). `OptQ` and `EmitQ` are instances of
`WorkQueue`. With no worker threads the same actions run nested: the main
thread's push to OptQ starts a translator call under the name `Main`, whose
push to EmitQ starts an emitter call, and a caller waits until its callee is
`idle`. The output is the sequence of pieces that `DataLowering` and the object
writer produce: global data, and the code of functions. Two abstractions: what
becomes of a function is chosen at the start (`outcome`), and a shuffle takes
the items of a window in any order. A function is identified with its sequence
number, which the code gives it when the block is read.

**`PhiLowering`** has one action for the three set-up passes of an edge
(`StartEdge`), one for the choice of the best item, one for a temporary and one
for an assignment. `Src`, `Processed`, `NumPred`, `Weight` are the fields of `PhiDesc`.
To say what the copies do, the model also runs them: `store` maps each cell (a
unit of a register or a word of a stack slot) to the value it holds. Registers
are sequences of units and overlap when they share one, as `al` and `ax` do.
Operands may share or overlap registers in any way; the destinations, which are
live together, may not (`PhisCanBeLowered`, a part of `NoInterference` of the run `regalloc`).

**`Liveness`** has one action for a call of `CfgNode::liveness` (`Visit`), one for the
end of the iteration and one for each node of the final pass (dead code
elimination, `livenessAddIntervals`). A function is a record of nodes,
successors and numbered instructions. `IsFunction` says what the front end and the passes
before guarantee: phis come first in a node, an operand of a phi is one of its uses,
each node has a terminator, an instruction that reads its dest redefines it
(`TargetLowering::markRedefinitions`), and while there are phis, so that only redefinitions
are not in SSA form, a node reads what it defines after the definition.
`LiveAbove` is `Inst::liveness`, `LiveAfter` the walk over a block,
`PhiOperands` is `livenessPhiOperand`, `Extended` the cases of
`livenessAddIntervals`, and `AddSegment` the merge of adjacent segments. Liveness and
need are defined again from the code of the function, without any of the
analysis' state (`Needed`, `ReallyLiveIn`), and the properties compare the two.

**`LinearScan`** has one action for one iteration of the loop of `scan()`: the
variable that is next is expired against `Active` and `Inactive`, and then
pre-colored, given a preferred or a free register, left without, given the place
of lighter variables, given a reserve register, or (for phi temporaries) a
register that is spilled around it. `Iterations` is what all of these share:
the lists, the use counts and the free registers after the expiry. The scans of
all four kinds (`RAK_Global`, `RAK_SecondChance`, `RAK_Phi`, `RAK_InfOnly`) begin in actions of
their own, and `EndScan` assigns the final registers and decides on the
second chance. `Trimmed` is how far the ranges have been trimmed. Registers are sequences
of units, and `Aliases` is their overlap. Weights are a number or infinite
(`Heavier` compares them as `operator<` does), and `IsLightest` is
`findMinWeightIndex`: the first register among those of least weight.

**`RegisterAllocation`** composes `Liveness` (an instance on the same function),
`LinearScan` and a machine. When the registers are final, `Enter`, `Execute` and
`TakeEdge` run the function along any path, on cells (register units and stack
slots); `holds` says whose current values each cell has. A copy gives its dest the
value of its source: wherever a part of the source is, the same part of the dest then is too (`Alike`), also in
cells that the copy does not write. The machine is not in
the source: it is what registers mean, and it makes it possible to ask
whether sharing was right and not only whether ranges overlap. `Requirements` says which functions
the allocator may be given.

**`BrowserCompileServer`** has the server thread, the compile thread, the
translators and the emitter, each of which but the first may end in a fatal error at the points
where the code can call `report_fatal_error` (parser errors, translation,
emission, the final lowering). `SetFatalError` is the handler, in two
steps: `HadError`, then `SetDone()` on the stream. Errors are noted where the
code notes them: `HadError`, the context's status, the translator's status.
The compile thread follows `translate()`: `ReadFunction` and `ReadEnd` parse,
`SkipBlock` is the place in a function's block where an input that ends makes the parse
fail without an error, `WaitForWorkerThreads` is the join in `ExitBlock()`, which every parse
gets to, failed or not, and only then `Translated` reads what follows the module, returns,
and the reader on its stack deletes the stream. Parse errors are fatal, or with
`-allow-error-recovery` may be noted only, or make the parse fail (`ErrorAt`). A
piece of input is a function; that of the last function also ends the module, and
pieces may follow it; a `Done` that comes early cuts the current one off. The queues are counts.
The use of a freed stream is undefined behaviour: the call has no effect, or the process is `lost`.

**`LoopAnalyzer`** has one action for a call of `processNode()`, with `from` and `to` the edges
it looks at before it returns or asks for a recursion, one for each round and
root, and one for each loop in `ComputeLoopInfo`, in any order among loops of one size, as `std::sort` leaves them.
`LoopInvariantCodeMotion` adds the instructions of the nodes, numbered in the order of their creation, and one action for the work
on one loop. `InvariantInsts` is what the code's `do`-`while` ends with, the
smallest set that has all that uses only it, and `Selected` is what is left of a sequence, in order.
Natural loops and dominators are defined from the graph alone.

**`BundleEmission`** has one action for each kind of instruction that the loop of
`CfgNode::emitIAS` tells apart, and for `bundle_unlock` one for each pass. A function
is the sequence of its instructions, with an entry at the start of each node;
each entry has its size, its region's `bundle_lock` and its offset in the
region. The text is the set of instructions in the buffer with their places, so
that a rollback is the removal of what lies behind. `effects` is what
`Preliminary` holds back: fixups, label links. Instructions have a fixed size
except branches to nodes, whose size depends on the distance back to the label
(`IsShort`). Nops are the gaps.

## 4. What the runs show

**`queue`.** Two producers with three entries each, two consumers, an array of
four slots with a limit of three and a threshold of two. `TypeOK` bounds the
entries; `NoLostGrew` says that while there is work, not all consumers sleep
unless a notification is on its way; `NoDeadlock` that somebody can always go on;
`ExitOnlyWhenDrained` is the meaning of `nullptr`; `ImplementsWorkQueue` is the
refinement; `EverythingDrains` the progress. The bounds make the hard cases
happen: the limit is smaller than the array, six entries wrap around four
slots, a pop happens above, at and below the threshold, two producers sleep
while one notification is on its way, and the end meets sleeping and awake
consumers.

**`pipeline`.** Three functions, all combinations of their outcomes
(translated, excluded, rejected by the translator, rejected by the parser,
truncated), over six command lines: no workers with and without reordering,
one and two workers, parsing by the main thread or in parallel, and parallel
with reordering in windows of two. OptQ has two slots and EmitQ one, so both
block. `EmittedInOrder` and `EverythingEmitted` together say that the output is
a function of the input (up to the shuffle inside a window);
`StatusIsDeterministic` says that for the exit status; `ParserOutlivesItems`
and `DataLoweringSingleThread` are two lifetime rules that the code relies on
and states only in comments; `CompilationEnds` is progress. An end of EmitQ
that comes too early, or a placeholder that is missing, shows in `EverythingEmitted`. Three functions make two windows
of two, one of them partly filled, and let the first function be the last
to arrive. In this run the flag of finding 1 starts as false.

**`phi`.** Three phis and one further operand on one edge, every assignment of
a slot or of the registers `a`, `b`, `c` and the pair `ab` to the four variables, with
all variables narrow or the third phi and the further operand wide, and every choice of operands, constants included. This has
cycles of length two and three, two cycles through a pair at once, a source
read by several phis, trivial copies within one place, and each of them mixed
with the others. `NumEdges` is 1, because nothing but the registers is carried
over to the next edge: `StartEdge` resets the rest. `ParallelCopy` is the
promise, including that no other place is touched; `NumPredIsExact` compares
the decremented counts to what they count; `LoweringEnds` fails if
`assert(Found)` does, because the step that breaks a cycle then has nothing to do.

**`liveness`.** Five families of functions with up to four nodes and ten
instructions, with all the operands in the families' choices: loops with phis, rotated
loops with two-address code, loops without phis, loops whose phi was lowered,
and diamonds. In all of them the nodes are in topological order, as for a
front end that emits blocks in that order. `NothingNeededIsDeleted` and
`InterferenceIsSeen` are what the passes behind it rely on;
`ExactWithoutLoops` says that without loops the analysis also finds all that is
dead (with loops it is conservative: a cycle of phis keeps itself alive);
`LivenessEnds` includes that neither `report_fatal_error` is reached. In
topological order a phi never turns from dead to live during the iteration.
`liveness_order` drops this order and finds the case where it matters.

**`bundles`.** Bundles of 16 bytes, as for ARM32. One family has an instruction of 1 to 16
bytes, two regions of every pair of options and an instruction behind, so that
every region begins at every offset of a bundle, fits, just fits and does not
fit, with empty instructions (labels) at its ends. The other has branches back
and forward, alone or in pairs, at every distance around the reach of a short
branch, which is scaled to 24 bytes; here padding turns a short branch into a
long one and the pass that was measured is not the one that is kept. The
properties are the rules of the sandbox (`RegionsFit`,
`ReturnPointsAreAligned`) and that two passes have the effect of one
(`EmittedOnce`, `EffectsMatchText`). A branch to a label inside a region is excluded by
`WellFormed`: a comment in `j()` says that this case would need more care, and
the target lowerings put calls, returns, indirect jumps and masked accesses to memory
and the stack pointer in regions, and no branch to a label.

**`regalloc`.** Three registers, `A`, `B` and the pair `AB`, of which `A` and so `AB` are
scratch, and nine families of functions of one to four nodes: loops with copies
(who may share a register), two copies of one variable in a register that they share while it
is evicted, loops whose two phis exchange values, calls with
pre-colored argument and result in a loop, diamonds (ranges with holes),
variables of different weights with and without the second chance, reserve
registers, `-Om1` functions, and blocks of phi lowering in which every
register is taken. In these, `addSpillFill` borrows a register that no instruction of the
temporary's range reads (`Mentioned`); like the code, it does not look at what is only
written there. What the range can write is the dest or a temporary on the way to it: in its
last instruction, where the former holder of that register has its last use in the range and
is found, or before and then read (the non-SFI address of ARM32, built up in the
dest's register while a copy of `GotPtr` is live, `IceTargetLoweringARM32.cpp:6476-6482`). Both are
among the functions. The assumption is written down as `WritesAreRead`, and TLC finds
`ValuesKept` false for functions that break it; it rests on `lowerAssign` and `legalize` of
the three targets (`IceTargetLoweringX86BaseImpl.h:6720`, `IceTargetLoweringARM32.cpp:3521`,
`IceTargetLoweringMIPS32.cpp:3049`), and nothing in `IceRegAlloc.cpp` checks it. `ValuesKept` is the promise of the allocator;
`NoInterference` says when variables that are live together may share a register,
and that the phis of one node never do, which `PhiLowering` assumes; `RegUsesExact` compares the
counts with the lists; `RequirementsMet` is about variables that must have a
register; `RegNumIsFinal` is the comment "Regnum shouldn't be set more than
once" over all scans; `AllocationEnds` covers the second-chance loop. Three
registers are enough for a pair to be evicted by a single, a single by a pair, and a register
to be taken from an inactive variable, with more variables live than there are registers.

**`browser`.** Four functions in up to five pieces, two translators, queues of one entry and a
buffer of one piece, with and without `-allow-error-recovery`, and with
`-build-on-read=0`. Every subset of the threads may die at any of its points, and the browser may ask
for the result at any time. Four functions are what a stuck thread takes: both translators dead over one
each, one in `OptQ` and one that the parser pushes; or the emitter dead over one, one in `EmitQ`
and one that each translator pushes. The fifth piece follows the module. `ErrorsAreReported` says
that success means a whole output. `CallbacksReturn` has two exceptions that the
code really has. After an error, the stream may be freed under the server (`LostByError`);
without one, never. And a join may not end, but in two situations only (`NobodyPops`): the
emitter is dead, EmitQ is full and a translator waits to push into it, or all translators are dead, OptQ is full
and the parser waits to push. The handler's comment assumes that threads "either get
stuck waiting on input from a previous stage, or also call
report_fatal_error"; a thread stuck on its output is a third way. With the
code's sizes (65,536 and 128) it takes a large module. That the threads may be stuck is why deadlock is
not checked in this run.
What becomes of the other stream, the output, is proved and not run (`OutputOutlivesEmitter`, section 5).

**`loops`.** All graphs of four nodes with up to two successors each
(unreachable nodes are pruned before, and the reader rejects branches to the entry),
and six larger ones: a loop in a loop, loops that share a header, a header that is not
the first of its loop's nodes, a loop with two entries, a switch that enters a loop by two
edges, a branch in a loop. Two of them carry every code of three
instructions over them. `NestDepthIsExact` compares with the natural loops of
the graph, for reducible graphs whose headers come first. `SSAFormIsKept` is the SSA form after
code motion. `TypeOK` includes the assertions of `computeLoopNestDepth`, that both stacks are empty
between rounds, and that no loop is without an entry, where `ComputeLoopInfo` would look at a missing header.

The violation runs are the findings of section 6.

### Fairness

- *Threads* (`queue`, `pipeline`): weak fairness of each thread's steps. The
  code uses `std::thread` and the operating system keeps every thread running. For the
  queue, no fairness is assumed of `SpuriousWakeup`, so nothing depends on
  one, and waking is up to the notifications. For the pipeline, a blocked push or pop
  continues when it can, which is what `queue` shows: no wakeup is
  lost. Weak fairness of a translator's pop does not say which of several
  translators gets an entry.
- *Compile server* (`browser`): weak fairness of each thread, and of the server,
  which includes that the browser asks for the result some time. Which piece of a
  thread's work ends in a fatal error is free.
- *Sequential algorithms* (`phi`, `liveness`, `regalloc` until the registers are final; `bundles` and `loops` have no liveness property): weak fairness of the step, that is, the
  program keeps running.

Deadlock is checked in every passing run but `browser`: the only states without another step
are those of the explicit action `Terminated`.

## 5. What is proved

`BoundedProducerConsumerQueueProofs` proves for every set of producers and
consumers (at least one consumer), every number of entries, array size, limit and
threshold:

| theorem | states |
|---|---|
| `TypeCorrect` | `Spec => []TypeOK`: in particular never more than `MaxSize` entries |
| `NoLostGrewCorrect` | `Spec => []NoLostGrew` |
| `ExitOnlyWhenDrainedCorrect` | `Spec => []ExitOnlyWhenDrained` |
| `NoDeadlockCorrect` | `Spec => []NoDeadlock` |
| `QueueRefinement` | `Spec => ImplementsWorkQueue` |

They use `QueueAssumption` only, which TLC evaluates in the queue runs.

The inductive invariant `IInv` is `TypeInv` (types, and that a producer asleep
in `blockingPush` still has an entry in hand) together with four facts.
`EndMeansDone`: the end is set only when every producer is done, so no entry
comes after it. `NoLostGrew` and `ExitOnlyWhenDrained` are inductive with it.
`NoDeadlock` is not: a state in which producers sleep beside an empty queue and
all consumers sleep too satisfies all of these and has to be excluded by
history. `SomebodyWillShrink` does that: while a producer sleeps beside an
empty queue, a consumer is about to notify one or a producer is already awake.
If the queue is not empty, `NoLostGrew` says that a consumer is awake or about
to be woken. Each action has a
lemma for types and a lemma for coordination, and the theorems combine them.

For the refinement, `Contents` maps `Front`, `Back` and the array to the
abstract sequence. A push appends because the slots of two indices less than
`MaxStaticSize` apart differ (`SlotsDistinct`, the arithmetic of the mask), a
pop takes the head for the same reason, `SetEnded` is the abstract `Close` and
all else stutters.

`TranslationPipelineProofs` proves for every number of functions and of worker
threads, every set of command lines, every outcome of every function and every
size of the queues and of the shuffling window:

| theorem | states |
|---|---|
| `TypeCorrect` | `Spec => []TypeOK`, with the bounds of both queues |
| `ParserOutlivesItemsCorrect` | `Spec => []ParserOutlivesItems` |
| `DataLoweringCorrect` | `Spec => []DataLoweringSingleThread` |
| `EmittedInOrderCorrect` | `Spec => []EmittedInOrder` |
| `EverythingEmittedCorrect` | `Spec => []EverythingEmitted` |
| `StatusCorrect` | `Spec => []StatusIsDeterministic` |

The assumption is `PipelineAssumption`, and for all but the first theorem
`FlagStartsFalse`: `WaitForWorkerThreadsCalled` is false before the first call.
The code does not establish that, and without it the theorems are false: that is
finding 1. The inductive invariant (`IInv`, theorem `Invariance`) has these parts.

- `Numbering` and `Phases`: where the threads can be at each stage of the main
  thread. They give the two lifetime rules by themselves, as `ExitBlock` joins the
  translators, then the emitter, before the parser goes out of scope.
- `Items`: each sequence number up to the last one popped from `OptQ` (`Popped`)
  is in one place only, a translator's hand, `EmitQ` or the emitter's `Pending`. The
  numbers in these places are `Held`. `Account`: the translated functions among
  those popped are the output and those held, and none is in both. Each action is
  shown to move one number from one place to the next (the lemmas called `...Moves`).
- `Reordering`, with threads: what is not pending yet is not before `end`, and
  every number between `end` and `Popped` is held somewhere. So the wait
  for the desired item ends, and when `EmitQ` is closed and empty, nothing is
  missing. `Windows`: with shuffling, windows begin at multiples of their size
  behind the global initializers, whose item closes the first one (`Growing`).
- `NestedCalls`, without threads: there is one item at a time, and it is the last
  one popped. This is why the emitter needs no reordering then.
- `InOrder`: what is still to come (`ToCome`) belongs behind all that has come
  out. That the next item of a window has this property (`WindowFirst`) is where
  the threaded, the shuffled and the nested case differ.
- `Accumulated`: as long as no code has come out, the global initializers are
  either held or waiting in `globals`; afterwards they have been lowered first, and `globals`
  lists the code pieces of the output.
- `Errors`: a function has been rejected without a status only while a
  translator still works on it, and a parse error that is not the end of the parse
  belongs to a function that the translator rejects too. This is why the parser's verdict never
  hides a translation error or depends on who was first.

`PhiLoweringProofs` proves for every number of phis and edges, every set of
variables and operands and every register file:

| theorem | states |
|---|---|
| `TypeCorrect` | `Spec => []TypeOK` |
| `NumPredCorrect` | `Spec => []NumPredIsExact` |
| `ParallelCopyCorrect` | `Spec => []ParallelCopy` |

The assumption is `PhiAssumption`: registers of one size are the same or have no
unit in common, and names of different things differ. That the destinations
do not overlap is in `Init`; for the phis that the allocator is given,
`NoInterferenceCorrect` proves it (see below).
`ParallelCopy` is about the end of an edge; `Values` carries it
there. It says of each phi that its value at the beginning of the edge is now in
its destination, or, if it is still pending, in its source, which may be a temporary by now. An appended
copy (`AppendAssign`) overwrites no source of a pending phi, because `NumPred` is 0 and
`NumPredIsExact`; a temporary (`BreakCycle`) is a place that nobody uses yet
(`TmpsAreUsed` counts them). `PlacesDisjoint` is what `sameVarOrReg` decides about cells.
`UpdatePredsCounts` shows that `NumPredIsExact` survives: an item loses a reader
exactly when its destination overlaps the source that has been copied.

`BundleEmissionProofs` proves for every set of well-formed functions, every
bundle size that the longest pair of branches fits into, and every reach of short branches:

| theorem | states |
|---|---|
| `TypeCorrect` | `Spec => []TypeOK` |
| `RegionsFitCorrect` | `Spec => []RegionsFit` |
| `ReturnPointsCorrect` | `Spec => []ReturnPointsAreAligned` |
| `EmittedOnceCorrect` | `Spec => []EmittedOnce` |
| `EffectsCorrect` | `Spec => []EffectsMatchText` |

The assumption is `BundleAssumption`; `WellFormed` is what it says of a
function. None of the properties is inductive, because at the moment of a step
they do not know what the preliminary pass has found out. `Position` ties the
size of the buffer to the entry's offset in its region, so that the size at
`bundle_unlock` is the size of the region; `Layout` says where the pieces of the
region and those before it are, so that the rollback removes just the former; `RegionFits` and
`RegionEndsAligned` are what the padding has achieved when the final pass
begins. Two lemmas carry most of the rest: a step either leaves all that is
final unchanged (`NothingFinalHappens`) or adds one instruction at the end
(`NextInstructionIsAdded`). The arithmetic is in `FitsAtBegin`, `FitsAtEnd` and
`PartOfBundle`. A branch that padding makes longer is harmless because it is
then at the beginning of a bundle, which is why a region with such a branch
would need more.

`BrowserCompileServerProofs` proves for every finite set of translators (at least
one), every number of functions and of pieces, and every size of the queues and of the buffer:

| theorem | states |
|---|---|
| `TypeCorrect` | `Spec => []TypeOK` |
| `ErrorsAreReportedCorrect` | `Spec => []ErrorsAreReported` |
| `OutputOutlivesEmitterCorrect` | `Spec => []OutputOutlivesEmitter` |

The assumption is `ServerAssumption`. That a success is a whole output is about
the last moment of a run, and has to be carried there by an account. `Counted`
says where the functions are that have been read (the parser's hand, `OptQ`, a
translator's hand, `EmitQ`, the emitter's hand, the output): the count never
exceeds `got`, and equals it while nobody has failed. `Starting`, `Closing` and
`Drained` say in which order the threads begin, the queues are closed and the
workers leave, which makes all but the last of these places empty at the end;
`Noted` says that a failure that broke the account has left its trace in
`HadError`, the context or the translator by the time it is asked for: a parse that
fails without noting anything (`SkipBlock`) is noted by `translate()` when the threads have been
joined. The translators that have a function in
hand are counted with `Cardinality`; `BusyJoins`, `BusyLeaves` and `BusyStays` say how a
step of one translator changes the count. Each action has a lemma. `OutputOutlivesEmitter` takes a
second, small invariant beside it (`OutInv`): the output is deleted only when the compile thread has ended or
died, and no step of any thread wakes it up again; `Closing` then says that one that
has ended had seen the emitter leave.

`LivenessProofs` proves for every set of functions that satisfy `IsFunction`, with blocks
in any order:

| theorem | states |
|---|---|
| `TypeCorrect` | `Spec => []TypeOK` |
| `InterferenceIsSeenCorrect` | `Spec => [](Settled \/ HasNoLoop \/ ~HasPhis(f) => InterferenceIsSeen)` |
| `NothingDeletedIsLiveCorrect` | `Spec => [](Settled \/ HasNoLoop \/ ~HasPhis(f) => NothingDeletedIsLive)` |
| `NothingNeededIsDeletedCorrect` | `Spec => [](DefinitionsReach /\ (Settled \/ HasNoLoop \/ ~HasPhis(f)) => NothingNeededIsDeleted)` |
| `ExactWithoutLoopsCorrect` | `Spec => [](DefinitionsReach => ExactWithoutLoops)` |

The assumptions are `VariablesAssumption` and `FunctionsAssumption`.

*Types.* The conjunct that is hard is
`RangesAreOrdered`: the segments of a range are in order and do not overlap, which
`LiveRange::addSegment()` asserts (`IceOperand.cpp:104`) and a release build does not check, and
which the allocator relies on when it trims. A variable that is live through a node and is also
given a begin and an end in it would get a second segment before the end of the first. The
inductive invariant `IInv` is about the last visit of each node, of which only begins, ends, `LiveIn` and
`LiveOut` are left when the final pass uses them:

- `BeginsAgain`: what ends in a node and is live out begins in it again, after the end. `EndsToo`: what begins
  in it and is live in has an end. The walk over a block is the recursive function `LiveAfter`; its
  equation (`LiveAfterEquation`) is proved from the well-foundedness of the numbers of a block, and
  `EndsBeforeBegins`, `BeginsAfterEnds` and `DefinedIsNotAbove` take the last place of the block
  at which something changes.
- `LiveInIsClean`: `LiveIn` is a union over all visits, so it could hold a variable that the last visit did not
  find. With phis this does happen (a phi of a node not yet visited counts as live), but not for what
  the node itself defines, as it reads that only after the definition. Without phis a node may read a variable
  and write it later, but the sets only grow (`WalkIsMonotonic`) and the last visit finds all.
- `RangesGrow`: the final pass adds segments node by node, each behind those before
  (`EndsBefore`, `ExtendedIsOrdered`), loses no number that a range has (`ExtendedCovers`), and when it has
  passed a node, the ranges of all phis kept there contain the number of the first (`PhisInRange`).

*What is live is seen.* The next two theorems compare the result with liveness as data-flow analysis
defines it (`ReallyLiveIn`, `ReallyLiveAfter`), in the function without what is deleted. They hold where the last
visits of the nodes agree, which is what convergence should mean: at the end `LiveOut` of each node contains
what its successors then need (`Settled`). `SettledSoFar` is the invariant that shows it for
functions without loops (a node is visited again whenever a successor was) and for functions without phis (`LiveIn`
only grows, and a node whose successor's grew is visited again). With loops *and* phis it is a hypothesis:
finding 3 is a function where it fails, and where a needed instruction is deleted.
The order of the blocks makes the difference there, which `NothingNeededIsDeleted` checks on small functions.

- `Recorded` is the invariant of each node about its last visit: `Dead`, the begins, the ends and `LiveIn` are
  those of a walk over the block from `LiveOut` (`Walk`), and nothing that comes later changes
  them (`VisitRecords`, `OthersStay`, `FinalPassRecords`).
- `ReallyLiveIn` is a recursive function on the number of edges that a path may have. `LiveWithinEquation`
  gives its equation by an argument on initial segments (`IterationExists`, `PartExists`, `PartsAgree`), and an induction over that
  number shows that it stays within the walks (`BlockLiveness`, `OutIsLiveOut`, `LiveIsOnTop`).
- `LiveIsCovered` and `ArgIsCovered`: where a variable is live in a walk, a segment of its range has that number; with
  `LiveUntilEnd`, `LiveUntilBegin` and `EndsInBetween` for where it begins and ends. Two variables that are
  live in one place therefore overlap (`CoveredOverlap`).
- What is deleted was found dead by the last walk, so its result was not live behind it, and what really is live
  there is a part of the walk (`SettledIsDead`). The exception is a phi before another one with the same
  destination: `IsFunction` does not exclude it, and the walk sees the phis of a block one by one, while
  they really are parallel.

*What is needed is kept, and nothing else.* `Needed` follows the operands of what has an effect backwards and does not look at paths, so
it is what liveness keeps only if a definition reaches the uses of its variable. `DefinitionsReach` says
so: from a definition a path that does not define the variable again leads to each use of it. In SSA form the
definition dominates its uses, so there is one. It is a hypothesis of both theorems, and holds
for all functions of the two runs.

- `LiveGoesBack`: on such a path the variable is in the walk of each node, so the definition was not dead
  (`ReachingIsNotDead`); an induction over the steps of `Needed` gives `NeededIsNotDead`.
- `ExactSoFar`: without loops each node is visited once, after all its successors (`VisitIsExact`). So
  its last visit saw the final `LiveIn` of each successor and which of their phis are dead, and
  no set has anything left of an earlier visit.
- `LiveIsRead`: what is then in a walk is read behind by something that is kept. `KeptIsNeeded` is an induction over the
  places of the code from the end: what is kept has an effect or is read by what is kept and comes later, as all edges go on
  (`LaterNodesFollow`). `WalkIsLive` and `TopIsLive` show in the same way that the walks have nothing that is not
  really live.

`RegisterAllocationProofs` proves for every register file, every
set of variables and every set of functions that satisfy `Requirements`, with any number of nodes,
instructions and second-chance scans:

| theorem | states |
|---|---|
| `RegUsesExactCorrect` | `Spec => []RegUsesExact` |
| `RequirementsMetCorrect` | `Spec => []RequirementsMet` |
| `RegNumIsFinalCorrect` | `Spec => RegNumIsFinal` |
| `NoInterferenceCorrect` | `Spec => []NoInterference` |
| `TypeCorrect` | `Spec => []TypeOK` |
| `ValuesKeptCorrect` | `Spec => [](f.kind = "Global" /\ IsRegular => ValuesKept)` |

The assumptions are `VariablesAssumption` (finite), `RegistersAssumption`
(registers are nonempty sequences of different units), `NoneAssumption`, `UnitsAssumption` (a unit is not
a slot) and `FunctionsAssumption`: the
functions satisfy `Requirements` (a pre-color has the width of its variable, nothing both must and
must not have a register, phis only before the first allocation, and each with a variable of its own that is not
pre-colored; a copy has one source, and the source of a copy or operand of a phi is as wide as
its dest).

*The first three* follow from `IInv` (theorem `Invariance`). `RegUsesExact` is inductive with the types and
`UnhandledIsApart`: a variable is in one of the lists only, so what
leaves `Active` is counted out once. `CountsAfterExpiry` and `CountsAfterAssignment` are about
the sizes of the sets that an expiry, a reactivation or an eviction makes. `WidthsMatch` and
`MustIsKept` give `RequirementsMet`: a variable that must have a register has an
infinite weight, so nobody is heavier, and it is never evicted
(`EvictLightestStep`). `RegistersAreKept` gives `RegNumIsFinal` in the same way:
variables with a final register are added to `MustHaveReg` when the scan starts, and
when it ends their register is what it was.

*Sharing* is the fourth one. Its inductive invariant has two more parts. `SInv` is about scans:

- `OverlapsAreHarmless` for the registers of the earlier scans, `FirstScanIsFresh` (only pre-colors
  before) and `EvictedHaveLost` (a second-chance scan considers all that has a register, and what was evicted
  has none).
- `ScanIsSafe`, for the registers of this scan. Two variables that have been considered and whose ranges
  overlap have registers that alias only if `MayAlias` says so (`HoldersApart`). The others of its
  conjuncts say why the lists are enough to decide that: whatever has a final register is still to
  come or has been considered (`NobodyIsMissed`); what is still to come is untrimmed, has a
  range, and has a register only if it had one before (`UnhandledIsFresh`); what is `Active` or `Inactive` holds a register
  (`ActiveHaveRegisters`); what is `Handled` and holds one ends before all that is to come
  (`HandledEndBefore`); and a trimmed segment lies before all that is to come (`TrimmedToThePast`), so that
  looking only at the rest of a range misses no overlap. The last needs that ranges are ordered.

A register that is chosen is then free of overlapping variables, active, inactive or
pre-colored, or `OverlapAllowed` has excluded a definition of each of the others while the new
variable is live; and what is evicted is all that overlaps and aliases.

`LiveInv` is about ranges: they are those of the analysis, whose invariant is used as it stands
(`LP` is the instance of `LivenessProofs` on the same variables, `SameAnalysis` that its actions are those
that `Analyse` takes), or the part of them in the new block (`InNewNodeIsOrdered`), or go from the
first definition to the last use (`SimpleRangeIsOrdered`, where `LivenessError` excludes those out of order).
It also gives the step from liveness analysis to phis: the ranges of the phis that a node keeps have a number
in common, so they overlap. Phis are neither copies nor pre-colored, so `OverlapsAreHarmless` leaves them no
register in common (`PhisAreApart`). This is the assumption of `PhiLowering`, and so the modules
fit together for every function.

*Types* also cover the machine that runs the allocated code. With `IInv` and the ordered ranges, `MInv` is inductive: a place
has as many cells as its variable has units, because registers have the width of what is in them
(`PlaceHasWidth`, from `WidthsMatch`); so a copy or a phi finds in its source all the units that it writes
(`LoadedParts`); and spills and fills go between the units of a register and the slot made for them
(`SavesAreContents`). An instruction that is not the last of its node is followed by one (`NextInstIsCode`).

*Values.* `ValuesKeptCorrect` is the promise of the allocator for `RAK_Global`: on every path, whatever
an instruction or an edge reads is where the allocator says. `NoInterference` is not enough for it: it says when two variables that overlap
may share a register, not that they have the same value whenever both are live.
The proof joins the three parts of the project that the promise rests on: the walks of liveness
analysis, the choices of the scans, and the machine. `IsRegular` is what it takes for granted:

| part | why the code keeps it |
|---|---|
| `IsSettled`: the last visits of the nodes agree, or there are no loops, or no phis | finding 3 is a function where they do not, and a needed instruction is deleted |
| `CallsAreKilled`: a call has an effect and is followed by its `FakeKill` | `Context.insert<InstFakeKill>(NewCall)`, `IceTargetLoweringX86BaseImpl.h:2760` |
| `EffectsReadDest`: what has an effect and a dest reads it, or is a call with its result in a scratch register | an instruction with an effect is kept although nobody reads its result, so its dest may have no range behind it, and a register that somebody else has. `Cmpxchg`, `Xadd` and `Xchg` have their dest as a source (`IceInstX86BaseImpl.h:211`, `:370`). An ARM32 instruction that sets flags would not satisfy it |
| `CopiesFindTheirPart`: the register preferred for a copy begins with the units of its source's | `scan()` takes the first of the aliases; in the tables `al` comes before `ah` (`IceInstX8632.def:49`, `:58`) |
| `PrecoloredApart`, `PrecoloredAtCalls`: pre-colored variables that alias do not overlap, and none is in a scratch register across a call | the lowering makes them for one instruction, in copies just before it and behind it |
| `EntryHasArgs`: only arguments are live at the entry, which has no phis, and there they have ranges | bitcode is in SSA form, the reader rejects branches to the entry, and the entry's numbers are extended to 1 for the arguments (`IceCfg.cpp:1620`) |

TLC finds all of them true of every `RAK_Global` function of `regalloc`. The second-chance scans belong to
`RAK_Global`; `RAK_Phi` and `RAK_InfOnly` have other ranges, and spills around instructions, and stay with TLC.

The invariant has three more parts.

- `KInv`: the results of the analysis stay what `LivenessProofs` shows of them (`LP!Finished`: the walks are
  recorded, and what is live behind a place is in range there); pre-colored variables keep
  their registers; what crosses a `FakeKill` is in no register that calls overwrite
  (`RegistersStay`, from `IterationAvoidsKills`); and nothing is spilled around an instruction.
- `TInv`: variables that overlap and share units are *twins* (`SharersAreTwins`). The obvious formula, that one is a
  copy of the other, is not true: `y` may be a copy of `t`, which is a copy of `x`, and `t`
  evicted while `x` and `y` share. Nor is the order in which the copies were
  made known. So `Twins` is the largest relation in which one of the two
  is defined once, by a copy, while the other is not written, and the source of the copy is the other, or its
  twin, or does not overlap it. It also says which half of a pair is shared: `Aligned`.
  `ChoiceKeepsTwins` shows that a choice of `scan()` keeps it: a register is shared only if the preferred source holds it
  (`SourceIsHeld`, `PartFacts`).
- `RInv`: where the machine stands, all that is live (`LiveNow`, in the sense of the walks) is in
  place, overlaps pairwise, and twins are in the same cells (`GoodFor`). Twins that both
  are live have one value; where only one of them is, the other's value is of no interest. A
  copy makes its dest and the twins of its dest alike (`CopyEffect`, `CopyKeeps`, `DestTwins`). Any other instruction
  has a dest without twins among what is live (`PlainKeeps`), because `SharesAsCopy` excludes that the twin is in range where the dest is
  written. A call overwrites what nobody live is in (`CallsSpare`, from `PrecoloredAtCalls` and
  `KInv`). On an edge the dests of the phis are apart by `PhiDestsApart`, which is
  `PhisCanBeLowered`, and have no twins among what is live above the node (`TakeEdgeKeeps`); and at the entry arguments
  have no twins at all (`ArgsAreApart`).

What is live and what is in range are connected by the last section of `LivenessProofs`:
`InstFacts`, `EdgeFacts`, `PhiFacts` and `EntryFacts` say of one instruction, edge, phi and of the entry how the sets of
the walks go over into each other and which number is in the ranges of all of them. For phis this
takes that all the phis of a node have the number of the first (`PhisAddUp`).

`LoopProofs` proves for every set of functions whose nodes can all be reached from the
entry, and whose entry has no edges into it, with any code in SSA form:

| theorem | states |
|---|---|
| `TypeCorrect` | `Spec => []TypeOK` |
| `SSAFormIsKeptCorrect` | `Spec => [](NumberedInOrder => SSAFormIsKept)` |
| `NestDepthIsExactCorrect` | `Spec => []NestDepthIsExact` |

The assumptions are `GraphAssumption` and `CodeAssumption`. `TypeOK` holds because the search, although
it is left and entered again at every edge, keeps what Tarjan's algorithm keeps.
`AnalysisInv` says what that is:

- `Sorted`: the nodes of `LoopStack` are in the order of their indices, so a node is on it once, and
  the component of a node is what lies above it.
- `Linked`: `LowLink` is the index of a node on `LoopStack`, and less than the node's own index when
  its visit is over. So nothing stays on `LoopStack` when `WorkStack` gets empty: its first
  node would be linked to one before it (`StacksAreEmpty`).
- `IsPath`: each node of `WorkStack` is where the edge that was taken last from the one before it leads;
  `ChildIsDone`: that edge's target is still on `LoopStack` or has a larger `LowLink`, so it does no
  harm that `processNode()` looks at it again without asking whether its component is finished.
- `EntryFirst`: the entry is below all others in the first round, and no edge leads to it, so it is never
  in a component with another node (`BodyFacts`). Therefore no loop has the entry
  (`EntryInNoLoop`), its nodes can be reached from outside, and an edge enters it (`LoopIsEntered`).
- `DepthIsBounded`: a round adds at most 1 to a node's depth for each node that it deletes.

`RecurseKeeps`, `ReturnLinkedKeeps` and `FoundLoopKeeps` are the three ways in which a call of
`processNode()` ends. `Selected` stays within the sequence it selects from because each place has an element
with that many below it (`PlaceExists`).

*SSA form.* `NumberedInOrder`, that a definition has a smaller number than its uses, is what finding 4
violates; the runs `loops` and `loops_order` have functions of both kinds. The inductive invariant `MotionInv` says that
each instruction is in one place (`OncePlaced`), that the definitions are before their uses (`Ordered`), and that all edges into
a loop come from its preheader (`IsEntered`, `NewLoopIsEntered`). A step moves the instructions of several nodes
to one, so there are four cases (`MovedKeepsOrder`). If neither the definition nor the use moves, they
keep their order. If both do, they are in the order of their numbers. A use does not
move alone: what is invariant uses arguments and what is invariant (`InvariantFacts`), and a variable has one definition
(`DefinitionMoves`). If the definition moves alone, the preheader dominates the node it leaves (`PreHeaderDominates`),
hence the use (`DominatesThrough`); and the use is not in the preheader itself, which no node of
the loop dominates (`LoopDoesNotDominate`). Domination is computed by as many rounds as there are nodes;
that this is enough to reach a fixed point (`PartIsClosed`, `ReachableFacts`) is counted on the sizes of the sets.
`OthersStay` and `MovedAtEnd` say where the instructions come to be.

*Nest depth.* `NestDepthIsExact` compares two definitions that have little in common: the depth is counted by
taking the headers out of strongly connected components, round after round, and natural loops are
defined by back edges and backward paths. That a node reaches another is said without paths, by sets that are closed
under edges (`Reaches`). The argument has three parts.

- *The search finds the components* (`ComponentsInv`). No edge leaves the components that were found, but to
  deleted nodes (`FinishedIsLeft`). The edges that were looked at count for `LowLink` (`EdgesLinked`), and so
  does what was visited below a node, which is why a `LowLink` that is equal to the index means that no edge leaves the component
  (`TreeLinked`, `ChildLinked`, `ComponentIsComplete`). Conversely a node reaches the
  one that its `LowLink` is the index of (`LowIsReached`, `WorkReaches`), so the nodes of a component reach each other
  (`FoundLoopFindsComponents`). `processNode()` visits one edge at a time and
  looks at the last edge again when it comes back; `OldFacts` says what it changes.
- *A component is within a natural loop* (`ComponentHasHeader`). Of the nodes of a component of a reducible graph,
  some node is the first to be taken away (`FirstTakenAway`); all edges to it from the component are then back edges,
  and what reaches one of their sources without passing it is in its loop. A natural loop in turn is
  entered at its header only, and its nodes reach each other (`LoopIsEnteredAtHeader`, `LoopIsConnected`).
- *The rounds take away loops from the outside* (`Nesting`). When headers come first, a loop is visited from its
  header (`VisitedAfterHeader`), so the node that a component is found at is its header;
  it is deleted before the other nodes of its loop (`OutsideIn`), whose nodes are thus the whole component
  (`NestedIsLoop`); and so at all times the depth of a node counts the deleted headers of loops around it (`DepthCounts`). When the rounds end,
  all nodes are deleted.

Smallest elements (`Min` of a set of numbers or of instructions) exist because inclusion
on finite sets is well-founded (`SmallestNumber`).

Only model-checked: `ValuesKept` after phi lowering and without liveness analysis (`RAK_Phi`, `RAK_InfOnly`),
and of functions that are not regular; and `NothingNeededIsDeleted` and `InterferenceIsSeen` in functions with loops and phis that
have not settled. Functions that are defined by
recursion over the numbers can be reasoned about where their equation is proved by hand, as in `LivenessProofs`;
the induction theorems of the library take an operator as a parameter, which these provers cannot instantiate.
All liveness properties (`EverythingDrains`,
`CompilationEnds`, `CallbacksReturn`, `LoweringEnds`, `LivenessEnds`, `AllocationEnds`) are checked by TLC only, since TLAPS does not reason about fairness and ENABLED.

## 6. Findings

1. **`WaitForWorkerThreadsCalled` is never initialised** (`pipeline_start`,
   `IceGlobalContext.h:488`). If it reads as true, the main thread skips the
   wait and uses `DataLowering` while the emitter does, against the comment at
   `:499`.
2. **The input stream does not outlive its users** (`browser_streams`,
   `PNaClTranslator.cpp:3292`). The bitcode reader deletes it when
   `translate()` returns. A comment there says that errors are fatal "to avoid destroying the MemObj",
   but one is not: a translator's fatal error calls `SetDone()` while the parser is inside the block
   of another function, `SkipBlock()` finds the end of the input and returns true without a word, and after the
   join in `ExitBlock()` `translate()` returns. The server may be in `PutBytes()` all the while,
   or come to `endInputStream()` next, which tests nothing. The same follows from a fatal error
   of the compile thread in the rest of `run()`, whose handler calls `SetDone()`, and from parse errors
   with `-allow-error-recovery`.
3. **Liveness depends on the order of nodes** (`liveness_order`,
   `IceCfgNode.cpp:765`). Whether the predecessors are visited again is decided
   by the *number* of live phis. If one phi turns dead and another
   turns live in the same visit, the number is the same, the predecessors are
   not visited, and the definition of the operand of the second stays marked
   dead and is deleted. It takes a loop whose nodes are not in topological
   order; the design document says that the order matters for speed only
   (`DESIGN.rst:118`).
4. **Moved instructions may be used before they are defined** (`loops_order`,
   `IceCfg.cpp:752`). What is moved is sorted by the numbers of instructions,
   that is, by the order of blocks in the bitcode. If a block of the loop comes after one that
   it dominates, a use goes before its definition in the preheader. Only with `-licm`.

Smaller remarks, without a run. The output may be deleted under the emitter, as `OutputOutlivesEmitter` says: a compile thread
that dies, of an input that ends too early for instance, joins nobody, `waitForCompileThread()` joins it and deletes
`EmitStream` (`IceBrowserCompileServer.h:75`), and the translators and the emitter go on with what was
read, where the fatal-error handler assumes them to be stuck or to die. `addSpillFill` says that it removes the registers "referenced during Cur's
live range" (`IceRegAlloc.cpp:417`), but its `FOREACH_VAR_IN_INST` visits sources only; no target
lowers an assignment so that it matters (see `regalloc` in section 4). The queue's class comment has a hard limit of
`MaxStaticSize-1` (`IceThreading.h:36`) where the code admits `MaxStaticSize`,
rightly, as the indices run free. "EmitQ is allowed unlimited size"
(`IceGlobalContext.cpp:312`), but it has 128 entries and translators do block on it.
`LoopAnalyzer`'s comment (`IceLoopAnalyzer.cpp:26-29`) assumes that loops do not
share a head; it also needs heads to come first in their loop in the order of the
search, or nodes get a depth one too high, which affects weights only.
`loopInvariantCodeMotion` moves divisions in front of the tests that guard them.
Two `return`s in it are commented "try next loop" (`IceCfg.cpp:681`); they cannot be reached, as a simple
loop has a preheader.

## 7. What is not modelled, and why

*In modelled components.* Pipeline: the parsing of other blocks than functions,
string and constant pools, statistics, the order in which threads' timers are
merged, the WASM and LLVM-IR front ends. Compile server: the checks in
`onInitCallback`, the log stream, the contents of the error stream (to which dying threads
write without a lock), compilation without worker threads. Liveness: the lightweight mode, last-use
flags, `RangeMask` (variables left out of the ranges by request) and the
incremental run after phi lowering. Bundles: branches to labels inside a node
and near branches forward, the padding after the last instruction, textual
emission. Phi lowering: the splitting of the edge, the target's lowering
of the assignments, the lowering for `-Om1` (a temporary for each phi, which has no order to get wrong).
Register allocation: the random permutation of registers, rematerializable
variables, variables without a range (`IgnoreLiveness`), the saturation of
weights below the infinite one, the splitting of global variables afterwards (off by default).

*Left for later* (section 2, I and J): switches, stack slots, clean-up of the control
flow, timers.

*Left out.* Target lowering and the assemblers are large case analyses over
data, with no protocol; cross tests and assembler tests cover them by example.
So are the other optimisation passes on single functions. The ELF writer lays out a
file in one pass on one thread, and its order of calls is the emitter's. The
bitcode reader decodes a stream; the pipeline takes from it which blocks
there are and which fail. The WASM and LLVM-IR front ends are off by default
and feed the same queues. Instrumentation is a debugging aid. Support code is
tables and containers behind locks. Scripts only start builds and tests.
