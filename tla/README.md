# TLA+ specifications of the compiler

This directory holds TLA+ models of the SysY compiler in `src/` ("燃烧我的编译器"),
TLC instances that check them, and proofs checked by TLAPS. The compiler reads a
SysY program, translates it to a tree of blocks, then to a flow graph, then to
SSA form, runs a fixed sequence of passes over it and prints ARM assembly. Its
special feature is a small thread runtime it emits into the program, with which
loops are run by four threads that share *one* stack.

Two kinds of things can go wrong in it, and the models are about both:

- the code it **emits** runs concurrently: the runtime, the parallel loops and
  everything a parallel region does with the shared stack;
- the **algorithms** of the passes work on graphs with loops, keep tables that
  become stale, and iterate until nothing changes. Here an ordering bug shows
  only for some shape of the program no test has.

Nearly every model of an algorithm also runs what the algorithm produced next to
what it was given and compares the two, rather than restating what the algorithm
computes: the text of a program next to its blocks, the statements next to the
flow graph, a block next to the optimised block, whole programs before and after
a pass, an instruction next to its ARM code, a loop next to four threads.

## 1. The system

| Part | State it keeps | Operations | Interacts with | What makes it correct |
|---|---|---|---|---|
| Thread runtime, `CodeGen.cc:1569-1664` | registers of each thread, words below the callers' `sp` | `__mtstart`, `__mtend` | the kernel (`clone`, `exit`, `wait`), the region between the two | every thread enters the region with the caller's registers and its own id; nothing after the region runs before all threads are gone |
| `Multithreading` | the rewritten bounds of a loop | `findAccumulator`, `wrapMultithreading` | loops marked by `FunctionOptimization`; CodeGen, which gives private frames | the shares of the threads partition the iterations |
| Parallel moves, `CodeGen.cc:1205-1266` | the pending moves, the register that is parked | `virtualRegMove` | entries, calls, phis | a list of moves acts as one assignment; it ends |
| Register allocation, `RegAlloc.cc` | `live_in/out`, `remain`, `IG`, `context_active_vars`, `reg_mapping` | `regAlloc` | calls (what to save), moves (phis) | no value is lost before its last use, on any path, across calls |
| Code generation, `CodeGen.cc` | `stack_mapping`, `stack_size`, `thread_stack_bits`, `in_mt_env` | `allocateStackSpace`, `findMTVars`, entry, exit and call of a function, `generateInstructionCode` | register allocation, `InstGen`, regions | the code does what the IR says and leaves every live value in its place |
| `InstGen` | | one emitted instruction, constants that do not fit, `divConst` | `CodeGen` | constants fit; the quotient is right for all dividends |
| `Dominators` | post order, `idom`, frontiers, tree | `createReversePostOrder`, `createIDom`, `createDominanceFrontier`, `createDomTreeSucc` | `Mem2Reg` | closest dominators, exact frontiers; the sweeps end |
| `LoopFind` | the search's stack, `base2Loop`, `BB2Base` | `traverse`, `findLoopBase`, `getBaseLoop`, `getParentLoop`, `isBaseLoop` | `LoopInvariant`, `FunctionInline` | natural loops, each block in the innermost one |
| `Mem2Reg` | phis, `newest_live_var` | `GenPhi`, `ReName` | uses `Dominators` | every load is replaced by what it would have read |
| Values and use lists, `IR/` | operands, use lists, block lists, predecessor and successor lists | `setOperand`, `replaceAllUseWith`, `addBasicBlock`... | all passes; `IRCheck` | the two sides of each relation agree |
| `SimplifyCFG` | the flow graph and its phis | five rewritings | `Dominators`, which needs reachable blocks | same paths, same values |
| `DeadCodeEliminate`, `BBConstPropagation`, `BBCommonSubExper`, `LowerIR` | what is known of memory within a block | store elimination and forwarding, merging of expressions, splitting and fusing | calls, aliases | the block still computes the same |
| `FunctionInline`, `GlobalVariableLocal`, `RefactorPartIns`, `LoopInvariant` | functions ignored, recursive, inlined; the invariants of a loop | copying, removing, hoisting | one another, `SimplifyCFG`, `IRCheck` | meaning is kept, SSA form is kept, they end |
| `FunctionOptimization`, `Analyzer` | an interpreter's registers and memory | run a function on samples, replace it by fixed IR | `Multithreading` | what is replaced did the same, at the calls the program makes |
| `SYSYCBuilder` | scopes, the block and layer at work, `tmp_val` | one `visit` for each kind of node | the syntax tree | the blocks do what the text says |
| `HighIRsimplyCFG`, `LoopMerge`, `AccumulatePattern`, `BBExps` | expressions of blocks; the last pattern and the current one | merging of blocks and of loops, sums in a place of their own | one another: the expressions are computed once and the blocks then change | meaning is kept |
| `HIRToMIR` | the tree, the block that follows | `genBaseBlock` | `SimplifyCFG` | meaning is kept |
| `PassManager`, `main` | the sequence of passes | `run`, with `IRCheck` after each | all of the above | what one pass leaves is what the next expects |
| parser, scanner, driver, printing, types, constants | | | | |

`PROJECT.json` lists every component with what is modelled of it, and under
`hazards` where in the code it may go wrong in a way a test would hardly reach.

The behaviours that are hard: several threads on one stack, each with frames
only told apart by an index; a join that counts threads that may not exist;
sweeps that climb a tree they are still building; parallel assignments made of
sequential moves; live ranges along back edges; tables of the newest value that
must be restored on the way out of a recursion; two-sided relations (uses,
predecessors) updated by hand while they are walked; knowledge about memory that
a store through another pointer makes stale; copying functions into functions
that are themselves being copied; patterns found before an earlier rewriting
changed what they were found in; arithmetic that is right for all dividends but
one; and verdicts about all inputs drawn from a few.

## 2. Modules

```
ForkJoin <--implements-- MTRuntime            FlowGraph <--- LoopFind
   ^                                          ^       ^          ^
   | EXTENDS                                  |       |          | INSTANCE
ParallelLoop --> LoopChunks             Mem2Reg  Dominators <--- FlowAnalyses

ParallelMove        RegAlloc

GeneratedCode --> InstructionCode --> CodeGen --> InstGen

BlockPasses --> BBCommonSubExper, DeadCodeEliminate, BBConstPropagation, LowerIR --> BlockCode

CFGPasses --> FlowGraph, StructuredBlocks, SimplifyCFG --> IRFunction

ProgramPasses --> FunctionOptimization --> LoopInvariant --> FunctionInline --> ProgramCode

FrontEnd --> LoopPatterns --> SYSYCBuilder --> SysY --> HIR
```

An arrow without a name is EXTENDS. The four last lines are four stretches of the
compiler's way: the tree of blocks (`FrontEnd`), the flow graph of a function
(`CFGPasses`), whole programs (`ProgramPasses`), the instructions of a block
(`BlockPasses`); `GeneratedCode`, `RegAlloc` and `ParallelMove` are the way from
there to assembly, `MTRuntime` and `ParallelLoop` what the assembly does.

Instances for TLC are in an `MC` module or, where they are short, in the last
section of the module itself. `Proofs` modules hold the proofs. Operators named
`...Slip` are plausible mistakes, each next to the definition it varies; no
specification uses them. They are what the properties were tried against: each
property fails for at least one of them.

### ForkJoin, MTRuntime

`ForkJoin` is what generated code relies on: `tid = __mtstart(); region;
__mtend(tid)` runs the region once for each thread number, and goes on when all
are done. `MTRuntime` is the emitted assembly. The registers of each thread
(`reg`), the stack words (`mem`) and the program counter (`pc`) are the state;
an action is a stretch of instructions with at most one system call or one
burst of stack accesses:

| Action | Code |
|---|---|
| `MtStart` | prologue of `__mtstart`: `sub sp, #1<<24`, push r0-r3, r7 to r3, count in r2 |
| `Clone(w)`, `CloneFails`, `ForkDone` | the loop around `clone`; what parent and child find in r0 and `sp` |
| `Restore(t)` | pop r0-r3, restore r7 and `sp`, r10 := r2 |
| `Region(t)` | the region, abstractly: the number is recorded, then `__mtend` is called |
| `ExitWorker(t)` | a thread whose id is not 0 leaves with `exit` |
| `BeginJoin`, `CallWait`, `WaitReturns`, `JoinDone` | thread 0: one `wait` for every expected worker, the counter kept on the stack |

The kernel is modelled from how it is used: a child starts with a copy of the
registers, its `sp` is what r1 held, `wait` returns when there is an exited
child or no child at all, and may write the words below `sp` it is entitled to
and destroy r0-r3; `clone` may fail (`CloneMayFail`). `Shift` is the distance
`__mtstart` moves `sp` (2^24 bytes in the code); the assumption
`DisplacementAssumption` says it exceeds what `__mtend` and `wait` use, and the
proofs hold for every such distance.

Refinement: a thread's number is r10, the phase is that of thread 0. `Region`
is `Run`, `ExitWorker` and the steps of `wait` are stutters, `JoinDone` is
`Join`.

### LoopChunks, ParallelLoop

`LoopChunks` is the arithmetic `wrapMultithreading` emits, in machine words that
wrap (the division by four becomes an arithmetic shift in `LowerIR`, the one by
the step a truncating division unless it is a power of two).
`ParallelLoop` runs the wrapped loop on the threads of `ForkJoin` with every
variable spilled: the bound of the loop in a slot all threads read, the
variables of the region at `slot + (r10 << thread_stack_bits)`. A call in the
body saves what caller and callee push (`CallPushes`) at the `sp` all threads have:
`lr` always; the register of the body if the call stands between its load and its
store, so that it is in use (`context_active_vars`); r10 if the call returns a value,
because the thread id is in use up to `__mtend`, or if the callee allocates it.
`{"lr"}` is a void call, behind the store, of a function that has enough with r0-r3.

### ParallelMove

`virtualRegMove` for a list: `Check` (two targets coincide: abort), `EmitMove`
(a move no pending move needs the target of), `BreakCycle` (park a source in
`op_reg_0`), `Finish`. Each action also executes what is emitted, so that the
machine (`val`) can be compared with one parallel assignment (`Assigned`).

### RegAlloc

One function through the whole of `regAlloc`: `FindLive`; `StartBlock`,
`ProcessInst`, `EndBlock`, which count the remaining uses and build the
interference graph; `StartColour`, `Colour`; `AllocateStackSpace`, as far as it moves
the thread id to r10; then the allocated function is run
(`StartRun`, `Execute`, `Branch`, `Return`), with each place (register or slot) holding the
value last written to it. A call leaves nothing in the caller-saved registers it
does not save. A function has at most one parallel region here: the ids of two are in
use one after the other, as `findMTVars` stops at a region within another. The choice among allowed registers is free, so the weights and
bonuses of the code are one instance of it.

### InstGen, CodeGen, InstructionCode, GeneratedCode

The way from an instruction of the IR to ARM. `InstGen` begins with the machine:
what each instruction the compiler emits does to registers, flags, stack and
memory, in words of `W` bits. Then follow the functions of `InstructionsGen.cc`
by their names; each gives a sequence of instructions. A constant that does not
fit is built with `mov`/`movt` in the scratch register the code uses, and
`choose_multiplier` and `divConst` are what the compiler computes for a division
by a constant, in integers instead of floating point.

`CodeGen` has the layout of a frame (`allocateStackSpace`, with the private slots
of threads), the places of values (`assignToSpecificReg`, `getFromSpecificReg`),
moves, entry and exit of functions, calls. `InstructionCode` is
`generateInstructionCode`: products with a constant as one, two or three shifted
additions, flexible second operands, comparisons, and the branch with its moves
for phis, its exchanged conditions and the jumps it leaves out.

`GeneratedCode` runs a function of the IR and its code side by side, an instruction
of the IR at a time. A *case* is a function, the registers its values were given, its
arguments and the thread that is followed into a region. Every allocation in
which two values live at once have different places is a case: that is the
contract `RegAlloc` is checked for, so the two models meet there.

### FlowGraph, Dominators, LoopFind, FlowAnalyses

`FlowGraph` defines dominance and natural loops by paths. `Dominators` takes every
step of the depth first search and of `intersect`; the order in which predecessors
are met is free, because the code keeps them in lists whose order the earlier
passes determine. `stage = "exit"` is the `exit` of `createIDom`.

`LoopFind` takes Tarjan's search call by call (`Enter`, `Edge`, `Return`), then one
component after the other (`StoreLoop`), then searches again without the bases
found. The code keeps nodes and components in sets ordered by addresses, so every
choice from one of them is free. `FlowAnalyses` runs both to their end on one
function, and says what the loops found ought to be (`LoopsAreNatural`,
`ParentIsSmallest`).

### Mem2Reg

`GenPhi` as the worklist's result, `ReName` one call at a time with the calls
still to come kept in `walk`, `EndReName` for the pops at its end. Loads are
replaced by values: a constant, a phi, or another load. Then the function is run
with its variables and with its phis at once. The pass says in `README.md:117`
that it builds semi-pruned SSA; the test in `mem2reg.cc:56-60` makes every
variable that is stored global, which is what `Global` says.

### BlockCode and the passes over a block

`BlockCode` has the instructions of a block and a machine that runs them: values
by name, a memory of words, and the calls that can be seen from outside. Each
pass is a module of its own: `BBCommonSubExper`, `DeadCodeEliminate` and
`BBConstPropagation` take one instruction per step, as the loops of the code do,
with the code's tables as variables (`load_val`, `pre_stores`, `const_def` for
`array_const_def_` and `global_def_`) and `wait_delete` applied when the scan
ends; `LowerIR` is the composition of its walks (`Split` before, `Fuse` after
constant propagation). `BlockPasses` runs them on one block in the order of
`main.cc:155-206`. `Trace` gives the machine before each instruction, `Good` says that a
block is in SSA form and that a machine can run it. Each pass has a definition
`Assumed`: what it takes for granted of the instruction at hand and does not check
(section 6). `BlockPasses!Assumed` puts them together. Since constants are objects and the code compares some by
pointer and some by value, an operand is a name or a constant *object*.

### IRFunction, StructuredBlocks, SimplifyCFG, CFGPasses

`IRFunction` holds a function as the passes do: for each block the instructions and
the lists of its neighbours, for each instruction its block and operands, for each value
the list of its uses. They are separate, and each operation changes what the
code changes, so they drift apart where the code lets them. A list that is walked
while it grows, a failed assertion and an unreachable block in `Dominators` end
the compiler with a `fault`. The checks of `IRCheck` are operators.

`StructuredBlocks` is the way from statements to a flow graph: `Build...` for
`SYSYCBuilder`, `Merge...` for `HighIRsimplyCFG`, `Gen...` for `HIRToMIR`; and it
executes the statements as the language has it, and the flow graph as a machine.
Both give the list of calls, comparisons and returns with the values they see,
where the outcome of each comparison that no constant settles is given.
`SimplifyCFG` has one operator for each method of the pass. `CFGPasses` is the
sequence of `main.cc:130-167`: each pass is cut into its methods, a step is one
method. `Dominators` and `Mem2Reg` occur in it by their results, which their own
modules establish. There is one scalar variable, passed by value to a function and
assigned its result, set to 0, compared, and returned; a compare of a constant
is what constant propagation can decide. Passes that leave the flow graph alone,
or need several functions, are skipped.

### ProgramCode, FunctionInline, LoopInvariant, FunctionOptimization, ProgramPasses

`ProgramCode` is a module of the IR as the passes over whole programs see it:
functions, their blocks, globals, and what is left in use lists of calls that were
erased; next to it a machine that runs a program with a stack of calls and gives
what it writes, the calls of the library it makes and its result. Both levels of
the IR are in it: `"MIR_MEM"`, with variables in memory, and `"MIR_SSA"`.

`FunctionInline` takes a call per step (`InlineCall`) and a function per step
(`NextFunction`), after `BeginInline` has decided what is ignored and what is
recursive, and `RemoveInlineFunc` takes out what nobody calls. `P.nest` remembers
for each block the functions it was copied from. `LoopInvariant` works off the
loops from the inside (`TakeBaseLoop`), one sweep over a loop per step
(`findInvariants`), with the blocks of a loop in any order, and then hoists.
`FunctionOptimization` is the `Analyzer` and the replacement: the sample inputs,
the interpreter with its `gas` (a step each, and `CallGas` more for a call), the four functions it knows and the IR it puts in
their place. `ProgramPasses` adds `GlobalVariableLocal`, the parts of
`DeadCodeEliminate` about functions and results nobody uses, the merging of
blocks in `SimplifyCFG`, and `RefactorPartIns`, and runs any of the sequences a case
gives, with `IRCheck` after each pass. `meaning` keeps what the program did at first.

Three passes do more than is safe in general. What they take for granted is noted
in `hazards` at the step that does it, and a program is promised its meaning only
while `hazards` is empty: `"store"` (a store is hoisted), `"call"` (a load is hoisted
from a loop with a call), `"area"` (an instruction of an outer loop uses a value
hoisted within it), `"sampled"` (a function was recognised although some call of the
program is unlike the samples). Section 6 says what each does to a program.

### HIR, SysY, SYSYCBuilder, LoopPatterns, FrontEnd

`SysY` has the programs as the parser gives them to the builder, and their
meaning, from the language: short circuits, lists of initial values, scopes. `HIR`
is the tree of blocks and a machine for it. `SYSYCBuilder` has one operator for
each `visit`, from builder state to builder state. `FrontEnd` translates the
definitions of the text one per step (`BuildDeclDef`) and then takes
`HighIRsimplyCFG`, `LoopMerge`, `AccumulatePattern` and `HighIRsimplyCFG` again, one
list of blocks or one pattern per step. `LoopPatterns` is what the two passes in
the middle see: the expressions `BBExps` makes of a block, the answers
(`"yes"`, `"no"`, `"stop"`) to their questions.

`BBExps` is run once before each of the two passes and the blocks change under it;
`BBExps` here is a table computed at the same moment, and kept. As in the passes over
programs, what a step takes for granted goes into hazards: bits used as truth
values, both sides of `&&` evaluated, initialisers filled up by position
(`BuilderHazards`); loops merged whose bodies touch the same elements, the loss of a
body, expressions that are no longer those of their block (`MergeHazards`); a
sum whose place is read, written, called for or left in between (`AccuHazards`).

## 3. What is checked

Runs (`PROJECT.json` gives properties and expected outcome):

- **mt_runtime**: four threads, as the code has, two regions in sequence with
  two different register contents, all words and registers distinct, and any
  `clone` may fail. Two regions are needed: the second one finds what the first
  left on the stack. `JoinSafety` (thread 0 is back in serial code only when no
  worker exists), `DistinctTids`, `RegionContext` and `SerialContext` (the caller's
  registers survive), `AllChunksRun`, `SavedArgsStable` (no step overwrites what a
  thread still has to pop), `RegionCompletes` (liveness: the join hangs not even
  if it counts threads that do not exist), `ImplementsForkJoin` (with its fairness).
- **parallel_loop**: twelve loops on words of eight bits: fewer iterations than
  threads, as many, more, none; steps that do and do not divide; a start that is
  not 0; a size just below overflow. `SequentialResult`, `RaceFree`,
  `LoopCompletes`. The call in the body pushes only `lr`.
- **parallel_loop_call** (a violation): see section 6.
- **parallel_move**: all lists of up to three moves between two registers, two
  slots and a constant where no slot is both read and written, and all maps of
  four registers (two cycles at once need four). `ParallelAssignment`, `Terminates`.
- **code_gen**: in words of eight bits, every operation with a register or a
  constant as second operand; products with and quotients by every constant of the
  word, with the extreme dividends; memory with local arrays and globals; a call with
  six arguments, and one between a memset and a malloc; `main` with its stack on
  the heap; branches of a diamond and of a loop in every layout of the blocks; a
  parallel region followed by thread 0 and by thread 1; each for every sound
  allocation to the registers given. `ValuesInPlace` (at every instruction each live
  value is where the allocation says, and memory is as the IR says), `CallerKept`,
  `FrameIsDisjoint`, `CodeFits` (every emitted constant can be encoded).
- **reg_alloc**: 448 functions: loops with two phis that may feed each other, in a
  parallel region or not, and branches that meet in phis, with calls at the places
  that matter, and with three registers, so that some values spill.
  `ProperColouring`, `UsesSeeDefs` (every instruction, phi and call finds its
  operands along every path, and `__mtend` the thread id in r10).
- **flow_analyses**: all flow graphs of four blocks, each reachable, at most two
  successors, up to renaming (loops with two entries, self loops and nested
  loops are among them), and four larger ones. `IDomIsClosest`, `NeverTooFarUp` (a
  sweep never sets a parent above the closest dominator), `FrontiersExact`,
  `LoopsFound` (natural loops, the innermost of each block, the parent the smallest
  one around), `BothTerminate`.
- **mem2reg**: 1250 functions of four blocks and two variables. `LoadsAgree` (what
  replaces a load is what it would have read, on every path; no load survives);
  `StacksFollowTree` (pushes and pops match).
- **block_passes**: about 11,000 blocks: all sequences of three reads, stores of a
  constant or of a variable (to a global and to array elements with the indices
  0, i, i+1, 2i) and calls; blocks that share a global with a function, for
  `DeadCodeEliminate` alone; and all pairs of eleven kinds of expressions with
  small constants, among them those each fusion of `LowerIR` looks for.
  `MeaningKept` compares the block before and after each pass; `MemoryKnown` says that
  what a pass remembers of memory is what memory holds, at every instruction. A
  step is taken only where `Assumed` holds; nothing can go on where it does not, and
  since the run checks for deadlock it finds that `Assumed` holds throughout.
- **cfg_passes**: 1,800 functions: an `if` or a `while`, one of these in it with
  up to two simple statements (a call, an assignment, `return`, `break`,
  `continue`), something before or behind each, with conditions on the variable
  and constant ones. `IRConsistent` is what the compiler itself checks after each
  pass; `MeaningKept` compares the flow graph after each pass with the statements,
  for all outcomes of four comparisons; `ComesThrough` says for which functions the
  compiler may end otherwise than at the end, see section 6.
- **program_passes**: before SSA form, main and functions f, g, h that call one
  another in every way, main calling itself, a function without a result, two nested
  loops around a call; in SSA form, a function f that is kept and a small g, constant
  operands first, phis of constants; loops, alone, nested and one after the other;
  and functions as `FunctionOptimization` knows them, with main calling them.
  `MeaningKept`; `StaysSSA` (values are defined before they are used, phis have the
  predecessors of their block); `NeverIntoItself` (no function is copied into a copy of
  itself); `ComesThrough`.
- **front_end**: 684 programs: conditions of all operators; initial values of
  scalars and arrays, local and global; constants, scopes and parameters; two and
  three loops one after another; sums in nested loops, with the place in a
  global, in a branch, in a loop, in three loops; array parameters that may be one
  array. `MeaningKept` (text against tree, after each pass); `UsesFollowDefs`;
  `ComesThrough`.

Bounds. `MaxRounds` caps the regions of a behaviour. In `LoopChunks` words have
`2 * HalfRange` values; the arithmetic uses nothing else of the width. Everything
else there is the size of the input. In `CFGPasses` `Horizon` is how many events of an
execution are compared and `Patience` the number of jumps without one after which
it counts as endless: eight events are four comparisons with a call after each,
and no function has twelve blocks. Four blocks are the least with a loop with two
entries and an exit; three accesses the least for two to one place with something in
between; three registers the least with which a caller-saved, a callee-saved and a
spilled value coexist.

In `InstGen` the width `W` is 8: what `divConst` computes depends on the width only
through the powers of two in it, and eight bits allow every divisor to be tried; the
sizes of what an instruction can encode are scaled with it. In `ProgramPasses` a program that takes
2^12 steps (`Patience`) counts as endless; bit sets keep `KeptBits` 6 of
`WordBits` 8 as 30 of 32, a group has `Group` 2 bits instead of 4, matrices are cut
in `Tile` 2 instead of 4 and given to `Lanes` 4 threads, an array has `Region` 20 words;
the analyzer takes 3, 4, 14 and 16 samples (10, 20, 1000, 1000) and 2^11, 2^10 and 2^8 steps;
samples are made from `Seeds`, two of them, instead of the library's random numbers.
`LoopLevelMax` (1), `SmallMax` (5) and `LocalMax` (10) are those of the code. In `FrontEnd`
`Patience` (60) bounds the turns of all loops.

Deadlock is checked in every run; where a program or a pass has come to its end,
an explicit stuttering action says so.

## 4. Fairness

`MTRuntime`: weak fairness of each thread (the kernel schedules it) and of
`clone`/`wait` returning when they can. `ParallelLoop`: the same per thread, and
of starting threads. `ParallelMove`, `FlowAnalyses`: weak fairness of the next step
of a sequential program, that is, the compiler is not stopped. None assumes that a
particular alternative is ever taken, and nothing assumes strong fairness.
The other specifications are about what the compiler does while it runs and need
none; what they promise is safety.

## 5. What is proved

For all values of the constants that meet the assumptions in the modules.

- **MTRuntimeProofs**. The invariant says for each place of the program what the
  registers of a thread there are (`sp` relative to `SP0`, r2 the numbers still
  to be given, and so on), that the four saved words at `SP0 - Shift` hold the
  caller's r0-r3 while any thread has yet to pop them, that thread numbers are
  distinct and above the count of the parent, and that the count of workers
  alive plus those reaped is bounded by the counter of the join. It is needed in
  full: `JoinSafety` alone is not inductive, since it depends on the counter
  thread 0 keeps on the stack, hence on nobody else writing there, hence on the
  addresses of all. From it follow `TypeCorrect`, `JoinIsSafe`,
  `TidsAreDistinct`, `RegionContextHolds`, `SerialContextHolds`,
  `EveryChunkRuns`, `SavedArgsAreStable`, and `RefinesForkJoin`: each step is a
  step of `ForkJoin` or none.
- **ParallelLoopProofs**. `ChunksPartition`: for any number of threads and any loop
  whose products stay within a word, the union of the shares is the set of
  iterations and shares are disjoint. By way of lemmas about division: shares
  begin where the previous ends, and rounding up to the step keeps a number on
  the right side of a share's bound. On it rests the invariant of the region:
  every thread's variables lie in its own part of the frame
  (`StackAssumption`: the part of a thread holds its words), the bound that all
  read is written by nobody, a thread's id is its own, and what is in memory is
  the effect of the iterations done so far, in whatever order.
  `ParallelIsSequential` (`SequentialResult`) and `NoRace` (`RaceFree`)
  follow for regions whose calls push only `lr` (`SavesOnlyLr`); with a call that
  pushes more the run `parallel_loop_call` shows what goes wrong.
  `LoopForksAndJoins`: the steps of the loop are steps of `ForkJoin`.
- **ParallelMoveProofs**. `MovesAreParallel`: any list of moves between any number of
  registers and slots with distinct targets, in which no slot is both read and
  written, acts as a parallel assignment. The invariant: a location that is not
  the target of a finished move still has its first content if a pending move
  reads it, and `op_reg_0` holds the parked source as long as it is owed.
- **RegAllocProofs**. `ColouringIsProper` and types, for any
  function: the graph is symmetric, every coloured value avoided the colours
  of the neighbours coloured before, and in a function with a parallel region all
  avoided r10, where the thread id is moved when they are coloured.
  `OperandsAreInPlace` (`UsesSeeDefs`), for any
  function in static single assignment form (`SSAAssumption`, `GraphAssumption`:
  what `IRCheck` demands of blocks and phis, nothing jumps to the entry): on every path an
  instruction, a phi and what follows a call find their operands where their
  definitions put them. The invariant `WalkAndRun` has two halves. The walk counts
  exactly the uses of a value that are still to come in the block or live
  behind it; hence `context_active`, when it comes to a definition, contains
  every value that a use on some path behind it needs and that was defined
  before it, each of these interferes with the value defined, and the assertion
  that a definition is not active never fails. The run keeps every value that is held
  and still needed in its place: a definition goes to a register or slot of
  none of them, a call saves those it destroys, and the moves along an edge
  have distinct targets. `GraphAssumption` also asks that a phi has an operand for every
  predecessor. It lacks one where a path leads to it on which the variable was never
  set; what a program does that reads such a variable is not defined, and it is not
  among the functions of the theorem.
- **FlowGraphProofs**. Lemmas about `Avoiding`, the blocks reached without passing
  through one: the search's rounds are enough, and what it finds is the least set
  that holds the entry and is closed under edges. Dominance is reflexive, transitive and
  antisymmetric, dominators of a block lie in line, each block but the entry has a
  closest one. Natural loops with two headers are apart or one is inside the other, and
  where every cycle is entered through one block a component of a part of the graph that
  has whole loops is one of them. Induction over paths is replaced by that least set, induction over numbers by
  a least counterexample, which the library's theorem about well-founded
  relations gives without a parameter.
- **FlowAnalysesProofs**, for the steps of `Dominators` and `LoopFind`. `NoExit`: `createIDom` never finds a block none of
  whose predecessors has a parent, for any graph. The
  invariant describes the search (finished blocks' successors are visited, the
  stack is a path), from which each block but the root has a predecessor later
  in post order, and hence earlier in the sweep; and parents come later than
  their children in post order, which is why climbing ends at the root.
  `ParentsAreFarEnoughDown` (`NeverTooFarUp`) and `ParentIsClosestDominator`
  (`IDomIsClosest`) rest on `DominanceInvariance`: a strict dominator comes later in post order than
  what it dominates, so a finger that climbs from below it is caught at it; and in a
  sweep that changes nothing every block handled has a parent above all its
  predecessors, so that in the end no edge leads under a block but through it.
  `FrontiersAreWhereDominanceEnds` (`FrontiersExact`): a runner passes what
  is above the predecessor and not above the parent of the block, which are the blocks
  whose dominance ends there. This one needs `FlowAssumption`. Nothing jumps to the entry:
  `SYSYCBuilder` and `HIRToMIR` only jump forward from it, and `SimplifyCFG` does
  not forward it (147). Nothing that cannot be reached jumps: `SimplifyCFG` deletes
  such blocks; where it leaves a loop of them, `Dominators` follows a null
  parent (section 6).
  `FoundLoopsAreNatural` (`LoopsFound`), for any flow graph that meets
  `RootAssumption`, `GraphAssumption` and `FlowAssumption`, and for any order of the sets. The
  invariant `LFInv` has three layers. `SearchOK` is Tarjan's: the link of a
  block on the stack is the number of one it reaches; a block whose
  traverse goes on reaches all that came after it; and an edge that was looked at
  between two blocks of the stack has lowered the link of a call from which
  its source is reached. Hence what is popped is a component
  (`PopsComponent`), and when no call goes on the stack is empty. `RoundsOK` holds in all
  graphs: the blocks searched are those in use that are no base yet, a base has a
  predecessor outside of its loop, components to be taken are disjoint, at the end
  no component has two blocks. `LoopsFoundSoFar` holds where every
  cycle is entered through one block: the search still has all of every loop whose
  header it has, so a component is the whole natural loop of its header, and
  `findLoopBase` takes that header since a natural loop is entered nowhere else.
  A loop around it has been found before, which is why the last base stored for a
  block is that of its innermost loop, and why a predecessor outside of the loop
  leads to the next loop around.
- **Mem2RegProofs**. `StacksAreThoseOfTheWayDown` (`StacksFollowTree`) and
  `LoadsAgreeOnEveryPath` (`LoadsAgree`): for any function whose blocks can all be
  reached and that loads under a name only where it loaded
  (`FunctionAssumption`), a load is replaced by something with the value it
  would have read, on every path. *Current* is the last definition of a variable,
  phi or store, on the way down the dominator tree to a point. The invariant of the
  walk: a stack holds the values of the definitions in the blocks that are open, in that order,
  so its top is what `Current` is worth, and that is what loads and the operands of
  phis in successors were given. The invariant of the run: a variable contains what
  its current definition is worth. An edge keeps it: where the current definition at the end
  of a block and at the start of its successor differ, the successor is in the frontier
  of one of them, and since phis are closed under frontiers it has a phi.
- **BlockPassesProofs**. `MeaningIsKept` (`MeaningKept`) and `MemoryIsKnown`
  (`MemoryKnown`), for any block in SSA form that runs (`JobsAssumption`), any
  functions, any machine and any sequence of the passes:
  `Spec /\ []Assumed => []MeaningKept`. `Assumed` is the contract of the passes, in
  full and at each instruction: two pointers the pass tells apart do not meet, a call
  a pass ignores does not touch what the pass remembers. The theorem says that it is
  enough; section 6 has the programs for which it does not hold. It also asks that
  the block `LowerIR` makes is in SSA form and does the same, so of `LowerIR` the
  theorem says nothing; in a sequence without it no result is taken for granted. TLC checks it on the blocks of the run: its walks fold an operator over the
  block, make names by joining strings and rest on laws of powers of two, and the
  prover has none of these. Neither property is inductive. The
  invariant `PassesInv` says
  in addition that the block under the scan is in SSA form and leads through
  *the same machines* as the block the pass found; that no operand names what is to be
  deleted; and what the tables mean. For `BBCommonSubExper` (`CSEKnown`): each
  entry comes from an instruction before, which stays, and whose operands, or whose
  word of memory, have not changed since. For `BBConstPropagation` (`PropKnown`): a
  constant known is in memory where the key says. For `deleteDeadStore` (`DCEKnown`):
  after a store to be deleted comes another to its place, and nothing between could
  tell (`Kills`); a store remembered has left its value in memory if a load to come
  may be given it. Deleting is one lemma (`DeletedFacts`) for all passes: by
  induction on the block, the shorter one agrees on the values that are left, on
  the output, and on all words but those `Pending`, where a store is gone and the one
  behind it is still to come; at the end there are none. Another
  (`Merged`) is about the replacement of a value by an equal one that comes earlier. For
  `deleteDeadInst`, what is not marked is used by nothing that is (`DeadInstKeeps`).

Only model-checked:

- Liveness (`RegionCompletes`, `LoopCompletes`, `Terminates`, `BothTerminate`) and the
  fairness part of the refinement, with everything that speaks of `ENABLED`: out of
  the prover's reach.
- `IRConsistent`, `MeaningKept` and `ComesThrough` of `CFGPasses`; the properties of
  `GeneratedCode`, `ProgramPasses`, `FunctionInline` and `FrontEnd`: their models
  execute programs, trees and emitted code by RECURSIVE operators, for which the
  prover has no backend.
- That `LowerIR` keeps what a block does, and that `Assumed` holds for the blocks of
  `block_passes`.

## 6. Where the code and its description differ, and its limits

- `parallel_loop_call`: `src/README.md:147` says variables need special handling
  in regions when spilled or when a function is called, and that the allocator
  takes part in it. Spilling is handled. A call is not: caller and callee push
  registers at addresses all threads share, and a thread may return with another's
  values and id. The run pushes a register of the body and r10; with either of the
  two alone `OwnRegisters` and `SequentialResult` fail as well.

Met while modelling and kept out of the runs by the inputs:

- `virtualRegMove` parks a source in `op_reg_0` to break a cycle and uses the same
  register for a move into a slot (`CodeGen.cc:1259-1260`). Two phis that swap,
  one of which is spilled, end up equal. Lists at entries and calls never read
  and write one slot; for those `parallel_move` passes and `MovesAreParallel` is
  proved.
- `src/README.md:95` calls `BBConstPropagation` propagation of constants in a block. It
  does nothing at a call (line 149) and so gives a load after it the constant
  stored before, also when the callee has assigned the global.

### Code generation

`code_gen` holds for allocations that keep apart what is live at once. A region
has no call with more than four arguments among the cases: `CodeGen.cc:1039` stores
the others below `sp` with the offset of the thread. `CallerKept` is not about
`main`: it takes r11 for its own before it is saved, and returns with
`pop {.., pc}` before the instructions that give back its large stack
(`CodeGen.cc:196-216`), which is harmless where `main` returns to the system.

### Passes over a block

They rely on more than the code checks. What that is, the definitions `Assumed` of
the three modules say, and `MeaningIsKept` rests on nothing else of the program; the
blocks of `block_passes` meet them. In words, and each of them is needed:

- Pointers whose index operands differ point to different elements. With i = j,
  for `a[i] = 1; a[j] = 2; x = a[i]` `DeadCodeEliminate` gives x the value 1,
  `BBCommonSubExper` keeps a load of `a[i]` over the store to `a[j]`, and
  `BBConstPropagation` the constant of `a[0]` over the store of a constant to `a[i]`.
- A function called does not write what the block accesses (constant propagation
  and common subexpressions), and does not read what the block stores twice
  (`DeadCodeEliminate` takes a function that only reads for none at all).
- Two equal calls have nothing written in between that the function reads.
- Dividends of a power of two are not negative: `LowerIR` makes a shift and a mask
  of what truncates everywhere else.
- `1 * v` does not occur: `convertMulDivToShift` exits on it.

### Passes over the flow graph

`ComesThrough` of `CFGPasses` has two exceptions:

- A loop that is never left. For `while (1);` `EliminateSingleUnCondBrBB` walks the
  uses of a block while it adds to them (`SimplifyCFG.cc:209-217`); where such a
  loop cannot be reached, as in `int x = 0; if (x) while (1) x = f(x);`,
  `MergeSinglePredecessorBB` adds the instructions of a block to itself (80-83).
  The compiler does not come back.
- Nested statements in a branch that is never taken, next to an `else`. For
  `int x = 0; if (x) { if (x) {} } else x = f(x); return x;` the inner block is twice a
  predecessor of what follows, and of its two pairs in the phi there
  `RemoveNoPredecessorBB` removes one, since the other moves up while the loop goes
  on (48-54). With a `while` inside, `RemoveSelfLoopBB` removes the block and
  leaves the phi alone (25-37). Either way `EliminateSinglePredecessorPhi` finds
  a pair of a block that is gone and exits (112-119).

Not among the functions of the run: statements behind a `return` or a `break` in the
same list, where `HighIRsimplyCFG` puts instructions behind a terminator (`IRCheck`
stops the compiler) or behind a `break`, which is then overlooked; and cycles that
cannot be reached before `Dominators`, which follows a null parent there.

### Passes over whole programs

`MeaningKept` of `ProgramPasses` promises nothing once a hazard is noted; each of
them changes the result of some program of the run:

- `"store"`: `LoopInvariant` hoists stores, also out of a loop that runs zero times.
- `"call"`: it hoists a load out of a loop in which a function is called that writes.
- `"area"`: an instruction of the outer loop that uses a value hoisted from an inner
  one moves in front of the place the value was hoisted to.
- `"sampled"`: `FunctionOptimization` recognises a function by samples. A call with
  a number of rows that is not a multiple of the lanes, rows of another length,
  matrices that overlap, negative arguments, effects or results the samples do
  not look at, or a function that sets to zero all it is given: the fixed IR then
  does something else.

`ComesThrough` has two exceptions. A function inlined into main but kept, since an
ignored function calls it, may call one that is removed: `IRCheck` stops the
compiler. And a phi at the head of a loop that has one value from outside and from
inside makes `LoopInvariant` exit (149-156). In SSA form a block that was split
keeps the labels of phis behind it until `SimplifyCFG` merges its parts again
(`Cut`). A function with a single small block that calls itself would be inlined
for ever in SSA form; it never returns either, and is not among the programs.
`LoopFind` does not mark what it has been at (`hadBeen`), which changes nothing
about the loops it finds.

### High-level IR

`ComesThrough` of `FrontEnd` lists why the compiler stops on a legal program:
`!` of a comparison (`"compared"`); a global whose initial value has a call, a `!` or
another variable (`"not constant"`); a condition that begins with a constant, a call
within an expression, or an element next to a global in what `BBExps` analyses
(`"address"`); a loop to be merged with nothing before it (`"nothing before"`); and two
loops in branches (`"in a branch"`).

`MeaningKept` promises nothing in these cases, each of which occurs in the run:

- `"bitwise"`: `&&` of values that are not 0 or 1 combines bits: `2 && 1` is 0.
- `"eager"`: the right side of `&&` and `||` is evaluated always, with its calls.
- `"initialiser"`: a list of initial values within a list is put at the next position,
  not at the next row.
- `"entangled"`, `"lost update"`, `"end moves"`: `LoopMerge` merges loops of which one
  reads or writes what the other writes, or whose bound changes.
- `"stale expressions"`: of three loops in a row the first one's body is lost, since
  the expressions of the second were computed before the first merge.
- `"init block"`: what stands between two loops besides the new start is dropped.
- `"read"`, `"written"`, `"called"`, `"left"`, `"index"`: `AccumulatePattern` keeps a sum
  in a place of its own although its element is read or written elsewhere, a
  function is called, the loop is left by a return, or the index changes.

## 7. Not modelled, and the plan

What could come next, most important first:

1. `fuseCmpBr` of `LowerIR` and compare branches behind it in the passes over the flow
   graph; more than one variable there, so that phis of one block use each other.
2. Several threads at once in `GeneratedCode`, where one thread is followed at a time
   and `ParallelLoop` has the interleavings; calls with more than four arguments
   in a region.
3. Theorems: that the walks of `LowerIR` keep what a block does, which `Assumed` of
   `BlockPasses` takes from the run; then the passes over the flow graph, whose model
   would have to do without RECURSIVE operators.

Left out for good: the generated parser and scanner, driver, options and files;
types, constants and printing (data and text); vector instructions and the
instructions nothing selects; the passes `main.cc` does not run.
