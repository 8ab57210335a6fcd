---------------------------- MODULE ParallelLoop ----------------------------
(***************************************************************************)
(* A loop that the Multithreading pass has wrapped in a parallel region,   *)
(* as CodeGen emits it: every thread walks its share of the iterations,    *)
(* with all its variables spilled to the one stack frame the threads have  *)
(* in common.  The fork and the join are those of ForkJoin.                *)
(*                                                                         *)
(* The loop body is  array[i] = array[i] + 1,  a load and a store, and a   *)
(* call of a function behind the store or between the two.                 *)
(***************************************************************************)
EXTENDS ForkJoin, LoopChunks, FiniteSets

CONSTANTS Bounds,            \* the records [start, end, accuValue] to run
          cache_line_bits,   \* log2 of the least private frame, in words
          LocalWords,        \* words of spilled variables, those below included
          CallPushes         \* what a call in the body saves on the stack,
                             \* {} if there is none

ASSUME LoopAssumption == /\ ~Lossy
                         /\ Tids = 0 .. (mt_num_threads - 1)
                         /\ \A b \in Bounds :
                              NoOverflow(b.start, b.end, b.accuValue)
                         /\ cache_line_bits \in Nat
                         /\ CallPushes \subseteq {"acc", "r10", "lr"}

\* stack_mapping of the spilled values: the bound of the source loop, defined
\* before the region, and two values of the region.
EndSlot == 0
PhiSlot == LocalWords - 2
RightSlot == LocalWords - 1
ASSUME FrameAssumption == LocalWords \in Nat /\ LocalWords >= 3

\* in_mt_env: findMTVars marks what is defined between mtstart and mtend.
InMtEnv == {PhiSlot, RightSlot}

\* Doubled from a cache line until all spilled values fit.
thread_stack_bits == CHOOSE b \in cache_line_bits .. (cache_line_bits + LocalWords) :
                        /\ 2 ^ b >= LocalWords
                        /\ \A c \in cache_line_bits .. (b - 1) : 2 ^ c < LocalWords

thread_stack_size == 2 ^ thread_stack_bits

\* The doubling ends, at the latest with LocalWords doublings.
ASSUME StackAssumption == /\ thread_stack_size \in Nat
                          /\ LocalWords <= thread_stack_size

\* The frames of the threads, and below sp what a call saves.
Frame == 0 .. (thread_stack_size * mt_num_threads - 1)
AccWord == -1
R10Word == -2
LrWord == -3
Address == Frame \cup {AccWord, R10Word, LrWord}

CallSite == 1000       \* the address after the only call in the body
Junk == -1

\* array[i] is out of reach of the loop for these indices.
Index == UNION {(b.start - b.accuValue) .. (b.end + b.accuValue) : b \in Bounds}

VARIABLES loop,    \* the bounds of this behaviour
          at,      \* [Tids -> where the thread is in the region]
          stack,   \* [Address -> Int], shared by all threads
          array,   \* [Index -> Int]
          acc,     \* [Tids -> the register the body computes in]
          r10      \* [Tids -> thread_id_reg]

loopVars == <<loop, at, stack, array, acc, r10>>
allVars == <<vars, loopVars>>

Label == {"out", "entry", "head", "body", "store", "call", "return",
          "next", "end", "lost"}

-----------------------------------------------------------------------------
(* Spilled values. *)

PrivateAddr(tid, slot) == slot + r10[tid] * thread_stack_size

\* getFromSpecificReg: inside a region every definition is private.
StoreAddr(tid, slot) == PrivateAddr(tid, slot)

\* assignToSpecificReg: what was defined before the region is in thread 0's frame.
LoadAddr(tid, slot) == IF slot \in InMtEnv THEN PrivateAddr(tid, slot) ELSE slot

Load(tid, slot) == stack[LoadAddr(tid, slot)]

-----------------------------------------------------------------------------
LoopInit == /\ Init
            /\ loop \in Bounds
            /\ at = [t \in Tids |-> "out"]
            /\ stack = [a \in Address |-> IF a = EndSlot THEN loop.end ELSE Junk]
            /\ array = [i \in Index |-> i]
            /\ acc = [t \in Tids |-> Junk]
            /\ r10 = [t \in Tids |-> t]

Goto(tid, label) == at' = [at EXCEPT ![tid] = label]

\* The wrapped loop runs once in a behaviour.
CallStart == /\ Begin
             /\ started = {}
             /\ UNCHANGED loopVars

StartThread(tid) == /\ Start(tid)
                    /\ Goto(tid, "entry")
                    /\ UNCHANGED <<loop, stack, array, acc, r10>>

\* Thread 0 is the last to leave __mtstart.
StartDone == /\ ForkEnd
             /\ Goto(0, "entry")
             /\ UNCHANGED <<loop, stack, array, acc, r10>>

\* MutithreadBegin: the first value of phi and the new bound.
Enter(tid) ==
    /\ at[tid] = "entry"
    /\ LET end == Load(tid, EndSlot)
           id == r10[tid]  \* mtNumber
       IN  stack' = [stack EXCEPT
             ![StoreAddr(tid, PhiSlot)] =
                 iterL(loop.start, end, loop.accuValue, id),
             ![StoreAddr(tid, RightSlot)] = iterR(loop.start, end, id)]
    /\ Goto(tid, "head")
    /\ UNCHANGED <<vars, loop, array, acc, r10>>

Head(tid) ==
    /\ at[tid] = "head"
    /\ Goto(tid, IF Load(tid, PhiSlot) < Load(tid, RightSlot) THEN "body" ELSE "end")
    /\ UNCHANGED <<vars, loop, stack, array, acc, r10>>

\* context_active_vars: is the register of the body in use over the call?  Then
\* the call stands between the load and the store, or else behind them.
SavesAcc == "acc" \in CallPushes

\* thread_id_reg is pushed too, by generateFunctionCall if the call returns a
\* value, since the id is in use up to __mtend, or by a callee that allocates it.
SavesThreadId == "r10" \in CallPushes

Body(tid) ==
    /\ at[tid] = "body"
    /\ acc' = [acc EXCEPT ![tid] = array[Load(tid, PhiSlot)]]
    /\ Goto(tid, IF SavesAcc THEN "call" ELSE "store")
    /\ UNCHANGED <<vars, loop, stack, array, r10>>

Store(tid) ==
    /\ at[tid] = "store"
    /\ array' = [array EXCEPT ![Load(tid, PhiSlot)] = acc[tid] + 1]
    /\ Goto(tid, IF CallPushes # {} /\ ~SavesAcc THEN "call" ELSE "next")
    /\ UNCHANGED <<vars, loop, stack, acc, r10>>

\* Caller and callee push registers below the sp all threads have in common: lr,
\* which is the same in all, and maybe registers that are not.
Call(tid) ==
    /\ at[tid] = "call"
    /\ stack' = [stack EXCEPT ![AccWord] = IF SavesAcc THEN acc[tid] ELSE @,
                              ![R10Word] = IF SavesThreadId THEN r10[tid] ELSE @,
                              ![LrWord] = CallSite]
    /\ Goto(tid, "return")
    /\ UNCHANGED <<vars, loop, array, acc, r10>>

\* The words are popped again, whoever wrote them last.
Return(tid) ==
    /\ at[tid] = "return"
    /\ r10' = [r10 EXCEPT ![tid] = IF SavesThreadId THEN stack[R10Word] ELSE @]
    /\ acc' = [acc EXCEPT ![tid] = IF SavesAcc THEN stack[AccWord] ELSE @]
    /\ Goto(tid, IF stack[LrWord] # CallSite THEN "lost"
                 ELSE IF SavesAcc THEN "store" ELSE "next")
    /\ UNCHANGED <<vars, loop, stack, array>>

\* phi += accuValue, and back to the head.
Increment(tid) ==
    /\ at[tid] = "next"
    /\ stack' = [stack EXCEPT ![StoreAddr(tid, PhiSlot)] =
                                 Add(Load(tid, PhiSlot), loop.accuValue)]
    /\ Goto(tid, "head")
    /\ UNCHANGED <<vars, loop, array, acc, r10>>

\* Slip: the exit of the loop still leads past MutithreadEnd.
CallEndSlip(tid) == /\ at[tid] = "end"
                    /\ Goto(tid, "out")
                    /\ UNCHANGED <<vars, loop, stack, array, acc, r10>>

\* MutithreadEnd
CallEnd(tid) == /\ at[tid] = "end"
                /\ Run(tid)
                /\ Goto(tid, "out")
                /\ UNCHANGED <<loop, stack, array, acc, r10>>

Joined == Join /\ UNCHANGED loopVars

Finished == /\ phase = "serial"
            /\ started # {}
            /\ UNCHANGED allVars

Iterate(tid) == \/ Enter(tid)
                \/ Head(tid)
                \/ Body(tid)
                \/ Store(tid)
                \/ Call(tid)
                \/ Return(tid)
                \/ Increment(tid)
                \/ CallEnd(tid)

LoopNext == \/ CallStart
            \/ StartDone
            \/ Joined
            \/ \E t \in Tids : StartThread(t) \/ Iterate(t)
            \/ Finished

LoopFairness == /\ WF_allVars(StartDone \/ \E t \in Tids : StartThread(t))
                /\ WF_allVars(Joined)
                /\ \A t \in Tids : WF_allVars(Iterate(t))

LoopSpec == LoopInit /\ [][LoopNext]_allVars /\ LoopFairness
-----------------------------------------------------------------------------
(* Properties *)

\* After the region the array is what the sequential loop would have left, each
\* iteration done once, although iterations are divided by machine arithmetic
\* and all loop variables live in one stack frame.
SequentialResult ==
    phase = "serial" /\ started # {} =>
      array = [i \in Index |->
                 IF i \in Iterations(loop.start, loop.end, loop.accuValue)
                 THEN i + 1 ELSE i]

\* No two threads work on the same element at the same time.
Working == {t \in Tids : at[t] \in {"body", "store", "call", "return", "next"}}
RaceFree == \A t, u \in Working : t # u => Load(t, PhiSlot) # Load(u, PhiSlot)

\* What a thread holds in registers is its own, through the calls made in the
\* region: the id __mtstart left in r10 until it calls __mtend, and the element it
\* has read until that is stored.
OwnRegisters ==
    \A t \in Tids :
      at[t] # "out" => /\ r10[t] = t
                       /\ at[t] # "lost"
                       /\ at[t] = "store" => acc[t] = array[Load(t, PhiSlot)]

\* All threads come to the end of their share and the serial code goes on.
LoopCompletes == phase = "forking" ~> phase = "serial"

-----------------------------------------------------------------------------
(* An instance for TLC *)
\* Fewer iterations than threads, as many, more; a step that divides the number
\* of iterations and one that does not; a start other than 0; loops without
\* iterations, one of them with a negative size; a size just below overflow.
MCBounds == [start : {0}, end : {-5, 0, 1, 4, 6}, accuValue : {1}]
              \cup [start : {0}, end : {3, 8, 11, 13}, accuValue : {4}]
              \cup {[start |-> 3, end |-> 8, accuValue |-> 2],
                    [start |-> -3, end |-> 2, accuValue |-> 3],
                    [start |-> 0, end |-> 27, accuValue |-> 13]}
=============================================================================
