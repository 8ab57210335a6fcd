----------------------------- MODULE MTRuntime -----------------------------
(***************************************************************************)
(* The thread runtime CodeGen emits as the two routines __mtstart and      *)
(* __mtend (CodeGen::mtstart, CodeGen::mtend).  __mtstart clones           *)
(* NumThreads - 1 workers that share the caller's stack, stack pointer     *)
(* included, and returns in every thread with the thread id in r10;        *)
(* __mtend ends a worker and makes thread 0 wait for all of them.          *)
(*                                                                         *)
(* A step is a stretch of instructions with at most one system call or one *)
(* burst of accesses to shared stack words; the registers are private.     *)
(***************************************************************************)
EXTENDS Integers, FiniteSets

CONSTANTS Main,          \* the thread that runs the serial code
          Worker,        \* kernel tasks clone() can create
          NumThreads,    \* mt_num_threads
          Displacement,  \* words __mtstart moves sp by (1 << 24 bytes in the code)
          WaitFrame,     \* words of stack libc's wait() uses below its caller's sp
          SP0,           \* sp at the call sites, the same in all serial code
          CallerRegs,    \* register contents the serial code may call with
          MaxRounds,     \* bound: parallel regions executed in a behaviour
          CloneMayFail   \* may clone() return -errno (EAGAIN, ENOMEM)?

Thread == Worker \cup {Main}

\* The registers a region expects to find as its caller left them.
SavedRegs == [r0 : Int, r1 : Int, r2 : Int, r3 : Int, r7 : Int]

ASSUME ThreadAssumption == /\ IsFiniteSet(Worker)
                           /\ Main \notin Worker
                           /\ NumThreads \in Nat \ {0}
                           /\ CloneMayFail \in BOOLEAN
                           /\ MaxRounds \in Nat
ASSUME CallerAssumption == /\ SP0 \in Int
                           /\ CallerRegs \subseteq SavedRegs
\* 4 + 2 + 1 words of __mtend and the frame of wait() lie under SP0.
ASSUME DisplacementAssumption == /\ WaitFrame \in Nat
                                 /\ Displacement \in Nat
                                 /\ Displacement >= WaitFrame + 7

Junk == -1             \* a word or register whose content nobody defined
EAGAIN == 11
ChildPid == 4711       \* what clone() returns to the parent: any positive pid
CloneNr == 120         \* system call numbers loaded into r7
ExitNr == 1

\* Return addresses, the only values lr takes.
RegionEntry == 1001    \* after the call of __mtstart
AfterRegion == 1002    \* after the call of __mtend
WaitReturn == 1003     \* after the call of wait inside __mtend

StackAddr == (SP0 - Displacement - WaitFrame - 7) .. (SP0 - 1)

RegFile == [r0 : Int, r1 : Int, r2 : Int, r3 : Int, r7 : Int, r10 : Int,
            sp : Int, lr : Int]

VARIABLES pc,       \* [Thread -> where the thread is]
          reg,      \* [Thread -> its register file]
          mem,      \* [StackAddr -> Int], shared by all threads (CLONE_VM)
          round,    \* regions entered so far
          entry,    \* history: the SavedRegs at the last call of __mtstart
          left,     \* history: the SavedRegs with which thread 0 left the region
          started,  \* history: thread ids handed out in this region
          ran       \* history: thread ids that executed this region

vars == <<pc, reg, mem, round, entry, left, started, ran>>

Label == {"serial", "fork", "restore", "region", "mtend", "join", "wait",
          "free", "zombie"}

TypeOK == /\ pc \in [Thread -> Label]
          /\ reg \in [Thread -> RegFile]
          /\ mem \in [StackAddr -> Int]
          /\ round \in 0 .. MaxRounds
          /\ entry \in SavedRegs
          /\ left \in SavedRegs
          /\ started \subseteq 0 .. (NumThreads - 1)
          /\ ran \subseteq started

-----------------------------------------------------------------------------
(* Instructions. *)

Context(r) == [r0 |-> r.r0, r1 |-> r.r1, r2 |-> r.r2, r3 |-> r.r3, r7 |-> r.r7]

\* mov pc, lr
Resume(lr) == CASE lr = RegionEntry -> "region"
                [] lr = AfterRegion -> "serial"
                [] OTHER -> "join"

\* push {r0-r3}: the lowest register at the lowest address.
PushArgs(m, r) == [m EXCEPT ![r.sp - 4] = r.r0, ![r.sp - 3] = r.r1,
                            ![r.sp - 2] = r.r2, ![r.sp - 1] = r.r3]

\* pop {r0-r3}, with sp advanced over the four words.
PopArgs(m, r) == [r EXCEPT !.r0 = m[r.sp], !.r1 = m[r.sp + 1],
                           !.r2 = m[r.sp + 2], !.r3 = m[r.sp + 3],
                           !.sp = @ + 4]

\* Slip: __mtstart works at the caller's sp, as an ordinary routine does.
ShiftSlip == 0

\* The constant __mtstart subtracts from sp and adds again.
Shift == Displacement
Displaced(r) == [r EXCEPT !.sp = @ - Shift]
Undisplaced(r) == [r EXCEPT !.sp = @ + Shift]

-----------------------------------------------------------------------------
Fresh == [r0 |-> Junk, r1 |-> Junk, r2 |-> Junk, r3 |-> Junk, r7 |-> Junk,
          r10 |-> 0, sp |-> SP0, lr |-> AfterRegion]

\* The prologue of a function with a region zeroes r10.
Init == /\ pc = [t \in Thread |-> IF t = Main THEN "serial" ELSE "free"]
        /\ reg = [t \in Thread |-> Fresh]
        /\ mem = [a \in StackAddr |-> Junk]
        /\ round = 0
        /\ entry = Context(Fresh)
        /\ left = Context(Fresh)
        /\ started = {}
        /\ ran = {}

\* Generated code has left anything in r0-r3 and r7 when it calls a routine.
Called(r, c, return) ==
    [r0 |-> c.r0, r1 |-> c.r1, r2 |-> c.r2, r3 |-> c.r3, r7 |-> c.r7,
     r10 |-> r.r10, sp |-> r.sp, lr |-> return]

\* After the push, r7 is parked in r3 and r2 counts the threads.
Prologue(r) == [r EXCEPT !.sp = @ - 4, !.r3 = r.r7, !.r2 = NumThreads]

\* __mtstart saves the arguments below the displaced sp.
MtStart ==
    /\ pc[Main] = "serial"
    /\ round < MaxRounds
    /\ \E c \in CallerRegs :
         LET low == Displaced(Called(reg[Main], c, RegionEntry))
         IN  /\ mem' = PushArgs(mem, low)
             /\ reg' = [reg EXCEPT ![Main] = Prologue(low)]
             /\ entry' = c
    /\ round' = round + 1
    /\ started' = {0}
    /\ ran' = {}
    /\ pc' = [pc EXCEPT ![Main] = "fork"]
    /\ UNCHANGED left

\* sub r2, r2, #1: the id of the next thread.
CountDown(r) == [r EXCEPT !.r2 = @ - 1]

\* The registers with which the parent enters clone(): the child's stack in r1.
AtClone(r) == [CountDown(r) EXCEPT !.r7 = CloneNr, !.r1 = r.sp]

\* The child starts with its parent's registers, but for r0 and the new sp.
ReturnsToParent(r, result) == [r EXCEPT !.r0 = result]
ReturnsToChild(r) == [ReturnsToParent(r, 0) EXCEPT !.sp = r.r1]

\* cmp r0, #0; bne: only the child sees 0.
AfterClone(r0) == IF r0 # 0 THEN "fork" ELSE "restore"

Clone(w) ==
    /\ pc[Main] = "fork"
    /\ reg[Main].r2 - 1 # 0
    /\ pc[w] = "free"
    /\ LET parent == ReturnsToParent(AtClone(reg[Main]), ChildPid)
           child == ReturnsToChild(AtClone(reg[Main]))
       IN  /\ reg' = [reg EXCEPT ![Main] = parent, ![w] = child]
           /\ pc' = [pc EXCEPT ![Main] = AfterClone(parent.r0),
                               ![w] = AfterClone(child.r0)]
           /\ started' = started \cup {child.r2}
    /\ UNCHANGED <<mem, round, entry, left, ran>>

\* -errno is not 0 either: the parent goes on as if the worker existed.
CloneFails ==
    /\ CloneMayFail
    /\ pc[Main] = "fork"
    /\ reg[Main].r2 - 1 # 0
    /\ LET parent == ReturnsToParent(AtClone(reg[Main]), -EAGAIN)
       IN  /\ reg' = [reg EXCEPT ![Main] = parent]
           /\ pc' = [pc EXCEPT ![Main] = AfterClone(parent.r0)]
    /\ UNCHANGED <<mem, round, entry, left, started, ran>>

ForkDone ==
    /\ pc[Main] = "fork"
    /\ reg[Main].r2 - 1 = 0
    /\ reg' = [reg EXCEPT ![Main] = CountDown(reg[Main])]
    /\ pc' = [pc EXCEPT ![Main] = "restore"]
    /\ UNCHANGED <<mem, round, entry, left, started, ran>>

\* Slip: the thread id is not moved to r10.
RestoredSlip(r) == Undisplaced(PopArgs(mem, [r EXCEPT !.r7 = r.r3]))

\* Label ___mtstart_2: every thread reads the one saved copy of r0-r3.
Restored(r) == Undisplaced(PopArgs(mem, [r EXCEPT !.r10 = r.r2, !.r7 = r.r3]))

Restore(t) ==
    /\ pc[t] = "restore"
    /\ reg' = [reg EXCEPT ![t] = Restored(reg[t])]
    /\ pc' = [pc EXCEPT ![t] = Resume(reg[t].lr)]
    /\ UNCHANGED <<mem, round, entry, left, started, ran>>

\* The generated region, then the call of __mtend.
Region(t) ==
    /\ pc[t] = "region"
    /\ ran' = ran \cup {reg[t].r10}
    /\ \E c \in CallerRegs :
         /\ reg' = [reg EXCEPT ![t] = Called(reg[t], c, AfterRegion)]
         /\ left' = IF t = Main THEN c ELSE left
    /\ pc' = [pc EXCEPT ![t] = "mtend"]
    /\ UNCHANGED <<mem, round, entry, started>>

-----------------------------------------------------------------------------
(* __mtend *)

\* A worker makes the exit system call and is a zombie until it is waited for.
ExitWorker(t) ==
    /\ pc[t] = "mtend"
    /\ reg[t].r10 # 0
    /\ reg' = [reg EXCEPT ![t] = [@ EXCEPT !.r7 = ExitNr]]
    /\ pc' = [pc EXCEPT ![t] = "zombie"]
    /\ UNCHANGED <<mem, round, entry, left, started, ran>>

\* Slip: one thread too few is waited for.
AtJoinSlip(r) == [r EXCEPT !.sp = @ - 4, !.r1 = NumThreads - 1]

\* push {r0-r3}; mov r1, #mt_num_threads
AtJoin(r) == [r EXCEPT !.sp = @ - 4, !.r1 = NumThreads]

BeginJoin(t) ==
    /\ pc[t] = "mtend"
    /\ reg[t].r10 = 0
    /\ mem' = PushArgs(mem, reg[t])
    /\ reg' = [reg EXCEPT ![t] = AtJoin(reg[t])]
    /\ pc' = [pc EXCEPT ![t] = "join"]
    /\ UNCHANGED <<round, entry, left, started, ran>>

\* sub r1, r1, #1; push {r1, lr}; below it are the status word and the frame
\* of wait(), which may hold anything.
PushCounter(m, r) == [a \in StackAddr |->
                        CASE a = r.sp - 2 -> r.r1 - 1
                          [] a = r.sp - 1 -> r.lr
                          [] a \in (r.sp - 3 - WaitFrame) .. (r.sp - 3) -> Junk
                          [] OTHER -> m[a]]
AtWait(r) == [r EXCEPT !.sp = @ - 3, !.r1 = @ - 1, !.r0 = r.sp - 3,
                       !.lr = WaitReturn]

CallWait(t) ==
    /\ pc[t] = "join"
    /\ reg[t].r1 - 1 # 0
    /\ mem' = PushCounter(mem, reg[t])
    /\ reg' = [reg EXCEPT ![t] = AtWait(reg[t])]
    /\ pc' = [pc EXCEPT ![t] = "wait"]
    /\ UNCHANGED <<round, entry, left, started, ran>>

Children(t) == IF t = Main THEN {w \in Worker : pc[w] # "free"} ELSE {}

\* Slip: the counter stays in r1 across the call of wait().
AfterWaitSlip(m, r) == [r0 |-> Junk, r1 |-> Junk, r2 |-> Junk, r3 |-> Junk,
                        r7 |-> r.r7, r10 |-> r.r10, sp |-> r.sp + 3,
                        lr |-> m[r.sp + 2]]

\* wait() has clobbered r0-r3 and its result is ignored: drop the status word,
\* pop {r1, lr}.
AfterWait(m, r) == [r0 |-> Junk, r1 |-> m[r.sp + 1], r2 |-> Junk, r3 |-> Junk,
                    r7 |-> r.r7, r10 |-> r.r10, sp |-> r.sp + 3,
                    lr |-> m[r.sp + 2]]

\* wait() blocks while children live, reaps one that has exited, or fails at
\* once (ECHILD) when there is no child.
WaitReturns(t) ==
    /\ pc[t] = "wait"
    /\ \/ \E w \in Children(t) :
            /\ pc[w] = "zombie"
            /\ pc' = [pc EXCEPT ![w] = "free", ![t] = "join"]
            /\ reg' = [reg EXCEPT ![w] = Fresh, ![t] = AfterWait(mem, reg[t])]
       \/ /\ Children(t) = {}
          /\ pc' = [pc EXCEPT ![t] = "join"]
          /\ reg' = [reg EXCEPT ![t] = AfterWait(mem, reg[t])]
    /\ mem' = [mem EXCEPT ![reg[t].sp] = Junk]
    /\ UNCHANGED <<round, entry, left, started, ran>>

\* Slip: the arguments are dropped from the stack and not popped.
RejoinedSlip(m, r) == [r EXCEPT !.sp = @ + 4, !.r10 = 0]

\* pop {r0-r3}; mov r10, #0
Rejoined(m, r) == [PopArgs(m, r) EXCEPT !.r10 = 0]

JoinDone(t) ==
    /\ pc[t] = "join"
    /\ reg[t].r1 - 1 = 0
    /\ reg' = [reg EXCEPT ![t] = Rejoined(mem, reg[t])]
    /\ pc' = [pc EXCEPT ![t] = Resume(reg[t].lr)]
    /\ UNCHANGED <<mem, round, entry, left, started, ran>>

\* The program ends after its last region.
Finished == /\ pc[Main] = "serial"
            /\ round = MaxRounds
            /\ UNCHANGED vars

Step(t) == \/ Restore(t)
           \/ Region(t)
           \/ ExitWorker(t)
           \/ BeginJoin(t)
           \/ CallWait(t)
           \/ WaitReturns(t)
           \/ JoinDone(t)

Forking == \/ ForkDone
           \/ CloneFails
           \/ \E w \in Worker : Clone(w)

Next == \/ MtStart
        \/ Forking
        \/ \E t \in Thread : Step(t)
        \/ Finished

\* The kernel schedules every runnable thread; a program need not enter
\* another region, so MtStart is not fair.
Fairness == /\ WF_vars(Forking)
            /\ \A t \in Thread : WF_vars(Step(t))

Spec == Init /\ [][Next]_vars /\ Fairness

-----------------------------------------------------------------------------
(* Properties *)

\* Serial code runs alone: when __mtend has returned in thread 0 every worker
\* of the region has exited and has been reaped (no zombie, no late writer),
\* although __mtend counts calls of wait() and looks at none of their results.
JoinSafety == pc[Main] = "serial" => \A w \in Worker : pc[w] = "free"

\* No two threads of a region have the same id in r10: two equal ids would run
\* one chunk of the loop twice and share the spill slots addressed by r10.
DistinctTids ==
    \A t, u \in Thread :
       /\ t # u
       /\ {pc[t], pc[u]} \subseteq {"region", "mtend", "join", "wait"}
       => reg[t].r10 # reg[u].r10

\* Every thread enters the region with the registers and sp of the caller of
\* __mtstart, though all of them pop one shared copy, at any later time.
RegionContext ==
    \A t \in Thread : pc[t] = "region" =>
       /\ reg[t].sp = SP0
       /\ Context(reg[t]) = entry

\* __mtend gives thread 0 back the registers the region ended with, and a zero
\* thread id, though wait() clobbers r0-r3 and lr in between.
SerialContext ==
    pc[Main] = "serial" /\ round > 0 =>
       /\ reg[Main].sp = SP0
       /\ reg[Main].r10 = 0
       /\ Context(reg[Main]) = left

\* When serial code goes on, every thread that came into being has run its chunk,
\* whichever clone() failed; and all chunks have been run if none can fail.
AllChunksRun ==
    pc[Main] = "serial" /\ round > 0 =>
       /\ started \subseteq ran
       /\ ~CloneMayFail => ran = 0 .. (NumThreads - 1)

\* The arguments saved by __mtstart are not touched until the join: no step
\* changes the words some thread is still to pop.
SavedWords == (SP0 - Shift - 4) .. (SP0 - Shift - 1)
SavedArgsStable ==
    [][(\E t \in Thread : pc[t] \in {"fork", "restore"})
          => \A a \in SavedWords : mem'[a] = mem[a]]_vars

\* A region that is entered is left: __mtend neither waits for a worker that
\* does not exist nor misses one.
RegionCompletes == pc[Main] = "fork" ~> pc[Main] = "serial"

\* What the serial code sees of the runtime.
Phase == CASE pc[Main] = "serial" -> "serial"
           [] pc[Main] = "fork" -> "forking"
           [] OTHER -> "running"

FJ == INSTANCE ForkJoin WITH Tids <- 0 .. (NumThreads - 1),
                             Lossy <- CloneMayFail,
                             phase <- Phase

\* Every step of the runtime is a step of the fork/join contract or none.
ForkJoinSteps == FJ!Init /\ [][FJ!Next]_(FJ!vars)

\* The runtime implements the fork/join contract, liveness included.
ImplementsForkJoin == FJ!Spec

-----------------------------------------------------------------------------
(* An instance for TLC *)
\* Two register files of the serial code; all values differ.
MCCallerRegs == {[r0 |-> 10, r1 |-> 11, r2 |-> 12, r3 |-> 13, r7 |-> 17],
                 [r0 |-> 20, r1 |-> 21, r2 |-> 22, r3 |-> 23, r7 |-> 27]}
=============================================================================
