-------------------------- MODULE MTRuntimeProofs --------------------------
(***************************************************************************)
(* Proofs about MTRuntime, for every number of threads, every pool of      *)
(* kernel tasks, every displacement the assumption allows and whether or   *)
(* not clone() may fail.                                                   *)
(***************************************************************************)
EXTENDS MTRuntime, FiniteSetTheorems, TLAPS

\* The lowest of the four words __mtstart saves r0-r3 in.
Low == SP0 - Displacement - 4

\* Children of thread 0 the kernel still knows.
Busy == {w \in Worker : pc[w] # "free"}

\* Workers on their way from clone() to exit.
Active == {"restore", "region", "mtend"}

\* The thread id of an active worker: in r2 until it is moved to r10.
Tid(w) == IF pc[w] = "restore" THEN reg[w].r2 ELSE reg[w].r10

\* Where each thread's program counter, stack pointer and return address are.
WorkerInv ==
    \A w \in Worker :
       /\ pc[w] \in {"free", "zombie"} \cup Active
       /\ pc[w] = "restore" => /\ reg[w].sp = Low
                               /\ reg[w].lr = RegionEntry
                               /\ reg[w].r3 = entry.r7
       /\ pc[w] = "region" => /\ reg[w].sp = SP0
                              /\ Context(reg[w]) = entry
       /\ pc[w] \in Active => /\ Tid(w) \in started
                              /\ Tid(w) # 0

MainInv ==
    /\ pc[Main] \in Label \ {"free", "zombie"}
    /\ pc[Main] = "serial" => /\ reg[Main].sp = SP0
                              /\ reg[Main].r10 = 0
                              /\ round > 0 => Context(reg[Main]) = left
    /\ pc[Main] = "fork" => /\ reg[Main].sp = Low
                            /\ reg[Main].lr = RegionEntry
                            /\ reg[Main].r3 = entry.r7
                            /\ reg[Main].r2 \in 1 .. NumThreads
    /\ pc[Main] = "restore" => /\ reg[Main].sp = Low
                               /\ reg[Main].lr = RegionEntry
                               /\ reg[Main].r3 = entry.r7
                               /\ reg[Main].r2 = 0
    /\ pc[Main] \in {"region", "mtend"} => /\ reg[Main].sp = SP0
                                           /\ reg[Main].r10 = 0
    /\ pc[Main] = "region" => Context(reg[Main]) = entry
    /\ pc[Main] = "mtend" => Context(reg[Main]) = left
    /\ pc[Main] = "mtend" => reg[Main].lr = AfterRegion
    /\ pc[Main] \in {"join", "wait"} => /\ reg[Main].r10 = 0
                                        /\ reg[Main].r7 = left.r7
    /\ pc[Main] = "join" => /\ reg[Main].sp = SP0 - 4
                            /\ reg[Main].lr = AfterRegion
                            /\ reg[Main].r1 \in 1 .. NumThreads
    /\ pc[Main] = "wait" => /\ reg[Main].sp = SP0 - 7
                            /\ mem[SP0 - 6] \in 1 .. NumThreads
                            /\ mem[SP0 - 5] = AfterRegion

\* The saved registers survive in the two places they are popped from.
SavedInv ==
    /\ pc[Main] # "serial" => /\ mem[Low] = entry.r0
                              /\ mem[Low + 1] = entry.r1
                              /\ mem[Low + 2] = entry.r2
                              /\ mem[Low + 3] = entry.r3
    /\ pc[Main] \in {"join", "wait"} => /\ mem[SP0 - 4] = left.r0
                                        /\ mem[SP0 - 3] = left.r1
                                        /\ mem[SP0 - 2] = left.r2
                                        /\ mem[SP0 - 1] = left.r3

\* The counter of each loop bounds the children still to be created or reaped.
CountInv ==
    /\ pc[Main] = "serial" => Busy = {}
    /\ pc[Main] = "fork" => Cardinality(Busy) <= NumThreads - reg[Main].r2
    /\ pc[Main] \in {"restore", "region", "mtend"}
          => Cardinality(Busy) <= NumThreads - 1
    /\ pc[Main] = "join" => Cardinality(Busy) <= reg[Main].r1 - 1
    /\ pc[Main] = "wait" => Cardinality(Busy) <= mem[SP0 - 6]

DistinctInv ==
    /\ \A v, w \in Worker :
          v # w /\ pc[v] \in Active /\ pc[w] \in Active => Tid(v) # Tid(w)
    /\ pc[Main] = "fork"
          => \A k \in started : k = 0 \/ k >= reg[Main].r2

\* An id that was started and has not run yet belongs to a thread that will.
RanInv ==
    /\ pc[Main] # "serial" => 0 \in started
    /\ \A k \in started \ ran :
          \/ k = 0 /\ pc[Main] \in {"fork", "restore", "region"}
          \/ \E w \in Worker : pc[w] \in {"restore", "region"} /\ Tid(w) = k
    /\ pc[Main] \in {"fork", "restore", "region"} => 0 \notin ran
    /\ \A w \in Worker : pc[w] \in {"restore", "region"} => Tid(w) \notin ran
    /\ ~CloneMayFail =>
         /\ pc[Main] = "fork" => started = {0} \cup (reg[Main].r2 .. (NumThreads - 1))
         /\ pc[Main] # "fork" /\ round > 0 => started = 0 .. (NumThreads - 1)

IInv == /\ TypeOK
        /\ WorkerInv
        /\ MainInv
        /\ SavedInv
        /\ CountInv
        /\ DistinctInv
        /\ RanInv

-----------------------------------------------------------------------------
(* Facts about the instructions. *)

\* push {r0-r3} keeps the stack a function from addresses to words.
LEMMA PushType ==
    ASSUME NEW m \in [StackAddr -> Int], NEW r \in RegFile
    PROVE  PushArgs(m, r) \in [StackAddr -> Int]
BY DEF PushArgs, RegFile

\* What push {r0-r3} writes, and that it writes nothing else.
LEMMA PushValue ==
    ASSUME NEW m \in [StackAddr -> Int], NEW r \in RegFile,
           (r.sp - 4) .. (r.sp - 1) \subseteq StackAddr
    PROVE  /\ PushArgs(m, r)[r.sp - 4] = r.r0
           /\ PushArgs(m, r)[r.sp - 3] = r.r1
           /\ PushArgs(m, r)[r.sp - 2] = r.r2
           /\ PushArgs(m, r)[r.sp - 1] = r.r3
           /\ \A a \in StackAddr \ ((r.sp - 4) .. (r.sp - 1)) :
                 PushArgs(m, r)[a] = m[a]
<1>1. r.sp \in Int BY DEF RegFile
<1>2. /\ r.sp - 4 \in StackAddr
      /\ r.sp - 3 \in StackAddr
      /\ r.sp - 2 \in StackAddr
      /\ r.sp - 1 \in StackAddr
  BY <1>1
<1>3. StackAddr \subseteq Int
  BY CallerAssumption, DisplacementAssumption DEF StackAddr
<1> QED BY <1>1, <1>2, <1>3 DEF PushArgs

\* What pop {r0-r3} does to the register file.
LEMMA PopValue ==
    ASSUME NEW m \in [StackAddr -> Int], NEW r \in RegFile,
           r.sp .. (r.sp + 3) \subseteq StackAddr
    PROVE  /\ PopArgs(m, r) \in RegFile
           /\ PopArgs(m, r).r0 = m[r.sp]
           /\ PopArgs(m, r).r1 = m[r.sp + 1]
           /\ PopArgs(m, r).r2 = m[r.sp + 2]
           /\ PopArgs(m, r).r3 = m[r.sp + 3]
           /\ PopArgs(m, r).sp = r.sp + 4
           /\ PopArgs(m, r).r7 = r.r7
           /\ PopArgs(m, r).r10 = r.r10
           /\ PopArgs(m, r).lr = r.lr
<1>1. r.sp \in Int /\ r.sp + 4 \in Int BY DEF RegFile
<1>2. /\ m[r.sp] \in Int
      /\ m[r.sp + 1] \in Int
      /\ m[r.sp + 2] \in Int
      /\ m[r.sp + 3] \in Int
  BY <1>1
<1>3. ASSUME NEW x0 \in Int, NEW x1 \in Int, NEW x2 \in Int, NEW x3 \in Int,
             NEW x4 \in Int
      PROVE  [r EXCEPT !.r0 = x0, !.r1 = x1, !.r2 = x2, !.r3 = x3, !.sp = x4]
                \in RegFile
  BY DEF RegFile
<1>4. PopArgs(m, r) \in RegFile
  BY <1>1, <1>2, <1>3 DEF PopArgs
<1>5. /\ PopArgs(m, r).r0 = m[r.sp]
      /\ PopArgs(m, r).r1 = m[r.sp + 1]
      /\ PopArgs(m, r).r2 = m[r.sp + 2]
      /\ PopArgs(m, r).r3 = m[r.sp + 3]
  BY DEF PopArgs, RegFile
<1>6. /\ PopArgs(m, r).sp = r.sp + 4
      /\ PopArgs(m, r).r7 = r.r7
      /\ PopArgs(m, r).r10 = r.r10
      /\ PopArgs(m, r).lr = r.lr
  BY DEF PopArgs, RegFile
<1> QED BY <1>4, <1>5, <1>6

\* The register file after the prologue of __mtstart.
LEMMA PrologueValue ==
    ASSUME NEW r \in RegFile
    PROVE  /\ Prologue(r) \in RegFile
           /\ Prologue(r).sp = r.sp - 4
           /\ Prologue(r).lr = r.lr
           /\ Prologue(r).r3 = r.r7
           /\ Prologue(r).r2 = NumThreads
<1>1. NumThreads \in Int /\ r.r7 \in Int /\ r.sp - 4 \in Int
  BY ThreadAssumption DEF RegFile
<1>2. ASSUME NEW x \in Int, NEW y \in Int, NEW z \in Int
      PROVE  [r EXCEPT !.sp = x, !.r3 = y, !.r2 = z] \in RegFile
  BY DEF RegFile
<1>3. Prologue(r) \in RegFile
  BY <1>1, <1>2 DEF Prologue
<1> QED BY <1>3 DEF Prologue, RegFile

\* The register files of parent and child around clone().
LEMMA CloneValue ==
    ASSUME NEW r \in RegFile, NEW x \in Int
    PROVE  /\ ReturnsToParent(AtClone(r), x) \in RegFile
           /\ ReturnsToParent(AtClone(r), x).sp = r.sp
           /\ ReturnsToParent(AtClone(r), x).lr = r.lr
           /\ ReturnsToParent(AtClone(r), x).r3 = r.r3
           /\ ReturnsToParent(AtClone(r), x).r2 = r.r2 - 1
           /\ ReturnsToParent(AtClone(r), x).r0 = x
           /\ ReturnsToChild(AtClone(r)) \in RegFile
           /\ ReturnsToChild(AtClone(r)).sp = r.sp
           /\ ReturnsToChild(AtClone(r)).lr = r.lr
           /\ ReturnsToChild(AtClone(r)).r3 = r.r3
           /\ ReturnsToChild(AtClone(r)).r2 = r.r2 - 1
           /\ ReturnsToChild(AtClone(r)).r0 = 0
<1> DEFINE c == CountDown(r)
           s == AtClone(r)
           p == ReturnsToParent(s, x)
           z == ReturnsToParent(s, 0)
<1>1. /\ c \in RegFile
      /\ c.sp = r.sp /\ c.lr = r.lr /\ c.r3 = r.r3 /\ c.r2 = r.r2 - 1
  BY DEF CountDown, RegFile
<1> HIDE DEF c
<1>2. /\ s \in RegFile
      /\ s.sp = c.sp /\ s.lr = c.lr /\ s.r3 = c.r3 /\ s.r2 = c.r2 /\ s.r1 = r.sp
  <2>1. s = [c EXCEPT !.r7 = CloneNr, !.r1 = r.sp]
    BY DEF AtClone, c
  <2>2. c \in RegFile /\ r.sp \in Int /\ CloneNr \in Int
    BY <1>1 DEF RegFile, CloneNr
  <2>3. ASSUME NEW n \in Int, NEW y \in Int
        PROVE  /\ [c EXCEPT !.r7 = n, !.r1 = y] \in RegFile
               /\ [c EXCEPT !.r7 = n, !.r1 = y].sp = c.sp
               /\ [c EXCEPT !.r7 = n, !.r1 = y].lr = c.lr
               /\ [c EXCEPT !.r7 = n, !.r1 = y].r3 = c.r3
               /\ [c EXCEPT !.r7 = n, !.r1 = y].r2 = c.r2
               /\ [c EXCEPT !.r7 = n, !.r1 = y].r1 = y
    BY <2>2 DEF RegFile
  <2> HIDE DEF s
  <2> QED BY <2>1, <2>2, <2>3
<1> HIDE DEF s
<1>3. /\ p \in RegFile
      /\ p.sp = s.sp /\ p.lr = s.lr /\ p.r3 = s.r3 /\ p.r2 = s.r2 /\ p.r0 = x
  BY <1>2 DEF ReturnsToParent, RegFile
<1>4. /\ z \in RegFile
      /\ z.lr = s.lr /\ z.r3 = s.r3 /\ z.r2 = s.r2 /\ z.r0 = 0
  BY <1>2 DEF ReturnsToParent, RegFile
<1> HIDE DEF p, z
<1>5. ReturnsToChild(s) = [z EXCEPT !.sp = s.r1]
  BY DEF ReturnsToChild, z
<1>6. /\ ReturnsToChild(s) \in RegFile
      /\ ReturnsToChild(s).sp = s.r1
      /\ ReturnsToChild(s).lr = z.lr
      /\ ReturnsToChild(s).r3 = z.r3
      /\ ReturnsToChild(s).r2 = z.r2
      /\ ReturnsToChild(s).r0 = 0
  <2>1. s.r1 \in Int
    BY <1>2 DEF RegFile
  <2>2. z \in RegFile
    BY <1>4
  <2>3. ASSUME NEW y \in Int
        PROVE  /\ [z EXCEPT !.sp = y] \in RegFile
               /\ [z EXCEPT !.sp = y].sp = y
               /\ [z EXCEPT !.sp = y].lr = z.lr
               /\ [z EXCEPT !.sp = y].r3 = z.r3
               /\ [z EXCEPT !.sp = y].r2 = z.r2
               /\ [z EXCEPT !.sp = y].r0 = z.r0
    BY <2>2 DEF RegFile
  <2> QED BY <1>4, <1>5, <2>1, <2>3
<1> QED BY <1>1, <1>2, <1>3, <1>4, <1>6 DEF p, s

\* Where mov pc, lr goes.
LEMMA ResumeValue ==
    /\ Resume(RegionEntry) = "region"
    /\ Resume(AfterRegion) = "serial"
    /\ Resume(WaitReturn) = "join"
<1>1. RegionEntry = 1001 /\ AfterRegion = 1002 /\ WaitReturn = 1003
  BY DEF RegionEntry, AfterRegion, WaitReturn
<1> QED BY <1>1 DEF Resume

\* The register file of thread 0 before its first call of wait().
LEMMA AtJoinValue ==
    ASSUME NEW r \in RegFile
    PROVE  /\ AtJoin(r) \in RegFile
           /\ AtJoin(r).sp = r.sp - 4
           /\ AtJoin(r).r1 = NumThreads
           /\ AtJoin(r).lr = r.lr
           /\ AtJoin(r).r7 = r.r7
           /\ AtJoin(r).r10 = r.r10
<1>1. NumThreads \in Int /\ r.sp - 4 \in Int
  BY ThreadAssumption DEF RegFile
<1>2. ASSUME NEW x \in Int, NEW y \in Int
      PROVE  [r EXCEPT !.sp = x, !.r1 = y] \in RegFile
  BY DEF RegFile
<1>3. AtJoin(r) \in RegFile
  BY <1>1, <1>2 DEF AtJoin
<1> QED BY <1>3 DEF AtJoin, RegFile

\* The register file of thread 0 inside wait().
LEMMA AtWaitValue ==
    ASSUME NEW r \in RegFile
    PROVE  /\ AtWait(r) \in RegFile
           /\ AtWait(r).sp = r.sp - 3
           /\ AtWait(r).r7 = r.r7
           /\ AtWait(r).r10 = r.r10
<1>1. r.r1 - 1 \in Int /\ r.sp - 3 \in Int /\ WaitReturn \in Int
  BY DEF RegFile, WaitReturn
<1>2. ASSUME NEW x \in Int, NEW y \in Int, NEW z \in Int
      PROVE  [r EXCEPT !.sp = x, !.r1 = y, !.r0 = x, !.lr = z] \in RegFile
  BY DEF RegFile
<1>3. AtWait(r) \in RegFile
  BY <1>1, <1>2 DEF AtWait
<1> QED BY <1>3 DEF AtWait, RegFile

\* The register file of thread 0 when wait() has returned and the counter has
\* been popped.
LEMMA AfterWaitValue ==
    ASSUME NEW m, NEW r \in RegFile, m[r.sp + 1] \in Int, m[r.sp + 2] \in Int
    PROVE  /\ AfterWait(m, r) \in RegFile
           /\ AfterWait(m, r).sp = r.sp + 3
           /\ AfterWait(m, r).r1 = m[r.sp + 1]
           /\ AfterWait(m, r).lr = m[r.sp + 2]
           /\ AfterWait(m, r).r7 = r.r7
           /\ AfterWait(m, r).r10 = r.r10
<1>1. r.sp + 3 \in Int /\ Junk \in Int
  BY DEF RegFile, Junk
<1>2. /\ AfterWait(m, r).sp = r.sp + 3
      /\ AfterWait(m, r).r1 = m[r.sp + 1]
      /\ AfterWait(m, r).lr = m[r.sp + 2]
      /\ AfterWait(m, r).r7 = r.r7
      /\ AfterWait(m, r).r10 = r.r10
  BY DEF AfterWait
<1>3. AfterWait(m, r) \in RegFile
  BY <1>1 DEF AfterWait, RegFile
<1> QED BY <1>2, <1>3

\* The stack words the two routines use, and that they do not overlap: this is
\* what the displacement of sp in __mtstart is for.
LEMMA Addresses ==
    /\ SP0 \in Int
    /\ Low \in Int
    /\ Low .. (Low + 3) \subseteq StackAddr
    /\ (SP0 - 7 - WaitFrame) .. (SP0 - 1) \subseteq StackAddr
    /\ Low + 3 < SP0 - 7 - WaitFrame
    /\ StackAddr \subseteq Int
    /\ WaitFrame \in Nat
    /\ Displacement \in Nat
BY CallerAssumption, DisplacementAssumption DEF Low, StackAddr

-----------------------------------------------------------------------------
(* The invariant holds initially. *)

\* Every state the compiled program can start in satisfies IInv.
LEMMA InitInv == Init => IInv
<1> SUFFICES ASSUME Init PROVE IInv
  OBVIOUS
<1> USE DEF Init
<1>1. Fresh \in RegFile /\ Context(Fresh) \in SavedRegs
  BY CallerAssumption DEF Fresh, RegFile, Junk, AfterRegion, Context, SavedRegs
<1>2. TypeOK
  BY <1>1, ThreadAssumption DEF TypeOK, Thread, Label, Junk
<1>3. pc[Main] = "serial" /\ \A w \in Worker : pc[w] = "free"
  BY ThreadAssumption DEF Thread
<1>4. Main \in Thread /\ reg[Main] = Fresh
  BY DEF Thread
<1>5. WorkerInv
  BY <1>3 DEF WorkerInv, Active
<1>6. MainInv
  BY <1>3, <1>4 DEF MainInv, Label, Fresh
<1>7. SavedInv
  BY <1>3 DEF SavedInv
<1>8. CountInv
  BY <1>3 DEF CountInv, Busy
<1>9. DistinctInv
  BY <1>3 DEF DistinctInv, Active
<1>10. RanInv
  BY <1>3 DEF RanInv
<1> QED
  BY <1>2, <1>5, <1>6, <1>7, <1>8, <1>9, <1>10 DEF IInv

-----------------------------------------------------------------------------
(* Every action preserves it. *)

\* The typed pieces of the invariant, in the form the steps use them.
LEMMA Typed ==
    ASSUME IInv
    PROVE  /\ Main \in Thread
           /\ Main \notin Worker
           /\ Worker \subseteq Thread
           /\ \A t \in Thread : reg[t] \in RegFile /\ pc[t] \in Label
           /\ mem \in [StackAddr -> Int]
           /\ entry \in SavedRegs
           /\ NumThreads \in Nat \ {0}
           /\ \A t \in Thread : t = Main \/ t \in Worker
BY ThreadAssumption DEF IInv, TypeOK, Thread

\* The set of known children is finite, so its cardinality is a number.
LEMMA BusyFinite ==
    /\ IsFiniteSet(Busy)
    /\ Cardinality(Busy) \in Nat
BY ThreadAssumption, FS_Subset, FS_CardinalityType DEF Busy

\* A step of MtStart keeps the invariant.
LEMMA MtStartInv == IInv /\ MtStart => IInv'
<1> SUFFICES ASSUME IInv, MtStart PROVE IInv'
  OBVIOUS
<1>0. /\ Main \in Thread /\ Main \notin Worker /\ Worker \subseteq Thread
      /\ reg[Main] \in RegFile
      /\ mem \in [StackAddr -> Int]
      /\ NumThreads \in Nat \ {0}
  BY Typed
<1>1. PICK c \in CallerRegs :
        LET low == Displaced(Called(reg[Main], c, RegionEntry))
        IN  /\ mem' = PushArgs(mem, low)
            /\ reg' = [reg EXCEPT ![Main] = Prologue(low)]
            /\ entry' = c
  BY DEF MtStart
<1> DEFINE low == Displaced(Called(reg[Main], c, RegionEntry))
<1>2. c \in SavedRegs
  BY CallerAssumption
<1>3. reg[Main].sp = SP0
  BY DEF IInv, MainInv, MtStart
<1>4. Called(reg[Main], c, RegionEntry) \in RegFile /\ Called(reg[Main], c, RegionEntry).sp = SP0
  BY <1>0, <1>2, <1>3 DEF Called, RegFile, RegionEntry, SavedRegs
<1>5. Context(Called(reg[Main], c, RegionEntry)) = c /\ Called(reg[Main], c, RegionEntry).lr = RegionEntry
  BY <1>0, <1>2 DEF Called, RegFile, Context, SavedRegs
<1>6. /\ low \in RegFile
      /\ low.sp = SP0 - Displacement
      /\ Context(low) = c
      /\ low.lr = RegionEntry
  BY <1>4, <1>5, Addresses DEF Displaced, Shift, RegFile, Context
<1> HIDE DEF low
<1>7. /\ Prologue(low) \in RegFile
      /\ Prologue(low).sp = Low
      /\ Prologue(low).lr = RegionEntry
      /\ Prologue(low).r3 = c.r7
      /\ Prologue(low).r2 = NumThreads
  <2>1. low.r7 = c.r7 /\ low.r7 \in Int
    BY <1>6, <1>2 DEF Context, SavedRegs
  <2>2. low.sp - 4 = Low /\ Low \in Int
    BY <1>6, Addresses DEF Low
  <2> QED BY <1>6, <2>1, <2>2, PrologueValue
<1>8. /\ reg' = [reg EXCEPT ![Main] = Prologue(low)]
      /\ mem' = PushArgs(mem, low)
      /\ entry' = c
  BY <1>1 DEF low
<1>9. /\ mem' \in [StackAddr -> Int]
      /\ mem'[Low] = c.r0 /\ mem'[Low + 1] = c.r1
      /\ mem'[Low + 2] = c.r2 /\ mem'[Low + 3] = c.r3
  <2>1. /\ low.sp - 4 = Low /\ low.sp - 3 = Low + 1
        /\ low.sp - 2 = Low + 2 /\ low.sp - 1 = Low + 3
    BY <1>6, Addresses DEF Low
  <2>2. (low.sp - 4) .. (low.sp - 1) \subseteq StackAddr
    BY <2>1, Addresses
  <2>3. low.r0 = c.r0 /\ low.r1 = c.r1 /\ low.r2 = c.r2 /\ low.r3 = c.r3
    BY <1>6, <1>2 DEF Context, SavedRegs
  <2> QED
    BY <1>0, <1>6, <1>8, <2>1, <2>2, <2>3, PushType, PushValue
<1>10. /\ pc' = [pc EXCEPT ![Main] = "fork"]
       /\ pc'[Main] = "fork"
       /\ \A w \in Worker : pc[w] = "free" /\ pc'[w] = "free"
  BY <1>0 DEF IInv, TypeOK, CountInv, Busy, MtStart
<1>11. /\ reg'[Main] = Prologue(low)
       /\ reg' \in [Thread -> RegFile]
  BY <1>0, <1>7, <1>8 DEF IInv, TypeOK
<1>12. started' = {0} /\ ran' = {} /\ left' = left /\ round' \in 0 .. MaxRounds
  BY ThreadAssumption DEF MtStart, IInv, TypeOK
<1>13. TypeOK'
  BY <1>0, <1>2, <1>8, <1>9, <1>10, <1>11, <1>12 DEF TypeOK, IInv, Label
<1>14. WorkerInv'
  BY <1>10 DEF WorkerInv, Active
<1>15. MainInv'
  BY <1>0, <1>7, <1>8, <1>10, <1>11 DEF MainInv, Label
<1>16. SavedInv'
  BY <1>8, <1>9, <1>10 DEF SavedInv
<1>17. Busy' = {} /\ Cardinality(Busy') = 0
  BY <1>10, FS_EmptySet DEF Busy
<1>18. CountInv'
  BY <1>0, <1>7, <1>10, <1>11, <1>17 DEF CountInv
<1>19. DistinctInv'
  BY <1>10, <1>12 DEF DistinctInv, Active
<1>20. RanInv'
  BY <1>0, <1>7, <1>10, <1>11, <1>12 DEF RanInv
<1> QED
  BY <1>13, <1>14, <1>15, <1>16, <1>18, <1>19, <1>20 DEF IInv

\* A step of Clone keeps the invariant.
LEMMA CloneInv == ASSUME NEW w \in Worker PROVE IInv /\ Clone(w) => IInv'
<1> SUFFICES ASSUME IInv, Clone(w) PROVE IInv'
  OBVIOUS
<1>0. /\ Main \in Thread /\ Main \notin Worker /\ w \in Thread /\ w # Main
      /\ Worker \subseteq Thread
      /\ reg[Main] \in RegFile
      /\ NumThreads \in Nat \ {0}
  BY Typed
<1> DEFINE parent == ReturnsToParent(AtClone(reg[Main]), ChildPid)
           child == ReturnsToChild(AtClone(reg[Main]))
           k == reg[Main].r2 - 1
<1>1. /\ pc[Main] = "fork" /\ pc[w] = "free"
      /\ reg' = [reg EXCEPT ![Main] = parent, ![w] = child]
      /\ pc' = [pc EXCEPT ![Main] = AfterClone(parent.r0),
                          ![w] = AfterClone(child.r0)]
      /\ started' = started \cup {child.r2}
      /\ UNCHANGED <<mem, round, entry, left, ran>>
      /\ k # 0
  BY DEF Clone
<1>2. /\ reg[Main].sp = Low /\ reg[Main].lr = RegionEntry
      /\ reg[Main].r3 = entry.r7
      /\ reg[Main].r2 \in 1 .. NumThreads
  BY <1>1 DEF IInv, MainInv
<1>3. k \in 1 .. (NumThreads - 1) /\ reg[Main].r2 = k + 1
  BY <1>0, <1>1, <1>2
<1>4. /\ parent \in RegFile
      /\ parent.sp = Low /\ parent.lr = RegionEntry /\ parent.r3 = entry.r7
      /\ parent.r2 = k /\ parent.r0 = ChildPid
      /\ child \in RegFile
      /\ child.sp = Low /\ child.lr = RegionEntry /\ child.r3 = entry.r7
      /\ child.r2 = k /\ child.r0 = 0
  BY <1>0, <1>2, CloneValue DEF ChildPid
<1> HIDE DEF parent, child, k
<1>5. /\ pc' = [pc EXCEPT ![Main] = "fork", ![w] = "restore"]
      /\ started' = started \cup {k}
  BY <1>1, <1>4 DEF AfterClone, ChildPid
<1>6. /\ pc'[Main] = "fork" /\ pc'[w] = "restore"
      /\ reg'[Main] = parent /\ reg'[w] = child
      /\ \A v \in Worker : v # w => pc'[v] = pc[v] /\ reg'[v] = reg[v]
  BY <1>0, <1>1, <1>5 DEF IInv, TypeOK
<1>7. \A v \in Worker : v # w /\ pc[v] \in Active => Tid(v)' = Tid(v)
  BY <1>6 DEF Tid
<1>8. Tid(w)' = k
  BY <1>4, <1>6 DEF Tid
<1>9. k \notin started
  BY <1>1, <1>3, <1>2 DEF IInv, DistinctInv
<1>10. TypeOK'
  <2>1. started' \subseteq 0 .. (NumThreads - 1)
    BY <1>3, <1>5 DEF IInv, TypeOK
  <2>2. pc' \in [Thread -> Label]
    BY <1>5 DEF IInv, TypeOK, Label
  <2>3. reg' \in [Thread -> RegFile]
    BY <1>1, <1>4 DEF IInv, TypeOK
  <2> QED
    BY <1>1, <1>5, <2>1, <2>2, <2>3 DEF IInv, TypeOK
<1>11. WorkerInv'
  <2> SUFFICES ASSUME NEW v \in Worker
               PROVE  /\ pc'[v] \in {"free", "zombie"} \cup Active
                      /\ pc'[v] = "restore" => /\ reg'[v].sp = Low
                                               /\ reg'[v].lr = RegionEntry
                                               /\ reg'[v].r3 = entry'.r7
                      /\ pc'[v] = "region" => /\ reg'[v].sp = SP0
                                              /\ Context(reg'[v]) = entry'
                      /\ pc'[v] \in Active => /\ Tid(v)' \in started'
                                              /\ Tid(v)' # 0
    BY DEF WorkerInv
  <2>1. CASE v = w
    BY <1>1, <1>3, <1>4, <1>5, <1>6, <1>8, <2>1 DEF Active
  <2>2. CASE v # w
    <3>1. pc'[v] = pc[v] /\ reg'[v] = reg[v] /\ entry' = entry
      BY <1>1, <1>6, <2>2
    <3>2. pc[v] \in Active => Tid(v)' = Tid(v)
      BY <1>7, <2>2
    <3> QED BY <1>5, <3>1, <3>2 DEF IInv, WorkerInv
  <2> QED BY <2>1, <2>2
<1>12. MainInv'
  BY <1>0, <1>1, <1>3, <1>4, <1>6 DEF MainInv, Label
<1>13. SavedInv'
  BY <1>1, <1>6 DEF IInv, SavedInv
<1>14. CountInv'
  <2>1. Busy' = Busy \cup {w} /\ w \notin Busy
    BY <1>1, <1>6 DEF Busy
  <2>2. Cardinality(Busy') = Cardinality(Busy) + 1
    BY <2>1, BusyFinite, FS_AddElement
  <2>3. Cardinality(Busy) <= NumThreads - reg[Main].r2
    BY <1>1 DEF IInv, CountInv
  <2>4. Cardinality(Busy') <= NumThreads - k
    BY <1>0, <1>3, <2>2, <2>3, BusyFinite
  <2> QED
    BY <1>4, <1>6, <2>4 DEF CountInv
<1>15. DistinctInv'
  <2>1. \A v \in Worker : v # w /\ pc'[v] \in Active => Tid(v)' # k
    BY <1>6, <1>7, <1>9 DEF IInv, WorkerInv
  <2>2. ASSUME NEW u \in Worker, NEW v \in Worker, u # v,
               pc'[u] \in Active, pc'[v] \in Active
        PROVE  Tid(u)' # Tid(v)'
    <3>1. CASE u = w
      BY <1>8, <2>1, <2>2, <3>1
    <3>2. CASE v = w
      BY <1>8, <2>1, <2>2, <3>2
    <3>3. CASE u # w /\ v # w
      BY <1>6, <1>7, <2>2, <3>3 DEF IInv, DistinctInv
    <3> QED BY <3>1, <3>2, <3>3
  <2>3. \A j \in started' : j = 0 \/ j >= reg'[Main].r2
    <3>1. \A j \in started : j = 0 \/ j >= reg[Main].r2
      BY <1>1 DEF IInv, DistinctInv
    <3>2. \A j \in started : j \in Int
      BY <1>0 DEF IInv, TypeOK
    <3> QED BY <1>2, <1>3, <1>4, <1>5, <1>6, <3>1, <3>2
  <2> QED BY <2>2, <2>3 DEF DistinctInv
<1>16. RanInv'
  <2>1. 0 \in started' /\ 0 \notin ran'
    BY <1>1, <1>5 DEF IInv, RanInv
  <2>2. ASSUME NEW j \in started' \ ran'
        PROVE  \/ j = 0
               \/ \E v \in Worker : pc'[v] \in {"restore", "region"} /\ Tid(v)' = j
    <3>1. CASE j = k
      BY <1>6, <1>8, <3>1
    <3>2. CASE j \in started \ ran /\ j # 0
      <4>1. PICK v \in Worker : pc[v] \in {"restore", "region"} /\ Tid(v) = j
        BY <3>2 DEF IInv, RanInv
      <4>2. v # w
        BY <1>1, <4>1
      <4> QED BY <1>6, <1>7, <4>1, <4>2 DEF Active
    <3> QED BY <1>1, <1>5, <3>1, <3>2
  <2>3. \A v \in Worker : pc'[v] \in {"restore", "region"} => Tid(v)' \notin ran'
    <3>1. k \notin ran
      BY <1>9 DEF IInv, TypeOK
    <3> QED BY <1>1, <1>6, <1>7, <1>8, <3>1 DEF IInv, RanInv, Active
  <2>4. ~CloneMayFail => started' = {0} \cup (reg'[Main].r2 .. (NumThreads - 1))
    <3> SUFFICES ASSUME ~CloneMayFail
                 PROVE  started' = {0} \cup (k .. (NumThreads - 1))
      BY <1>4, <1>6
    <3>1. started = {0} \cup ((k + 1) .. (NumThreads - 1))
      BY <1>1, <1>3 DEF IInv, RanInv
    <3> QED BY <1>0, <1>3, <1>5, <3>1
  <2> QED BY <1>6, <2>1, <2>2, <2>3, <2>4 DEF RanInv
<1> QED
  BY <1>10, <1>11, <1>12, <1>13, <1>14, <1>15, <1>16 DEF IInv

\* A step of CloneFails keeps the invariant.
LEMMA CloneFailsInv == IInv /\ CloneFails => IInv'
<1> SUFFICES ASSUME IInv, CloneFails PROVE IInv'
  OBVIOUS
<1>0. /\ Main \in Thread /\ Main \notin Worker /\ Worker \subseteq Thread
      /\ reg[Main] \in RegFile
      /\ NumThreads \in Nat \ {0}
  BY Typed
<1> DEFINE parent == ReturnsToParent(AtClone(reg[Main]), -EAGAIN)
           k == reg[Main].r2 - 1
<1>1. /\ pc[Main] = "fork" /\ CloneMayFail
      /\ reg' = [reg EXCEPT ![Main] = parent]
      /\ pc' = [pc EXCEPT ![Main] = AfterClone(parent.r0)]
      /\ UNCHANGED <<mem, round, entry, left, started, ran>>
      /\ k # 0
  BY DEF CloneFails
<1>2. /\ reg[Main].sp = Low /\ reg[Main].lr = RegionEntry
      /\ reg[Main].r3 = entry.r7
      /\ reg[Main].r2 \in 1 .. NumThreads
  BY <1>1 DEF IInv, MainInv
<1>3. k \in 1 .. (NumThreads - 1) /\ reg[Main].r2 = k + 1
  BY <1>0, <1>1, <1>2
<1>4. /\ parent \in RegFile
      /\ parent.sp = Low /\ parent.lr = RegionEntry /\ parent.r3 = entry.r7
      /\ parent.r2 = k /\ parent.r0 = -EAGAIN
  BY <1>0, <1>2, CloneValue DEF EAGAIN
<1> HIDE DEF parent, k
<1>5. pc'[Main] = "fork" /\ pc' = pc
  BY <1>0, <1>1, <1>4 DEF AfterClone, EAGAIN, IInv, TypeOK
<1>6. /\ reg'[Main] = parent
      /\ \A v \in Worker : reg'[v] = reg[v]
      /\ reg' \in [Thread -> RegFile]
  BY <1>0, <1>1, <1>4 DEF IInv, TypeOK
<1>7. \A v \in Worker : Tid(v)' = Tid(v)
  BY <1>5, <1>6 DEF Tid
<1>8. TypeOK'
  BY <1>1, <1>5, <1>6 DEF IInv, TypeOK
<1>9. WorkerInv'
  BY <1>1, <1>5, <1>6, <1>7 DEF IInv, WorkerInv
<1>10. MainInv'
  BY <1>0, <1>1, <1>3, <1>4, <1>5, <1>6 DEF MainInv, Label
<1>11. SavedInv'
  BY <1>1, <1>5 DEF IInv, SavedInv
<1>12. CountInv'
  <2>1. Busy' = Busy
    BY <1>5 DEF Busy
  <2>2. Cardinality(Busy) <= NumThreads - reg[Main].r2
    BY <1>1 DEF IInv, CountInv
  <2>3. Cardinality(Busy) <= NumThreads - k
    BY <1>0, <1>3, <2>2, BusyFinite
  <2> QED BY <1>4, <1>5, <1>6, <2>1, <2>3 DEF CountInv
<1>13. DistinctInv'
  <2>1. \A j \in started : j = 0 \/ j >= k
    <3>1. \A j \in started : j = 0 \/ j >= k + 1
      BY <1>1, <1>3 DEF IInv, DistinctInv
    <3>2. \A j \in started : j \in Int
      BY <1>0 DEF IInv, TypeOK
    <3> QED BY <1>3, <3>1, <3>2
  <2>2. \A u, v \in Worker : u # v /\ pc'[u] \in Active /\ pc'[v] \in Active
                              => Tid(u)' # Tid(v)'
    BY <1>5, <1>7 DEF IInv, DistinctInv
  <2> QED BY <1>1, <1>4, <1>6, <2>1, <2>2 DEF DistinctInv
<1>14. RanInv'
  BY <1>1, <1>5, <1>7 DEF IInv, RanInv
<1> QED
  BY <1>8, <1>9, <1>10, <1>11, <1>12, <1>13, <1>14 DEF IInv

\* A step of ForkDone keeps the invariant.
LEMMA ForkDoneInv == IInv /\ ForkDone => IInv'
<1> SUFFICES ASSUME IInv, ForkDone PROVE IInv'
  OBVIOUS
<1>0. /\ Main \in Thread /\ Main \notin Worker /\ Worker \subseteq Thread
      /\ reg[Main] \in RegFile
      /\ NumThreads \in Nat \ {0}
  BY Typed
<1> DEFINE s == CountDown(reg[Main])
<1>1. /\ pc[Main] = "fork" /\ reg[Main].r2 - 1 = 0
      /\ reg' = [reg EXCEPT ![Main] = s]
      /\ pc' = [pc EXCEPT ![Main] = "restore"]
      /\ UNCHANGED <<mem, round, entry, left, started, ran>>
  BY DEF ForkDone
<1>2. /\ reg[Main].sp = Low /\ reg[Main].lr = RegionEntry
      /\ reg[Main].r3 = entry.r7
      /\ reg[Main].r2 = 1
  BY <1>0, <1>1 DEF IInv, MainInv
<1>3. /\ s \in RegFile
      /\ s.sp = Low /\ s.lr = RegionEntry /\ s.r3 = entry.r7 /\ s.r2 = 0
  BY <1>0, <1>2 DEF RegFile, CountDown
<1> HIDE DEF s
<1>4. /\ pc'[Main] = "restore"
      /\ reg'[Main] = s
      /\ \A v \in Worker : pc'[v] = pc[v] /\ reg'[v] = reg[v]
      /\ reg' \in [Thread -> RegFile]
      /\ pc' \in [Thread -> Label]
  BY <1>0, <1>1, <1>3 DEF IInv, TypeOK, Label
<1>5. \A v \in Worker : Tid(v)' = Tid(v)
  BY <1>4 DEF Tid
<1>6. TypeOK'
  BY <1>1, <1>4 DEF IInv, TypeOK
<1>7. WorkerInv'
  BY <1>1, <1>4, <1>5 DEF IInv, WorkerInv
<1>8. MainInv'
  BY <1>1, <1>3, <1>4 DEF MainInv, Label
<1>9. SavedInv'
  BY <1>1, <1>4 DEF IInv, SavedInv
<1>10. CountInv'
  <2>1. Busy' = Busy
    BY <1>4 DEF Busy
  <2>2. Cardinality(Busy) <= NumThreads - 1
    BY <1>1, <1>2 DEF IInv, CountInv
  <2> QED BY <1>4, <2>1, <2>2 DEF CountInv
<1>11. DistinctInv'
  BY <1>1, <1>4, <1>5 DEF IInv, DistinctInv
<1>12. RanInv'
  <2>1. started' = started /\ ran' = ran /\ round' = round
    BY <1>1
  <2>2. ~CloneMayFail => started = 0 .. (NumThreads - 1)
    <3> SUFFICES ASSUME ~CloneMayFail PROVE started = 0 .. (NumThreads - 1)
      OBVIOUS
    <3>1. started = {0} \cup (1 .. (NumThreads - 1))
      BY <1>1, <1>2 DEF IInv, RanInv
    <3> QED BY <1>0, <3>1
  <2>3. /\ 0 \in started /\ 0 \notin ran
        /\ \A j \in started \ ran :
              j = 0 \/ \E w \in Worker : pc[w] \in {"restore", "region"} /\ Tid(w) = j
        /\ \A w \in Worker : pc[w] \in {"restore", "region"} => Tid(w) \notin ran
    BY <1>1 DEF IInv, RanInv
  <2> QED BY <1>4, <1>5, <2>1, <2>2, <2>3 DEF RanInv
<1> QED
  BY <1>6, <1>7, <1>8, <1>9, <1>10, <1>11, <1>12 DEF IInv

\* A step of Restore keeps the invariant.
LEMMA RestoreInv == ASSUME NEW t \in Thread PROVE IInv /\ Restore(t) => IInv'
<1> SUFFICES ASSUME IInv, Restore(t) PROVE IInv'
  OBVIOUS
<1>0. /\ Main \in Thread /\ Main \notin Worker /\ Worker \subseteq Thread
      /\ reg[t] \in RegFile
      /\ mem \in [StackAddr -> Int]
      /\ entry \in SavedRegs
      /\ t = Main \/ t \in Worker
  BY Typed
<1> DEFINE popped == [reg[t] EXCEPT !.r10 = reg[t].r2, !.r7 = reg[t].r3]
           s == Restored(reg[t])
<1>1. /\ pc[t] = "restore"
      /\ reg' = [reg EXCEPT ![t] = s]
      /\ pc' = [pc EXCEPT ![t] = Resume(reg[t].lr)]
      /\ UNCHANGED <<mem, round, entry, left, started, ran>>
  BY DEF Restore
<1>2. /\ reg[t].sp = Low /\ reg[t].lr = RegionEntry /\ reg[t].r3 = entry.r7
  BY <1>0, <1>1 DEF IInv, WorkerInv, MainInv
<1>3. pc[Main] # "serial"
  <2>1. CASE t = Main
    BY <1>1, <2>1
  <2>2. CASE t \in Worker
    BY <1>1, <2>2 DEF IInv, CountInv, Busy
  <2> QED BY <1>0, <2>1, <2>2
<1>4. /\ mem[Low] = entry.r0 /\ mem[Low + 1] = entry.r1
      /\ mem[Low + 2] = entry.r2 /\ mem[Low + 3] = entry.r3
  BY <1>3 DEF IInv, SavedInv
<1>5. /\ popped \in RegFile
      /\ popped.sp = Low /\ popped.r7 = entry.r7 /\ popped.r10 = reg[t].r2
  <2>1. reg[t].r2 \in Int /\ reg[t].r3 \in Int
    BY <1>0 DEF RegFile
  <2>2. ASSUME NEW x \in Int, NEW y \in Int
        PROVE  [reg[t] EXCEPT !.r10 = x, !.r7 = y] \in RegFile
    BY <1>0 DEF RegFile
  <2>3. popped \in RegFile
    BY <2>1, <2>2
  <2> QED BY <1>0, <1>2, <2>3 DEF RegFile
<1>6. s = Undisplaced(PopArgs(mem, popped))
  BY DEF Restored
<1> HIDE DEF popped, s
<1> DEFINE q == PopArgs(mem, popped)
<1>7. /\ q \in RegFile
      /\ q.r0 = entry.r0 /\ q.r1 = entry.r1 /\ q.r2 = entry.r2 /\ q.r3 = entry.r3
      /\ q.sp = Low + 4 /\ q.r7 = entry.r7 /\ q.r10 = reg[t].r2
  BY <1>0, <1>4, <1>5, Addresses, PopValue
<1> HIDE DEF q
<1>8. /\ s \in RegFile
      /\ s.r0 = q.r0 /\ s.r1 = q.r1 /\ s.r2 = q.r2 /\ s.r3 = q.r3 /\ s.r7 = q.r7
      /\ s.sp = q.sp + Displacement /\ s.r10 = q.r10
  <2>1. s = [q EXCEPT !.sp = q.sp + Displacement]
    BY <1>6 DEF Undisplaced, Shift, q
  <2>2. q \in RegFile /\ q.sp + Displacement \in Int
    BY <1>7, Addresses DEF RegFile
  <2>3. ASSUME NEW x \in Int
        PROVE  /\ [q EXCEPT !.sp = x] \in RegFile
               /\ [q EXCEPT !.sp = x].r0 = q.r0
               /\ [q EXCEPT !.sp = x].r1 = q.r1
               /\ [q EXCEPT !.sp = x].r2 = q.r2
               /\ [q EXCEPT !.sp = x].r3 = q.r3
               /\ [q EXCEPT !.sp = x].r7 = q.r7
               /\ [q EXCEPT !.sp = x].r10 = q.r10
               /\ [q EXCEPT !.sp = x].sp = x
    BY <2>2 DEF RegFile
  <2> QED BY <2>1, <2>2, <2>3
<1>9. /\ s.sp = SP0
      /\ Context(s) = entry
      /\ s.r10 = reg[t].r2
  BY <1>0, <1>7, <1>8, Addresses DEF Low, Context, SavedRegs
<1>10. /\ pc' = [pc EXCEPT ![t] = "region"]
       /\ pc'[t] = "region" /\ reg'[t] = s
       /\ \A u \in Thread : u # t => pc'[u] = pc[u] /\ reg'[u] = reg[u]
  BY <1>0, <1>1, <1>2, ResumeValue DEF IInv, TypeOK
<1>11. \A w \in Worker : pc[w] \in Active => Tid(w)' = Tid(w)
  BY <1>0, <1>1, <1>9, <1>10 DEF Tid
<1>12. \A w \in Worker : \/ pc'[w] = pc[w]
                         \/ pc[w] = "restore" /\ pc'[w] = "region"
  <2> TAKE w \in Worker
  <2>1. w \in Thread
    BY <1>0
  <2>2. CASE w = t
    BY <1>1, <1>10, <2>2
  <2>3. CASE w # t
    BY <1>10, <2>1, <2>3
  <2> QED BY <2>2, <2>3
<1>13. TypeOK'
  BY <1>1, <1>8, <1>10 DEF IInv, TypeOK, Label
<1>14. WorkerInv'
  <2> SUFFICES ASSUME NEW w \in Worker
               PROVE  /\ pc'[w] \in {"free", "zombie"} \cup Active
                      /\ pc'[w] = "restore" => /\ reg'[w].sp = Low
                                               /\ reg'[w].lr = RegionEntry
                                               /\ reg'[w].r3 = entry'.r7
                      /\ pc'[w] = "region" => /\ reg'[w].sp = SP0
                                              /\ Context(reg'[w]) = entry'
                      /\ pc'[w] \in Active => /\ Tid(w)' \in started'
                                              /\ Tid(w)' # 0
    BY DEF WorkerInv
  <2>1. pc'[w] \in Active => Tid(w)' \in started' /\ Tid(w)' # 0
    BY <1>1, <1>11, <1>12 DEF IInv, WorkerInv, Active
  <2>2. CASE w = t
    BY <1>1, <1>9, <1>10, <2>1, <2>2 DEF Active
  <2>3. CASE w # t
    BY <1>0, <1>1, <1>10, <2>1, <2>3 DEF IInv, WorkerInv
  <2> QED BY <2>2, <2>3
<1>15. MainInv'
  <2>1. CASE t = Main
    <3>1. reg[Main].r2 = 0
      BY <1>1, <2>1 DEF IInv, MainInv
    <3> QED BY <1>1, <1>9, <1>10, <2>1, <3>1 DEF MainInv, Label
  <2>2. CASE t # Main
    BY <1>0, <1>1, <1>10, <2>2 DEF IInv, MainInv
  <2> QED BY <2>1, <2>2
<1>16. pc[Main] = pc'[Main] \/ (pc[Main] = "restore" /\ pc'[Main] = "region")
  BY <1>0, <1>1, <1>10
<1>17. SavedInv'
  BY <1>1, <1>16 DEF IInv, SavedInv
<1>18. pc[Main] = "fork" \/ pc[Main] = "join" => reg'[Main] = reg[Main]
  BY <1>0, <1>1, <1>10
<1>19. CountInv'
  <2>1. Busy' = Busy
    BY <1>12 DEF Busy
  <2> QED BY <1>1, <1>16, <1>18, <2>1 DEF IInv, CountInv
<1>20. DistinctInv'
  <2>1. \A v, w \in Worker :
          v # w /\ pc'[v] \in Active /\ pc'[w] \in Active => Tid(v)' # Tid(w)'
    <3> SUFFICES ASSUME NEW v \in Worker, NEW w \in Worker, v # w,
                        pc'[v] \in Active, pc'[w] \in Active
                 PROVE  Tid(v)' # Tid(w)'
      OBVIOUS
    <3>1. /\ pc[v] \in Active /\ pc[w] \in Active
          /\ Tid(v)' = Tid(v) /\ Tid(w)' = Tid(w)
      BY <1>11, <1>12 DEF Active
    <3> QED BY <3>1 DEF IInv, DistinctInv
  <2>2. pc'[Main] = "fork" => \A k \in started' : k = 0 \/ k >= reg'[Main].r2
    BY <1>1, <1>16, <1>18 DEF IInv, DistinctInv
  <2> QED BY <2>1, <2>2 DEF DistinctInv
<1>21. RanInv'
  <2>1. started' = started /\ ran' = ran /\ round' = round
    BY <1>1
  <2>2. (pc'[Main] = "fork") = (pc[Main] = "fork")
    BY <1>16
  <2>3. (pc'[Main] \in {"fork", "restore", "region"})
           = (pc[Main] \in {"fork", "restore", "region"})
    BY <1>16
  <2>4. \A j \in started \ ran :
          \/ j = 0 /\ pc'[Main] \in {"fork", "restore", "region"}
          \/ \E w \in Worker : pc'[w] \in {"restore", "region"} /\ Tid(w)' = j
    <3> SUFFICES ASSUME NEW j \in started \ ran,
                        ~(j = 0 /\ pc[Main] \in {"fork", "restore", "region"})
                 PROVE  \E w \in Worker : pc'[w] \in {"restore", "region"} /\ Tid(w)' = j
      BY <2>3
    <3>1. PICK w \in Worker : pc[w] \in {"restore", "region"} /\ Tid(w) = j
      BY DEF IInv, RanInv
    <3>2. pc'[w] \in {"restore", "region"}
      BY <1>12, <3>1
    <3>3. Tid(w)' = j
      BY <1>11, <3>1 DEF Active
    <3> QED BY <3>2, <3>3
  <2>5. \A w \in Worker : pc'[w] \in {"restore", "region"} => Tid(w)' \notin ran
    <3> SUFFICES ASSUME NEW w \in Worker, pc'[w] \in {"restore", "region"}
                 PROVE  Tid(w)' \notin ran
      OBVIOUS
    <3>1. pc[w] \in {"restore", "region"}
      BY <1>12
    <3>2. Tid(w)' = Tid(w)
      BY <1>11, <3>1 DEF Active
    <3> QED BY <3>1, <3>2 DEF IInv, RanInv
  <2>6. pc'[Main] # "serial" => 0 \in started
    BY <1>3 DEF IInv, RanInv
  <2>7. pc'[Main] \in {"fork", "restore", "region"} => 0 \notin ran
    BY <2>3 DEF IInv, RanInv
  <2>8. ~CloneMayFail =>
          /\ pc'[Main] = "fork" => started = {0} \cup (reg'[Main].r2 .. (NumThreads - 1))
          /\ pc'[Main] # "fork" /\ round > 0 => started = 0 .. (NumThreads - 1)
    BY <1>18, <2>2 DEF IInv, RanInv
  <2> QED BY <2>1, <2>4, <2>5, <2>6, <2>7, <2>8 DEF RanInv
<1> QED
  BY <1>13, <1>14, <1>15, <1>17, <1>19, <1>20, <1>21 DEF IInv

\* A step of Region keeps the invariant.
LEMMA RegionInv == ASSUME NEW t \in Thread PROVE IInv /\ Region(t) => IInv'
<1> SUFFICES ASSUME IInv, Region(t) PROVE IInv'
  OBVIOUS
<1>0. /\ Main \in Thread /\ Main \notin Worker /\ Worker \subseteq Thread
      /\ reg[t] \in RegFile
      /\ t = Main \/ t \in Worker
  BY Typed
<1>30. PICK c \in CallerRegs :
        /\ reg' = [reg EXCEPT ![t] = Called(reg[t], c, AfterRegion)]
        /\ left' = IF t = Main THEN c ELSE left
  BY DEF Region
<1> DEFINE s == Called(reg[t], c, AfterRegion)
           k == reg[t].r10
<1>1. /\ pc[t] = "region"
      /\ reg' = [reg EXCEPT ![t] = s]
      /\ pc' = [pc EXCEPT ![t] = "mtend"]
      /\ ran' = ran \cup {k}
      /\ UNCHANGED <<mem, round, entry, started>>
  BY <1>30 DEF Region
<1>2. reg[t].sp = SP0 /\ c \in SavedRegs
  BY <1>0, <1>1, CallerAssumption DEF IInv, WorkerInv, MainInv
<1>3. /\ s \in RegFile
      /\ s.sp = reg[t].sp /\ s.r10 = k /\ s.lr = AfterRegion
      /\ Context(s) = c
  <2>1. /\ c.r0 \in Int /\ c.r1 \in Int /\ c.r2 \in Int /\ c.r3 \in Int /\ c.r7 \in Int
        /\ c = [r0 |-> c.r0, r1 |-> c.r1, r2 |-> c.r2, r3 |-> c.r3, r7 |-> c.r7]
    BY <1>2 DEF SavedRegs
  <2>2. reg[t].r10 \in Int /\ reg[t].sp \in Int
    BY <1>0 DEF RegFile
  <2>3. s \in RegFile
    BY <2>1, <2>2 DEF Called, RegFile, AfterRegion
  <2> QED BY <2>1, <2>3 DEF Called, Context
<1> HIDE DEF s, k
<1>4. /\ pc'[t] = "mtend" /\ reg'[t] = s
      /\ \A u \in Thread : u # t => pc'[u] = pc[u] /\ reg'[u] = reg[u]
  BY <1>0, <1>1 DEF IInv, TypeOK
<1>5. \A w \in Worker : w # t => pc'[w] = pc[w] /\ reg'[w] = reg[w] /\ Tid(w)' = Tid(w)
  BY <1>0, <1>4 DEF Tid
<1>6. t \in Worker => Tid(t) = k /\ Tid(t)' = k /\ k \in started /\ k # 0
  <2>1. Tid(t) = k /\ Tid(t)' = k
    BY <1>1, <1>3, <1>4 DEF Tid, k
  <2>2. t \in Worker => Tid(t) \in started /\ Tid(t) # 0
    BY <1>1 DEF IInv, WorkerInv, Active
  <2> QED BY <2>1, <2>2
<1>7. t = Main => k = 0 /\ k \in started
  BY <1>1 DEF IInv, MainInv, RanInv, k
<1>8. TypeOK'
  <2>1. ran' \subseteq started'
    BY <1>0, <1>1, <1>6, <1>7 DEF IInv, TypeOK
  <2>2. pc' \in [Thread -> Label] /\ reg' \in [Thread -> RegFile]
    BY <1>1, <1>3 DEF IInv, TypeOK, Label
  <2>3. left' \in SavedRegs
    BY <1>2, <1>30 DEF IInv, TypeOK
  <2> QED BY <1>1, <2>1, <2>2, <2>3 DEF IInv, TypeOK
<1>9. WorkerInv'
  <2> SUFFICES ASSUME NEW w \in Worker
               PROVE  /\ pc'[w] \in {"free", "zombie"} \cup Active
                      /\ pc'[w] = "restore" => /\ reg'[w].sp = Low
                                               /\ reg'[w].lr = RegionEntry
                                               /\ reg'[w].r3 = entry'.r7
                      /\ pc'[w] = "region" => /\ reg'[w].sp = SP0
                                              /\ Context(reg'[w]) = entry'
                      /\ pc'[w] \in Active => /\ Tid(w)' \in started'
                                              /\ Tid(w)' # 0
    BY DEF WorkerInv
  <2>1. CASE w = t
    BY <1>1, <1>4, <1>6, <2>1 DEF Active
  <2>2. CASE w # t
    <3>1. pc'[w] = pc[w] /\ reg'[w] = reg[w] /\ Tid(w)' = Tid(w)
      BY <1>5, <2>2
    <3>2. entry' = entry /\ started' = started
      BY <1>1
    <3> QED BY <3>1, <3>2 DEF IInv, WorkerInv
  <2> QED BY <2>1, <2>2
<1>10. MainInv'
  <2>1. CASE t = Main
    BY <1>1, <1>2, <1>3, <1>4, <1>7, <1>30, <2>1 DEF MainInv, Label
  <2>2. CASE t # Main
    BY <1>0, <1>1, <1>4, <1>30, <2>2 DEF IInv, MainInv
  <2> QED BY <2>1, <2>2
<1>11. \/ pc'[Main] = pc[Main] /\ reg'[Main] = reg[Main]
       \/ pc[Main] = "region" /\ pc'[Main] = "mtend"
  BY <1>0, <1>1, <1>4
<1>12. SavedInv'
  <2>1. t = Main \/ left' = left
    BY <1>30
  <2> QED BY <1>0, <1>1, <1>4, <1>11, <2>1 DEF IInv, SavedInv
<1>13. CountInv'
  <2>1. Busy' = Busy
    BY <1>0, <1>1, <1>4 DEF Busy
  <2> QED BY <1>1, <1>11, <2>1 DEF IInv, CountInv
<1>14. DistinctInv'
  <2>1. \A v \in Worker : pc'[v] \in Active => pc[v] \in Active /\ Tid(v)' = Tid(v)
    BY <1>1, <1>4, <1>5, <1>6 DEF Active
  <2>2. \A v, w \in Worker :
          v # w /\ pc'[v] \in Active /\ pc'[w] \in Active => Tid(v)' # Tid(w)'
    BY <2>1 DEF IInv, DistinctInv
  <2>3. pc'[Main] = "fork" => \A j \in started' : j = 0 \/ j >= reg'[Main].r2
    BY <1>1, <1>11 DEF IInv, DistinctInv
  <2> QED BY <2>2, <2>3 DEF DistinctInv
<1>15. RanInv'
  <2>1. started' = started /\ round' = round
    BY <1>1
  <2>2. pc'[Main] # "serial" => 0 \in started'
    BY <1>11, <2>1 DEF IInv, RanInv
  <2>3. ASSUME NEW j \in started' \ ran'
        PROVE  \/ j = 0 /\ pc'[Main] \in {"fork", "restore", "region"}
               \/ \E w \in Worker : pc'[w] \in {"restore", "region"} /\ Tid(w)' = j
    <3>1. j \in started \ ran /\ j # k
      BY <1>1, <2>1
    <3>2. CASE j = 0 /\ pc[Main] \in {"fork", "restore", "region"}
      BY <1>7, <1>0, <1>4, <3>1, <3>2
    <3>3. ASSUME NEW w \in Worker, pc[w] \in {"restore", "region"}, Tid(w) = j
          PROVE  pc'[w] \in {"restore", "region"} /\ Tid(w)' = j
      <4>1. w # t
        BY <1>6, <3>1, <3>3
      <4> QED BY <1>5, <3>3, <4>1
    <3> QED BY <3>1, <3>2, <3>3 DEF IInv, RanInv
  <2>4. pc'[Main] \in {"fork", "restore", "region"} => 0 \notin ran'
    <3> SUFFICES ASSUME pc'[Main] \in {"fork", "restore", "region"}
                 PROVE  0 \notin ran'
      OBVIOUS
    <3>1. pc'[Main] = pc[Main] /\ t # Main
      BY <1>4, <1>11
    <3>2. k # 0
      BY <1>0, <1>6, <3>1
    <3> QED BY <1>1, <3>1, <3>2 DEF IInv, RanInv
  <2>5. ASSUME NEW w \in Worker, pc'[w] \in {"restore", "region"}
        PROVE  Tid(w)' \notin ran'
    <3>1. w # t
      BY <1>4, <2>5
    <3>2. pc[w] \in {"restore", "region"} /\ Tid(w)' = Tid(w)
      BY <1>5, <2>5, <3>1
    <3>3. Tid(w) \notin ran /\ Tid(w) # 0
      BY <3>2 DEF IInv, RanInv, WorkerInv, Active
    <3>4. Tid(w) # k
      <4>1. CASE t = Main
        BY <1>7, <3>3, <4>1
      <4>2. CASE t \in Worker
        BY <1>1, <1>6, <3>1, <3>2, <4>2 DEF IInv, DistinctInv, Active
      <4> QED BY <1>0, <4>1, <4>2
    <3> QED BY <1>1, <3>2, <3>3, <3>4
  <2>6. ~CloneMayFail =>
          /\ pc'[Main] = "fork" => started' = {0} \cup (reg'[Main].r2 .. (NumThreads - 1))
          /\ pc'[Main] # "fork" /\ round' > 0 => started' = 0 .. (NumThreads - 1)
    BY <1>11, <2>1 DEF IInv, RanInv
  <2> QED BY <2>2, <2>3, <2>4, <2>5, <2>6 DEF RanInv
<1> QED
  BY <1>8, <1>9, <1>10, <1>12, <1>13, <1>14, <1>15 DEF IInv

\* A step of ExitWorker keeps the invariant.
LEMMA ExitWorkerInv == ASSUME NEW t \in Thread PROVE IInv /\ ExitWorker(t) => IInv'
<1> SUFFICES ASSUME IInv, ExitWorker(t) PROVE IInv'
  OBVIOUS
<1> DEFINE s == [reg[t] EXCEPT !.r7 = ExitNr]
<1>0. /\ Main \in Thread /\ Main \notin Worker /\ Worker \subseteq Thread
      /\ reg[t] \in RegFile
      /\ t = Main \/ t \in Worker
  BY Typed
<1>1. /\ pc[t] = "mtend" /\ reg[t].r10 # 0
      /\ reg' = [reg EXCEPT ![t] = s]
      /\ pc' = [pc EXCEPT ![t] = "zombie"]
      /\ UNCHANGED <<mem, round, entry, left, started, ran>>
  BY DEF ExitWorker
<1>2. t \in Worker /\ t # Main
  BY <1>0, <1>1 DEF IInv, MainInv
<1>3. s \in RegFile
  BY <1>0 DEF RegFile, ExitNr
<1> HIDE DEF s
<1>4. /\ pc'[t] = "zombie"
      /\ pc'[Main] = pc[Main] /\ reg'[Main] = reg[Main]
      /\ \A w \in Worker : w # t => pc'[w] = pc[w] /\ reg'[w] = reg[w]
  BY <1>0, <1>1, <1>2 DEF IInv, TypeOK
<1>5. \A w \in Worker : w # t => Tid(w)' = Tid(w)
  BY <1>4 DEF Tid
<1>6. TypeOK'
  BY <1>1, <1>3 DEF IInv, TypeOK, Label
<1>7. WorkerInv'
  BY <1>1, <1>4, <1>5 DEF IInv, WorkerInv, Active
<1>8. MainInv' /\ SavedInv'
  BY <1>1, <1>4 DEF IInv, MainInv, SavedInv
<1>9. CountInv'
  <2>1. Busy' = Busy
    BY <1>1, <1>4 DEF Busy
  <2> QED BY <1>1, <1>4, <2>1 DEF IInv, CountInv
<1>10. DistinctInv'
  BY <1>1, <1>4, <1>5 DEF IInv, DistinctInv, Active
<1>11. RanInv'
  BY <1>1, <1>4, <1>5 DEF IInv, RanInv
<1> QED
  BY <1>6, <1>7, <1>8, <1>9, <1>10, <1>11 DEF IInv

\* A step of BeginJoin keeps the invariant.
LEMMA BeginJoinInv == ASSUME NEW t \in Thread PROVE IInv /\ BeginJoin(t) => IInv'
<1> SUFFICES ASSUME IInv, BeginJoin(t) PROVE IInv'
  OBVIOUS
<1>0. /\ Main \in Thread /\ Main \notin Worker /\ Worker \subseteq Thread
      /\ reg[Main] \in RegFile
      /\ t = Main \/ t \in Worker
      /\ mem \in [StackAddr -> Int]
      /\ left \in SavedRegs
      /\ NumThreads \in Nat \ {0}
  BY Typed DEF IInv, TypeOK
<1>1. t = Main
  <2>1. pc[t] = "mtend" /\ reg[t].r10 = 0
    BY DEF BeginJoin
  <2>2. ASSUME t \in Worker PROVE FALSE
    BY <2>1, <2>2 DEF IInv, WorkerInv, Active, Tid
  <2> QED BY <1>0, <2>2
<1> DEFINE s == AtJoin(reg[Main])
<1>2. /\ pc[Main] = "mtend"
      /\ mem' = PushArgs(mem, reg[Main])
      /\ reg' = [reg EXCEPT ![Main] = s]
      /\ pc' = [pc EXCEPT ![Main] = "join"]
      /\ UNCHANGED <<round, entry, left, started, ran>>
  BY <1>1 DEF BeginJoin
<1>3. /\ reg[Main].sp = SP0 /\ reg[Main].r10 = 0 /\ reg[Main].lr = AfterRegion
      /\ Context(reg[Main]) = left
  BY <1>2 DEF IInv, MainInv
<1>4. /\ reg[Main].r0 = left.r0 /\ reg[Main].r1 = left.r1
      /\ reg[Main].r2 = left.r2 /\ reg[Main].r3 = left.r3
      /\ reg[Main].r7 = left.r7
  BY <1>0, <1>3 DEF Context, SavedRegs
<1>5. /\ s \in RegFile
      /\ s.sp = SP0 - 4 /\ s.r1 = NumThreads /\ s.lr = AfterRegion
      /\ s.r7 = left.r7 /\ s.r10 = 0
  BY <1>0, <1>3, <1>4, AtJoinValue
<1> HIDE DEF s
<1>6. /\ mem' \in [StackAddr -> Int]
      /\ mem'[SP0 - 4] = left.r0 /\ mem'[SP0 - 3] = left.r1
      /\ mem'[SP0 - 2] = left.r2 /\ mem'[SP0 - 1] = left.r3
      /\ \A a \in Low .. (Low + 3) : mem'[a] = mem[a]
  <2>1. (SP0 - 4) .. (SP0 - 1) \subseteq StackAddr
    BY Addresses
  <2>2. /\ PushArgs(mem, reg[Main])[SP0 - 4] = reg[Main].r0
        /\ PushArgs(mem, reg[Main])[SP0 - 3] = reg[Main].r1
        /\ PushArgs(mem, reg[Main])[SP0 - 2] = reg[Main].r2
        /\ PushArgs(mem, reg[Main])[SP0 - 1] = reg[Main].r3
        /\ \A a \in StackAddr \ ((SP0 - 4) .. (SP0 - 1)) :
              PushArgs(mem, reg[Main])[a] = mem[a]
    BY <1>0, <1>3, <2>1, PushValue
  <2>3. Low .. (Low + 3) \subseteq StackAddr \ ((SP0 - 4) .. (SP0 - 1))
    BY Addresses
  <2>4. PushArgs(mem, reg[Main]) \in [StackAddr -> Int]
    BY <1>0, PushType
  <2> QED BY <1>2, <1>4, <2>2, <2>3, <2>4
<1>7. /\ pc'[Main] = "join" /\ reg'[Main] = s
      /\ \A w \in Worker : pc'[w] = pc[w] /\ reg'[w] = reg[w]
  BY <1>0, <1>2 DEF IInv, TypeOK
<1>8. \A w \in Worker : Tid(w)' = Tid(w)
  BY <1>7 DEF Tid
<1>9. TypeOK'
  BY <1>2, <1>5, <1>6 DEF IInv, TypeOK, Label
<1>10. WorkerInv'
  BY <1>2, <1>7, <1>8 DEF IInv, WorkerInv
<1>11. MainInv'
  BY <1>0, <1>2, <1>5, <1>7 DEF MainInv, Label
<1>12. SavedInv'
  <2>1. /\ Low \in Low .. (Low + 3) /\ Low + 1 \in Low .. (Low + 3)
        /\ Low + 2 \in Low .. (Low + 3) /\ Low + 3 \in Low .. (Low + 3)
    BY Addresses
  <2> QED BY <1>2, <1>6, <2>1 DEF IInv, SavedInv
<1>13. CountInv'
  <2>1. Busy' = Busy
    BY <1>7 DEF Busy
  <2>2. Cardinality(Busy) <= NumThreads - 1
    BY <1>2 DEF IInv, CountInv
  <2> QED BY <1>5, <1>7, <2>1, <2>2 DEF CountInv
<1>14. DistinctInv'
  BY <1>7, <1>8 DEF IInv, DistinctInv
<1>15. RanInv'
  BY <1>2, <1>7, <1>8 DEF IInv, RanInv
<1> QED
  BY <1>9, <1>10, <1>11, <1>12, <1>13, <1>14, <1>15 DEF IInv

\* A step of CallWait keeps the invariant.
LEMMA CallWaitInv == ASSUME NEW t \in Thread PROVE IInv /\ CallWait(t) => IInv'
<1> SUFFICES ASSUME IInv, CallWait(t) PROVE IInv'
  OBVIOUS
<1>0. /\ Main \in Thread /\ Main \notin Worker /\ Worker \subseteq Thread
      /\ reg[Main] \in RegFile
      /\ t = Main \/ t \in Worker
      /\ mem \in [StackAddr -> Int]
      /\ NumThreads \in Nat \ {0}
  BY Typed
<1>1. t = Main
  BY <1>0 DEF CallWait, IInv, WorkerInv, Active
<1> DEFINE s == AtWait(reg[Main])
           k == reg[Main].r1 - 1
<1>2. /\ pc[Main] = "join" /\ k # 0
      /\ mem' = PushCounter(mem, reg[Main])
      /\ reg' = [reg EXCEPT ![Main] = s]
      /\ pc' = [pc EXCEPT ![Main] = "wait"]
      /\ UNCHANGED <<round, entry, left, started, ran>>
  BY <1>1 DEF CallWait
<1>3. /\ reg[Main].sp = SP0 - 4 /\ reg[Main].lr = AfterRegion
      /\ reg[Main].r1 \in 1 .. NumThreads
      /\ reg[Main].r10 = 0 /\ reg[Main].r7 = left.r7
  BY <1>2 DEF IInv, MainInv
<1>4. k \in 1 .. NumThreads
  BY <1>0, <1>2, <1>3
<1>5. /\ s \in RegFile
      /\ s.sp = SP0 - 7 /\ s.r7 = left.r7 /\ s.r10 = 0
  BY <1>0, <1>3, Addresses, AtWaitValue
<1> HIDE DEF s
<1>6. mem' = [a \in StackAddr |->
                CASE a = SP0 - 6 -> k
                  [] a = SP0 - 5 -> AfterRegion
                  [] a \in (SP0 - 7 - WaitFrame) .. (SP0 - 7) -> Junk
                  [] OTHER -> mem[a]]
  <2>1. /\ reg[Main].sp - 2 = SP0 - 6 /\ reg[Main].sp - 1 = SP0 - 5
        /\ reg[Main].sp - 3 = SP0 - 7
        /\ reg[Main].sp - 3 - WaitFrame = SP0 - 7 - WaitFrame
    BY <1>3, Addresses
  <2> QED BY <1>2, <1>3, <2>1 DEF PushCounter
<1> HIDE DEF k
<1>7. /\ mem'[SP0 - 6] = k
      /\ mem'[SP0 - 5] = AfterRegion
      /\ \A a \in StackAddr :
            a \in Low .. (Low + 3) \/ a \in (SP0 - 4) .. (SP0 - 1) => mem'[a] = mem[a]
  <2>1. /\ SP0 - 6 \in StackAddr /\ SP0 - 5 \in StackAddr /\ SP0 - 6 # SP0 - 5
        /\ SP0 - 6 \notin (SP0 - 7 - WaitFrame) .. (SP0 - 7)
        /\ SP0 - 5 \notin (SP0 - 7 - WaitFrame) .. (SP0 - 7)
    BY Addresses
  <2>2. ASSUME NEW a \in StackAddr,
               a \in Low .. (Low + 3) \/ a \in (SP0 - 4) .. (SP0 - 1)
        PROVE  mem'[a] = mem[a]
    <3>1. /\ a # SP0 - 6 /\ a # SP0 - 5
          /\ a \notin (SP0 - 7 - WaitFrame) .. (SP0 - 7)
      BY <2>2, Addresses
    <3> QED BY <1>6, <3>1
  <2>3. mem'[SP0 - 6] = k
    BY <1>6, <2>1
  <2>4. mem'[SP0 - 5] = AfterRegion
    BY <1>6, <2>1
  <2> QED BY <2>2, <2>3, <2>4
<1>8. mem' \in [StackAddr -> Int]
  BY <1>0, <1>4, <1>6 DEF Junk, AfterRegion
<1>9. /\ pc'[Main] = "wait" /\ reg'[Main] = s
      /\ \A w \in Worker : pc'[w] = pc[w] /\ reg'[w] = reg[w]
  BY <1>0, <1>2 DEF IInv, TypeOK
<1>10. \A w \in Worker : Tid(w)' = Tid(w)
  BY <1>9 DEF Tid
<1>11. TypeOK'
  BY <1>2, <1>5, <1>8 DEF IInv, TypeOK, Label
<1>12. WorkerInv'
  BY <1>2, <1>9, <1>10 DEF IInv, WorkerInv
<1>13. MainInv'
  BY <1>2, <1>4, <1>5, <1>7, <1>9 DEF MainInv, Label
<1>14. SavedInv'
  <2>1. /\ mem'[Low] = mem[Low] /\ mem'[Low + 1] = mem[Low + 1]
        /\ mem'[Low + 2] = mem[Low + 2] /\ mem'[Low + 3] = mem[Low + 3]
    BY <1>7, Addresses
  <2>2. /\ mem'[SP0 - 4] = mem[SP0 - 4] /\ mem'[SP0 - 3] = mem[SP0 - 3]
        /\ mem'[SP0 - 2] = mem[SP0 - 2] /\ mem'[SP0 - 1] = mem[SP0 - 1]
    BY <1>7, Addresses
  <2> QED BY <1>2, <1>9, <2>1, <2>2 DEF IInv, SavedInv
<1>15. CountInv'
  <2>1. Busy' = Busy
    BY <1>9 DEF Busy
  <2>2. Cardinality(Busy) <= k
    BY <1>2 DEF IInv, CountInv, k
  <2> QED BY <1>7, <1>9, <2>1, <2>2 DEF CountInv
<1>16. DistinctInv'
  BY <1>9, <1>10 DEF IInv, DistinctInv
<1>17. RanInv'
  BY <1>2, <1>9, <1>10 DEF IInv, RanInv
<1> QED
  BY <1>11, <1>12, <1>13, <1>14, <1>15, <1>16, <1>17 DEF IInv

\* A step of WaitReturns keeps the invariant.
LEMMA WaitReturnsInv == ASSUME NEW t \in Thread PROVE IInv /\ WaitReturns(t) => IInv'
<1> SUFFICES ASSUME IInv, WaitReturns(t) PROVE IInv'
  OBVIOUS
<1>0. /\ Main \in Thread /\ Main \notin Worker /\ Worker \subseteq Thread
      /\ reg[Main] \in RegFile
      /\ t = Main \/ t \in Worker
      /\ mem \in [StackAddr -> Int]
      /\ NumThreads \in Nat \ {0}
  BY Typed
<1>1. t = Main
  BY <1>0 DEF WaitReturns, IInv, WorkerInv, Active
<1> DEFINE s == AfterWait(mem, reg[Main])
           k == mem[SP0 - 6]
<1>2. /\ pc[Main] = "wait"
      /\ mem' = [mem EXCEPT ![reg[Main].sp] = Junk]
      /\ UNCHANGED <<round, entry, left, started, ran>>
  BY <1>1 DEF WaitReturns
<1>3. /\ reg[Main].sp = SP0 - 7 /\ k \in 1 .. NumThreads
      /\ mem[SP0 - 5] = AfterRegion
      /\ reg[Main].r10 = 0 /\ reg[Main].r7 = left.r7
  BY <1>2 DEF IInv, MainInv
<1>4. /\ s \in RegFile
      /\ s.sp = SP0 - 4 /\ s.r1 = k /\ s.lr = AfterRegion
      /\ s.r7 = left.r7 /\ s.r10 = 0
  <2>1. /\ reg[Main].sp + 1 = SP0 - 6 /\ reg[Main].sp + 2 = SP0 - 5
        /\ reg[Main].sp + 3 = SP0 - 4
    BY <1>3, Addresses
  <2>2. /\ mem[reg[Main].sp + 1] = k /\ mem[reg[Main].sp + 2] = AfterRegion
        /\ k \in Int /\ AfterRegion \in Int
    BY <1>0, <1>3, <2>1 DEF AfterRegion
  <2> QED BY <1>0, <1>3, <2>1, <2>2, AfterWaitValue
<1> HIDE DEF s, k
\* Either a zombie w is reaped or there is no child at all.
<1>5. \/ \E w \in Worker : /\ pc[w] = "zombie"
                            /\ pc' = [pc EXCEPT ![w] = "free", ![Main] = "join"]
                            /\ reg' = [reg EXCEPT ![w] = Fresh, ![Main] = s]
      \/ /\ Busy = {}
         /\ pc' = [pc EXCEPT ![Main] = "join"]
         /\ reg' = [reg EXCEPT ![Main] = s]
  BY <1>1 DEF WaitReturns, Children, Busy, s
<1>6. /\ pc'[Main] = "join" /\ pc' \in [Thread -> Label]
      /\ \A w \in Worker : pc'[w] = pc[w] \/ (pc[w] = "zombie" /\ pc'[w] = "free")
  BY <1>0, <1>5 DEF IInv, TypeOK, Label
<1>7. /\ reg'[Main] = s
      /\ \A w \in Worker : reg'[w] = reg[w] \/ pc'[w] = "free"
      /\ reg' \in [Thread -> RegFile]
  <2>1. Fresh \in RegFile
    BY CallerAssumption DEF Fresh, RegFile, Junk, AfterRegion
  <2> QED BY <1>0, <1>4, <1>5, <2>1 DEF IInv, TypeOK
<1>8. \A w \in Worker : pc'[w] \in Active => pc'[w] = pc[w] /\ Tid(w)' = Tid(w)
  BY <1>6, <1>7 DEF Tid, Active
<1>9. \A a \in StackAddr : a # SP0 - 7 => mem'[a] = mem[a]
  BY <1>0, <1>2, <1>3
<1>10. TypeOK'
  <2>1. mem \in [StackAddr -> Int] /\ Junk \in Int
    BY <1>0 DEF Junk
  <2>2. mem' = [mem EXCEPT ![SP0 - 7] = Junk]
    BY <1>2, <1>3
  <2>3. mem' \in [StackAddr -> Int]
    BY <2>1, <2>2
  <2> QED BY <1>2, <1>6, <1>7, <2>3 DEF IInv, TypeOK
<1>11. WorkerInv'
  <2> SUFFICES ASSUME NEW w \in Worker
               PROVE  /\ pc'[w] \in {"free", "zombie"} \cup Active
                      /\ pc'[w] = "restore" => /\ reg'[w].sp = Low
                                               /\ reg'[w].lr = RegionEntry
                                               /\ reg'[w].r3 = entry'.r7
                      /\ pc'[w] = "region" => /\ reg'[w].sp = SP0
                                              /\ Context(reg'[w]) = entry'
                      /\ pc'[w] \in Active => /\ Tid(w)' \in started'
                                              /\ Tid(w)' # 0
    BY DEF WorkerInv
  <2>1. CASE pc'[w] = pc[w] /\ pc'[w] # "free"
    <3>1. /\ reg'[w] = reg[w] /\ entry' = entry /\ started' = started
          /\ pc[w] \in Active => Tid(w)' = Tid(w)
      BY <1>2, <1>7, <1>8, <2>1
    <3> QED BY <2>1, <3>1 DEF IInv, WorkerInv
  <2>2. CASE pc'[w] = "free"
    BY <2>2 DEF Active
  <2> QED BY <1>6, <2>1, <2>2
<1>12. MainInv'
  BY <1>2, <1>3, <1>4, <1>6, <1>7 DEF MainInv, Label
<1>13. SavedInv'
  <2>1. /\ Low \in StackAddr \ {SP0 - 7} /\ Low + 1 \in StackAddr \ {SP0 - 7}
        /\ Low + 2 \in StackAddr \ {SP0 - 7} /\ Low + 3 \in StackAddr \ {SP0 - 7}
    BY Addresses
  <2>2. /\ SP0 - 4 \in StackAddr \ {SP0 - 7} /\ SP0 - 3 \in StackAddr \ {SP0 - 7}
        /\ SP0 - 2 \in StackAddr \ {SP0 - 7} /\ SP0 - 1 \in StackAddr \ {SP0 - 7}
    BY Addresses
  <2>3. /\ mem'[Low] = mem[Low] /\ mem'[Low + 1] = mem[Low + 1]
        /\ mem'[Low + 2] = mem[Low + 2] /\ mem'[Low + 3] = mem[Low + 3]
    BY <1>9, <2>1
  <2>4. /\ mem'[SP0 - 4] = mem[SP0 - 4] /\ mem'[SP0 - 3] = mem[SP0 - 3]
        /\ mem'[SP0 - 2] = mem[SP0 - 2] /\ mem'[SP0 - 1] = mem[SP0 - 1]
    BY <1>9, <2>2
  <2> QED BY <1>2, <1>6, <2>3, <2>4 DEF IInv, SavedInv
<1>14. CountInv'
  <2>1. Cardinality(Busy) <= k
    BY <1>2 DEF IInv, CountInv, k
  <2>2. Cardinality(Busy') <= k - 1
    <3>1. ASSUME NEW w \in Worker, pc[w] = "zombie",
                 pc' = [pc EXCEPT ![w] = "free", ![Main] = "join"]
          PROVE  Cardinality(Busy') <= k - 1
      <4>1. w \in Busy /\ Busy' = Busy \ {w}
        BY <1>0, <3>1 DEF Busy, IInv, TypeOK
      <4>2. Cardinality(Busy') = Cardinality(Busy) - 1
        BY <4>1, BusyFinite, FS_RemoveElement
      <4> QED BY <1>3, <2>1, <4>2, BusyFinite
    <3>2. CASE Busy = {} /\ pc' = [pc EXCEPT ![Main] = "join"]
      <4>1. Busy' = {}
        BY <1>0, <3>2 DEF Busy, IInv, TypeOK
      <4>2. Cardinality(Busy') = 0
        BY <4>1, FS_EmptySet
      <4> QED BY <1>3, <4>2
    <3> QED BY <1>5, <3>1, <3>2
  <2> QED BY <1>4, <1>6, <1>7, <2>2 DEF CountInv
<1>15. DistinctInv'
  <2>1. \A v, w \in Worker :
          v # w /\ pc'[v] \in Active /\ pc'[w] \in Active => Tid(v)' # Tid(w)'
    <3> SUFFICES ASSUME NEW v \in Worker, NEW w \in Worker, v # w,
                        pc'[v] \in Active, pc'[w] \in Active
                 PROVE  Tid(v)' # Tid(w)'
      OBVIOUS
    <3>1. /\ pc[v] \in Active /\ pc[w] \in Active
          /\ Tid(v)' = Tid(v) /\ Tid(w)' = Tid(w)
      BY <1>8
    <3> QED BY <3>1 DEF IInv, DistinctInv
  <2> QED BY <1>6, <2>1 DEF DistinctInv
<1>16. RanInv'
  <2>1. started' = started /\ ran' = ran /\ round' = round
    BY <1>2
  <2>2. \A w \in Worker : pc[w] \in {"restore", "region"}
                              => pc'[w] = pc[w] /\ Tid(w)' = Tid(w)
    BY <1>6, <1>8 DEF Active
  <2>3. \A w \in Worker : pc'[w] \in {"restore", "region"} => Tid(w)' \notin ran
    BY <1>8 DEF IInv, RanInv, Active
  <2>4. \A j \in started \ ran :
           \E w \in Worker : pc'[w] \in {"restore", "region"} /\ Tid(w)' = j
    <3> TAKE j \in started \ ran
    <3>1. PICK w \in Worker : pc[w] \in {"restore", "region"} /\ Tid(w) = j
      BY <1>2 DEF IInv, RanInv
    <3> QED BY <2>2, <3>1
  <2> QED BY <1>2, <1>6, <2>1, <2>3, <2>4 DEF IInv, RanInv
<1> QED
  BY <1>10, <1>11, <1>12, <1>13, <1>14, <1>15, <1>16 DEF IInv

\* A step of JoinDone keeps the invariant.
LEMMA JoinDoneInv == ASSUME NEW t \in Thread PROVE IInv /\ JoinDone(t) => IInv'
<1> SUFFICES ASSUME IInv, JoinDone(t) PROVE IInv'
  OBVIOUS
<1>0. /\ Main \in Thread /\ Main \notin Worker /\ Worker \subseteq Thread
      /\ reg[Main] \in RegFile
      /\ t = Main \/ t \in Worker
      /\ mem \in [StackAddr -> Int]
      /\ left \in SavedRegs
      /\ NumThreads \in Nat \ {0}
  BY Typed DEF IInv, TypeOK
<1>1. t = Main
  BY <1>0 DEF JoinDone, IInv, WorkerInv, Active
<1> DEFINE q == PopArgs(mem, reg[Main])
           s == [q EXCEPT !.r10 = 0]
<1>2. /\ pc[Main] = "join" /\ reg[Main].r1 - 1 = 0
      /\ reg' = [reg EXCEPT ![Main] = s]
      /\ pc' = [pc EXCEPT ![Main] = Resume(reg[Main].lr)]
      /\ UNCHANGED <<mem, round, entry, left, started, ran>>
  BY <1>1 DEF JoinDone, Rejoined
<1>3. /\ reg[Main].sp = SP0 - 4 /\ reg[Main].lr = AfterRegion
      /\ reg[Main].r1 = 1
      /\ reg[Main].r10 = 0 /\ reg[Main].r7 = left.r7
      /\ mem[SP0 - 4] = left.r0 /\ mem[SP0 - 3] = left.r1
      /\ mem[SP0 - 2] = left.r2 /\ mem[SP0 - 1] = left.r3
  BY <1>0, <1>2 DEF IInv, MainInv, SavedInv
<1>4. /\ q \in RegFile
      /\ q.r0 = left.r0 /\ q.r1 = left.r1 /\ q.r2 = left.r2 /\ q.r3 = left.r3
      /\ q.r7 = left.r7 /\ q.sp = SP0
  <2>1. /\ reg[Main].sp + 1 = SP0 - 3 /\ reg[Main].sp + 2 = SP0 - 2
        /\ reg[Main].sp + 3 = SP0 - 1 /\ reg[Main].sp + 4 = SP0
        /\ reg[Main].sp .. (reg[Main].sp + 3) \subseteq StackAddr
    BY <1>3, Addresses
  <2> QED BY <1>0, <1>3, <2>1, PopValue
<1> HIDE DEF q
<1>5. /\ s \in RegFile /\ s.sp = SP0 /\ s.r10 = 0
      /\ s.r0 = q.r0 /\ s.r1 = q.r1 /\ s.r2 = q.r2 /\ s.r3 = q.r3 /\ s.r7 = q.r7
  BY <1>4 DEF RegFile
<1>6. Context(s) = left
  BY <1>0, <1>4, <1>5 DEF Context, SavedRegs
<1> HIDE DEF s
<1>7. /\ pc'[Main] = "serial" /\ reg'[Main] = s
      /\ pc' \in [Thread -> Label]
      /\ \A w \in Worker : pc'[w] = pc[w] /\ reg'[w] = reg[w]
  BY <1>0, <1>2, <1>3, ResumeValue DEF IInv, TypeOK, Label
<1>8. \A w \in Worker : Tid(w)' = Tid(w)
  BY <1>7 DEF Tid
<1>9. TypeOK'
  BY <1>2, <1>5, <1>7 DEF IInv, TypeOK
<1>10. WorkerInv'
  BY <1>2, <1>7, <1>8 DEF IInv, WorkerInv
<1>11. MainInv'
  BY <1>2, <1>5, <1>6, <1>7 DEF MainInv, Label
<1>12. SavedInv'
  BY <1>7 DEF SavedInv
<1>13. CountInv'
  <2>1. Busy' = Busy
    BY <1>7 DEF Busy
  <2>2. Cardinality(Busy) <= 0
    BY <1>2, <1>3 DEF IInv, CountInv
  <2>3. Busy = {}
    BY <2>2, BusyFinite, FS_EmptySet
  <2> QED BY <1>7, <2>1, <2>3 DEF CountInv
<1>14. DistinctInv'
  BY <1>7, <1>8 DEF IInv, DistinctInv
<1>15. RanInv'
  BY <1>2, <1>7, <1>8 DEF IInv, RanInv
<1> QED
  BY <1>9, <1>10, <1>11, <1>12, <1>13, <1>14, <1>15 DEF IInv

\* A step that changes nothing keeps the invariant.
LEMMA StutterInv == IInv /\ UNCHANGED vars => IInv'
BY DEF vars, IInv, TypeOK, WorkerInv, MainInv, SavedInv, CountInv, DistinctInv,
       RanInv, Tid, Busy

-----------------------------------------------------------------------------
(* Theorems. *)

\* The strengthened invariant holds of every behaviour of the runtime.
THEOREM Invariance == Spec => []IInv
<1>1. IInv /\ [Next]_vars => IInv'
  <2> SUFFICES ASSUME IInv, [Next]_vars PROVE IInv'
    OBVIOUS
  <2>1. CASE MtStart
    BY <2>1, MtStartInv
  <2>2. CASE Forking
    BY <2>2, CloneInv, CloneFailsInv, ForkDoneInv DEF Forking
  <2>3. ASSUME NEW t \in Thread, Step(t) PROVE IInv'
    BY <2>3, RestoreInv, RegionInv, ExitWorkerInv, BeginJoinInv, CallWaitInv,
       WaitReturnsInv, JoinDoneInv DEF Step
  <2>4. CASE UNCHANGED vars
    BY <2>4, StutterInv
  <2> QED BY <2>1, <2>2, <2>3, <2>4 DEF Next, Finished
<1> QED BY <1>1, InitInv, PTL DEF Spec

\* CodeGen::mtstart and mtend keep registers, stack and thread ids in range.
THEOREM TypeCorrect == Spec => []TypeOK
<1>1. IInv => TypeOK
  BY DEF IInv
<1> QED BY <1>1, Invariance, PTL

\* Serial code never runs while a worker of a region exists, for any number of
\* threads and whatever clone() calls fail: counting mt_num_threads - 1 calls
\* of wait() is enough.
THEOREM JoinIsSafe == Spec => []JoinSafety
<1>1. IInv => JoinSafety
  BY DEF IInv, CountInv, Busy, JoinSafety
<1> QED BY <1>1, Invariance, PTL

\* Threads that are in a region together have different ids in r10.
THEOREM TidsAreDistinct == Spec => []DistinctTids
<1>1. IInv => DistinctTids
  <2> SUFFICES ASSUME IInv, NEW t \in Thread, NEW u \in Thread, t # u,
                      {pc[t], pc[u]} \subseteq {"region", "mtend", "join", "wait"}
               PROVE  reg[t].r10 # reg[u].r10
    BY DEF DistinctTids
  <2>1. /\ pc[Main] \in {"region", "mtend", "join", "wait"} => reg[Main].r10 = 0
        /\ \A w \in Worker : pc[w] \in {"region", "mtend", "join", "wait"}
              => pc[w] \in Active /\ Tid(w) = reg[w].r10 /\ Tid(w) # 0
    BY DEF IInv, MainInv, WorkerInv, Active, Tid
  <2>2. CASE t \in Worker /\ u \in Worker
    BY <2>1, <2>2 DEF IInv, DistinctInv
  <2>3. CASE t = Main \/ u = Main
    BY <2>1, <2>3, ThreadAssumption DEF Thread
  <2> QED BY <2>2, <2>3 DEF Thread
<1> QED BY <1>1, Invariance, PTL

\* Every thread enters the region with the caller's registers and sp.
THEOREM RegionContextHolds == Spec => []RegionContext
<1>1. IInv => RegionContext
  BY DEF IInv, MainInv, WorkerInv, RegionContext, Thread
<1> QED BY <1>1, Invariance, PTL

\* __mtend hands back the registers and a zero thread id.
THEOREM SerialContextHolds == Spec => []SerialContext
<1>1. IInv => SerialContext
  BY DEF IInv, MainInv, SerialContext
<1> QED BY <1>1, Invariance, PTL

\* Every thread id that was started has run when serial code goes on; if no
\* clone() can fail, these are all.
THEOREM EveryChunkRuns == Spec => []AllChunksRun
<1>1. IInv => AllChunksRun
  <2> SUFFICES ASSUME IInv, pc[Main] = "serial", round > 0
               PROVE  /\ started \subseteq ran
                      /\ ~CloneMayFail => ran = 0 .. (NumThreads - 1)
    BY DEF AllChunksRun
  <2>1. ~CloneMayFail => started = 0 .. (NumThreads - 1)
    BY DEF IInv, RanInv
  <2>2. \A w \in Worker : pc[w] = "free"
    BY DEF IInv, CountInv, Busy
  <2>3. started \ ran = {}
    BY <2>2 DEF IInv, RanInv
  <2> QED BY <2>1, <2>3 DEF IInv, TypeOK
<1> QED BY <1>1, Invariance, PTL

\* The arguments saved by __mtstart stay as they are while a thread may still
\* pop them.
THEOREM SavedArgsAreStable == Spec => SavedArgsStable
<1>1. IInv /\ IInv' /\ [Next]_vars =>
        [(\E t \in Thread : pc[t] \in {"fork", "restore"})
            => \A a \in SavedWords : mem'[a] = mem[a]]_vars
  <2> SUFFICES ASSUME IInv, IInv', Next, NEW t \in Thread,
                      pc[t] \in {"fork", "restore"}, NEW a \in SavedWords
               PROVE  mem'[a] = mem[a]
    BY DEF vars
  <2>1. pc[Main] # "serial"
    BY Typed DEF IInv, CountInv, Busy
  <2>2. a \in StackAddr \ ((SP0 - 7 - WaitFrame) .. (SP0 - 1)) /\ a \in Int
    BY Addresses DEF SavedWords, Low, Shift
  <2>3. CASE MtStart
    BY <2>1, <2>3 DEF MtStart
  <2>4. CASE Forking
    BY <2>4 DEF Forking, ForkDone, CloneFails, Clone
  <2>5. ASSUME NEW u \in Thread, Step(u) PROVE mem'[a] = mem[a]
    <3>1. CASE UNCHANGED mem
      BY <3>1
    <3>2. CASE BeginJoin(u)
      <4>1. u = Main
        <5>1. pc[u] = "mtend" /\ reg[u].r10 = 0
          BY <3>2 DEF BeginJoin
        <5> QED BY <5>1, Typed DEF IInv, WorkerInv, Active, Tid
      <4>2. reg[u] \in RegFile /\ reg[u].sp = SP0
        BY <3>2, <4>1, Typed DEF BeginJoin, IInv, MainInv
      <4>3. (SP0 - 4) .. (SP0 - 1) \subseteq StackAddr /\ a \notin (SP0 - 4) .. (SP0 - 1)
        BY <2>2, Addresses
      <4> QED BY <2>2, <3>2, <4>2, <4>3, Typed, PushValue DEF BeginJoin
    <3>3. CASE CallWait(u)
      <4>1. u = Main
        BY <3>3, Typed DEF CallWait, IInv, WorkerInv, Active
      <4>2. reg[u].sp = SP0 - 4 /\ mem' = PushCounter(mem, reg[u])
        BY <3>3, <4>1 DEF CallWait, IInv, MainInv
      <4>3. /\ a # reg[u].sp - 2 /\ a # reg[u].sp - 1
            /\ a \notin (reg[u].sp - 3 - WaitFrame) .. (reg[u].sp - 3)
        BY <2>2, <4>2, Addresses
      <4> QED BY <2>2, <4>2, <4>3 DEF PushCounter
    <3>4. CASE WaitReturns(u)
      <4>1. u = Main
        BY <3>4, Typed DEF WaitReturns, IInv, WorkerInv, Active
      <4>2. reg[u].sp = SP0 - 7 /\ mem' = [mem EXCEPT ![reg[u].sp] = Junk]
        BY <3>4, <4>1 DEF WaitReturns, IInv, MainInv
      <4>3. a # SP0 - 7
        BY <2>2, Addresses
      <4> QED BY <2>2, <4>2, <4>3, Typed
    <3> QED
      BY <2>5, <3>1, <3>2, <3>3, <3>4
      DEF Step, Restore, Region, ExitWorker, JoinDone
  <2>6. CASE Finished
    BY <2>6 DEF Finished, vars
  <2> QED BY <2>3, <2>4, <2>5, <2>6 DEF Next
<1> QED BY <1>1, Invariance, PTL DEF Spec, SavedArgsStable

\* The runtime implements the fork/join contract step by step.
THEOREM RefinesForkJoin == Spec => ForkJoinSteps
<1>1. Init => FJ!Init
  BY DEF Init, FJ!Init, Phase, Thread
<1>2. IInv /\ [Next]_vars => [FJ!Next]_(FJ!vars)
  <2> SUFFICES ASSUME IInv, [Next]_vars, ~(UNCHANGED <<Phase, started, ran>>)
               PROVE  FJ!Next
    BY DEF FJ!vars
  <2>0. Main \in Thread /\ pc \in [Thread -> Label] /\ Main \notin Worker
    BY Typed DEF IInv, TypeOK
  <2>1. CASE MtStart
    <3>1. Phase = "serial" /\ Phase' = "forking" /\ started' = {0} /\ ran' = {}
      BY <2>0, <2>1 DEF MtStart, Phase
    <3> QED BY <3>1 DEF FJ!Next, FJ!Begin
  <2>2. ASSUME NEW w \in Worker, Clone(w) PROVE FJ!Next
    <3>1. pc[Main] = "fork" /\ reg[Main].r2 \in 1 .. NumThreads /\ reg[Main].r2 - 1 # 0
      BY <2>2 DEF Clone, IInv, MainInv
    <3> DEFINE k == ReturnsToChild(AtClone(reg[Main])).r2
    <3>2. started' = started \cup {k} /\ ran' = ran /\ k = reg[Main].r2 - 1
      BY <2>0, <2>2, Typed, CloneValue DEF Clone
    <3> HIDE DEF k
    <3>3. k \in 0 .. (NumThreads - 1) /\ k # 0 /\ reg[Main].r2 = k + 1
      BY <3>1, <3>2, ThreadAssumption
    <3>4. k \notin started
      BY <3>1, <3>3 DEF IInv, DistinctInv
    <3>5. pc'[Main] = "fork"
      <4>1. ReturnsToParent(AtClone(reg[Main]), ChildPid).r0 = ChildPid
        BY <2>0, Typed, CloneValue DEF ChildPid
      <4> QED BY <2>0, <2>2, <4>1 DEF Clone, AfterClone, ChildPid
    <3>6. Phase = "forking" /\ Phase' = "forking"
      BY <3>1, <3>5 DEF Phase
    <3> QED BY <3>2, <3>3, <3>4, <3>6 DEF FJ!Next, FJ!Start
  <2>3. CASE CloneFails
    <3>1. ReturnsToParent(AtClone(reg[Main]), -EAGAIN).r0 = -EAGAIN
      BY <2>0, Typed, CloneValue DEF EAGAIN
    <3>2. pc[Main] = "fork" /\ pc'[Main] = "fork" /\ started' = started /\ ran' = ran
      BY <2>0, <2>3, <3>1 DEF CloneFails, AfterClone, EAGAIN
    <3> QED BY <3>2 DEF Phase
  <2>4. CASE ForkDone
    <3>1. /\ pc[Main] = "fork" /\ pc'[Main] = "restore"
          /\ started' = started /\ ran' = ran
      BY <2>0, <2>4 DEF ForkDone
    <3>2. Phase = "forking" /\ Phase' = "running"
      BY <3>1 DEF Phase
    <3>3. CloneMayFail \/ started = 0 .. (NumThreads - 1)
      <4> SUFFICES ASSUME ~CloneMayFail PROVE started = 0 .. (NumThreads - 1)
        OBVIOUS
      <4>1. reg[Main].r2 = 1
        BY <2>4, <3>1, ThreadAssumption DEF ForkDone, IInv, MainInv
      <4>2. started = {0} \cup (1 .. (NumThreads - 1))
        BY <3>1, <4>1 DEF IInv, RanInv
      <4> QED BY <4>2, ThreadAssumption
    <3> QED BY <3>1, <3>2, <3>3 DEF FJ!Next, FJ!ForkEnd
  <2>5. ASSUME NEW t \in Thread, Region(t) PROVE FJ!Next
    <3> DEFINE k == reg[t].r10
    <3>1. /\ pc[t] = "region" /\ pc' = [pc EXCEPT ![t] = "mtend"]
          /\ ran' = ran \cup {k} /\ started' = started
      BY <2>5 DEF Region
    <3>2. CASE t = Main
      <4>1. k = 0 /\ k \in started /\ k \notin ran
        BY <3>1, <3>2 DEF IInv, MainInv, RanInv
      <4>2. Phase = "running" /\ Phase' = "running"
        BY <2>0, <3>1, <3>2 DEF Phase
      <4>3. k \in 0 .. (NumThreads - 1)
        BY <4>1 DEF IInv, TypeOK
      <4> QED BY <3>1, <4>1, <4>2, <4>3 DEF FJ!Next, FJ!Run
    <3>3. CASE t \in Worker
      <4>1. k \in started /\ k # 0 /\ k \notin ran
        BY <3>1, <3>3 DEF IInv, WorkerInv, RanInv, Tid, Active
      <4>2. Phase' = Phase /\ Phase # "serial"
        <5>1. pc[Main] # "serial"
          BY <3>1, <3>3 DEF IInv, CountInv, Busy
        <5>2. pc'[Main] = pc[Main]
          BY <2>0, <3>1, <3>3
        <5> QED BY <5>1, <5>2 DEF Phase
      <4>3. k \in 0 .. (NumThreads - 1)
        BY <4>1 DEF IInv, TypeOK
      <4> QED BY <3>1, <4>1, <4>2, <4>3 DEF FJ!Next, FJ!Run
    <3> QED BY <3>2, <3>3 DEF Thread
  <2>6. ASSUME NEW t \in Thread, JoinDone(t) PROVE FJ!Next
    <3>1. t = Main /\ pc[Main] = "join" /\ started' = started /\ ran' = ran
      BY <2>6, Typed DEF JoinDone, IInv, WorkerInv, Active
    <3>2. reg[Main].r1 = 1 /\ reg[Main].lr = AfterRegion
      BY <2>6, <3>1, ThreadAssumption DEF JoinDone, IInv, MainInv
    <3>3. pc'[Main] = "serial"
      BY <2>0, <2>6, <3>1, <3>2, ResumeValue DEF JoinDone
    <3>4. Busy = {}
      <4>1. Cardinality(Busy) <= 0
        BY <3>1, <3>2 DEF IInv, CountInv
      <4> QED BY <4>1, BusyFinite, FS_EmptySet
    <3>5. ran = started
      <4>1. started \ ran = {}
        BY <3>1, <3>4 DEF IInv, RanInv, Busy
      <4> QED BY <4>1 DEF IInv, TypeOK
    <3>6. Phase = "running" /\ Phase' = "serial"
      BY <3>1, <3>3 DEF Phase
    <3> QED BY <3>1, <3>5, <3>6 DEF FJ!Next, FJ!Join
  <2>7. ASSUME NEW t \in Thread,
               Restore(t) \/ ExitWorker(t) \/ BeginJoin(t) \/ CallWait(t) \/ WaitReturns(t)
        PROVE  FALSE
    <3>1. started' = started /\ ran' = ran
      BY <2>7 DEF Restore, ExitWorker, BeginJoin, CallWait, WaitReturns
    <3>2. \/ pc'[Main] = pc[Main]
          \/ /\ pc[Main] \in {"restore", "region", "mtend", "join", "wait"}
             /\ pc'[Main] \in {"restore", "region", "mtend", "join", "wait"}
      <4>1. CASE Restore(t)
        <5>1. t = Main => reg[t].lr = RegionEntry
          BY <4>1 DEF Restore, IInv, MainInv
        <5> QED BY <2>0, <4>1, <5>1, ResumeValue DEF Restore
      <4>2. CASE ExitWorker(t)
        BY <2>0, <4>2 DEF ExitWorker, IInv, MainInv
      <4>3. CASE BeginJoin(t) \/ CallWait(t)
        BY <2>0, <4>3 DEF BeginJoin, CallWait
      <4>4. CASE WaitReturns(t)
        <5>1. t = Main
          BY <4>4, Typed DEF WaitReturns, IInv, WorkerInv, Active
        <5>2. pc[Main] = "wait" /\ pc'[Main] = "join"
          BY <2>0, <4>4, <5>1 DEF WaitReturns, Children
        <5> QED BY <5>2
      <4> QED BY <2>7, <4>1, <4>2, <4>3, <4>4
    <3>3. Phase' = Phase
      BY <3>2 DEF Phase
    <3> QED BY <3>1, <3>3
  <2>8. CASE UNCHANGED vars
    BY <2>8 DEF vars, Phase
  <2> QED
    BY <2>1, <2>2, <2>3, <2>4, <2>5, <2>6, <2>7, <2>8 DEF Next, Forking, Step, Finished
<1> QED BY <1>1, <1>2, Invariance, PTL DEF Spec, ForkJoinSteps

=============================================================================
