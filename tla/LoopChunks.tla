----------------------------- MODULE LoopChunks -----------------------------
(***************************************************************************)
(* How Multithreading::wrapMultithreading splits                           *)
(*     for (phi = start; phi < end; phi += accuValue)                      *)
(* over the threads of a region.  The pass emits IR, so every operation    *)
(* here is one 32-bit machine operation that wraps.                        *)
(***************************************************************************)
EXTENDS Integers

CONSTANTS mt_num_threads,   \* 4 in the code
          HalfRange         \* half the values of a machine word, 2^31

ASSUME WordAssumption == /\ mt_num_threads \in Nat \ {0}
                         /\ HalfRange \in Nat \ {0}

Word == (-HalfRange) .. (HalfRange - 1)
Wrap(x) == ((x + HalfRange) % (2 * HalfRange)) - HalfRange

Add(x, y) == Wrap(x + y)
Sub(x, y) == Wrap(x - y)
Mul(x, y) == Wrap(x * y)
\* A division by a constant.  By a power of two it has become an arithmetic
\* shift, which rounds down, when code is generated; others round towards zero.
PowerOfTwo(y) == \E p \in 0 .. 30 : y = 2 ^ p
Div(x, y) == Wrap(IF x >= 0 \/ PowerOfTwo(y) THEN x \div y ELSE -((-x) \div y))

itersize(start, end) == Sub(end, start)

\* Slip: the last share is rounded down with the others.
ShareSlip(start, end, tid) ==
    Mul(Div(itersize(start, end), mt_num_threads), tid)

\* _l and _r: where the share of a thread begins and ends.
Share(start, end, tid) == Div(Mul(itersize(start, end), tid), mt_num_threads)

\* Slip: the bound of a share is its last iteration, not the first beyond it.
iterRSlip(start, end, tid) == Add(Add(Share(start, end, Add(tid, 1)), start), 1)

iterR(start, end, tid) == Add(Share(start, end, Add(tid, 1)), start)

\* The least multiple of accuValue in the share, counted from start.
iterL(start, end, accuValue, tid) ==
    Add(Mul(Div(Add(Share(start, end, tid), accuValue - 1), accuValue),
            accuValue),
        start)

\* The sequential loop.
Iterations(start, end, accuValue) ==
    {i \in Word : i >= start /\ i < end /\ (i - start) % accuValue = 0}

\* What a thread runs after the pass has replaced start and end.
ThreadIterations(start, end, accuValue, tid) ==
    {i \in Word : /\ i >= iterL(start, end, accuValue, tid)
                  /\ i < iterR(start, end, tid)
                  /\ (i - iterL(start, end, accuValue, tid)) % accuValue = 0}

\* No intermediate result leaves the word: the loops FunctionOptimization
\* marks run from 0 to the bound of an array that fits in memory.
NoOverflow(start, end, accuValue) ==
    /\ {start, end} \subseteq Word
    /\ accuValue \in Nat \ {0}
    /\ LET reach == (IF end >= start THEN end - start ELSE start - end)
                       * mt_num_threads + mt_num_threads + accuValue
       IN  reach < HalfRange /\ {start - reach, start + reach} \subseteq Word
=============================================================================
