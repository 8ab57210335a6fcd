------------------------------ MODULE ForkJoin ------------------------------
(***************************************************************************)
(* What the pair __mtstart / __mtend promises to the code the compiler     *)
(* generates: `tid = __mtstart(); region; __mtend(tid);` runs the region   *)
(* once for every thread id that was started, and the serial code goes on  *)
(* only after all of them are done.  MTRuntime refines this module.        *)
(***************************************************************************)
EXTENDS Naturals

CONSTANTS Tids,     \* the thread ids 0 .. mt_num_threads - 1
          Lossy     \* TRUE when starting a thread may fail silently

ASSUME ForkJoinAssumption == /\ 0 \in Tids
                             /\ Lossy \in BOOLEAN

VARIABLES phase,    \* "serial", "forking" or "running"
          started,  \* ids handed out in the current (or last) region
          ran       \* ids whose copy of the region has been executed

vars == <<phase, started, ran>>

TypeOK == /\ phase \in {"serial", "forking", "running"}
          /\ started \subseteq Tids
          /\ ran \subseteq started

Init == /\ phase = "serial"
        /\ started = {}
        /\ ran = {}

Begin == /\ phase = "serial"
         /\ phase' = "forking"
         /\ started' = {0}
         /\ ran' = {}

Start(t) == /\ phase = "forking"
            /\ t \in Tids \ started
            /\ started' = started \cup {t}
            /\ UNCHANGED <<phase, ran>>

ForkEnd == /\ phase = "forking"
           /\ Lossy \/ started = Tids
           /\ phase' = "running"
           /\ UNCHANGED <<started, ran>>

\* Workers may run while others are still being started; thread 0, which does
\* the starting, comes last.
Run(t) == /\ phase # "serial"
          /\ t = 0 => phase = "running"
          /\ t \in started \ ran
          /\ ran' = ran \cup {t}
          /\ UNCHANGED <<phase, started>>

Join == /\ phase = "running"
        /\ ran = started
        /\ phase' = "serial"
        /\ UNCHANGED <<started, ran>>

Next == \/ Begin
        \/ ForkEnd
        \/ Join
        \/ \E t \in Tids : Start(t) \/ Run(t)

Forking == ForkEnd \/ \E t \in Tids : Start(t)

Fairness == /\ WF_vars(Forking)
            /\ WF_vars(Join)
            /\ \A t \in Tids : WF_vars(Run(t))

Spec == Init /\ [][Next]_vars /\ Fairness
=============================================================================
