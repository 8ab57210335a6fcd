----------------------------- MODULE BlockPasses -----------------------------
(***************************************************************************)
(* The passes that rewrite a block, one after the other over one block, as *)
(* main runs them, with the machine that runs the block before and after.  *)
(***************************************************************************)
EXTENDS BlockCode

CONSTANTS GlobalVariable,
          Jobs       \* [code, start, passes]: a block, the machine that comes
                     \* to it, and the passes it goes through

\* The IR is in SSA form when the passes start, and the block runs.
ASSUME JobsAssumption == \A job \in Jobs : Good(job.start, job.code)

VARIABLES start, passes,
          pass,      \* the pass that scans the block, or "none"
          input,     \* the block as the last pass found it
          code, k, wait_delete, level,
          exprs, load_val, call_val, pre_stores, const_def

vars == <<start, passes, pass, input, code, k, wait_delete, level,
          exprs, load_val, call_val, pre_stores, const_def>>

CSE == INSTANCE BBCommonSubExper
DCE == INSTANCE DeadCodeEliminate
Prop == INSTANCE BBConstPropagation
Lower == INSTANCE LowerIR

cse_tables == <<exprs, load_val, call_val>>
tables == <<exprs, load_val, call_val, pre_stores, const_def>>

Init == /\ \E job \in Jobs : /\ code = job.code
                             /\ start = job.start
                             /\ passes = job.passes
        /\ pass = "none"
        /\ input = code
        /\ k = 1
        /\ wait_delete = {}
        /\ level = "MIR_SSA"
        /\ exprs = CSE!Empty /\ load_val = CSE!Empty /\ call_val = CSE!Empty
        /\ pre_stores = {}
        /\ const_def = Prop!Empty

Next(name) == /\ pass = "none"
              /\ passes # <<>>
              /\ Head(passes) = name
              /\ passes' = Tail(passes)
              /\ input' = code
              /\ UNCHANGED start

Begin == /\ \/ Next("cse") /\ CSE!Begin /\ UNCHANGED <<pre_stores, const_def>>
            \/ Next("deadstore") /\ DCE!Begin /\ UNCHANGED <<cse_tables, const_def>>
            \/ Next("const") /\ Prop!Begin /\ UNCHANGED <<cse_tables, pre_stores>>
         /\ pass' = Head(passes)
         /\ k' = 1
         /\ wait_delete' = {}
         /\ UNCHANGED <<code, level>>

Scan == /\ \/ /\ pass = "cse"
              /\ CSE!Step
              /\ UNCHANGED <<level, pre_stores, const_def>>
           \/ /\ pass = "deadstore"
              /\ DCE!Step
              /\ UNCHANGED <<cse_tables, const_def>>
           \/ /\ pass = "const"
              /\ Prop!Step
              /\ UNCHANGED <<level, cse_tables, pre_stores>>
        /\ UNCHANGED <<start, passes, pass, input>>

End == /\ pass # "none"
       /\ k > Len(code)
       /\ code' = Deleted(code, wait_delete)
       /\ pass' = "none"
       /\ UNCHANGED <<start, passes, input, k, wait_delete, level, tables>>

DeadInst == /\ Next("deadinst")
            /\ code' = Deleted(code, DCE!DeadInst)
            /\ UNCHANGED <<pass, k, wait_delete, level, tables>>

Split == /\ Next("split")
         /\ code' = Lower!Split(code)
         /\ UNCHANGED <<pass, k, wait_delete, level, tables>>

Fuse == /\ Next("fuse")
        /\ code' = Lower!Fuse(code)
        /\ level' = "LIR"
        /\ UNCHANGED <<pass, k, wait_delete, tables>>

Done == pass = "none" /\ passes = <<>> /\ UNCHANGED vars

Step == Begin \/ Scan \/ End \/ DeadInst \/ Split \/ Fuse \/ Done
Spec == Init /\ [][Step]_vars

-----------------------------------------------------------------------------
\* The machine at the instruction at hand, before any pass had its way.
Here == Trace(start, input)[k - 1]

\* Whatever a pass did, the block leaves the same memory and the same calls
\* can be seen from outside (DeadCodeEliminate.cc:219, BBCommonSubExper.cc:44,
\* BBConstPropagation.cc:78, LowerIR.cc:8).
MeaningKept == pass = "none" => Outcome(start, code) = Outcome(start, input)

\* What a pass remembers of memory is so: a load BBCommonSubExper may still give
\* to later ones has the value memory now holds (BBCommonSubExper.cc:114-140), a
\* store DeadCodeEliminate may still forward is the last to its place
\* (DeadCodeEliminate.cc:219-264), and what BBConstPropagation knows of globals
\* and elements is what is there (BBConstPropagation.cc:168-283).
MemoryKnown == /\ pass = "cse" => CSE!LoadsCurrent(Here)
               /\ pass = "deadstore" => DCE!StoresCurrent(Here)
               /\ pass = "const" => Prop!ConstsCurrent(Here)

\* What each pass takes for granted, and that what LowerIR makes of the block is
\* in SSA form and does the same.
Comes(name) == pass = "none" /\ passes # <<>> /\ Head(passes) = name
Same(c) == Good(start, c) /\ Outcome(start, c) = Outcome(start, code)

Assumed == /\ pass = "cse" => CSE!Assumed(Here)
           /\ pass = "deadstore" => DCE!Assumed(Here)
           /\ pass = "const" => Prop!Assumed(Here)
           /\ Comes("deadinst") => DCE!CallsAssumed
           /\ Comes("split") => Same(Lower!Split(code))
           /\ Comes("fuse") => Same(Lower!Fuse(code))
=============================================================================
