------------------------------- MODULE MCIde --------------------------------
(* Two LDoms: one with a master and a slave, one whose slave is never used.  *)
EXTENDS Ide, TLC

CONSTANTS g0, g1, m0, s0, m1

MasterDef == (g0 :> m0) @@ (g1 :> m1)
SlaveDef == (g0 :> s0) @@ (g1 :> m1)
EventDef == {m0, s0, m1} \X {"Transfer", "PrdRead", "ReadWait", "WriteWait"}
\* Unaligned descriptors: one that splits in a page, one that crosses pages.
Scattered == <<[base |-> 1, count |-> 2], [base |-> 3, count |-> 2]>>
\* Two sectors on two pages.
Whole == <<[base |-> 2, count |-> 4]>>
AnyJob == {[cmd |-> "nondata", lba |-> 0, table |-> <<>>],
           [cmd |-> "identify", lba |-> 0, table |-> <<[base |-> 0, count |-> 2]>>],
           [cmd |-> "read", lba |-> 0, table |-> Whole],
           [cmd |-> "write", lba |-> 0, table |-> Whole],
           [cmd |-> "readdma", lba |-> 0, table |-> Scattered],
           [cmd |-> "writedma", lba |-> 0, table |-> Scattered],
           [cmd |-> "writedma", lba |-> 0, table |-> Whole]}
Cmd(c) == {job \in AnyJob : job.cmd = c}
Dma == Cmd("readdma") \cup Cmd("writedma")
\* One LDom with two commands of any kind; one and a checkpoint; two LDoms.
ScenariosDef ==
  {[plan |-> (g0 :> <<AnyJob, Cmd("readdma")>>) @@ (g1 :> <<>>),
    setups |-> 1, drains |-> 0],
   [plan |-> (g0 :> <<Dma>>) @@ (g1 :> <<>>), setups |-> 0, drains |-> 1],
   [plan |-> (g0 :> <<{[cmd |-> "writedma", lba |-> 0, table |-> Whole]}>>)
             @@ (g1 :> <<Cmd("readdma")>>),
    setups |-> 0, drains |-> 0]}
=============================================================================
