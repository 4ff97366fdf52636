------------------------------ MODULE MCManager -----------------------------
(* Two processors, two clients or three.  The planes are those of            *)
(* configs/PARDg5-V.py: one adaptor leads to the way masks and to a memory   *)
(* controller (with a row for the first LDom only), the other to the I/O     *)
(* bridge's mapper, which stores nothing.                                    *)
EXTENDS Manager, TLC

CONSTANTS c1, c2, c3, cpa0, cpa1, tags, dram, io, mask, stats

NetDef == (cpa0 :> {tags, dram}) @@ (cpa1 :> {io})
KnownDef == (tags :> LDom) @@ (dram :> {0}) @@ (io :> LDom)
StoredDef == (tags :> {mask}) @@ (dram :> {mask}) @@ (io :> {})
Op(kind, cpa, plane, ldom, dest, data) ==
  [kind |-> kind, cpa |-> cpa, plane |-> plane, ldom |-> ldom, dest |-> dest, data |-> data]
OperationDef ==
  {Op("S", cpa0, p, l, mask, 2) : p \in {tags, dram}, l \in LDom}
  \cup {Op("G", cpa0, p, l, mask, 1) : p \in {tags, dram}, l \in LDom}
  \cup {Op("G", cpa1, io, 1, mask, 1), Op("S", cpa1, tags, 0, mask, 2),
         Op("G", cpa0, tags, 0, stats, 1), Op("X", cpa0, tags, 0, mask, 1)}

Cmd(op, id) == [op |-> op, id |-> id, arg |-> None]
Set(plane) == [op |-> "set", id |-> 0, arg |-> <<plane, mask, 1>>]
CommandDef == {Cmd("create", 0), Cmd("other", 0), Cmd("long", 0), Cmd("none", 0), Set(tags), Set(dram)}
              \cup {Cmd(op, id) : op \in {"startup", "shutdown"}, id \in 0..2}
All == {"work", "halt", "arm", "disarm"}
Plan(guests, m, n, whole, insns) ==
  [guests |-> guests, asks |-> (c1 :> m) @@ (c2 :> n) @@ (c3 :> None), whole |-> whole,
   insns |-> insns, ops |-> {}]
PlansDef ==
  {Plan(1, Cmd("create", 0), Cmd("startup", 1), TRUE, All),
   Plan(1, Cmd("shutdown", 0), Cmd("startup", 0), TRUE, All),
   Plan(0, Cmd("shutdown", 1), Cmd("shutdown", 2), TRUE, All),
   Plan(2, Cmd("create", 0), Cmd("startup", 2), TRUE, {"work"}),
   Plan(0, Cmd("other", 0), Cmd("long", 0), FALSE, {}),
   [Plan(0, Set(dram), Cmd("none", 0), TRUE, {}) EXCEPT !.asks[c3] = Cmd("none", 0)],
   [Plan(0, None, None, TRUE, {}) EXCEPT !.ops = Operation],
   [Plan(0, Set(tags), None, TRUE, {}) EXCEPT !.ops =
      {Op("S", cpa0, tags, 0, mask, 2), Op("G", cpa0, tags, 0, mask, 1)}]}
=============================================================================
