--------------------------- MODULE ParameterTables --------------------------
(***************************************************************************)
(* What the control planes promise to software: tables of parameters, one   *)
(* for each plane, with a row for each LDom, that are read and written      *)
(* entry by entry.  An operation that software asks for takes place once,   *)
(* at one moment between its start and its end; the global manager writes   *)
(* entries at any time.                                                     *)
(***************************************************************************)
CONSTANTS Plane, LDom, Dest, Value, Writer, Operation, None, Fixed,
          Net,      \* [adaptor -> the planes it leads to]
          Known,    \* [Plane -> the LDoms it has a row for]
          Stored    \* [Plane -> the entries of a row that can be written]

VARIABLES table,   \* [Plane -> [LDom -> [Dest -> Value]]]
          asked,   \* [Writer -> the operation under way, or None]
          done,    \* writers whose operation has taken place
          got      \* [Writer -> what its last operation returned]

tableVars == <<table, asked, done, got>>

\* None is all ones, which stands for what does not exist.
EntryOf(o) ==
  IF o.plane \notin Net[o.cpa] \/ o.ldom \notin Known[o.plane] THEN None
  ELSE IF o.dest \in Stored[o.plane] THEN table[o.plane][o.ldom][o.dest] ELSE Fixed

Updated(p, l, d, v) ==
  IF l \in Known[p] /\ d \in Stored[p] THEN [table EXCEPT ![p][l][d] = v] ELSE table

Init ==
  /\ table \in [Plane -> [LDom -> [Dest -> Value]]]
  /\ asked = [w \in Writer |-> None] /\ done = {} /\ got = [w \in Writer |-> None]

Ask(w, o) ==
  /\ asked[w] = None
  /\ asked' = [asked EXCEPT ![w] = o]
  /\ UNCHANGED <<table, done, got>>

\* A value that is read is the entry's at this moment.
Perform(w) ==
  /\ asked[w] # None /\ w \notin done
  /\ LET o == asked[w] IN
     /\ got' = [got EXCEPT ![w] = IF o.kind = "G" THEN EntryOf(o) ELSE None]
     /\ table' = IF o.kind = "S" /\ o.plane \in Net[o.cpa]
                   THEN Updated(o.plane, o.ldom, o.dest, o.data) ELSE table
  /\ done' = done \cup {w}
  /\ UNCHANGED asked

End(w) ==
  /\ w \in done
  /\ asked' = [asked EXCEPT ![w] = None] /\ done' = done \ {w}
  /\ UNCHANGED <<table, got>>

ManagerSets(p, l, d, v) ==
  /\ table' = Updated(p, l, d, v)
  /\ UNCHANGED <<asked, done, got>>

Next ==
  \/ \E w \in Writer : Perform(w) \/ End(w) \/ \E o \in Operation : Ask(w, o)
  \/ \E p \in Plane, l \in LDom, d \in Dest, v \in Value : ManagerSets(p, l, d, v)

Spec == Init /\ [][Next]_tableVars
=============================================================================
