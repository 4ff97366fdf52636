----------------------------- MODULE CreditLink -----------------------------
(***************************************************************************)
(* What a bridge promises to the two buses it joins, with no counters,     *)
(* events or retries: two first-in first-out lists and a rule on when a    *)
(* request may enter.  A request enters only while fewer than ReqLimit     *)
(* requests are queued and, if it wants a response, while fewer than       *)
(* RespLimit responses are owed, so a response always finds room.          *)
(***************************************************************************)
EXTENDS Integers, Sequences, FiniteSets, Functions

CONSTANTS Packet, NeedsResponse, ReqLimit, RespLimit

VARIABLES
  reqs,   \* requests in transit
  far,    \* requests being served on the far side
  resps   \* responses in transit

linkVars == <<reqs, far, resps>>

Inside == Range(reqs) \cup far \cup Range(resps)

\* Requests inside the link whose response is still to be delivered.
Owed == Inside \cap NeedsResponse

Init == reqs = <<>> /\ far = {} /\ resps = <<>>

Enter(p) ==
  /\ p \notin Inside
  /\ Len(reqs) < ReqLimit
  /\ p \in NeedsResponse => Cardinality(Owed) < RespLimit
  /\ reqs' = Append(reqs, p)
  /\ UNCHANGED <<far, resps>>

Forward ==
  /\ reqs # <<>>
  /\ reqs' = Tail(reqs)
  /\ far' = far \cup ({Head(reqs)} \cap NeedsResponse)
  /\ UNCHANGED resps

Answer(p) ==
  /\ p \in far
  /\ far' = far \ {p}
  /\ resps' = Append(resps, p)
  /\ UNCHANGED reqs

Deliver ==
  /\ resps # <<>>
  /\ resps' = Tail(resps)
  /\ UNCHANGED <<reqs, far>>

Next == \/ \E p \in Packet : Enter(p) \/ Answer(p)
        \/ Forward
        \/ Deliver

Spec == Init /\ [][Next]_linkVars

\* Packets that entered leave again.
FairSpec == /\ Spec
            /\ WF_linkVars(Forward) /\ WF_linkVars(Deliver)
            /\ \A p \in Packet : WF_linkVars(Answer(p))
=============================================================================
