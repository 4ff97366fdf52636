-------------------------------- MODULE Mshr ---------------------------------
(***************************************************************************)
(* One miss register of a cache (hyper/mem/cache/mshr.cc): the requests    *)
(* that wait for its response, those deferred until after it, and what was *)
(* promised to other caches in the meantime.  Operators on register        *)
(* values; Coherence has the caches that use them.                         *)
(***************************************************************************)
EXTENDS Naturals, Sequences, SequencesExt

\* Packets: MemCmd::commandInfo of the commands that reach a cache.
needsExclusive(p) == p.cmd \in {"WriteReq", "ReadExReq", "UpgradeReq", "Writeback"}
isInvalidate(p) == p.cmd \in {"ReadExReq", "UpgradeReq", "ReadRespWithInvalidate"}
isRead(p) ==
  p.cmd \in {"ReadReq", "ReadExReq", "ReadResp", "ReadExResp", "ReadRespWithInvalidate"}

responseCommand(cmd) ==
  CASE cmd = "ReadReq" -> "ReadResp"
    [] cmd = "ReadExReq" -> "ReadExResp"
    [] cmd = "UpgradeReq" -> "UpgradeResp"

\* Packet(pkt, true): a copy that keeps none of the snoop flags.
ClearFlags(p) ==
  [p EXCEPT !.shared = FALSE, !.inhibit = FALSE, !.supplyEx = FALSE, !.express = FALSE]

(* A target: the request, whether it was snooped rather than received, and   *)
(* whether the register that sent it was told that it is still buffered.     *)
Target(p, snoop, marked) == [pkt |-> p, snoop |-> snoop, marked |-> marked]

NoMSHR == [used |-> FALSE]

MSHR(p) ==
  [used |-> TRUE, inService |-> FALSE, isForward |-> FALSE,
   downstreamPending |-> FALSE, pendingDirty |-> FALSE,
   postInvalidate |-> FALSE, postDowngrade |-> FALSE, ripe |-> FALSE,
   targets |-> <<Target(p, FALSE, TRUE)>>, deferred |-> <<>>]

\* The flags a TargetList keeps about the requests in it.
wantsExclusive(ts) == \E i \in DOMAIN ts : ~ts[i].snoop /\ needsExclusive(ts[i].pkt)
hasUpgrade(ts) == \E i \in DOMAIN ts : ~ts[i].snoop /\ ts[i].pkt.cmd = "UpgradeReq"

getNumTargets(m) == Len(m.targets) + Len(m.deferred)

replaceUpgrade(p) == IF p.cmd = "UpgradeReq" THEN [p EXCEPT !.cmd = "ReadExReq"] ELSE p

\* Mutant: upgrades stay upgrades although the block was taken away.
replaceUpgrades_Not(ts) == ts

replaceUpgrades(ts) ==
  IF hasUpgrade(ts)
  THEN [i \in DOMAIN ts |-> [ts[i] EXCEPT !.pkt = replaceUpgrade(@)]]
  ELSE ts

\* Mutant: a request joins a response that was already promised away.
mustDefer_Promised(m, p) ==
  /\ m.inService
  /\ \/ m.deferred # <<>>
     \/ needsExclusive(p) /\ (~m.pendingDirty \/ m.postDowngrade \/ m.isForward)

(* The condition of MSHR::allocateTarget.                                    *)
mustDefer(m, p) ==
  /\ m.inService
  /\ \/ m.deferred # <<>>
     \/ m.postInvalidate
     \/ needsExclusive(p) /\ (~m.pendingDirty \/ m.postDowngrade \/ m.isForward)

allocateTarget(m, p) ==
  IF mustDefer(m, p)
  THEN LET q == IF m.postInvalidate THEN replaceUpgrade(p) ELSE p IN
       [m EXCEPT !.deferred = Append(@, Target(q, FALSE, TRUE))]
  ELSE [m EXCEPT !.targets = Append(@, Target(p, FALSE, ~m.inService))]

\* Whether the new target tells the register above that it is buffered here.
marksPending(m, p) == mustDefer(m, p) \/ ~m.inService

\* MSHR::markInService for a request that was sent as p and gets a response.
markInService(m, p) ==
  [m EXCEPT !.inService = TRUE,
            !.pendingDirty = wantsExclusive(m.targets) \/ (~p.shared /\ p.inhibit),
            !.postInvalidate = FALSE, !.postDowngrade = FALSE]

\* Does the request of this register precede the snooped one?
precedes(m, p) == m.inService /\ ~(p.express /\ m.downstreamPending)

(* MSHR::handleSnoop: the register after it, the snooped packet after it,    *)
(* whether the snoop ends here, and whether it was saved as a target.        *)
handleSnoop(m, p) ==
  IF ~precedes(m, p)
  THEN [m |-> IF needsExclusive(p)
              THEN [m EXCEPT !.targets = replaceUpgrades(@), !.deferred = replaceUpgrades(@)]
              ELSE m,
        p |-> p, taken |-> FALSE, saved |-> FALSE]
  ELSE
  LET m1 == IF needsExclusive(p) THEN [m EXCEPT !.deferred = replaceUpgrades(@)] ELSE m IN
  IF m.postInvalidate
  THEN [m |-> m1, p |-> p, taken |-> TRUE, saved |-> FALSE]
  ELSE
  LET save == m.pendingDirty \/ isInvalidate(p)
      tgt  == Target(ClearFlags(p), TRUE, m.downstreamPending /\ wantsExclusive(m.targets)) IN
  [m |-> [m1 EXCEPT !.targets = IF save THEN Append(@, tgt) ELSE @,
                    !.postInvalidate = save /\ needsExclusive(p),
                    !.postDowngrade = @ \/ ~needsExclusive(p)],
   p |-> [p EXCEPT !.inhibit = @ \/ m.pendingDirty,
                   !.supplyEx = @ \/ m.pendingDirty,
                   !.shared = @ \/ ~needsExclusive(p)],
   taken |-> TRUE, saved |-> save]

(* MSHR::handleFill: an exclusive response serves deferred requests as well, *)
(* unless it was promised away.                                              *)
movesUp(m, r) ==
  /\ ~r.shared /\ ~m.postInvalidate /\ ~m.postDowngrade
  /\ wantsExclusive(m.deferred)

handleFill(m, r) ==
  IF movesUp(m, r) THEN [m EXCEPT !.targets = @ \o m.deferred, !.deferred = <<>>] ELSE m

(* promoteDeferredTargets and markPending: the register is to be sent again. *)
(* What was promised is done; markInService would reset it.                  *)
promote(m) ==
  [m EXCEPT !.targets = m.deferred, !.deferred = <<>>, !.inService = FALSE,
            !.pendingDirty = FALSE, !.postInvalidate = FALSE, !.postDowngrade = FALSE,
            !.ripe = TRUE]
=============================================================================
