----------------------------- MODULE CacheTags ------------------------------
(***************************************************************************)
(* One set of the way-partitioned tag store (hyper/mem/cache/tags/lru.cc,  *)
(* cacheset.hh) under the handlers of the cache that use it                *)
(* (hyper/mem/cache/cache_impl.hh).  Blocks are kept in one recency order, *)
(* shared by all LDoms; an LDom may fill only the ways of its way mask,    *)
(* which the manager may change at any time.  What happens to a block in   *)
(* the coherence protocol is reduced to valid, writable and dirty; sets do *)
(* not interact.                                                           *)
(***************************************************************************)
EXTENDS Integers, FiniteSets

CONSTANTS
  Guest,       \* LDoms
  Tag,         \* block addresses within an LDom
  Block,       \* <<LDom, tag>>: the blocks that fall into this set
  Assoc,       \* associativity
  InitMask,    \* way mask of each LDom at the start: a set of way numbers
  MaskChoices, \* masks the manager may write later
  None

Way == 0..Assoc-1

ASSUME CacheTagsAssumption ==
  /\ Block \subseteq Guest \X Tag
  /\ Assoc \in Nat \ {0}
  /\ InitMask \in [Guest -> SUBSET Nat]
  /\ MaskChoices \subseteq SUBSET Nat
  /\ None \notin Block

VARIABLES
  pos,       \* pos[w] = i iff way w is blks[i]; 0 is the most recently used
  line,      \* what each way holds
  waymasks,  \* way mask of each LDom
  mshrs,     \* blocks with an outstanding miss
  aborted,   \* assert(waymask) in findVictim failed: the simulation is over
  stale,     \* history: blocks with newer data than the memory of their LDom
  strayed    \* history: of those, the ones a flush wrote somewhere else

vars == <<pos, line, waymasks, mshrs, aborted, stale, strayed>>

Empty == [blk |-> None, dirty |-> FALSE, writable |-> FALSE]
Line == {Empty} \cup [blk : Block, dirty : BOOLEAN, writable : BOOLEAN]

valid(w) == line[w].blk # None

Init ==
  /\ pos = [w \in Way |-> w]
  /\ line = [w \in Way |-> Empty]
  /\ waymasks = InitMask
  /\ mshrs = {} /\ aborted = FALSE
  /\ stale = {} /\ strayed = {}

----------------------------------------------------------------------------
\* CacheSet::findBlk; Unique says that there is at most one.
findBlk(b) == {w \in Way : line[w].blk = b}

moveToHead(w) ==
  [v \in Way |-> CASE v = w -> 0
                   [] pos[v] < pos[w] -> pos[v] + 1
                   [] OTHER -> pos[v]]

moveToTail(w) ==
  [v \in Way |-> CASE v = w -> Assoc - 1
                   [] pos[v] > pos[w] -> pos[v] - 1
                   [] OTHER -> pos[v]]

\* Mutant: the mask is ignored.
findVictim_AnyWay(g) == CHOOSE w \in Way : pos[w] = Assoc - 1

\* Mutant: the search starts at the most recently used block.
findVictim_Newest(g) ==
  LET mine == Way \cap waymasks[g] IN
  IF mine = {} THEN CHOOSE w \in Way : pos[w] = 0
               ELSE CHOOSE w \in mine : \A v \in mine : pos[v] >= pos[w]

(* LRU::findVictim: the least recently used way of the mask.  The loop runs  *)
(* off the end, at the most recently used block, if the mask has no way of   *)
(* this cache.                                                               *)
findVictim(g) ==
  LET mine == Way \cap waymasks[g] IN
  IF mine = {} THEN CHOOSE w \in Way : pos[w] = 0
               ELSE CHOOSE w \in mine : \A v \in mine : pos[v] =< pos[w]

----------------------------------------------------------------------------
(* Bookkeeping of data: block b changed, or its newest data went to memory   *)
(* or to another cache.                                                      *)
Changed(b) == stale' = stale \cup {b} /\ strayed' = strayed \ {b}
Handed(bs) == stale' = stale \ bs /\ strayed' = strayed \ bs
SameData == UNCHANGED <<stale, strayed>>

\* tags->invalidate(blk); blk->invalidate(), its data handed over if dirty.
GiveUp(w) ==
  /\ line' = [line EXCEPT ![w] = Empty]
  /\ pos' = moveToTail(w)
  /\ Handed(IF line[w].dirty THEN {line[w].blk} ELSE {})

\* Mutant: dirty victims are not written back.
Insert_DropsVictim(w, b, d, x) ==
  /\ line' = [line EXCEPT ![w] = [blk |-> b, dirty |-> d, writable |-> x]]
  /\ pos' = moveToHead(w)
  /\ stale' = IF d THEN stale \cup {b} ELSE stale
  /\ strayed' = strayed

(* Block b takes way w; a dirty victim is written back (writebackBlk), then  *)
(* insertBlock puts the new block at the head.                               *)
Insert(w, b, d, x) ==
  LET gone == IF line[w].dirty THEN {line[w].blk} ELSE {}
      new  == IF d THEN {b} ELSE {} IN
  /\ line' = [line EXCEPT ![w] = [blk |-> b, dirty |-> d, writable |-> x]]
  /\ pos' = moveToHead(w)
  /\ stale' = (stale \ gone) \cup new
  /\ strayed' = strayed \ (gone \cup new)

\* Mutant: a block with an outstanding upgrade may be replaced.
blocked_Never(w) == FALSE

\* allocateBlock gives up on a victim that has an outstanding miss.
blocked(w) == line[w].blk \in mshrs

----------------------------------------------------------------------------
Same == UNCHANGED <<line, pos>> /\ SameData
\* An access that is not satisfied allocates an MSHR or joins one.
Miss(b) == mshrs' = mshrs \cup {b}
Running == ~aborted
Rest == UNCHANGED <<waymasks, aborted>>

(* access() for a read: accessBlock moves the block to the head.  A block    *)
(* read by a cache above hands dirty data over with its ownership if it was  *)
(* writable (satisfyCpuSideRequest).                                         *)
Read(b, pass) ==
  /\ Running
  /\ IF findBlk(b) = {}
     THEN ~pass /\ Same /\ Miss(b)
     ELSE \E w \in findBlk(b) :
            /\ pass => line[w].writable /\ line[w].dirty
            /\ pos' = moveToHead(w) /\ UNCHANGED mshrs
            /\ line' = IF pass THEN [line EXCEPT ![w].dirty = FALSE] ELSE line
            /\ Handed(IF pass THEN {line[w].blk} ELSE {})
  /\ Rest

(* access() for a write.  A block that is valid but not writable is moved to *)
(* the head as well, and a miss is recorded for its upgrade.                 *)
Write(b) ==
  /\ Running
  /\ IF findBlk(b) = {}
     THEN Same /\ Miss(b)
     ELSE \E w \in findBlk(b) :
            /\ pos' = moveToHead(w)
            /\ IF line[w].writable
               THEN /\ line' = [line EXCEPT ![w].dirty = TRUE]
                    /\ Changed(line[w].blk) /\ UNCHANGED mshrs
               ELSE UNCHANGED line /\ SameData /\ Miss(b)
  /\ Rest

(* access() for an exclusive read or an upgrade from a cache above, which    *)
(* gives our copy up.                                                        *)
Take(b) ==
  /\ Running
  /\ \E w \in findBlk(b) :
       /\ line[w].writable
       /\ GiveUp(w) /\ UNCHANGED mshrs
  /\ Rest

(* recvTimingReq for a writeback from a cache above: it needs a block but no *)
(* permission; if none can be had it is passed on.  A writeback that makes   *)
(* our copy writable comes from the only cache that had one, so we have no   *)
(* miss outstanding for it.                                                  *)
Writeback(b, excl) ==
  /\ Running
  /\ excl => b \notin mshrs
  /\ IF findBlk(b) # {}
     THEN \E w \in findBlk(b) :
            /\ line' = [line EXCEPT ![w].dirty = TRUE, ![w].writable = @ \/ excl]
            /\ pos' = moveToHead(w)
            /\ Changed(line[w].blk) /\ UNCHANGED aborted
     ELSE LET w == findVictim(b[1]) IN
          IF waymasks[b[1]] = {} THEN aborted' = TRUE /\ Same
          ELSE /\ IF blocked(w) THEN Same ELSE Insert(w, b, TRUE, excl)
               /\ UNCHANGED aborted
  /\ UNCHANGED <<waymasks, mshrs>>

(* handleFill when the block is there, which an upgrade finds, and what the  *)
(* targets then leave of it: dirty (d), writable (x), or given up (~keep).   *)
FillOld(w, b, keep, d, x) ==
  /\ UNCHANGED aborted
  /\ \/ /\ keep
        /\ line' = [line EXCEPT ![w] =
                      [blk |-> b, dirty |-> d \/ @.dirty, writable |-> x]]
        /\ UNCHANGED pos
        /\ IF d THEN Changed(b) ELSE SameData
     \/ ~keep /\ GiveUp(w)

(* handleFill when it is not: allocateBlock and insertBlock bring it in, or, *)
(* if the victim is blocked, the data pass through a temporary block that is *)
(* gone when the handler returns.                                            *)
FillNew(b, keep, d, x) ==
  LET w == findVictim(b[1]) IN
  IF waymasks[b[1]] = {} THEN aborted' = TRUE /\ Same
  ELSE /\ UNCHANGED aborted
       /\ \/ blocked(w) /\ Same
          \/ ~blocked(w) /\ keep /\ Insert(w, b, d, x)
          \/ ~blocked(w) /\ ~keep /\ GiveUp(w)

(* recvTimingResp for the miss on b.  Targets that were deferred keep the    *)
(* MSHR (again), only if the block is given up or not writable:              *)
(* MSHR::handleFill has moved the others up.                                 *)
Fill(b, keep, d, x, again) ==
  /\ Running
  /\ b \in mshrs
  /\ again => ~keep \/ ~x
  /\ IF findBlk(b) # {} THEN \E w \in findBlk(b) : FillOld(w, b, keep, d, x)
                        ELSE FillNew(b, keep, d, x)
  /\ mshrs' = IF again THEN mshrs ELSE mshrs \ {b}
  /\ UNCHANGED waymasks

(* recvTimingResp for a response that is not a fill: the miss was forwarded  *)
(* as it was, or failed.                                                     *)
Complete(b, inval) ==
  /\ Running
  /\ b \in mshrs
  /\ mshrs' = mshrs \ {b}
  /\ IF inval /\ findBlk(b) # {} THEN \E w \in findBlk(b) : GiveUp(w) ELSE Same
  /\ Rest

(* handleSnoop: another cache reads the block, or takes it.                  *)
Snoop(b, inval) ==
  /\ Running
  /\ \E w \in findBlk(b) :
       IF inval THEN GiveUp(w)
       ELSE /\ line' = [line EXCEPT ![w].writable = FALSE]
            /\ UNCHANGED pos /\ SameData
  /\ UNCHANGED mshrs /\ Rest

(* writebackVisitor on the ways ws: dirty data are written by a request that *)
(* carries no LDom, and so not to the memory of the LDom they belong to.     *)
Stray(ws) == {line[w].blk : w \in {v \in ws : line[v].dirty}}

(* uncacheableFlush: write the block back, then invalidate it.               *)
Flush(b) ==
  /\ Running
  /\ \E w \in findBlk(b) :
       /\ line' = [line EXCEPT ![w] = Empty]
       /\ pos' = moveToTail(w)
       /\ strayed' = strayed \cup Stray({w})
  /\ UNCHANGED <<mshrs, stale>> /\ Rest

(* memWriteback: the whole cache is written back, and stays.                 *)
MemWriteback ==
  /\ Running
  /\ line' = [w \in Way |->
       IF line[w].dirty THEN [line[w] EXCEPT !.dirty = FALSE] ELSE line[w]]
  /\ strayed' = strayed \cup Stray(Way)
  /\ UNCHANGED <<pos, mshrs, stale>> /\ Rest

(* LRU::set: the manager writes a way mask; blocks stay where they are.      *)
SetMask(g, m) ==
  /\ Running
  /\ waymasks' = [waymasks EXCEPT ![g] = m]
  /\ UNCHANGED <<pos, line, mshrs, aborted>> /\ SameData

Next ==
  \/ \E b \in Block :
       \/ \E pass \in BOOLEAN : Read(b, pass)
       \/ Write(b) \/ Take(b) \/ Flush(b)
       \/ \E excl \in BOOLEAN : Writeback(b, excl)
       \/ \E keep, d, x, again \in BOOLEAN : Fill(b, keep, d, x, again)
       \/ \E inval \in BOOLEAN : Snoop(b, inval) \/ Complete(b, inval)
  \/ MemWriteback
  \/ \E g \in Guest, m \in MaskChoices : SetMask(g, m)

Spec == Init /\ [][Next]_vars

----------------------------------------------------------------------------
(* Types; pos is always a permutation, although moveToHead and moveToTail    *)
(* shift the array in place.                                                 *)
TypeOK ==
  /\ pos \in [Way -> Way]
  /\ \A v, w \in Way : pos[v] = pos[w] => v = w
  /\ line \in [Way -> Line]
  /\ waymasks \in [Guest -> SUBSET Nat]
  /\ mshrs \subseteq Block /\ stale \subseteq Block /\ strayed \subseteq Block
  /\ aborted \in BOOLEAN

(* No block is in two ways, although a miss and its fill are two events and  *)
(* a writeback may bring the block in between them.                          *)
Unique ==
  \A v, w \in Way : valid(v) /\ line[v].blk = line[w].blk => v = w

(* Invalid blocks "should be evicted before valid blocks" (LRU::invalidate): *)
(* they are behind all valid ones in the recency order, whosever they are.   *)
InvalidLast ==
  \A v, w \in Way : valid(v) /\ ~valid(w) => pos[v] < pos[w]

(* Allocating replaces a block only if the LDom's ways are full.             *)
EvictsOnlyWhenFull ==
  [][\A w \in Way :
       valid(w) /\ line'[w].blk \notin {None, line[w].blk} =>
         \A v \in waymasks[line'[w].blk[1]] \cap Way : valid(v)]_vars

(* A block comes into the set only in a way of its LDom's mask at that time. *)
FillsWithinMask ==
  [][\A w \in Way :
       line'[w].blk \notin {None, line[w].blk} =>
         w \in waymasks[line'[w].blk[1]]]_vars

(* While masks do not change, every block is in a way of its LDom's mask.    *)
Confined ==
  \A w \in Way : valid(w) => w \in waymasks[line[w].blk[1]]

(* Data newer than memory are in a dirty block, or were lost by a flush      *)
(* (StrayedNowhere): no replacement, snoop or fill loses them.               *)
DirtySafe ==
  \A b \in stale \ strayed : \E w \in Way : line[w].blk = b /\ line[w].dirty

(* The assertions of allocateBlock: a block with an outstanding miss is not  *)
(* writable, so the miss is an upgrade.                                      *)
UpgradesOnly ==
  \A w \in Way : line[w].blk \in mshrs => ~line[w].writable

(* A block whose upgrade is outstanding is not replaced, by whichever LDom:  *)
(* the upgrade will bring no data.                                           *)
UpgradeKeepsBlock ==
  [][\A w \in Way :
       valid(w) /\ line[w].blk \in mshrs =>
         line'[w].blk \in {line[w].blk, None}]_vars

----------------------------------------------------------------------------
(* What an LDom may rely on when masks are disjoint and do not change: its   *)
(* ways are a private LRU cache.                                             *)
Ways(g) == waymasks[g] \cap Way
Newer(g) == {p \in Ways(g) \X Ways(g) : pos[p[1]] < pos[p[2]]}
Held(g) == [w \in Ways(g) |-> line[w].blk]
Mine(g) == InitMask[g] \cap Way
Owned(g) == {b \in Block : b[1] = g}
Private(g) == INSTANCE PrivateLRU WITH
  W <- Mine(g), Own <- Owned(g), newer <- Newer(g), held <- Held(g)

(* Isolation: for every LDom the shared set implements the private cache.    *)
PrivateSpec ==
  /\ \A g \in Guest : Private(g)!Init
  /\ [][\A g \in Guest : Private(g)!Next \/ UNCHANGED Private(g)!vars]_vars

(* "Write back dirty blocks in the cache" (BaseCache::memWriteback): a flush *)
(* writes an LDom's data where the LDom will read them.                      *)
StrayedNowhere == strayed = {}
=============================================================================
