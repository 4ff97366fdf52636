-------------------------- MODULE CacheTagsProofs ---------------------------
(***************************************************************************)
(* Proofs about CacheTags for every number of LDoms, blocks and ways.      *)
(* Whatever handler runs, the set changes in one of four ways (Effect); an *)
(* action is shown to have one of these effects once, and the properties   *)
(* of the recency order and of the partition follow from the effects.      *)
(***************************************************************************)
EXTENDS CacheTags, WellFoundedInduction, TLAPS

\* p numbers the ways from 0 to Assoc-1, each number once.
Order(p) ==
  /\ p \in [Way -> Way]
  /\ \A v, w \in Way : p[v] = p[w] => v = w
  /\ \A i \in Way : \E w \in Way : p[w] = i

\* Every way keeps its block, if not its state.
Kept == \A v \in Way : line'[v].blk = line[v].blk

\* Block b, which was not in the set, replaced the victim.
Replaced(b, w) ==
  /\ w = findVictim(b[1]) /\ waymasks[b[1]] # {}
  /\ findBlk(b) = {} /\ ~blocked(w)
  /\ line'[w].blk = b
  /\ \A v \in Way \ {w} : line'[v].blk = line[v].blk

Effect ==
  \/ pos' = pos /\ Kept
  \/ \E w \in Way : valid(w) /\ pos' = moveToHead(w) /\ Kept
  \/ \E w \in Way : /\ pos' = moveToTail(w)
                    /\ line' = [line EXCEPT ![w] = Empty]
  \/ \E b \in Block, w \in Way : Replaced(b, w) /\ pos' = moveToHead(w)

\* The part of TypeOK that is not about the order.
Types ==
  /\ line \in [Way -> Line]
  /\ waymasks \in [Guest -> SUBSET Nat]
  /\ mshrs \subseteq Block /\ stale \subseteq Block /\ strayed \subseteq Block
  /\ aborted \in BOOLEAN

IInv == Types /\ Order(pos) /\ Unique /\ InvalidLast /\ UpgradesOnly /\ DirtySafe

\* What is shown of every action; the rest of IInv' follows from the effect.
Good == Effect /\ Types' /\ UpgradesOnly' /\ DirtySafe'

----------------------------------------------------------------------------
(* Ways are numbered from 0.                                                 *)
LEMMA AssocType ==
  /\ Assoc \in Int /\ Assoc >= 1
  /\ \A i : i \in Way <=> i \in Int /\ 0 =< i /\ i =< Assoc - 1
<1>1. Assoc \in Int /\ Assoc >= 1
  BY CacheTagsAssumption
<1> QED BY <1>1 DEF Way

(* Positions are numbers of ways.                                            *)
LEMMA PosRange ==
  ASSUME Order(pos)
  PROVE  \A v \in Way : pos[v] \in Int /\ 0 =< pos[v] /\ pos[v] =< Assoc - 1
<1>1. \A v \in Way : pos[v] \in Way
  BY DEF Order
<1> QED BY <1>1, AssocType

(* moveToHead keeps the order a numbering of the ways.                       *)
LEMMA HeadOrder ==
  ASSUME Order(pos), NEW w \in Way
  PROVE  Order(moveToHead(w))
<1> DEFINE q == moveToHead(w)
<1>2. \A v \in Way : pos[v] \in Int /\ 0 =< pos[v] /\ pos[v] =< Assoc - 1
  BY PosRange
<1>1. \A v \in Way : q[v] = IF v = w THEN 0 ELSE IF pos[v] < pos[w] THEN pos[v] + 1 ELSE pos[v]
  BY <1>2 DEF moveToHead
<1>3. q \in [Way -> Way]
  <2>1. \A v \in Way : q[v] \in Way
    BY <1>1, <1>2, AssocType
  <2> QED BY <2>1 DEF moveToHead
<1>4. \A u, v \in Way : q[u] = q[v] => u = v
  <2> SUFFICES ASSUME NEW u \in Way, NEW v \in Way, q[u] = q[v] PROVE u = v
    OBVIOUS
  <2>1. pos[u] = pos[v] => u = v
    BY DEF Order
  <2>2. (pos[u] = pos[w] => u = w) /\ (pos[v] = pos[w] => v = w)
    BY DEF Order
  <2> HIDE DEF q
  <2> QED BY <1>1, <1>2, <2>1, <2>2
<1>5. \A i \in Way : \E v \in Way : q[v] = i
  <2> SUFFICES ASSUME NEW i \in Way PROVE \E v \in Way : q[v] = i
    OBVIOUS
  <2>0. i \in Int /\ 0 =< i /\ i =< Assoc - 1
    BY AssocType
  <2> HIDE DEF q
  <2>1. CASE i = 0
    BY <2>1, <1>1
  <2>2. CASE i > pos[w]
    <3>1. PICK v \in Way : pos[v] = i
      BY DEF Order
    <3> QED BY <3>1, <2>2, <1>1, <1>2
  <2>3. CASE i # 0 /\ i =< pos[w]
    <3>1. i - 1 \in Way
      BY <2>0, <2>3, AssocType
    <3>2. PICK v \in Way : pos[v] = i - 1
      BY <3>1 DEF Order
    <3> QED BY <3>2, <2>0, <2>3, <1>1, <1>2
  <2> QED BY <2>0, <2>1, <2>2, <2>3, <1>2
<1> QED BY <1>3, <1>4, <1>5 DEF Order

(* moveToTail keeps the order a numbering of the ways.                       *)
LEMMA TailOrder ==
  ASSUME Order(pos), NEW w \in Way
  PROVE  Order(moveToTail(w))
<1> DEFINE q == moveToTail(w)
<1>2. \A v \in Way : pos[v] \in Int /\ 0 =< pos[v] /\ pos[v] =< Assoc - 1
  BY PosRange
<1>1. \A v \in Way : q[v] = IF v = w THEN Assoc - 1 ELSE IF pos[v] > pos[w] THEN pos[v] - 1 ELSE pos[v]
  BY <1>2 DEF moveToTail
<1>3. q \in [Way -> Way]
  <2>1. \A v \in Way : q[v] \in Way
    BY <1>1, <1>2, AssocType
  <2> QED BY <2>1 DEF moveToTail
<1>4. \A u, v \in Way : q[u] = q[v] => u = v
  <2> SUFFICES ASSUME NEW u \in Way, NEW v \in Way, q[u] = q[v] PROVE u = v
    OBVIOUS
  <2>1. pos[u] = pos[v] => u = v
    BY DEF Order
  <2>2. (pos[u] = pos[w] => u = w) /\ (pos[v] = pos[w] => v = w)
    BY DEF Order
  <2> HIDE DEF q
  <2> QED BY <1>1, <1>2, <2>1, <2>2, AssocType
<1>5. \A i \in Way : \E v \in Way : q[v] = i
  <2> SUFFICES ASSUME NEW i \in Way PROVE \E v \in Way : q[v] = i
    OBVIOUS
  <2>0. i \in Int /\ 0 =< i /\ i =< Assoc - 1
    BY AssocType
  <2> HIDE DEF q
  <2>1. CASE i = Assoc - 1
    BY <2>1, <1>1
  <2>2. CASE i < pos[w]
    <3>1. PICK v \in Way : pos[v] = i
      BY DEF Order
    <3> QED BY <3>1, <2>0, <2>2, <1>1, <1>2
  <2>3. CASE i # Assoc - 1 /\ i >= pos[w]
    <3>1. i + 1 \in Way
      BY <2>0, <2>3, AssocType
    <3>2. PICK v \in Way : pos[v] = i + 1
      BY <3>1 DEF Order
    <3> QED BY <3>2, <2>0, <2>3, <1>1, <1>2
  <2> QED BY <2>0, <2>1, <2>2, <2>3, <1>2
<1> QED BY <1>3, <1>4, <1>5 DEF Order

(* Of any ways, one was used longest ago.                                    *)
LEMMA OldestExists ==
  ASSUME Order(pos), NEW S \in SUBSET Way, S # {}
  PROVE  \E w \in S : \A v \in S : pos[v] =< pos[w]
<1> DEFINE age(w) == Assoc - 1 - pos[w]
           A == {age(w) : w \in S}
           R == OpToRel(<, Nat)
<1>1. \A w \in S : pos[w] \in Int /\ age(w) \in Nat
  BY PosRange, AssocType
<1>2. A \subseteq Nat /\ A # {}
  BY <1>1
<1>3. \E x \in A : \A y \in A : ~(<<y, x>> \in R)
  <2>1. IsWellFoundedOn(R, Nat)
    BY NatLessThanWellFounded
  <2> HIDE DEF R, A
  <2> QED BY <2>1, <1>2, WFMin
<1>4. PICK x \in A : \A y \in A : ~(<<y, x>> \in R)
  BY <1>3
<1>5. PICK w \in S : x = age(w)
  OBVIOUS
<1>6. ASSUME NEW v \in S PROVE pos[v] =< pos[w]
  <2>1. R = {ss \in Nat \X Nat : ss[1] < ss[2]}
    BY DEF OpToRel
  <2>2. age(v) \in A /\ ~(<<age(v), x>> \in R)
    BY <1>4
  <2>3. x \in Nat /\ age(v) \in Nat
    BY <1>1, <1>5
  <2> HIDE DEF A, R, age
  <2>4. <<age(v), x>> \in Nat \X Nat /\ <<age(v), x>>[1] = age(v) /\ <<age(v), x>>[2] = x
    BY <2>3
  <2>5. ~(age(v) < x)
    BY <2>1, <2>2, <2>4
  <2> QED BY <2>5, <1>1, <1>5, AssocType DEF age
<1> QED BY <1>6

(* findVictim returns a way, and if the mask has ways of this cache, the     *)
(* least recently used of them.                                              *)
LEMMA Victim ==
  ASSUME Order(pos), NEW g
  PROVE  /\ findVictim(g) \in Way
         /\ Way \cap waymasks[g] # {} =>
              /\ findVictim(g) \in waymasks[g]
              /\ \A v \in Way \cap waymasks[g] : pos[v] =< pos[findVictim(g)]
<1> DEFINE mine == Way \cap waymasks[g]
<1>1. CASE mine = {}
  <2>1. 0 \in Way
    BY AssocType
  <2>2. \E w \in Way : pos[w] = 0
    BY <2>1 DEF Order
  <2> QED BY <1>1, <2>2 DEF findVictim
<1>2. CASE mine # {}
  <2>1. \E w \in mine : \A v \in mine : pos[v] =< pos[w]
    BY <1>2, OldestExists
  <2> QED BY <1>2, <2>1 DEF findVictim
<1> QED BY <1>1, <1>2

----------------------------------------------------------------------------
(* What a way may hold.                                                      *)
LEMMA LineFacts ==
  /\ \A b \in Block : b # None
  /\ \A r \in Line : /\ r.blk \in Block \cup {None}
                     /\ r.dirty \in BOOLEAN /\ r.writable \in BOOLEAN
                     /\ r.dirty => r.blk \in Block
  /\ \A b \in Block, d, x \in BOOLEAN : [blk |-> b, dirty |-> d, writable |-> x] \in Line
  /\ Empty \in Line /\ Empty.blk = None /\ ~Empty.dirty /\ ~Empty.writable
<1>1. None \notin Block
  BY CacheTagsAssumption
<1>2. ASSUME NEW r \in Line
      PROVE  /\ r.blk \in Block \cup {None}
             /\ r.dirty \in BOOLEAN /\ r.writable \in BOOLEAN
             /\ r.dirty => r.blk \in Block
  <2>1. CASE r = Empty
    BY <2>1 DEF Empty
  <2>2. CASE r \in [blk : Block, dirty : BOOLEAN, writable : BOOLEAN]
    BY <2>2
  <2> QED BY <2>1, <2>2 DEF Line
<1>3. ASSUME NEW b \in Block, NEW d \in BOOLEAN, NEW x \in BOOLEAN
      PROVE  [blk |-> b, dirty |-> d, writable |-> x] \in Line
  BY DEF Line
<1>4. Empty \in Line /\ Empty.blk = None /\ ~Empty.dirty /\ ~Empty.writable
  BY DEF Line, Empty
<1> QED BY <1>1, <1>2, <1>3, <1>4

(* A line keeps its type when its flags change.                              *)
LEMMA LineExcept ==
  ASSUME NEW r \in Line, r.blk # None, NEW x \in BOOLEAN
  PROVE  /\ [r EXCEPT !.dirty = x] \in Line
         /\ [r EXCEPT !.dirty = x].blk = r.blk
         /\ [r EXCEPT !.dirty = x].dirty = x
         /\ [r EXCEPT !.dirty = x].writable = r.writable
         /\ [r EXCEPT !.writable = x] \in Line
         /\ [r EXCEPT !.writable = x].blk = r.blk
         /\ [r EXCEPT !.writable = x].dirty = r.dirty
         /\ [r EXCEPT !.writable = x].writable = x
<1>1. r \in [blk : Block, dirty : BOOLEAN, writable : BOOLEAN]
  BY DEF Line, Empty
<1> QED BY <1>1 DEF Line

(* A block that is found is valid.                                           *)
LEMMA Found ==
  ASSUME Types, NEW b \in Block, NEW w \in findBlk(b)
  PROVE  w \in Way /\ valid(w) /\ line[w] \in Line /\ line[w].blk = b
BY LineFacts DEF findBlk, valid, Types

----------------------------------------------------------------------------
(* A step that changes one way only keeps the permissions and the data of    *)
(* the set in order, if it does so for that way.                             *)
LEMMA OneWay ==
  ASSUME Types, UpgradesOnly, DirtySafe, NEW w \in Way, NEW new \in Line,
         line' = [line EXCEPT ![w] = new],
         new.blk \in mshrs' => ~new.writable,
         \A v \in Way \ {w} : line[v].blk \in mshrs' => line[v].blk \in mshrs,
         \A c \in stale' \ strayed' :
           \/ new.blk = c /\ new.dirty
           \/ c \in stale \ strayed /\ ~(line[w].blk = c /\ line[w].dirty)
  PROVE  line' \in [Way -> Line] /\ UpgradesOnly' /\ DirtySafe'
<1>1. line' \in [Way -> Line] /\ line'[w] = new /\ \A v \in Way \ {w} : line'[v] = line[v]
  BY DEF Types
<1>2. UpgradesOnly'
  BY <1>1 DEF UpgradesOnly
<1>3. DirtySafe'
  <2> SUFFICES ASSUME NEW c \in stale' \ strayed'
               PROVE  \E v \in Way : line'[v].blk = c /\ line'[v].dirty
    BY DEF DirtySafe
  <2>1. CASE new.blk = c /\ new.dirty
    BY <2>1, <1>1
  <2>2. CASE c \in stale \ strayed /\ ~(line[w].blk = c /\ line[w].dirty)
    <3>1. PICK v \in Way : line[v].blk = c /\ line[v].dirty
      BY <2>2 DEF DirtySafe
    <3> QED BY <3>1, <2>2, <1>1
  <2> QED BY <2>1, <2>2
<1> QED BY <1>1, <1>2, <1>3

(* Giving a way up has an effect of the third kind.                          *)
LEMMA GiveUpEffect ==
  ASSUME Types, UpgradesOnly, DirtySafe, NEW w \in Way, GiveUp(w), mshrs' \subseteq mshrs
  PROVE  /\ Effect /\ line' \in [Way -> Line] /\ UpgradesOnly' /\ DirtySafe'
         /\ stale' \subseteq Block /\ strayed' \subseteq Block
<1>1. line' = [line EXCEPT ![w] = Empty] /\ line[w] \in Line
  BY DEF GiveUp, Types
<1>2. stale' \subseteq Block /\ strayed' \subseteq Block
  BY DEF GiveUp, Handed, Types
<1>3. Effect
  BY DEF GiveUp, Effect
<1>4. \A c \in stale' \ strayed' : c \in stale \ strayed /\ ~(line[w].blk = c /\ line[w].dirty)
  BY DEF GiveUp, Handed
<1> QED BY <1>1, <1>2, <1>3, <1>4, OneWay, LineFacts

(* Inserting a block that is not there has one of the fourth.                *)
LEMMA InsertEffect ==
  ASSUME Types, UpgradesOnly, DirtySafe, Order(pos), NEW b \in Block, findBlk(b) = {},
         waymasks[b[1]] # {}, ~blocked(findVictim(b[1])),
         NEW d \in BOOLEAN, NEW x \in BOOLEAN, Insert(findVictim(b[1]), b, d, x),
         mshrs' \subseteq mshrs, b \in mshrs' => ~x
  PROVE  /\ Effect /\ line' \in [Way -> Line] /\ UpgradesOnly' /\ DirtySafe'
         /\ stale' \subseteq Block /\ strayed' \subseteq Block
<1> DEFINE w == findVictim(b[1])
           new == [blk |-> b, dirty |-> d, writable |-> x]
<1>1. w \in Way
  BY Victim
<1>2. new \in Line /\ new.blk = b /\ new.dirty = d /\ new.writable = x
  BY LineFacts
<1>3. line' = [line EXCEPT ![w] = new] /\ pos' = moveToHead(w)
  BY DEF Insert
<1>4. line[w] \in Line
  BY <1>1 DEF Types
<1>5. stale' \subseteq Block /\ strayed' \subseteq Block
  <2>2. IF line[w].dirty THEN line[w].blk \in Block ELSE TRUE
    BY <1>4, LineFacts
  <2> QED BY <2>2 DEF Insert, Types
<1>6. \A c \in stale' \ strayed' :
        \/ new.blk = c /\ new.dirty
        \/ c \in stale \ strayed /\ ~(line[w].blk = c /\ line[w].dirty)
  BY <1>2 DEF Insert
<1> HIDE DEF w, new
<1>7. line' \in [Way -> Line] /\ UpgradesOnly' /\ DirtySafe'
  BY <1>1, <1>2, <1>3, <1>6, OneWay
<1>8. line'[w].blk = b /\ \A v \in Way \ {w} : line'[v].blk = line[v].blk
  BY <1>1, <1>2, <1>3 DEF Types
<1>9. Replaced(b, w)
  BY <1>8 DEF Replaced, w
<1>10. Effect
  BY <1>1, <1>3, <1>9 DEF Effect
<1> QED BY <1>5, <1>7, <1>10

(* A step that changes the state of a block, and not which one it is, and    *)
(* perhaps moves it to the head, has one of the first two.                   *)
LEMMA TouchEffect ==
  ASSUME Types, UpgradesOnly, DirtySafe, NEW w \in Way, valid(w), NEW new \in Line,
         line' = [line EXCEPT ![w] = new], new.blk = line[w].blk,
         pos' = pos \/ pos' = moveToHead(w),
         new.blk \in mshrs' => ~new.writable,
         \A v \in Way \ {w} : line[v].blk \in mshrs' => line[v].blk \in mshrs,
         \A c \in stale' \ strayed' :
           \/ new.blk = c /\ new.dirty
           \/ c \in stale \ strayed /\ ~(line[w].blk = c /\ line[w].dirty)
  PROVE  Effect /\ line' \in [Way -> Line] /\ UpgradesOnly' /\ DirtySafe'
<1>1. Kept
  BY DEF Kept, Types
<1>2. Effect
  BY <1>1 DEF Effect
<1> QED BY <1>2, OneWay

(* One that changes no block.                                                *)
LEMMA SameEffect ==
  ASSUME IInv, line' = line, pos' = pos \/ \E w \in Way : valid(w) /\ pos' = moveToHead(w),
         stale' \ strayed' \subseteq stale \ strayed,
         \A w \in Way : line[w].blk \in mshrs' => ~line[w].writable
  PROVE  Effect /\ line' \in [Way -> Line] /\ UpgradesOnly' /\ DirtySafe'
<1>1. Kept
  BY DEF Kept
<1>2. Effect
  BY <1>1 DEF Effect
<1>3. UpgradesOnly' /\ DirtySafe'
  BY DEF IInv, UpgradesOnly, DirtySafe
<1> QED BY <1>2, <1>3 DEF IInv, Types

----------------------------------------------------------------------------
(* The actions, one by one.                                                  *)
LEMMA ReadGood ==
  ASSUME IInv, NEW b \in Block, NEW pass \in BOOLEAN, Read(b, pass)
  PROVE  Good
<1>1. CASE findBlk(b) = {}
  <2>1. line' = line /\ pos' = pos /\ stale' = stale /\ strayed' = strayed /\ mshrs' = mshrs \cup {b}
    BY <1>1 DEF Read, Same, SameData, Miss
  <2>2. \A w \in Way : line[w].blk \in mshrs' => ~line[w].writable
    BY <1>1, <2>1 DEF findBlk, IInv, UpgradesOnly
  <2>3. Effect /\ line' \in [Way -> Line] /\ UpgradesOnly' /\ DirtySafe'
    BY <2>1, <2>2, SameEffect
  <2> QED BY <2>1, <2>3 DEF Read, Rest, Good, IInv, Types
<1>2. CASE findBlk(b) # {}
  <2>1. PICK w \in findBlk(b) :
          /\ pos' = moveToHead(w) /\ UNCHANGED mshrs
          /\ line' = IF pass THEN [line EXCEPT ![w].dirty = FALSE] ELSE line
          /\ Handed(IF pass THEN {line[w].blk} ELSE {})
    BY <1>2 DEF Read
  <2>2. w \in Way /\ line[w].blk = b /\ valid(w) /\ line[w] \in Line /\ line[w].blk # None
    BY Found DEF IInv, valid
  <2>3. Effect /\ line' \in [Way -> Line] /\ UpgradesOnly' /\ DirtySafe'
    <3>1. CASE pass
      <4> DEFINE new == [line[w] EXCEPT !.dirty = FALSE]
      <4>1. line' = [line EXCEPT ![w] = new]
        BY <2>1, <3>1
      <4>2. new \in Line /\ new.blk = b /\ new.writable = line[w].writable
        BY <2>2, LineExcept
      <4>3. \A c \in stale' \ strayed' : c \in stale \ strayed /\ c # b
        BY <2>1, <2>2, <3>1 DEF Handed
      <4>4. new.blk \in mshrs' => ~new.writable
        BY <4>2, <2>1, <2>2 DEF IInv, UpgradesOnly
      <4> HIDE DEF new
      <4> QED BY <4>1, <4>2, <4>3, <4>4, <2>1, <2>2, TouchEffect, ZenonT(40) DEF IInv
    <3>2. CASE ~pass
      BY <3>2, <2>1, <2>2, SameEffect DEF Handed, IInv, UpgradesOnly
    <3> QED BY <3>1, <3>2
  <2> QED BY <2>1, <2>2, <2>3 DEF Read, Rest, Good, IInv, Types, Handed
<1> QED BY <1>1, <1>2

(* A write hit makes the block dirty; anything else records a miss.          *)
LEMMA WriteGood ==
  ASSUME IInv, NEW b \in Block, Write(b)
  PROVE  Good
<1>1. CASE findBlk(b) = {}
  <2>1. line' = line /\ pos' = pos /\ stale' = stale /\ strayed' = strayed /\ mshrs' = mshrs \cup {b}
    BY <1>1 DEF Write, Same, SameData, Miss
  <2>2. \A w \in Way : line[w].blk \in mshrs' => ~line[w].writable
    BY <1>1, <2>1 DEF findBlk, IInv, UpgradesOnly
  <2>3. Effect /\ line' \in [Way -> Line] /\ UpgradesOnly' /\ DirtySafe'
    BY <2>1, <2>2, SameEffect
  <2> QED BY <2>1, <2>3 DEF Write, Rest, Good, IInv, Types
<1>2. CASE findBlk(b) # {}
  <2>1. PICK w \in findBlk(b) :
          /\ pos' = moveToHead(w)
          /\ IF line[w].writable
             THEN /\ line' = [line EXCEPT ![w].dirty = TRUE]
                  /\ Changed(line[w].blk) /\ UNCHANGED mshrs
             ELSE UNCHANGED line /\ SameData /\ Miss(b)
    BY <1>2 DEF Write
  <2>2. w \in Way /\ line[w].blk = b /\ valid(w) /\ line[w] \in Line /\ line[w].blk # None
    BY Found DEF IInv, valid
  <2>3. CASE line[w].writable
    <3> DEFINE new == [line[w] EXCEPT !.dirty = TRUE]
    <3>1. line' = [line EXCEPT ![w] = new] /\ Changed(b) /\ mshrs' = mshrs
      BY <2>1, <2>2, <2>3
    <3>2. new \in Line /\ new.blk = b /\ new.dirty = TRUE /\ new.writable = line[w].writable
      BY <2>2, LineExcept
    <3>3. \A c \in stale' \ strayed' : c = b \/ (c \in stale \ strayed /\ c # b)
      BY <3>1 DEF Changed
    <3>5. new.blk \in mshrs' => ~new.writable
      BY <3>1, <3>2, <2>2 DEF IInv, UpgradesOnly
    <3> HIDE DEF new
    <3>6. \A c \in stale' \ strayed' :
            \/ new.blk = c /\ new.dirty
            \/ c \in stale \ strayed /\ ~(line[w].blk = c /\ line[w].dirty)
      BY <3>2, <3>3, <2>2
    <3>4. Effect /\ line' \in [Way -> Line] /\ UpgradesOnly' /\ DirtySafe'
      BY <3>1, <3>2, <3>5, <3>6, <2>1, <2>2, TouchEffect DEF IInv
    <3> QED BY <3>1, <3>4 DEF Write, Rest, Good, IInv, Types, Changed
  <2>4. CASE ~line[w].writable
    <3>1. line' = line /\ stale' = stale /\ strayed' = strayed /\ mshrs' = mshrs \cup {b}
      BY <2>1, <2>4 DEF SameData, Miss
    <3>2. \A v \in Way : line[v].blk \in mshrs' => ~line[v].writable
      BY <2>2, <2>4, <3>1 DEF IInv, UpgradesOnly, Unique, valid
    <3>3. Effect /\ line' \in [Way -> Line] /\ UpgradesOnly' /\ DirtySafe'
      BY <3>1, <3>2, <2>1, <2>2, SameEffect
    <3> QED BY <3>1, <3>3 DEF Write, Rest, Good, IInv, Types
  <2> QED BY <2>3, <2>4
<1> QED BY <1>1, <1>2

(* A cache above takes the block with its permission.                        *)
LEMMA TakeGood ==
  ASSUME IInv, NEW b \in Block, Take(b)
  PROVE  Good
<1>1. PICK w \in findBlk(b) : GiveUp(w) /\ UNCHANGED mshrs
  BY DEF Take
<1>2. w \in Way
  BY Found DEF IInv
<1> QED BY <1>1, <1>2, GiveUpEffect DEF Take, Rest, Good, IInv, Types

(* A writeback from above updates the block or brings it in.                 *)
LEMMA WritebackGood ==
  ASSUME IInv, NEW b \in Block, NEW excl \in BOOLEAN, Writeback(b, excl)
  PROVE  Good
<1>0. waymasks' = waymasks /\ mshrs' = mshrs /\ (excl => b \notin mshrs)
  BY DEF Writeback
<1>1. CASE findBlk(b) # {}
  <2>1. PICK w \in findBlk(b) :
          /\ line' = [line EXCEPT ![w].dirty = TRUE, ![w].writable = @ \/ excl]
          /\ pos' = moveToHead(w)
          /\ Changed(line[w].blk) /\ UNCHANGED aborted
    BY <1>1 DEF Writeback
  <2>2. w \in Way /\ line[w].blk = b /\ valid(w) /\ line[w] \in Line /\ line[w].blk # None
    BY Found DEF IInv, valid
  <2> DEFINE x == line[w].writable \/ excl
             new == [line[w] EXCEPT !.dirty = TRUE, !.writable = x]
  <2>3. x \in BOOLEAN
    BY <2>2, LineFacts
  <2>4. line' = [line EXCEPT ![w] = new]
    BY <2>1, <2>2 DEF IInv, Types
  <2>5. (new.blk \in mshrs' => ~x) /\ \A c \in stale' \ strayed' : c = b \/ (c \in stale \ strayed /\ c # b)
    BY <1>0, <2>1, <2>2 DEF Changed, IInv, UpgradesOnly
  <2> HIDE DEF x
  <2>6. new \in Line /\ new.blk = b /\ new.dirty /\ new.writable = x
    <3>1. new \in Line /\ new.blk = line[w].blk /\ new.dirty /\ new.writable = x
      <4>1. line[w] \in [blk : Block, dirty : BOOLEAN, writable : BOOLEAN]
        BY <2>2 DEF Line, Empty
      <4>2. new \in [blk : Block, dirty : BOOLEAN, writable : BOOLEAN]
        BY <4>1, <2>3
      <4>3. new.blk = line[w].blk /\ new.dirty /\ new.writable = x
        BY <4>1
      <4> QED BY <4>2, <4>3 DEF Line
    <3> QED BY <3>1, <2>2
  <2> HIDE DEF new
  <2>7. Effect /\ line' \in [Way -> Line] /\ UpgradesOnly' /\ DirtySafe'
    BY <1>0, <2>1, <2>2, <2>4, <2>5, <2>6, TouchEffect DEF IInv
  <2> QED BY <1>0, <2>1, <2>2, <2>7 DEF Good, IInv, Types, Changed
<1>2. CASE findBlk(b) = {}
  <2> DEFINE w == findVictim(b[1])
  <2>1. CASE Same
    <3>1. Effect /\ line' \in [Way -> Line] /\ UpgradesOnly' /\ DirtySafe'
      BY <1>0, <2>1, SameEffect DEF Same, SameData, IInv, UpgradesOnly
    <3>2. aborted' \in BOOLEAN
      BY <1>2 DEF Writeback, IInv, Types
    <3> QED BY <1>0, <2>1, <3>1, <3>2 DEF Same, SameData, Good, IInv, Types
  <2>2. CASE waymasks[b[1]] # {} /\ ~blocked(w) /\ Insert(w, b, TRUE, excl) /\ UNCHANGED aborted
    <3>1. /\ Effect /\ line' \in [Way -> Line] /\ UpgradesOnly' /\ DirtySafe'
          /\ stale' \subseteq Block /\ strayed' \subseteq Block
      BY <1>0, <1>2, <2>2, InsertEffect DEF IInv
    <3> QED BY <1>0, <2>2, <3>1 DEF Good, IInv, Types
  <2> QED BY <1>2, <2>1, <2>2 DEF Writeback
<1> QED BY <1>1, <1>2

(* A response that brings the block in, or completes its upgrade.            *)
LEMMA FillGood ==
  ASSUME IInv, NEW b \in Block, NEW keep \in BOOLEAN, NEW d \in BOOLEAN, NEW x \in BOOLEAN,
         NEW again \in BOOLEAN, Fill(b, keep, d, x, again)
  PROVE  Good
<1>0. /\ waymasks' = waymasks /\ mshrs' \subseteq mshrs /\ mshrs' \subseteq Block
      /\ keep /\ b \in mshrs' => ~x
  BY DEF Fill, IInv, Types
<1>1. CASE findBlk(b) # {}
  <2>1. PICK w \in findBlk(b) : FillOld(w, b, keep, d, x)
    BY <1>1 DEF Fill
  <2>2. w \in Way /\ line[w].blk = b /\ valid(w) /\ line[w] \in Line
    BY Found DEF IInv
  <2>3. CASE ~keep
    BY <1>0, <2>1, <2>2, <2>3, GiveUpEffect DEF FillOld, Good, IInv, Types
  <2>4. CASE keep
    <3> DEFINE e == d \/ line[w].dirty
               new == [blk |-> b, dirty |-> e, writable |-> x]
    <3>1. /\ line' = [line EXCEPT ![w] = new] /\ pos' = pos /\ aborted' = aborted
          /\ IF d THEN Changed(b) ELSE SameData
      BY <2>1, <2>2, <2>4 DEF FillOld
    <3>2. e \in BOOLEAN
      BY <2>2, LineFacts
    <3>3. \A c \in stale' \ strayed' :
            \/ c = b /\ e
            \/ c \in stale \ strayed /\ ~(line[w].blk = c /\ line[w].dirty)
      BY <3>1, <2>2 DEF Changed, SameData
    <3> HIDE DEF e
    <3>4. new \in Line /\ new.blk = b /\ new.dirty = e /\ new.writable = x
      BY <3>2, LineFacts
    <3> HIDE DEF new
    <3>5. Effect /\ line' \in [Way -> Line] /\ UpgradesOnly' /\ DirtySafe'
      BY <1>0, <2>2, <2>4, <3>1, <3>3, <3>4, TouchEffect DEF IInv
    <3>6. stale' \subseteq Block /\ strayed' \subseteq Block
      BY <3>1 DEF Changed, SameData, IInv, Types
    <3> QED BY <1>0, <3>1, <3>5, <3>6 DEF Good, IInv, Types
  <2> QED BY <2>3, <2>4
<1>2. CASE findBlk(b) = {}
  <2> DEFINE w == findVictim(b[1])
  <2>0. FillNew(b, keep, d, x)
    BY <1>2 DEF Fill
  <2>1. CASE Same
    <3>1. Effect /\ line' \in [Way -> Line] /\ UpgradesOnly' /\ DirtySafe'
      BY <1>0, <2>1, SameEffect DEF Same, SameData, IInv, UpgradesOnly
    <3>2. aborted' \in BOOLEAN
      BY <2>0 DEF FillNew, IInv, Types
    <3> QED BY <1>0, <2>1, <3>1, <3>2 DEF Same, SameData, Good, IInv, Types
  <2>2. CASE waymasks[b[1]] # {} /\ ~blocked(w) /\ keep /\ Insert(w, b, d, x) /\ UNCHANGED aborted
    <3>1. /\ Effect /\ line' \in [Way -> Line] /\ UpgradesOnly' /\ DirtySafe'
          /\ stale' \subseteq Block /\ strayed' \subseteq Block
      BY <1>0, <1>2, <2>2, InsertEffect DEF IInv
    <3> QED BY <1>0, <2>2, <3>1 DEF Good, IInv, Types
  <2>3. CASE GiveUp(w) /\ UNCHANGED aborted
    <3>1. w \in Way
      BY Victim DEF IInv
    <3> HIDE DEF w
    <3> QED BY <1>0, <2>3, <3>1, GiveUpEffect DEF Good, IInv, Types
  <2> QED BY <2>0, <2>1, <2>2, <2>3 DEF FillNew
<1> QED BY <1>1, <1>2

(* A response that brings no block.                                          *)
LEMMA CompleteGood ==
  ASSUME IInv, NEW b \in Block, NEW inval \in BOOLEAN, Complete(b, inval)
  PROVE  Good
<1>0. mshrs' \subseteq mshrs /\ waymasks' = waymasks /\ aborted' = aborted
  BY DEF Complete, Rest
<1>1. CASE Same
  <2>1. Effect /\ line' \in [Way -> Line] /\ UpgradesOnly' /\ DirtySafe'
    BY <1>0, <1>1, SameEffect DEF Same, SameData, IInv, UpgradesOnly
  <2> QED BY <1>0, <1>1, <2>1 DEF Same, SameData, Good, IInv, Types
<1>2. CASE \E w \in findBlk(b) : GiveUp(w)
  <2>1. PICK w \in findBlk(b) : GiveUp(w)
    BY <1>2
  <2>2. w \in Way
    BY Found DEF IInv
  <2> QED BY <1>0, <2>1, <2>2, GiveUpEffect DEF Good, IInv, Types
<1> QED BY <1>1, <1>2 DEF Complete

(* Another cache reads the block or takes it.                                *)
LEMMA SnoopGood ==
  ASSUME IInv, NEW b \in Block, NEW inval \in BOOLEAN, Snoop(b, inval)
  PROVE  Good
<1>0. mshrs' = mshrs /\ waymasks' = waymasks /\ aborted' = aborted
  BY DEF Snoop, Rest
<1>1. PICK w \in findBlk(b) :
        IF inval THEN GiveUp(w)
        ELSE /\ line' = [line EXCEPT ![w].writable = FALSE]
             /\ UNCHANGED pos /\ SameData
  BY DEF Snoop
<1>2. w \in Way /\ line[w].blk = b /\ valid(w) /\ line[w] \in Line /\ line[w].blk # None
  BY Found DEF IInv, valid
<1>3. CASE inval
  BY <1>0, <1>1, <1>2, <1>3, GiveUpEffect DEF Good, IInv, Types
<1>4. CASE ~inval
  <2> DEFINE new == [line[w] EXCEPT !.writable = FALSE]
  <2>1. line' = [line EXCEPT ![w] = new] /\ pos' = pos /\ stale' = stale /\ strayed' = strayed
    BY <1>1, <1>4 DEF SameData
  <2>2. /\ new \in Line /\ new.blk = line[w].blk
        /\ new.dirty = line[w].dirty /\ new.writable = FALSE
    BY <1>2, LineExcept
  <2> HIDE DEF new
  <2>3. \A c \in stale' \ strayed' :
          \/ new.blk = c /\ new.dirty
          \/ c \in stale \ strayed /\ ~(line[w].blk = c /\ line[w].dirty)
    BY <2>1, <2>2
  <2>4. Effect /\ line' \in [Way -> Line] /\ UpgradesOnly' /\ DirtySafe'
    BY <1>0, <1>2, <2>1, <2>2, <2>3, TouchEffect DEF IInv
  <2> QED BY <1>0, <2>1, <2>4 DEF Good, IInv, Types
<1> QED BY <1>3, <1>4

(* A flush sends the data away, and so the block is not needed for them.     *)
LEMMA FlushGood ==
  ASSUME IInv, NEW b \in Block, Flush(b)
  PROVE  Good
<1>0. mshrs' = mshrs /\ waymasks' = waymasks /\ aborted' = aborted /\ stale' = stale
  BY DEF Flush, Rest
<1>1. PICK w \in findBlk(b) : /\ line' = [line EXCEPT ![w] = Empty]
                              /\ pos' = moveToTail(w)
                              /\ strayed' = strayed \cup Stray({w})
  BY DEF Flush
<1>2. w \in Way /\ line[w].blk = b
  BY Found DEF IInv
<1>3. Stray({w}) = IF line[w].dirty THEN {b} ELSE {}
  BY <1>2 DEF Stray
<1>4. \A c \in stale' \ strayed' : c \in stale \ strayed /\ ~(line[w].blk = c /\ line[w].dirty)
  BY <1>0, <1>1, <1>2, <1>3
<1>5. Effect
  BY <1>1, <1>2 DEF Effect
<1>6. line' \in [Way -> Line] /\ UpgradesOnly' /\ DirtySafe'
  BY <1>0, <1>1, <1>2, <1>4, OneWay, LineFacts, ZenonT(40) DEF IInv
<1> QED BY <1>0, <1>1, <1>3, <1>5, <1>6 DEF Good, IInv, Types

(* So for the whole set, whose blocks stay.                                  *)
LEMMA MemWritebackGood ==
  ASSUME IInv, MemWriteback
  PROVE  Good
<1>0. /\ pos' = pos /\ mshrs' = mshrs /\ stale' = stale /\ waymasks' = waymasks
      /\ aborted' = aborted /\ strayed' = strayed \cup Stray(Way)
  BY DEF MemWriteback, Rest
<1>1. ASSUME NEW w \in Way
      PROVE  line'[w] \in Line /\ line'[w].blk = line[w].blk /\ line'[w].writable = line[w].writable
  <2>1. line[w] \in Line
    BY DEF IInv, Types
  <2>2. line'[w] = IF line[w].dirty THEN [line[w] EXCEPT !.dirty = FALSE] ELSE line[w]
    BY DEF MemWriteback
  <2>3. line[w].dirty => line[w].blk # None
    BY <2>1, LineFacts
  <2>4. CASE line[w].dirty
    <3>1. line'[w] = [line[w] EXCEPT !.dirty = FALSE] /\ line[w].blk # None
      BY <2>2, <2>3, <2>4
    <3> DEFINE new == [line[w] EXCEPT !.dirty = FALSE]
    <3>2. new \in Line /\ new.blk = line[w].blk /\ new.writable = line[w].writable
      BY <2>1, <3>1, LineExcept
    <3> QED BY <3>1, <3>2
  <2>5. CASE ~line[w].dirty
    BY <2>1, <2>2, <2>5
  <2> QED BY <2>4, <2>5
<1>2. line' \in [Way -> Line]
  <2>1. line' = [w \in Way |-> IF line[w].dirty THEN [line[w] EXCEPT !.dirty = FALSE] ELSE line[w]]
    BY DEF MemWriteback
  <2>2. DOMAIN line' = Way /\ line' = [w \in Way |-> line'[w]]
    BY <2>1
  <2> QED BY <1>1, <2>2
<1>3. Effect
  BY <1>0, <1>1 DEF Effect, Kept
<1>4. UpgradesOnly'
  BY <1>0, <1>1 DEF IInv, UpgradesOnly
<1>5. stale \ strayed \subseteq Stray(Way)
  BY DEF IInv, DirtySafe, Stray
<1>6. DirtySafe'
  BY <1>0, <1>5 DEF DirtySafe
<1>7. Stray(Way) \subseteq Block
  BY LineFacts DEF Stray, IInv, Types
<1> QED BY <1>0, <1>2, <1>3, <1>4, <1>6, <1>7 DEF Good, IInv, Types

(* Changing a mask changes nothing else.                                     *)
LEMMA SetMaskGood ==
  ASSUME IInv, NEW g \in Guest, NEW m \in MaskChoices, SetMask(g, m)
  PROVE  Good
<1>1. waymasks' \in [Guest -> SUBSET Nat]
  BY CacheTagsAssumption DEF SetMask, IInv, Types
<1>2. /\ line' = line /\ pos' = pos /\ mshrs' = mshrs /\ aborted' = aborted
      /\ stale' = stale /\ strayed' = strayed
  BY DEF SetMask, SameData
<1>3. Effect /\ line' \in [Way -> Line] /\ UpgradesOnly' /\ DirtySafe'
  BY <1>2, SameEffect DEF IInv, UpgradesOnly
<1> QED BY <1>1, <1>2, <1>3 DEF Good, IInv, Types

----------------------------------------------------------------------------
(* moveToHead puts a way before all others, which keep their order.          *)
LEMMA HeadRelative ==
  ASSUME Order(pos), NEW w \in Way
  PROVE  /\ \A v \in Way \ {w} : moveToHead(w)[w] < moveToHead(w)[v]
         /\ \A u, v \in Way \ {w} : moveToHead(w)[u] < moveToHead(w)[v] <=> pos[u] < pos[v]
<1> DEFINE q == moveToHead(w)
<1>1. \A v \in Way : pos[v] \in Int /\ 0 =< pos[v]
  BY PosRange
<1>2. \A v \in Way : q[v] = IF v = w THEN 0 ELSE IF pos[v] < pos[w] THEN pos[v] + 1 ELSE pos[v]
  BY <1>1 DEF moveToHead
<1>3. \A v \in Way \ {w} : pos[v] # pos[w]
  BY DEF Order
<1> HIDE DEF q
<1>4. \A v \in Way \ {w} : q[w] < q[v]
  BY <1>1, <1>2, <1>3
<1>5. ASSUME NEW u \in Way \ {w}, NEW v \in Way \ {w} PROVE q[u] < q[v] <=> pos[u] < pos[v]
  <2>1. pos[u] \in Int /\ pos[v] \in Int /\ pos[w] \in Int /\ pos[u] # pos[w] /\ pos[v] # pos[w]
    BY <1>1, <1>3
  <2>2. /\ q[u] = IF pos[u] < pos[w] THEN pos[u] + 1 ELSE pos[u]
        /\ q[v] = IF pos[v] < pos[w] THEN pos[v] + 1 ELSE pos[v]
    BY <1>2
  <2> QED BY <2>1, <2>2
<1> QED BY <1>4, <1>5 DEF q

(* moveToTail puts it behind them.                                           *)
LEMMA TailRelative ==
  ASSUME Order(pos), NEW w \in Way
  PROVE  /\ \A v \in Way \ {w} : moveToTail(w)[v] < moveToTail(w)[w]
         /\ \A u, v \in Way \ {w} : moveToTail(w)[u] < moveToTail(w)[v] <=> pos[u] < pos[v]
<1> DEFINE q == moveToTail(w)
<1>1. \A v \in Way : pos[v] \in Int /\ pos[v] =< Assoc - 1
  BY PosRange
<1>2. \A v \in Way : q[v] = IF v = w THEN Assoc - 1 ELSE IF pos[v] > pos[w] THEN pos[v] - 1 ELSE pos[v]
  BY <1>1 DEF moveToTail
<1>3. \A v \in Way \ {w} : pos[v] # pos[w]
  BY DEF Order
<1> HIDE DEF q
<1>4. \A v \in Way \ {w} : q[v] < q[w]
  BY <1>1, <1>2, <1>3, AssocType
<1>5. ASSUME NEW u \in Way \ {w}, NEW v \in Way \ {w} PROVE q[u] < q[v] <=> pos[u] < pos[v]
  <2>1. pos[u] \in Int /\ pos[v] \in Int /\ pos[w] \in Int /\ pos[u] # pos[w] /\ pos[v] # pos[w]
    BY <1>1, <1>3
  <2>2. /\ q[u] = IF pos[u] > pos[w] THEN pos[u] - 1 ELSE pos[u]
        /\ q[v] = IF pos[v] > pos[w] THEN pos[v] - 1 ELSE pos[v]
    BY <1>2
  <2> QED BY <2>1, <2>2
<1> QED BY <1>4, <1>5 DEF q

(* The rest of the invariant follows from the effect.                        *)
LEMMA EffectKeeps ==
  ASSUME IInv, Effect
  PROVE  Order(pos') /\ Unique' /\ InvalidLast'
<1>0. Order(pos) /\ Unique /\ InvalidLast /\ line \in [Way -> Line]
  BY DEF IInv, Types
<1>1. CASE pos' = pos /\ Kept
  BY <1>0, <1>1 DEF Kept, Unique, InvalidLast, valid
<1>2. ASSUME NEW w \in Way, valid(w), pos' = moveToHead(w), Kept
      PROVE  Order(pos') /\ Unique' /\ InvalidLast'
  <2>1. Unique'
    BY <1>0, <1>2 DEF Kept, Unique, valid
  <2>2. InvalidLast'
    BY <1>0, <1>2, HeadRelative DEF Kept, InvalidLast, valid
  <2> QED BY <1>0, <1>2, <2>1, <2>2, HeadOrder
<1>3. ASSUME NEW w \in Way, pos' = moveToTail(w), line' = [line EXCEPT ![w] = Empty]
      PROVE  Order(pos') /\ Unique' /\ InvalidLast'
  <2>1. line'[w].blk = None /\ \A v \in Way \ {w} : line'[v].blk = line[v].blk
    BY <1>0, <1>3, LineFacts
  <2>2. Unique'
    BY <1>0, <2>1 DEF Unique, valid
  <2>3. InvalidLast'
    BY <1>0, <1>3, <2>1, TailRelative DEF InvalidLast, valid
  <2> QED BY <1>0, <1>3, <2>2, <2>3, TailOrder
<1>4. ASSUME NEW b \in Block, NEW w \in Way, Replaced(b, w), pos' = moveToHead(w)
      PROVE  Order(pos') /\ Unique' /\ InvalidLast'
  <2>1. /\ line'[w].blk = b /\ b # None /\ \A v \in Way : line[v].blk # b
        /\ \A v \in Way \ {w} : line'[v].blk = line[v].blk
    BY <1>4, LineFacts DEF Replaced, findBlk
  <2>2. Unique'
    BY <1>0, <2>1 DEF Unique, valid
  <2>3. InvalidLast'
    BY <1>0, <1>4, <2>1, HeadRelative DEF InvalidLast, valid
  <2> QED BY <1>0, <1>4, <2>2, <2>3, HeadOrder
<1> QED BY <1>1, <1>2, <1>3, <1>4 DEF Effect

(* Every step has one of the four effects and keeps the invariant.           *)
LEMMA NextGood ==
  ASSUME IInv, [Next]_vars
  PROVE  Effect /\ IInv'
<1>1. Good
  <2>1. CASE UNCHANGED vars
    <3>1. /\ line' = line /\ pos' = pos /\ mshrs' = mshrs /\ aborted' = aborted
          /\ stale' = stale /\ strayed' = strayed /\ waymasks' = waymasks
      BY <2>1 DEF vars
    <3>2. Effect /\ line' \in [Way -> Line] /\ UpgradesOnly' /\ DirtySafe'
      BY <3>1, SameEffect DEF IInv, UpgradesOnly
    <3> QED BY <3>1, <3>2 DEF Good, IInv, Types
  <2>2. CASE MemWriteback
    BY <2>2, MemWritebackGood
  <2>3. CASE \E g \in Guest, m \in MaskChoices : SetMask(g, m)
    BY <2>3, SetMaskGood
  <2>4. ASSUME NEW b \in Block,
               \/ \E pass \in BOOLEAN : Read(b, pass)
               \/ Write(b) \/ Take(b) \/ Flush(b)
               \/ \E excl \in BOOLEAN : Writeback(b, excl)
               \/ \E keep, d, x, again \in BOOLEAN : Fill(b, keep, d, x, again)
               \/ \E inval \in BOOLEAN : Snoop(b, inval) \/ Complete(b, inval)
        PROVE  Good
    BY <2>4, ReadGood, WriteGood, TakeGood, FlushGood, WritebackGood, FillGood,
       SnoopGood, CompleteGood
  <2> QED BY <2>1, <2>2, <2>3, <2>4 DEF Next
<1>2. Order(pos') /\ Unique' /\ InvalidLast'
  BY <1>1, EffectKeeps DEF Good
<1>3. Order(pos)'
  BY <1>2 DEF Order
<1> QED BY <1>1, <1>2, <1>3 DEF Good, IInv

----------------------------------------------------------------------------
(* The inductive invariant holds at the start: all ways are empty.           *)
LEMMA InitGood ==
  ASSUME Init
  PROVE  IInv
<1>1. Order(pos)
  BY DEF Init, Order
<1>2. \A w \in Way : line[w] = Empty /\ line[w].blk = None
  BY LineFacts DEF Init
<1>3. Types
  <2>1. line \in [Way -> Line]
    BY LineFacts DEF Init
  <2> QED BY <2>1, CacheTagsAssumption DEF Init, Types
<1>4. Unique /\ InvalidLast /\ UpgradesOnly /\ DirtySafe
  BY <1>2 DEF Init, Unique, InvalidLast, UpgradesOnly, DirtySafe, valid
<1> QED BY <1>1, <1>3, <1>4 DEF IInv

(* IInv holds in every reachable state, whatever the masks are and however   *)
(* the manager changes them.                                                 *)
THEOREM Invariance == Spec => []IInv
<1>1. Init => IInv
  BY InitGood
<1>2. IInv /\ [Next]_vars => IInv'
  BY NextGood
<1> QED BY <1>1, <1>2, PTL DEF Spec

(* The variables keep their types, and the recency order stays a permutation *)
(* of the ways under moveToHead and moveToTail.                              *)
THEOREM TypeCorrect == Spec => []TypeOK
<1>1. IInv => TypeOK
  BY DEF IInv, Types, Order, TypeOK
<1> QED BY <1>1, Invariance, PTL

(* No block is ever in two ways.                                             *)
THEOREM UniqueBlocks == Spec => []Unique
<1>1. IInv => Unique
  BY DEF IInv
<1> QED BY <1>1, Invariance, PTL

(* Invalid blocks are always behind the valid ones.                          *)
THEOREM InvalidBlocksLast == Spec => []InvalidLast
<1>1. IInv => InvalidLast
  BY DEF IInv
<1> QED BY <1>1, Invariance, PTL

(* A block with an outstanding miss is never writable: the assertion of      *)
(* allocateBlock holds.                                                      *)
THEOREM OnlyUpgrades == Spec => []UpgradesOnly
<1>1. IInv => UpgradesOnly
  BY DEF IInv
<1> QED BY <1>1, Invariance, PTL

(* Only a flush can lose the newest data of a block.                         *)
THEOREM DirtyDataSafe == Spec => []DirtySafe
<1>1. IInv => DirtySafe
  BY DEF IInv
<1> QED BY <1>1, Invariance, PTL

(* The block of an outstanding upgrade is not replaced, by whichever LDom.   *)
THEOREM UpgradeBlockKept == Spec => UpgradeKeepsBlock
<1>1. ASSUME IInv, [Next]_vars
      PROVE  [\A w \in Way : valid(w) /\ line[w].blk \in mshrs =>
                line'[w].blk \in {line[w].blk, None}]_vars
  <2>1. Effect
    BY <1>1, NextGood
  <2> SUFFICES ASSUME NEW w \in Way, valid(w), line[w].blk \in mshrs
               PROVE  line'[w].blk \in {line[w].blk, None}
    OBVIOUS
  <2>2. CASE Kept
    BY <2>2 DEF Kept
  <2>3. ASSUME NEW v \in Way, line' = [line EXCEPT ![v] = Empty]
        PROVE  line'[w].blk \in {line[w].blk, None}
    BY <1>1, <2>3, LineFacts DEF IInv, Types
  <2>4. ASSUME NEW b \in Block, NEW v \in Way, Replaced(b, v)
        PROVE  line'[w].blk \in {line[w].blk, None}
    BY <2>4 DEF Replaced, blocked
  <2> QED BY <2>1, <2>2, <2>3, <2>4 DEF Effect
<1> QED BY <1>1, Invariance, PTL DEF Spec, UpgradeKeepsBlock

----------------------------------------------------------------------------
(* The masks have a way of this cache, or none at all, which stops the       *)
(* simulation at assert(waymask).                                            *)
Fits(m) == m = {} \/ m \cap Way # {}
MasksFit == \A g \in Guest : Fits(waymasks[g])

(* If all masks that are written fit, all masks in use do.                   *)
LEMMA MasksFitAlways ==
  ASSUME \A g \in Guest : Fits(InitMask[g]), \A m \in MaskChoices : Fits(m)
  PROVE  Spec => []MasksFit
<1>1. Init => MasksFit
  BY DEF Init, MasksFit
<1>2. ASSUME IInv, MasksFit, [Next]_vars PROVE MasksFit'
  <2>1. CASE UNCHANGED waymasks
    BY <1>2, <2>1 DEF MasksFit
  <2>2. ASSUME NEW g \in Guest, NEW m \in MaskChoices, SetMask(g, m) PROVE MasksFit'
    BY <1>2, <2>2 DEF MasksFit, SetMask, IInv, Types
  <2>3. UNCHANGED waymasks \/ \E g \in Guest, m \in MaskChoices : SetMask(g, m)
    BY <1>2, ZenonT(40) DEF Next, vars, Read, Write, Take, Flush, Writeback, Fill, Snoop, Complete,
                MemWriteback, Rest
  <2> QED BY <2>1, <2>2, <2>3
<1> QED BY <1>1, <1>2, Invariance, PTL DEF Spec

(* A block is brought in only to a way of its LDom's mask, if masks fit.  By *)
(* the run tags_mask_beyond the assumption cannot be dropped.                *)
THEOREM FillsInMask ==
  ASSUME \A g \in Guest : Fits(InitMask[g]), \A m \in MaskChoices : Fits(m)
  PROVE  Spec => FillsWithinMask
<1>1. ASSUME IInv, MasksFit, [Next]_vars
      PROVE  [\A w \in Way : line'[w].blk \notin {None, line[w].blk} =>
                w \in waymasks[line'[w].blk[1]]]_vars
  <2>1. Effect
    BY <1>1, NextGood
  <2> SUFFICES ASSUME NEW w \in Way, line'[w].blk \notin {None, line[w].blk}
               PROVE  w \in waymasks[line'[w].blk[1]]
    OBVIOUS
  <2>2. ~Kept
    BY DEF Kept
  <2>3. ASSUME NEW v \in Way, line' = [line EXCEPT ![v] = Empty] PROVE FALSE
    BY <1>1, <2>3, LineFacts DEF IInv, Types
  <2>4. PICK b \in Block, v \in Way : Replaced(b, v)
    BY <2>1, <2>2, <2>3 DEF Effect
  <2>5. b[1] \in Guest
    BY CacheTagsAssumption
  <2>6. Way \cap waymasks[b[1]] # {}
    BY <1>1, <2>4, <2>5 DEF MasksFit, Fits, Replaced
  <2>7. v \in waymasks[b[1]]
    BY <1>1, <2>4, <2>6, Victim DEF IInv, Replaced
  <2> QED BY <2>4, <2>7 DEF Replaced
<1> QED BY <1>1, Invariance, MasksFitAlways, PTL DEF Spec, FillsWithinMask

(* A block is replaced only when all ways of the mask are in use: invalid    *)
(* blocks are behind the others (InvalidLast), so the search finds them.     *)
THEOREM EvictsWhenFull == Spec => EvictsOnlyWhenFull
<1>1. ASSUME IInv, [Next]_vars
      PROVE  [\A w \in Way : valid(w) /\ line'[w].blk \notin {None, line[w].blk} =>
                \A v \in waymasks[line'[w].blk[1]] \cap Way : valid(v)]_vars
  <2>1. Effect
    BY <1>1, NextGood
  <2> SUFFICES ASSUME NEW w \in Way, valid(w), line'[w].blk \notin {None, line[w].blk},
                      NEW u \in waymasks[line'[w].blk[1]] \cap Way, ~valid(u)
               PROVE  FALSE
    OBVIOUS
  <2>2. ~Kept
    BY DEF Kept
  <2>3. ASSUME NEW v \in Way, line' = [line EXCEPT ![v] = Empty] PROVE FALSE
    BY <1>1, <2>3, LineFacts DEF IInv, Types
  <2>4. PICK b \in Block, v \in Way : Replaced(b, v)
    BY <2>1, <2>2, <2>3 DEF Effect
  <2>5. w = v /\ line'[w].blk = b
    BY <2>4 DEF Replaced
  <2>6. pos[u] =< pos[w]
    BY <1>1, <2>4, <2>5, Victim DEF IInv, Replaced
  <2>7. pos[w] < pos[u]
    BY <1>1 DEF IInv, InvalidLast
  <2>8. pos[u] \in Int /\ pos[w] \in Int
    BY <1>1, PosRange DEF IInv
  <2> QED BY <2>6, <2>7, <2>8
<1> QED BY <1>1, Invariance, PTL DEF Spec, EvictsOnlyWhenFull

----------------------------------------------------------------------------
(* The masks do not change.                                                  *)
Static == waymasks = InitMask

(* If the manager writes no masks, blocks stay in the ways of their LDom.    *)
LEMMA ConfinedStep ==
  ASSUME MaskChoices = {}, \A g \in Guest : Fits(InitMask[g]),
         IInv, Static, Confined, [Next]_vars
  PROVE  Static' /\ Confined'
<1>1. waymasks' = waymasks
  BY ZenonT(40) DEF Next, vars, Read, Write, Take, Flush, Writeback, Fill, Snoop, Complete,
         MemWriteback, Rest
<1>2. Effect
  BY NextGood
<1>3. ASSUME Kept PROVE Confined'
  BY <1>1, <1>3 DEF Confined, Kept, valid
<1>4. ASSUME NEW w \in Way, line' = [line EXCEPT ![w] = Empty] PROVE Confined'
  <2>1. line'[w].blk = None /\ \A v \in Way \ {w} : line'[v] = line[v]
    BY <1>4, LineFacts DEF IInv, Types
  <2> QED BY <1>1, <2>1 DEF Confined, valid
<1>5. ASSUME NEW b \in Block, NEW w \in Way, Replaced(b, w) PROVE Confined'
  <2>1. b[1] \in Guest
    BY CacheTagsAssumption
  <2>2. Way \cap waymasks[b[1]] # {}
    BY <1>5, <2>1 DEF Static, Fits, Replaced
  <2>3. w \in waymasks[b[1]]
    BY <1>5, <2>2, Victim DEF IInv, Replaced
  <2> QED BY <1>1, <1>5, <2>3 DEF Confined, valid, Replaced
<1>6. Confined'
  BY <1>2, <1>3, <1>4, <1>5 DEF Effect
<1>7. Static'
  BY <1>1 DEF Static
<1> QED BY <1>6, <1>7

(* While masks do not change, every block is in a way of its LDom's mask.    *)
THEOREM BlocksConfined ==
  ASSUME MaskChoices = {}, \A g \in Guest : Fits(InitMask[g])
  PROVE  Spec => [](Static /\ Confined)
<1>1. Init => Static /\ Confined
  <2> SUFFICES ASSUME Init PROVE Static /\ Confined
    OBVIOUS
  <2>1. \A w \in Way : line[w].blk = None
    BY LineFacts DEF Init
  <2> QED BY <2>1 DEF Init, Static, Confined, valid
<1>2. IInv /\ Static /\ Confined /\ [Next]_vars => (Static /\ Confined)'
  BY ConfinedStep
<1> QED BY <1>1, <1>2, Invariance, PTL DEF Spec

----------------------------------------------------------------------------
\* The recency order of the ways of LDom g, when masks do not change.
Recent(g, p) == {e \in Mine(g) \X Mine(g) : p[e[1]] < p[e[2]]}

(* moveToHead on a way of g is Front, and on any other way changes nothing   *)
(* that g can see.                                                           *)
LEMMA HeadSeen ==
  ASSUME Order(pos), NEW g, NEW w \in Way
  PROVE  /\ w \in Mine(g) =>
              Recent(g, moveToHead(w)) =
                {e \in Mine(g) \X Mine(g) : e[2] # w /\ (e[1] = w \/ e \in Recent(g, pos))}
         /\ w \notin Mine(g) => Recent(g, moveToHead(w)) = Recent(g, pos)
<1> DEFINE q == moveToHead(w)
<1>1. \A v \in Way \ {w} : q[w] < q[v]
  BY HeadRelative
<1>2. \A u, v \in Way \ {w} : q[u] < q[v] <=> pos[u] < pos[v]
  BY HeadRelative
<1>3. Mine(g) \subseteq Way
  BY DEF Mine
<1>4. \A v \in Way : q[v] \in Int
  <2>1. q \in [Way -> Way]
    BY HeadOrder DEF Order
  <2> HIDE DEF q
  <2> QED BY <2>1, AssocType
<1> HIDE DEF q
<1>5. \A v \in Way : ~(q[v] < q[w])
  BY <1>1, <1>4
<1> QED BY <1>1, <1>2, <1>3, <1>5 DEF Recent, q

(* So for moveToTail and Back.                                               *)
LEMMA TailSeen ==
  ASSUME Order(pos), NEW g, NEW w \in Way
  PROVE  /\ w \in Mine(g) =>
              Recent(g, moveToTail(w)) =
                {e \in Mine(g) \X Mine(g) : e[1] # w /\ (e[2] = w \/ e \in Recent(g, pos))}
         /\ w \notin Mine(g) => Recent(g, moveToTail(w)) = Recent(g, pos)
<1> DEFINE q == moveToTail(w)
<1>1. \A v \in Way \ {w} : q[v] < q[w]
  BY TailRelative
<1>2. \A u, v \in Way \ {w} : q[u] < q[v] <=> pos[u] < pos[v]
  BY TailRelative
<1>3. Mine(g) \subseteq Way
  BY DEF Mine
<1>4. \A v \in Way : q[v] \in Int
  <2>1. q \in [Way -> Way]
    BY TailOrder DEF Order
  <2> HIDE DEF q
  <2> QED BY <2>1, AssocType
<1> HIDE DEF q
<1>5. \A v \in Way : ~(q[w] < q[v])
  BY <1>1, <1>4
<1> QED BY <1>1, <1>2, <1>3, <1>5 DEF Recent, q

(* A step of the shared set is, for each LDom, a step of its private one or  *)
(* none.                                                                     *)
LEMMA PrivateStep ==
  ASSUME \A g \in Guest : Fits(InitMask[g]),
         \A g, h \in Guest : g # h => Mine(g) \cap Mine(h) = {},
         IInv, Static, Static', Effect, NEW g \in Guest
  PROVE  Private(g)!Next \/ UNCHANGED Private(g)!vars
<1> DEFINE held == [w \in Mine(g) |-> line[w].blk]
           heldN == [w \in Mine(g) |-> line'[w].blk]
           Fr(w) == {e \in Mine(g) \X Mine(g) : e[2] # w /\ (e[1] = w \/ e \in Recent(g, pos))}
           Ba(w) == {e \in Mine(g) \X Mine(g) : e[1] # w /\ (e[2] = w \/ e \in Recent(g, pos))}
           New == Recent(g, pos')
<1>0. Order(pos) /\ line \in [Way -> Line] /\ Mine(g) \subseteq Way
  BY DEF IInv, Types, Mine
<1>1. \/ heldN = held /\ New = Recent(g, pos)
      \/ \E w \in Mine(g) : held[w] # None /\ New = Fr(w) /\ heldN = held
      \/ \E w \in Mine(g) : heldN = [held EXCEPT ![w] = None] /\ New = Ba(w)
      \/ \E w \in Mine(g), b \in Owned(g) : /\ \A v \in Mine(g) \ {w} : <<v, w>> \in Recent(g, pos)
                                       /\ \A v \in Mine(g) : held[v] # b
                                       /\ heldN = [held EXCEPT ![w] = b]
                                       /\ New = Fr(w)
  <2>1. CASE pos' = pos /\ Kept
    BY <1>0, <2>1 DEF Kept
  <2>2. ASSUME NEW w \in Way, valid(w), pos' = moveToHead(w), Kept
        PROVE  \/ heldN = held /\ New = Recent(g, pos)
               \/ w \in Mine(g) /\ held[w] # None /\ New = Fr(w) /\ heldN = held
    <3>1. heldN = held
      BY <1>0, <2>2 DEF Kept
    <3>2. w \in Mine(g) => held[w] # None /\ New = Fr(w)
      BY <1>0, <2>2, HeadSeen DEF valid
    <3>3. w \notin Mine(g) => New = Recent(g, pos)
      BY <1>0, <2>2, HeadSeen
    <3> QED BY <3>1, <3>2, <3>3
  <2>3. ASSUME NEW w \in Way, pos' = moveToTail(w), line' = [line EXCEPT ![w] = Empty]
        PROVE  \/ heldN = held /\ New = Recent(g, pos)
               \/ w \in Mine(g) /\ heldN = [held EXCEPT ![w] = None] /\ New = Ba(w)
    <3>1. line'[w].blk = None /\ \A v \in Way \ {w} : line'[v].blk = line[v].blk
      BY <1>0, <2>3, LineFacts
    <3>2. w \in Mine(g) => heldN = [held EXCEPT ![w] = None] /\ New = Ba(w)
      BY <1>0, <2>3, <3>1, TailSeen
    <3>3. w \notin Mine(g) => heldN = held /\ New = Recent(g, pos)
      BY <1>0, <2>3, <3>1, TailSeen
    <3> QED BY <3>2, <3>3
  <2>4. ASSUME NEW b \in Block, NEW w \in Way, Replaced(b, w), pos' = moveToHead(w)
        PROVE  \/ heldN = held /\ New = Recent(g, pos)
               \/ /\ w \in Mine(g) /\ b \in Owned(g)
                  /\ \A v \in Mine(g) \ {w} : <<v, w>> \in Recent(g, pos)
                  /\ \A v \in Mine(g) : held[v] # b
                  /\ heldN = [held EXCEPT ![w] = b]
                  /\ New = Fr(w)
    <3>1. b[1] \in Guest
      BY CacheTagsAssumption
    <3>2. Way \cap waymasks[b[1]] # {} /\ waymasks[b[1]] = InitMask[b[1]]
      BY <2>4, <3>1 DEF Static, Fits, Replaced
    <3>3. w \in Mine(b[1]) /\ \A v \in Mine(b[1]) : pos[v] =< pos[w]
      BY <1>0, <2>4, <3>2, Victim DEF Mine, Replaced
    <3>4. CASE b[1] = g
      <4>1. w \in Mine(g) /\ b \in Owned(g)
        BY <3>3, <3>4 DEF Owned
      <4>2. \A v \in Mine(g) \ {w} : <<v, w>> \in Recent(g, pos)
        <5> SUFFICES ASSUME NEW v \in Mine(g) \ {w} PROVE pos[v] < pos[w]
          BY <4>1 DEF Recent
        <5>1. pos[v] =< pos[w] /\ pos[v] # pos[w]
          BY <1>0, <3>3, <3>4 DEF Order
        <5>2. pos[v] \in Int /\ pos[w] \in Int
          BY <1>0, PosRange
        <5> QED BY <5>1, <5>2
      <4>3. \A v \in Mine(g) : held[v] # b
        BY <1>0, <2>4 DEF Replaced, findBlk
      <4>4. heldN = [held EXCEPT ![w] = b]
        BY <1>0, <2>4, <4>1 DEF Replaced
      <4>5. New = Fr(w)
        BY <1>0, <2>4, <4>1, HeadSeen
      <4> QED BY <4>1, <4>2, <4>3, <4>4, <4>5
    <3>5. CASE b[1] # g
      <4>1. w \notin Mine(g)
        BY <3>1, <3>3, <3>5
      <4>2. heldN = held
        BY <1>0, <2>4, <4>1 DEF Replaced
      <4>3. New = Recent(g, pos)
        BY <1>0, <2>4, <4>1, HeadSeen
      <4> QED BY <4>2, <4>3
    <3> QED BY <3>4, <3>5
  <2> HIDE DEF held, heldN, Fr, Ba, New
  <2> QED BY <2>1, <2>2, <2>3, <2>4 DEF Effect
<1>2. Ways(g) = Mine(g) /\ Ways(g)' = Mine(g)
  BY DEF Ways, Mine, Static
<1>3. Newer(g) = Recent(g, pos) /\ Newer(g)' = New
  BY <1>2 DEF Newer, Recent
<1>4. Held(g) = held /\ Held(g)' = heldN
  BY <1>2 DEF Held
<1>5. \A w : Private(g)!Front(w) = Fr(w) /\ Private(g)!Back(w) = Ba(w)
  BY <1>3 DEF Private!Front, Private!Back
<1> HIDE DEF held, heldN, Fr, Ba, New
<1>6. CASE heldN = held /\ New = Recent(g, pos)
  BY <1>3, <1>4, <1>6 DEF Private!vars
<1>7. ASSUME NEW w \in Mine(g), held[w] # None, New = Fr(w), heldN = held PROVE Private(g)!Next
  BY <1>3, <1>4, <1>5, <1>7 DEF Private!Next, Private!Use
<1>8. ASSUME NEW w \in Mine(g), heldN = [held EXCEPT ![w] = None], New = Ba(w)
      PROVE  Private(g)!Next
  BY <1>3, <1>4, <1>5, <1>8 DEF Private!Next, Private!Drop
<1>9. ASSUME NEW w \in Mine(g), NEW b \in Owned(g),
             \A v \in Mine(g) \ {w} : <<v, w>> \in Recent(g, pos),
             \A v \in Mine(g) : held[v] # b,
             heldN = [held EXCEPT ![w] = b],
             New = Fr(w)
      PROVE  Private(g)!Next
  BY <1>3, <1>4, <1>5, <1>9 DEF Private!Next, Private!Replace
<1> QED BY <1>1, <1>6, <1>7, <1>8, <1>9

(* Isolation: if masks do not change, are disjoint and fit, the shared set   *)
(* is to each LDom an LRU cache of its own, whatever the other LDoms do.     *)
THEOREM Isolation ==
  ASSUME MaskChoices = {}, \A g \in Guest : Fits(InitMask[g]),
         \A g, h \in Guest : g # h => Mine(g) \cap Mine(h) = {}
  PROVE  Spec => PrivateSpec
<1>1. Init => \A g \in Guest : Private(g)!Init
  <2> SUFFICES ASSUME Init, NEW g \in Guest PROVE Private(g)!Init
    OBVIOUS
  <2>1. Ways(g) = Mine(g)
    BY DEF Init, Ways, Mine
  <2>2. Held(g) = [w \in Mine(g) |-> None]
    BY <2>1, LineFacts DEF Init, Held, Mine
  <2>3. Newer(g) \in SUBSET (Mine(g) \X Mine(g))
    BY <2>1 DEF Newer
  <2> QED BY <2>2, <2>3 DEF Private!Init
<1>2. ASSUME IInv, Static, Confined, [Next]_vars
      PROVE  [\A g \in Guest : Private(g)!Next \/ UNCHANGED Private(g)!vars]_vars
  <2>1. Effect /\ Static'
    BY <1>2, NextGood, ConfinedStep
  <2> QED BY <1>2, <2>1, PrivateStep
<1> QED BY <1>1, <1>2, Invariance, BlocksConfined, PTL DEF Spec, PrivateSpec
=============================================================================
