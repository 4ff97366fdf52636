---------------------------- MODULE MCCacheTags -----------------------------
(* CacheTags for TLC: two LDoms and a set of two or three ways.              *)
EXTENDS CacheTags, TLC

CONSTANTS g0, g1, a, b, c, d

GuestDef == {g0, g1}
TagDef == {a, b, c, d}
FewBlocks == {<<g0, a>>, <<g0, b>>, <<g1, d>>}
\* More blocks than the first LDom has ways under DisjointMasks.
ManyBlocks == FewBlocks \cup {<<g0, c>>}
\* Disjoint masks that leave the first LDom two ways to choose a victim from.
DisjointMasks == (g0 :> {0, 2}) @@ (g1 :> {1})
\* As shipped: every LDom may fill every way, and more than there are.
FullMasks == [g \in GuestDef |-> {0, 1, 2, 3}]
\* One way each, or none, with which the next allocation ends the simulation.
Narrowed == {{0}, {1}, {}}
\* A mask written for a cache with more ways than this one has.
BeyondMasks == {{2, 3}}
\* The blocks of the first LDom are interchangeable.
SameLDom == Permutations({a, b, c})
SameLDomFew == Permutations({a, b})
=============================================================================
