--------------------------- MODULE MCAppendStore ---------------------------
(* Instances of AppendStore for TLC. *)
EXTENDS AppendStore

CONSTANTS g, a1, a2, a3, a4, b2, b3, k1, k2

Prefixes(c) == {SubSeq(c, 1, n) : n \in 2..Len(c)}
BlocksOf(cs) == UNION {{c[i] : i \in 1..Len(c)} : c \in cs}
ParentOf(cs) ==
    [b \in BlocksOf(cs) |->
        IF b = g THEN None
        ELSE CHOOSE p \in BlocksOf(cs) :
                \E c \in cs : \E i \in 2..Len(c) : c[i] = b /\ c[i - 1] = p]

(* One branch. *)
LineChains == Prefixes(<<g, a1, a2, a3, a4>>)
LineBlocks == BlocksOf(LineChains)
LineParent == ParentOf(LineChains)

(* A fork at height 2 and a return to the first branch. *)
FlipChains == Prefixes(<<g, a1, a2, a3, a4>>) \cup Prefixes(<<g, a1, b2, b3>>)
FlipBlocks == BlocksOf(FlipChains)
FlipParent == ParentOf(FlipChains)

(* Every indexed block may change any of the keys. *)
AllEffects == {e \in [Blocks -> SUBSET Keys] : e[g] = {}}

(* The blocks that are rolled back may change any of the keys (none: no     *)
(* manifest is written); the common block and the last one change them all. *)
ForkEffects == {e \in AllEffects : e[a1] = Keys /\ e[a4] = Keys}

(* One program: b2 and b3 change different keys, a2 the key of b3, a3 none. *)
OneEffect ==
    {[b \in Blocks |-> CASE b \in {g, a3} -> {}
                         [] b = b2 -> {k1}
                         [] b \in {b3, a2} -> {k2}
                         [] OTHER -> Keys]}

=============================================================================
