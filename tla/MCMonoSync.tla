----------------------------- MODULE MCMonoSync -----------------------------
(* Instances of MonoSync for TLC: block trees with up to three branches. *)
EXTENDS MonoSync

CONSTANTS g, a1, a2, a3, a4, b2, b3, b4, b5, c1, c2, c3, c4, c5, c6

Prefixes(c) == {SubSeq(c, 1, n) : n \in 2..Len(c)}
BlocksOf(cs) == UNION {{c[i] : i \in 1..Len(c)} : c \in cs}
ParentOf(cs) ==
    [b \in BlocksOf(cs) |->
        IF b = g THEN None
        ELSE CHOOSE p \in BlocksOf(cs) :
                \E c \in cs : \E i \in 2..Len(c) : c[i] = b /\ c[i - 1] = p]

(* One branch only: the node never reorganises. *)
LineChains == Prefixes(<<g, a1, a2, a3>>)
LineParent == ParentOf(LineChains)
LineBlocks == BlocksOf(LineChains)

(* One fork. *)
ForkChains == Prefixes(<<g, a1, a2>>) \cup Prefixes(<<g, a1, b2, b3>>)
ForkParent == ParentOf(ForkChains)
ForkBlocks == BlocksOf(ForkChains)

(* One reorg, of one or two blocks. *)
OnceChains == Prefixes(<<g, a1, a2, a3>>)
                 \cup {<<g, a1, b2, b3>>, <<g, a1, b2, b3, b4>>, <<g, a1, b2, b3, b4, b5>>}
OnceParent == ParentOf(OnceChains)
OnceBlocks == BlocksOf(OnceChains)

(* A fork and a return to the first branch. *)
FlipChains == Prefixes(<<g, a1, a2, a3, a4>>) \cup Prefixes(<<g, a1, b2, b3>>)
FlipParent == ParentOf(FlipChains)
FlipBlocks == BlocksOf(FlipChains)

(* The node is only seen again when the other branch is two blocks longer. *)
FarChains == Prefixes(<<g, a1, a2>>) \cup {<<g, a1, b2, b3, b4>>}
FarParent == ParentOf(FarChains)
FarBlocks == BlocksOf(FarChains)

(* A second reorg that goes deeper than the first one. *)
DeepChains == {<<g, a1, a2, a3, a4>>, <<g, a1, a2, b3, b4, b5>>, <<g, c1, c2, c3, c4, c5, c6>>}
DeepParent == ParentOf(DeepChains)
DeepBlocks == BlocksOf(DeepChains)

=============================================================================
