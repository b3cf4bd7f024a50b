----------------------------- MODULE NodeChain -----------------------------
(***************************************************************************)
(* The Bitcoin node as the indexer sees it through BitcoinNodeAdapter      *)
(* (crates/metashrew-sync/src/traits.rs): one active chain, whose tip      *)
(* height, block hashes and block data are read by separate RPCs and which *)
(* may change between any two of them.  A block is a model value that also *)
(* stands for its hash; Parent[b] is the prev_blockhash of its header.     *)
(***************************************************************************)
EXTENDS Naturals, Sequences

CONSTANTS
    Blocks,     \* every block that can appear
    None,       \* the Option::None of a lookup; also the parent of genesis
    Parent,     \* header.prev_blockhash
    Chains      \* the active chains the node can have, genesis first

(* Chains are linked by their headers, and a block has one height. *)
ASSUME ChainAssumption ==
    /\ None \notin Blocks
    /\ Parent \in [Blocks -> Blocks \cup {None}]
    /\ Chains \subseteq Seq(Blocks) \ {<<>>}
    /\ \A c \in Chains : \A i \in 2..Len(c) : Parent[c[i]] = c[i - 1]
    /\ \A c, d \in Chains : \A i \in 1..Len(c), j \in 1..Len(d) :
          c[i] = d[j] => i = j

VARIABLE chain

(* getblockcount, and getblockhash / getblock for a height on the chain. *)
Tip == Len(chain) - 1
BlockAt(h) == chain[h + 1]

NodeInit == chain \in Chains

(***************************************************************************)
(* The node extends its chain or reorganises to another branch.  It only   *)
(* ever moves to a chain with more work, abstracted to a longer one.       *)
(***************************************************************************)
NodeAdvance ==
    \E c \in Chains : Len(c) > Len(chain) /\ chain' = c
=============================================================================
