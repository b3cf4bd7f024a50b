-------------------------- MODULE CheckpointStack --------------------------
(***************************************************************************)
(* IndexCheckpointStack of metashrew-core (index_pointer.rs): the writes   *)
(* of a transaction in layers over the cells of the block.  A layer is a   *)
(* function on the keys written since its checkpoint.                      *)
(***************************************************************************)
EXTENDS Integers, Sequences

NoWrites == [k \in {} |-> 0]

\* The writes w and, where they write nothing, f.
Over(w, f) ==
  [k \in DOMAIN w \cup DOMAIN f |-> IF k \in DOMAIN w THEN w[k] ELSE f[k]]

\* set(), for several keys at once: into the top layer.
Put(layers, writes) == [layers EXCEPT ![Len(layers)] = Over(writes, @)]

Checkpoint(layers) == Append(layers, NoWrites)

Rollback(layers) == SubSeq(layers, 1, Len(layers) - 1)

\* commit(), with a layer below to commit to.
Commit(layers) == Put(Rollback(layers), layers[Len(layers)])

Greatest(S) == CHOOSE i \in S : \A j \in S : j <= i

\* get(), from the lowest n layers: the highest that holds the key, or the
\* cell itself.
Seen(cells, layers, n, k) ==
  LET holders == {i \in 1..n : k \in DOMAIN layers[i]}
  IN  IF holders = {} THEN cells[k] ELSE layers[Greatest(holders)][k]
=============================================================================
