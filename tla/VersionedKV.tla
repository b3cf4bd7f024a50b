---------------------------- MODULE VersionedKV ----------------------------
(***************************************************************************)
(* What the index promises its readers: a ledger of connected blocks and,  *)
(* for every key and every height of the ledger, the value of the latest   *)
(* block up to that height that wrote the key.  A block is applied at once;*)
(* a reorg withdraws the table while it truncates the ledger, and puts     *)
(* back exactly the table of the blocks that are left.                     *)
(***************************************************************************)
EXTENDS Naturals

CONSTANTS Blocks, None, Parent, Keys, StartBlock

VARIABLES
    writes,     \* the keys each block changes
    top,        \* the last applied height, StartBlock - 1 or less when empty
    ledger,     \* the block applied at each height
    open,       \* readers may read
    table       \* table[k][h] while open

Span(n) == StartBlock..n

(* The value of k at height h on a ledger. *)
LatestWrite(l, k, h) ==
    LET writers == {x \in DOMAIN l : x <= h /\ k \in writes[l[x]]}
    IN IF writers = {} THEN None
       ELSE l[CHOOSE x \in writers : \A y \in writers : y <= x]

TableOf(l) == [k \in Keys |-> [h \in DOMAIN l |-> LatestWrite(l, k, h)]]

Init ==
    /\ top = 0
    /\ ledger = [h \in Span(0) |-> None]
    /\ open = TRUE
    /\ table = TableOf(ledger)

(* A block that extends the ledger becomes readable; nothing below changes. *)
ApplyBlock ==
    LET h == IF top < StartBlock THEN StartBlock ELSE top + 1 IN
    /\ open /\ UNCHANGED <<open, writes>>
    /\ \E b \in Blocks :
          /\ top >= StartBlock => Parent[b] = ledger[top]
          /\ top' = h
          /\ ledger' = [x \in Span(h) |-> IF x = h THEN b ELSE ledger[x]]
          /\ table' = [k \in Keys |-> [x \in Span(h) |->
                IF x < h THEN table[k][x]
                ELSE IF k \in writes[b] THEN b
                ELSE IF top < StartBlock THEN None ELSE table[k][top]]]

Withdraw ==
    /\ open /\ top >= StartBlock
    /\ open' = FALSE
    /\ table' = TableOf(<<>>)
    /\ UNCHANGED <<writes, top, ledger>>

Truncate ==
    /\ ~open /\ open' = TRUE /\ UNCHANGED writes
    /\ \E n \in 0..top - 1 :
          /\ top' = n
          /\ ledger' = [h \in Span(n) |-> ledger[h]]
          /\ table' = TableOf(ledger')

Next == ApplyBlock \/ Withdraw \/ Truncate

Spec == Init /\ [][Next]_<<writes, top, ledger, open, table>>
=============================================================================
