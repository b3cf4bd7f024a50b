--------------------------- MODULE MCContractIndexer ---------------------------
(***************************************************************************)
(* ContractIndexer for TLC, and properties the code breaks.                *)
(***************************************************************************)
EXTENDS ContractIndexer, TLC

CONSTANTS t1, t2

\* The first block changes both tokens, the second nothing, the third one token.
Blocks == [h \in 1..3 |-> CASE h = 1 -> {t1, t2} [] h = 2 -> {} [] h = 3 -> {t2, Trades}]

\* "After catch-up, the poller continues processing subsequent new blocks as they
\* arrive": the two loops divide the heights between them, so a block at or below
\* the position was added to the balances once. The code lets both loops process
\* a height they have both found missing.
CountedOnce == \A h \in Heights, t \in Tokens : h <= position => balances[t][h] <= 1

\* "This ensures we never have a gap between indexed data and position tracking",
\* taken for all of a block: an error that is only logged leaves a gap.
NoGapAtAll ==
  \A h \in Heights : h <= position =>
    /\ Content[h] \subseteq events[h]
    /\ \A t \in Content[h] \cap Tokens : balances[t][h] > 0

\* "Refresh holder materialized data for modified alkanes": without any fault, the
\* holders follow the balances once no loop is refreshing. A loop that loses the
\* race for one token leaves the others as they were.
HoldersFollow ==
  (faults = 0 /\ \A l \in Loops : loops[l].todo = {}) => holders = balances

=============================================================================
