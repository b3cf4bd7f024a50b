----------------------------- MODULE ContractIndexer -----------------------------
(***************************************************************************)
(* The alkanes contract indexer: two loops, the poller and the catch-up    *)
(* coordinator, that both read the position from Postgres, process every   *)
(* height up to the tip with process_block_sequential, and share nothing   *)
(* but the database.                                                       *)
(*                                                                         *)
(* A block is written by several transactions. Its transactions and trace  *)
(* events are replaced and its balances per outpoint upserted; its balance *)
(* changes are added to the balances of addresses, and its trades are      *)
(* inserted, every time the block is processed. Then the list of holders   *)
(* of every token it changed is deleted, selected anew from the balances   *)
(* and counted, token by token, by statements without a transaction. The   *)
(* last transaction records the block and the position.                    *)
(*                                                                         *)
(* Some errors end the pass; those of a single transaction's decoding,     *)
(* trace or extraction are logged, and the block is recorded without it.   *)
(*                                                                         *)
(* A block is the set of its parts: the tokens whose balances it changes,  *)
(* and its trades. The balances of a token's addresses are represented by  *)
(* how often every block was added to them. Reorgs, pool states, storage,  *)
(* candles and the trace transform are left out.                           *)
(***************************************************************************)
EXTENDS Naturals, FiniteSets

CONSTANTS
  Poller, Coordinator,
  StartHeight,  \* start_height of the configuration
  MaxHeight,    \* bound: the tip never passes it
  Tokens,       \* alkanes
  Trades,       \* the part of a block that is its trades
  Content,      \* what the blocks consist of
  MaxFaults,    \* bound: failed statements, failed RPCs, logged errors and restarts
  MaxLost       \* bound: inserts of holders that lose the race

Loops == {Poller, Coordinator}
Heights == StartHeight..MaxHeight
Parts == Tokens \cup {Trades}

ASSUME IndexerAssumption ==
  /\ Poller # Coordinator
  /\ StartHeight \in Nat \ {0}
  /\ MaxHeight \in Nat
  /\ Trades \notin Tokens
  /\ Content \in [Heights -> SUBSET Parts]
  /\ MaxFaults \in Nat
  /\ MaxLost \in Nat

\* What was added to the balances of a token: how often every block.
Sums == [Heights -> Nat]

VARIABLES
  tip,          \* metashrew's height, 0 before its first block
  position,     \* indexer_position: a height, or 0 when there is no row
  processed,    \* heights in ProcessedBlocks
  events,       \* AlkaneTransaction and TraceEvent: the parts of a height they hold
  utxos,        \* AlkaneBalanceUtxo: the tokens of a height
  balances,     \* AlkaneBalance of every token
  listed,       \* tokens with rows in AlkaneHolder
  holders,      \* the balances these rows were selected from
  holderCount,  \* the balances AlkaneHolderCount was counted from
  trades,       \* AmmTrade: how often the trades of a block were inserted
  initialized,  \* the poller has fired the init signal
  loops,        \* where the two loops are
  faults,       \* faults so far
  lost,         \* lost races so far
  dropped,      \* history: parts of a height a logged error left out of a pass
  left          \* history: tokens whose last refresh was broken off

tables == <<position, processed, events, utxos, balances, listed, holders, holderCount, trades>>
vars == <<tip, tables, initialized, loops, faults, lost, dropped, left>>

\* next is the height a loop works on, upTo the tip it has read, found the parts of
\* the block it still holds, todo the tokens it has to refresh, token the one it is at.
Idle == [pc |-> "position", next |-> 0, upTo |-> 0, found |-> {}, todo |-> {}, token |-> Trades]
Nothing == [h \in Heights |-> 0]

Init ==
  /\ tip \in 0..MaxHeight
  /\ position = 0
  /\ processed = {}
  /\ events = [h \in Heights |-> {}]
  /\ utxos = [h \in Heights |-> {}]
  /\ balances = [t \in Tokens |-> Nothing]
  /\ listed = {}
  /\ holders = [t \in Tokens |-> Nothing]
  /\ holderCount = [t \in Tokens |-> Nothing]
  /\ trades = Nothing
  /\ initialized = FALSE
  /\ loops = [l \in Loops |-> Idle]
  /\ faults = 0
  /\ lost = 0
  /\ dropped = [h \in Heights |-> {}]
  /\ left = {}

-----------------------------------------------------------------------------
(* One pass of a loop. *)

At(l, pc) == loops[l].pc = pc
Become(l, x) == loops' = [loops EXCEPT ![l] = x]
Goto(l, pc) == Become(l, [loops[l] EXCEPT !.pc = pc])
GiveUp(l) == Become(l, Idle)

\* get_position; the coordinator starts when the poller has seen a tip.
ReadPosition(l) ==
  /\ At(l, "position")
  /\ l = Coordinator => initialized
  /\ Become(l, [loops[l] EXCEPT !.pc = "tip",
                     !.next = IF position = 0 THEN StartHeight ELSE position + 1])
  /\ UNCHANGED <<tip, tables, initialized, faults, lost, dropped, left>>

\* Mutant: the tip itself is not processed.
ReadTip_Below(l) ==
  /\ At(l, "tip")
  /\ initialized' = (initialized \/ (l = Poller /\ tip # 0))
  /\ IF tip # 0 /\ loops[l].next < tip
     THEN Become(l, [loops[l] EXCEPT !.pc = "fetch", !.upTo = tip])
     ELSE GiveUp(l)
  /\ UNCHANGED <<tip, tables, faults, lost, dropped, left>>

\* canonical_tip_height, an error at height 0. The pass ends without a new block.
ReadTip(l) ==
  /\ At(l, "tip")
  /\ initialized' = (initialized \/ (l = Poller /\ tip # 0))
  /\ IF tip # 0 /\ loops[l].next <= tip
     THEN Become(l, [loops[l] EXCEPT !.pc = "fetch", !.upTo = tip])
     ELSE GiveUp(l)
  /\ UNCHANGED <<tip, tables, faults, lost, dropped, left>>

\* Errors that are logged leave the parts of the block in missing out.
Swallow(h, missing) ==
  /\ missing # {} => faults < MaxFaults
  /\ faults' = IF missing = {} THEN faults ELSE faults + 1
  /\ dropped' = [dropped EXCEPT ![h] = @ \cup missing]

\* The block, its transactions and their traces are fetched. A transaction that is
\* not decoded, and a trace that fails with the known upstream error, are skipped.
FetchBlock(l) ==
  LET h == loops[l].next
  IN  /\ At(l, "fetch")
      /\ \E found \in SUBSET Content[h] :
           /\ Swallow(h, Content[h] \ found)
           /\ Become(l, [loops[l] EXCEPT !.found = found,
                              !.pc = IF Content[h] = {} THEN "commit" ELSE "events"])
      /\ UNCHANGED <<tip, tables, initialized, lost, left>>

\* txids that are not an array count as none: the block is recorded as it is.
FetchNothing(l) ==
  /\ At(l, "fetch")
  /\ Content[loops[l].next] # {}
  /\ Swallow(loops[l].next, Content[loops[l].next])
  /\ Goto(l, "commit")
  /\ UNCHANGED <<tip, tables, initialized, lost, left>>

\* Where a loop goes when it has written, or has no, balances.
AfterBalances(found) == IF Trades \in found THEN "trades" ELSE "commit"
AfterEvents(found) == IF found \cap Tokens # {} THEN "utxos" ELSE AfterBalances(found)

\* The trace events of the transactions in the results are replaced; those of a
\* transaction that was not decoded stay. Then the balance changes and the trades
\* are extracted, where errors are logged.
WriteEvents(l) ==
  LET h == loops[l].next
      traced == loops[l].found
  IN  /\ At(l, "events")
      /\ \E kept \in SUBSET events[h], found \in SUBSET traced :
           /\ events' = [events EXCEPT ![h] = kept \cup traced]
           /\ Swallow(h, traced \ found)
           /\ Become(l, [loops[l] EXCEPT !.found = found, !.pc = AfterEvents(found)])
      /\ UNCHANGED <<tip, position, processed, utxos, balances, listed, holders, holderCount,
                     trades, initialized, lost, left>>

\* upsert_utxo_balances
WriteUtxos(l) ==
  /\ At(l, "utxos")
  /\ utxos' = [utxos EXCEPT ![loops[l].next] = @ \cup (loops[l].found \cap Tokens)]
  /\ Goto(l, "balances")
  /\ UNCHANGED <<tip, position, processed, events, balances, listed, holders, holderCount,
                 trades, initialized, faults, lost, dropped, left>>

\* The balances with height h added to those of the tokens ts.
Added(ts, h) ==
  [t \in Tokens |-> IF t \in ts THEN [balances[t] EXCEPT ![h] = @ + 1] ELSE balances[t]]

\* Mutant: the holders of a block that is processed again are not refreshed.
AddBalances_Unlisted(l) ==
  LET h == loops[l].next
      found == loops[l].found
  IN  /\ At(l, "balances")
      /\ balances' = Added(found \cap Tokens, h)
      /\ IF h \in processed THEN Goto(l, AfterBalances(found))
         ELSE Become(l, [loops[l] EXCEPT !.pc = "delete", !.todo = found \cap Tokens])
      /\ UNCHANGED <<tip, position, processed, events, utxos, listed, holders, holderCount,
                     trades, initialized, faults, lost, dropped, left>>

\* update_address_balances: amount = amount + $4, for all tokens in one transaction
AddBalances(l) ==
  /\ At(l, "balances")
  /\ balances' = Added(loops[l].found \cap Tokens, loops[l].next)
  /\ Become(l, [loops[l] EXCEPT !.pc = "delete", !.todo = loops[l].found \cap Tokens])
  /\ UNCHANGED <<tip, position, processed, events, utxos, listed, holders, holderCount,
                 trades, initialized, faults, lost, dropped, left>>

\* refresh_holders of one token after the other, in the order of a hash map:
\* delete, insert the selection, count. The last conjunct is the bound on lost races.
Inserting(l, t) == At(l, "insert") /\ loops[l].token = t

DeleteHolders(l) ==
  /\ At(l, "delete")
  /\ \E t \in loops[l].todo :
       /\ listed' = listed \ {t}
       /\ holders' = [holders EXCEPT ![t] = Nothing]
       /\ Become(l, [loops[l] EXCEPT !.pc = "insert", !.token = t])
       /\ (\E m \in Loops : Inserting(m, t)) => lost < MaxLost
  /\ UNCHANGED <<tip, position, processed, events, utxos, balances, holderCount, trades,
                 initialized, faults, lost, dropped, left>>

InsertHolders(l) ==
  LET t == loops[l].token
  IN  /\ At(l, "insert")
      /\ t \notin listed
      /\ listed' = listed \cup {t}
      /\ holders' = [holders EXCEPT ![t] = balances[t]]
      /\ left' = left \ {t}
      /\ Goto(l, "count")
      /\ UNCHANGED <<tip, position, processed, events, utxos, balances, holderCount, trades,
                     initialized, faults, lost, dropped>>

\* The other loop has inserted its selection in between: the primary key of
\* AlkaneHolder fails the statement, and with it the block. The tokens the loop has
\* not come to keep the list they have.
InsertConflict(l) ==
  LET t == loops[l].token
  IN  /\ At(l, "insert")
      /\ t \in listed
      /\ lost' = lost + 1
      /\ left' = left \cup (loops[l].todo \ {t})
      /\ GiveUp(l)
      /\ UNCHANGED <<tip, tables, initialized, faults, dropped>>

CountHolders(l) ==
  LET t == loops[l].token
      rest == loops[l].todo \ {t}
  IN  /\ At(l, "count")
      /\ holderCount' = [holderCount EXCEPT ![t] = holders[t]]
      /\ Become(l, [loops[l] EXCEPT !.todo = rest, !.token = Trades,
                         !.pc = IF rest # {} THEN "delete" ELSE AfterBalances(loops[l].found)])
      /\ UNCHANGED <<tip, position, processed, events, utxos, balances, listed, holders, trades,
                     initialized, faults, lost, dropped, left>>

\* insert_trade_events has no conflict clause.
InsertTrades(l) ==
  /\ At(l, "trades")
  /\ trades' = [trades EXCEPT ![loops[l].next] = @ + 1]
  /\ Goto(l, "commit")
  /\ UNCHANGED <<tip, position, processed, events, utxos, balances, listed, holders,
                 holderCount, initialized, faults, lost, dropped, left>>

\* The next height of a pass.
NextHeight(l) ==
  Become(l, [loops[l] EXCEPT !.pc = "fetch", !.next = @ + 1, !.found = {}])

\* Mutant: the pass goes one height too far.
Commit_Beyond(l) ==
  LET h == loops[l].next
  IN  /\ At(l, "commit")
      /\ processed' = processed \cup {h}
      /\ position' = h
      /\ IF h <= loops[l].upTo THEN NextHeight(l) ELSE GiveUp(l)
      /\ UNCHANGED <<tip, events, utxos, balances, listed, holders, holderCount, trades,
                     initialized, faults, lost, dropped, left>>

\* ProcessedBlocks and indexer_position in one transaction, whatever the
\* position is by now; then the next height of the pass.
Commit(l) ==
  LET h == loops[l].next
  IN  /\ At(l, "commit")
      /\ processed' = processed \cup {h}
      /\ position' = h
      /\ IF h < loops[l].upTo THEN NextHeight(l) ELSE GiveUp(l)
      /\ UNCHANGED <<tip, events, utxos, balances, listed, holders, holderCount, trades,
                     initialized, faults, lost, dropped, left>>

-----------------------------------------------------------------------------
(* Metashrew and faults. *)

TipGrows ==
  /\ tip < MaxHeight
  /\ tip' = tip + 1
  /\ UNCHANGED <<tables, initialized, loops, faults, lost, dropped, left>>

\* Mutant: a failed block is skipped instead of ending the pass.
StepFails_Skips(l) ==
  /\ faults < MaxFaults
  /\ ~At(l, "position")
  /\ faults' = faults + 1
  /\ left' = left \cup loops[l].todo
  /\ Become(l, IF loops[l].next < loops[l].upTo
               THEN [Idle EXCEPT !.pc = "fetch", !.next = loops[l].next + 1, !.upTo = loops[l].upTo]
               ELSE Idle)
  /\ UNCHANGED <<tip, tables, initialized, lost, dropped>>

\* An RPC or a statement fails: the pass ends, what is committed stays.
StepFails(l) ==
  /\ faults < MaxFaults
  /\ ~At(l, "position")
  /\ faults' = faults + 1
  /\ left' = left \cup loops[l].todo
  /\ GiveUp(l)
  /\ UNCHANGED <<tip, tables, initialized, lost, dropped>>

\* The process is restarted: both loops start over.
Restart ==
  /\ faults < MaxFaults
  /\ faults' = faults + 1
  /\ left' = left \cup UNION {loops[l].todo : l \in Loops}
  /\ loops' = [l \in Loops |-> Idle]
  /\ initialized' = FALSE
  /\ UNCHANGED <<tip, tables, lost, dropped>>

-----------------------------------------------------------------------------

Pass(l) ==
  \/ ReadPosition(l) \/ ReadTip(l) \/ FetchBlock(l) \/ FetchNothing(l)
  \/ WriteEvents(l) \/ WriteUtxos(l) \/ AddBalances(l)
  \/ DeleteHolders(l) \/ InsertHolders(l) \/ InsertConflict(l) \/ CountHolders(l)
  \/ InsertTrades(l) \/ Commit(l)

Next == (\E l \in Loops : Pass(l) \/ StepFails(l)) \/ TipGrows \/ Restart

Spec == Init /\ [][Next]_vars

\* Both loops are polled by the same task and run for ever.
LiveSpec == Spec /\ \A l \in Loops : WF_vars(Pass(l))

-----------------------------------------------------------------------------

LoopState ==
  [pc : {"position", "tip", "fetch", "events", "utxos", "balances", "delete", "insert", "count",
         "trades", "commit"},
   next : Nat, upTo : Nat, found : SUBSET Parts, todo : SUBSET Tokens, token : Parts]

\* A loop that has read the tip works on a height between the two, and refreshes
\* tokens of its block.
Placed(x) ==
  /\ x.pc \notin {"position", "tip"} => x.next \in Heights /\ x.next <= x.upTo /\ x.upTo <= tip
  /\ x.pc \in {"utxos", "balances"} => x.found \cap Tokens # {}
  /\ x.pc \in {"insert", "count"} => x.token \in x.todo
  /\ x.pc \notin {"insert", "count"} => x.token = Trades
  /\ x.pc \in {"delete", "insert", "count"} <=> x.todo # {}

TablesOK ==
  /\ position \in Heights \cup {0}
  /\ processed \subseteq Heights
  /\ events \in [Heights -> SUBSET Parts] /\ utxos \in [Heights -> SUBSET Tokens]
  /\ balances \in [Tokens -> Sums] /\ holders \in [Tokens -> Sums]
  /\ holderCount \in [Tokens -> Sums] /\ trades \in Sums
  /\ listed \subseteq Tokens

TypeOK ==
  /\ tip \in Nat /\ tip <= MaxHeight
  /\ TablesOK
  /\ initialized \in BOOLEAN
  /\ loops \in [Loops -> LoopState]
  /\ \A l \in Loops : Placed(loops[l])
  /\ faults \in Nat /\ lost \in Nat
  /\ dropped \in [Heights -> SUBSET Parts] /\ left \subseteq Tokens

\* The parts of a block that no logged error has left out, and whether the tables
\* hold them.
Owed(h) == Content[h] \ dropped[h]

HasEvents(h) == Owed(h) \subseteq events[h]
HasUtxos(h) == Owed(h) \cap Tokens \subseteq utxos[h]
HasBalances(h) == \A t \in Owed(h) \cap Tokens : balances[t][h] > 0
HasTrades(h) == Trades \in Owed(h) => trades[h] > 0

\* Everything a processed block has to leave behind.
Indexed(h) ==
  h \in processed /\ HasEvents(h) /\ HasUtxos(h) /\ HasBalances(h) /\ HasTrades(h)

\* "we never have a gap between indexed data and position tracking": every height
\* up to the position has been written, whatever the two loops, the failures that
\* end a pass and the restarts did, and even when a slow loop moves the position
\* back. All that may be missing of a block is what an error the code only logs
\* has left out of one of its passes.
NoGap == \A h \in Heights : h <= position => Indexed(h)

\* The holders of a token and their count are those of its balances, in every
\* interleaving of the two loops, unless a loop has yet to refresh the token or the
\* last to refresh it was broken off by a failure, a restart, or an insert that lost
\* the race for another token. The token the race was lost for is not excused: the
\* loop whose insert fails leaves a list that is complete.
HoldersMatch ==
  \A t \in Tokens :
    t \notin left /\ (\A l \in Loops : t \notin loops[l].todo) =>
      holders[t] = balances[t] /\ holderCount[t] = balances[t]

\* Once the tip no longer moves, the position reaches it and stays there, although
\* either loop may still move it back for a while: if only finitely many inserts
\* lose the race (MaxLost; without the bound the loops may fail each other for ever).
ReachesTip == \A h \in Heights : <>[](tip = h) => <>[](position = h)

=============================================================================
