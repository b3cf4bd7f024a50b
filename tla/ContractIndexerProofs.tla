-------------------------- MODULE ContractIndexerProofs --------------------------
(***************************************************************************)
(* Proofs about ContractIndexer: its types, that there is no gap below the *)
(* position, and that the holders of a token are those of its balances,    *)
(* for every number of heights and tokens, every start height, every chain *)
(* of blocks and any number of failures, logged errors and restarts.       *)
(***************************************************************************)
EXTENDS ContractIndexer, TLAPS

\* The steps of a block behind which a loop has fetched it, and behind which its
\* events, its rows per outpoint and its balances are written.
Fetched == {"events", "utxos", "balances", "delete", "insert", "count", "trades", "commit"}
EventsWritten == Fetched \ {"events"}
UtxosWritten == EventsWritten \ {"utxos"}
BalancesWritten == UtxosWritten \ {"balances"}

\* A loop has seen everything below its height recorded. It still holds what is
\* owed of its block, and has written what the steps it has taken write.
Behind(l) ==
  loops[l].pc # "position" =>
    /\ loops[l].next >= StartHeight
    /\ \A h \in Heights : h < loops[l].next => Indexed(h)

Written(l) ==
  /\ loops[l].pc \in Fetched => Owed(loops[l].next) \subseteq loops[l].found
  /\ loops[l].pc \in EventsWritten => HasEvents(loops[l].next)
  /\ loops[l].pc \in UtxosWritten => HasUtxos(loops[l].next)
  /\ loops[l].pc \in BalancesWritten => HasBalances(loops[l].next)
  /\ loops[l].pc = "commit" => HasTrades(loops[l].next)

Inv ==
  /\ TypeOK
  /\ NoGap
  /\ \A l \in Loops : Behind(l) /\ Written(l)

\* A loop is busy with a block.
Inside(l) == loops[l].pc \notin {"position", "tip"}

\* The invariant holds in the initial states.
LEMMA InvInit == Init => Inv
<1> SUFFICES ASSUME Init PROVE Inv
  OBVIOUS
<1>1. Idle \in LoopState /\ Idle.pc = "position" /\ Placed(Idle)
  BY DEF Idle, LoopState, Parts, Placed
<1>2. \A l \in Loops : loops[l] = Idle
  BY DEF Init
<1>3. Nothing \in Sums
  BY DEF Nothing, Sums
<1>4. TablesOK
  BY <1>3 DEF Init, TablesOK
<1>5. loops \in [Loops -> LoopState]
  BY <1>1 DEF Init
<1>6. tip \in Nat /\ tip <= MaxHeight
  BY IndexerAssumption DEF Init
<1>7. TypeOK
  BY <1>1, <1>2, <1>4, <1>5, <1>6 DEF TypeOK, Init
<1>8. NoGap
  BY IndexerAssumption DEF Init, NoGap, Heights
<1>9. \A l \in Loops : Behind(l) /\ Written(l)
  BY <1>1, <1>2 DEF Behind, Written, Fetched, EventsWritten, UtxosWritten, BalancesWritten
<1> QED
  BY <1>7, <1>8, <1>9 DEF Inv

-----------------------------------------------------------------------------
(* What holds of every step. *)

\* What has been written is never taken back, and what a logged error has left out
\* stays on record. Trace events are replaced: that what is owed of them stays is
\* for the step that replaces them to show.
Grows ==
  /\ processed \subseteq processed'
  /\ \A h \in Heights :
       /\ dropped[h] \subseteq dropped'[h] /\ utxos[h] \subseteq utxos'[h]
       /\ trades'[h] >= trades[h]
       /\ \A t \in Tokens : balances'[t][h] >= balances[t][h]
       /\ HasEvents(h) => HasEvents(h)'

\* What the tables hold of a height they go on holding; a height that is indexed
\* stays so.
LEMMA Stays ==
  ASSUME TypeOK, TypeOK', Grows, NEW h \in Heights
  PROVE  /\ Owed(h)' \subseteq Owed(h)
         /\ HasEvents(h) => HasEvents(h)'
         /\ HasUtxos(h) => HasUtxos(h)'
         /\ HasBalances(h) => HasBalances(h)'
         /\ HasTrades(h) => HasTrades(h)'
         /\ Indexed(h) => Indexed(h)'
<1>1. /\ trades[h] \in Nat /\ trades'[h] \in Nat
      /\ \A t \in Tokens : balances[t][h] \in Nat /\ balances'[t][h] \in Nat
  BY DEF TypeOK, TablesOK, Sums
<1>2. Owed(h)' \subseteq Owed(h)
  BY DEF Grows, Owed
<1>3. HasUtxos(h) => HasUtxos(h)'
  BY <1>2 DEF HasUtxos, Grows
<1>4. HasBalances(h) => HasBalances(h)'
  <2> SUFFICES ASSUME HasBalances(h), NEW t \in Owed(h)' \cap Tokens PROVE balances'[t][h] > 0
    BY DEF HasBalances
  <2>1. balances[t][h] > 0
    BY <1>2 DEF HasBalances
  <2> QED
    BY <1>1, <2>1 DEF Grows
<1>5. HasTrades(h) => HasTrades(h)'
  BY <1>1, <1>2 DEF HasTrades, Grows
<1>6. (HasEvents(h) => HasEvents(h)') /\ (h \in processed => h \in processed')
  BY DEF Grows
<1> QED
  BY <1>2, <1>3, <1>4, <1>5, <1>6 DEF Indexed

\* A step that leaves the tables and the history alone, or only adds to the history.
LEMMA TablesStay ==
  ASSUME TypeOK, UNCHANGED tables, \A h \in Heights : dropped[h] \subseteq dropped'[h]
  PROVE  Grows /\ TablesOK'
<1>1. TablesOK'
  BY DEF TypeOK, TablesOK, tables
<1>2. \A h \in Heights : HasEvents(h) => HasEvents(h)'
  BY DEF HasEvents, Owed, tables
<1>3. \A h \in Heights : trades[h] \in Nat /\ \A t \in Tokens : balances[t][h] \in Nat
  BY DEF TypeOK, TablesOK, Sums
<1>4. \A h \in Heights : trades'[h] >= trades[h] /\ \A t \in Tokens : balances'[t][h] >= balances[t][h]
  BY <1>3 DEF tables
<1> QED
  BY <1>1, <1>2, <1>4 DEF Grows, tables

\* The loop that moves, and the other.
LEMMA Moved ==
  ASSUME TypeOK, NEW l \in Loops, NEW x \in LoopState, Become(l, x)
  PROVE  /\ loops' \in [Loops -> LoopState] /\ loops'[l] = x
         /\ \A m \in Loops \ {l} : loops'[m] = loops[m]
  BY DEF TypeOK, Become

\* A step of one loop keeps the types when it keeps those of the tables.
LEMMA TypeStep ==
  ASSUME TypeOK, NEW l \in Loops, NEW x \in LoopState, Become(l, x), Placed(x), tip' = tip,
         TablesOK', initialized' \in BOOLEAN, faults' \in Nat, lost' \in Nat,
         dropped' \in [Heights -> SUBSET Parts], left' \subseteq Tokens
  PROVE  TypeOK'
<1>1. /\ loops' \in [Loops -> LoopState] /\ loops'[l] = x
      /\ \A m \in Loops \ {l} : loops'[m] = loops[m]
  BY Moved
<1>2. \A m \in Loops : Placed(loops'[m])
  BY <1>1 DEF TypeOK
<1>3. \A m \in Loops : Placed(loops[m])'
  BY <1>2 DEF Placed
<1> QED
  BY <1>1, <1>3 DEF TypeOK

\* Growing tables leave the promises of a loop that does not move intact.
LEMMA UnmovedLoop ==
  ASSUME Inv, TypeOK', Grows, NEW l \in Loops, loops'[l] = loops[l]
  PROVE  Behind(l)' /\ Written(l)'
<1>1. Behind(l)'
  BY Stays DEF Inv, Behind
<1>2. ASSUME loops[l].pc \in Fetched PROVE Written(l)'
  <2> DEFINE n == loops[l].next
  <2>1. n \in Heights /\ TypeOK
    BY <1>2 DEF Inv, TypeOK, Placed, Fetched
  <2>2. /\ Owed(n)' \subseteq Owed(n)
        /\ HasEvents(n) => HasEvents(n)'
        /\ HasUtxos(n) => HasUtxos(n)'
        /\ HasBalances(n) => HasBalances(n)'
        /\ HasTrades(n) => HasTrades(n)'
    BY <2>1, Stays
  <2>3. Written(l) /\ n' = n
    BY DEF Inv
  <2> QED
    BY <2>2, <2>3 DEF Written
<1>3. ASSUME loops[l].pc \notin Fetched PROVE Written(l)'
  BY <1>3 DEF Written, Fetched, EventsWritten, UtxosWritten, BalancesWritten
<1> QED
  BY <1>1, <1>2, <1>3

\* As long as the position stays, there is no new gap.
LEMMA PositionStays ==
  ASSUME Inv, TypeOK', Grows, position' = position
  PROVE  NoGap'
<1> SUFFICES ASSUME NEW h \in Heights, h <= position PROVE Indexed(h)'
  BY DEF NoGap
<1>1. Indexed(h)
  BY DEF Inv, NoGap
<1> QED
  BY <1>1, Stays DEF Inv

\* A step of one loop preserves the invariant when that loop keeps its promises.
LEMMA LoopStep ==
  ASSUME Inv, TypeOK', Grows, NoGap', NEW l \in Loops,
         \A m \in Loops \ {l} : loops'[m] = loops[m],
         Behind(l)', Written(l)'
  PROVE  Inv'
<1>1. ASSUME NEW m \in Loops PROVE Behind(m)' /\ Written(m)'
  BY UnmovedLoop
<1> QED
  BY <1>1 DEF Inv

\* A step of a loop inside its block.
LEMMA BlockStep ==
  ASSUME Inv, TypeOK', Grows, NEW l \in Loops, NEW x \in LoopState, Become(l, x),
         Inside(l), x.next = loops[l].next, position' = position, Written(l)'
  PROVE  Inv'
<1>1. /\ loops' \in [Loops -> LoopState] /\ loops'[l] = x
      /\ \A m \in Loops \ {l} : loops'[m] = loops[m]
  BY Moved DEF Inv
<1>2. Behind(l)'
  BY <1>1, Stays DEF Inv, Behind, Inside
<1>3. NoGap'
  BY PositionStays
<1> QED
  BY <1>1, <1>2, <1>3, LoopStep

\* A loop that gives up has nothing to promise.
LEMMA GiveUpKeeps ==
  ASSUME Inv, NEW l \in Loops, GiveUp(l), UNCHANGED <<tip, tables, dropped>>,
         initialized' \in BOOLEAN, faults' \in Nat, lost' \in Nat, left' \subseteq Tokens
  PROVE  Inv'
<1>1. Idle \in LoopState /\ Idle.pc = "position" /\ Placed(Idle) /\ Become(l, Idle)
  BY DEF Idle, LoopState, Parts, Placed, GiveUp
<1>2. Grows /\ TablesOK'
  BY TablesStay DEF Inv
<1>3. TypeOK'
  BY <1>1, <1>2, TypeStep DEF Inv, TypeOK
<1>4. NoGap'
  BY <1>2, <1>3, PositionStays DEF tables
<1>5. /\ loops'[l] = Idle
      /\ \A m \in Loops \ {l} : loops'[m] = loops[m]
  BY <1>1, Moved DEF Inv
<1>6. Behind(l)' /\ Written(l)'
  BY <1>1, <1>5 DEF Behind, Written, Fetched, EventsWritten, UtxosWritten, BalancesWritten
<1> QED
  BY <1>2, <1>3, <1>4, <1>5, <1>6, LoopStep

-----------------------------------------------------------------------------
(* Every step preserves the invariant. *)

\* What changing fields of a loop's record leaves of it.
LEMMA ChangeNext ==
  ASSUME NEW y \in LoopState, NEW pc \in {"tip", "fetch"}, NEW n \in Nat, NEW u \in Nat,
         NEW f \in SUBSET Parts
  PROVE  LET x == [y EXCEPT !.pc = pc, !.next = n, !.upTo = u, !.found = f]
         IN  /\ x \in LoopState /\ x.pc = pc /\ x.next = n /\ x.upTo = u /\ x.found = f
             /\ x.todo = y.todo /\ x.token = y.token
  BY DEF LoopState

\* Everything below a height that is read from the position is indexed.
LEMMA ReadPositionKeeps ==
  ASSUME Inv, NEW l \in Loops, ReadPosition(l)
  PROVE  Inv'
<1> DEFINE n == IF position = 0 THEN StartHeight ELSE position + 1
           x == [loops[l] EXCEPT !.pc = "tip", !.next = n]
<1>1. /\ position \in Heights \cup {0} /\ StartHeight \in Nat /\ MaxHeight \in Nat
      /\ loops[l] \in LoopState /\ loops[l].pc = "position" /\ Placed(loops[l]) /\ TypeOK
  BY IndexerAssumption DEF Inv, TypeOK, TablesOK, ReadPosition, At
<1>2. n \in Nat /\ n >= StartHeight
  BY <1>1 DEF Heights
<1>3. /\ x \in LoopState /\ x.pc = "tip" /\ x.next = n /\ x.token = loops[l].token
      /\ x.todo = loops[l].todo
  BY <1>1, <1>2 DEF LoopState
<1>4. Placed(x)
  BY <1>1, <1>3 DEF Placed
<1>5. \A h \in Heights : h < n => Indexed(h)
  <2> TAKE h \in Heights
  <2>1. h < n => h <= position
    BY <1>1 DEF Heights
  <2> QED
    BY <2>1 DEF Inv, NoGap
<1>6. /\ Become(l, x)
      /\ UNCHANGED <<tip, tables, initialized, faults, lost, dropped, left>>
  BY DEF ReadPosition
<1> HIDE DEF x, n
<1>7. Grows /\ TablesOK'
  BY <1>1, <1>6, TablesStay
<1>8. TypeOK'
  BY <1>3, <1>4, <1>6, <1>7, TypeStep DEF Inv, TypeOK
<1>9. NoGap'
  BY <1>6, <1>7, <1>8, PositionStays DEF tables
<1>10. loops'[l] = x /\ \A m \in Loops \ {l} : loops'[m] = loops[m]
  BY <1>1, <1>3, <1>6, Moved
<1>11. \A h \in Heights : Indexed(h) => Indexed(h)'
  BY <1>1, <1>7, <1>8, Stays
<1>12. Behind(l)'
  BY <1>2, <1>3, <1>5, <1>10, <1>11 DEF Behind
<1>13. Written(l)'
  BY <1>3, <1>10 DEF Written, Fetched, EventsWritten, UtxosWritten, BalancesWritten
<1> QED
  BY <1>7, <1>8, <1>9, <1>10, <1>12, <1>13, LoopStep

\* The tip a loop reads bounds its pass; a pass without a new block ends.
LEMMA ReadTipKeeps ==
  ASSUME Inv, NEW l \in Loops, ReadTip(l)
  PROVE  Inv'
<1>1. /\ UNCHANGED <<tip, tables, faults, lost, dropped, left>> /\ initialized' \in BOOLEAN
      /\ faults' \in Nat /\ lost' \in Nat /\ left' \subseteq Tokens /\ TypeOK
  BY DEF ReadTip, Inv, TypeOK
<1>2. CASE tip # 0 /\ loops[l].next <= tip
  <2> DEFINE x == [loops[l] EXCEPT !.pc = "fetch", !.upTo = tip]
  <2>1. /\ loops[l] \in LoopState /\ tip \in Nat /\ tip <= MaxHeight /\ Placed(loops[l])
        /\ Behind(l) /\ loops[l].pc = "tip"
    BY DEF Inv, TypeOK, ReadTip, At
  <2>2. /\ x \in LoopState /\ x.pc = "fetch" /\ x.next = loops[l].next /\ x.upTo = tip
        /\ x.todo = loops[l].todo /\ x.token = loops[l].token
    BY <2>1 DEF LoopState
  <2>3. x.next \in Heights /\ x.next <= x.upTo
    BY <2>1, <2>2, <1>2, IndexerAssumption DEF Behind, Heights, LoopState
  <2>4. Become(l, x)
    BY <1>2 DEF ReadTip
  <2> HIDE DEF x
  <2>5. Placed(x)
    BY <2>1, <2>2, <2>3 DEF Placed
  <2>6. Grows /\ TablesOK'
    BY <1>1, TablesStay
  <2>7. TypeOK'
    BY <1>1, <2>2, <2>4, <2>5, <2>6, TypeStep DEF TypeOK
  <2>8. NoGap'
    BY <1>1, <2>6, <2>7, PositionStays DEF tables
  <2>9. loops'[l] = x /\ \A m \in Loops \ {l} : loops'[m] = loops[m]
    BY <1>1, <2>2, <2>4, Moved
  <2>10. \A h \in Heights : Indexed(h) => Indexed(h)'
    BY <1>1, <2>6, <2>7, Stays
  <2>11. Behind(l)'
    BY <2>1, <2>2, <2>9, <2>10 DEF Behind
  <2>12. Written(l)'
    BY <2>2, <2>9 DEF Written, Fetched, EventsWritten, UtxosWritten, BalancesWritten
  <2> QED
    BY <2>6, <2>7, <2>8, <2>9, <2>11, <2>12, LoopStep
<1>3. CASE ~(tip # 0 /\ loops[l].next <= tip)
  BY <1>1, <1>3, GiveUpKeeps DEF ReadTip
<1> QED
  BY <1>2, <1>3

\* Where a loop inside its block is.
LEMMA InBlock ==
  ASSUME Inv, NEW l \in Loops, Inside(l)
  PROVE  /\ TypeOK /\ loops[l] \in LoopState /\ Placed(loops[l])
         /\ loops[l].next \in Heights /\ Content[loops[l].next] \subseteq Parts
         /\ loops[l].next <= loops[l].upTo /\ loops[l].upTo <= tip
         /\ loops[l].found \subseteq Parts
         /\ Owed(loops[l].next) \subseteq Content[loops[l].next]
<1>1. TypeOK /\ loops[l] \in LoopState /\ Placed(loops[l]) /\ loops[l].next \in Heights
  BY DEF Inv, TypeOK, Placed, Inside
<1>2. loops[l].next <= loops[l].upTo /\ loops[l].upTo <= tip /\ loops[l].found \subseteq Parts
  BY <1>1 DEF Placed, Inside, LoopState
<1> QED
  BY <1>1, <1>2, IndexerAssumption DEF Owed

\* What a logged error leaves out is no longer owed.
LEMMA Swallowed ==
  ASSUME TypeOK, NEW h \in Heights, NEW missing \in SUBSET Parts, Swallow(h, missing)
  PROVE  /\ faults' \in Nat /\ dropped' \in [Heights -> SUBSET Parts]
         /\ \A k \in Heights : dropped[k] \subseteq dropped'[k]
         /\ missing \subseteq dropped'[h]
  BY DEF Swallow, TypeOK

\* A loop that has fetched its block holds what is owed of it.
LEMMA FetchBlockKeeps ==
  ASSUME Inv, NEW l \in Loops, FetchBlock(l)
  PROVE  Inv'
<1>1. Inside(l) /\ loops[l].pc = "fetch"
  BY DEF FetchBlock, At, Inside
<1> PICK h \in Heights : h = loops[l].next
  BY <1>1, InBlock
<1>2. /\ TypeOK /\ loops[l] \in LoopState /\ Placed(loops[l]) /\ h \in Heights
      /\ Content[h] \subseteq Parts
  BY <1>1, InBlock
<1>3. PICK found \in SUBSET Content[h] :
        /\ Swallow(h, Content[h] \ found)
        /\ Become(l, [loops[l] EXCEPT !.found = found,
                        !.pc = IF Content[h] = {} THEN "commit" ELSE "events"])
  BY DEF FetchBlock
<1> DEFINE x == [loops[l] EXCEPT !.found = found,
                   !.pc = IF Content[h] = {} THEN "commit" ELSE "events"]
<1>4. UNCHANGED <<tip, tables, initialized, lost, left>>
  BY DEF FetchBlock
<1>5. /\ x \in LoopState /\ x.found = found /\ x.next = h /\ x.upTo = loops[l].upTo
      /\ x.todo = loops[l].todo /\ x.token = loops[l].token
      /\ x.pc = IF Content[h] = {} THEN "commit" ELSE "events"
  BY <1>2 DEF LoopState
<1>6. Become(l, x)
  BY <1>3
<1> HIDE DEF x
<1>7. Placed(x)
  BY <1>1, <1>2, <1>5 DEF Placed
<1>8. /\ faults' \in Nat /\ dropped' \in [Heights -> SUBSET Parts]
      /\ \A k \in Heights : dropped[k] \subseteq dropped'[k]
      /\ Content[h] \ found \subseteq dropped'[h]
  BY <1>2, <1>3, Swallowed
<1>9. Grows /\ TablesOK'
  BY <1>2, <1>4, <1>8, TablesStay
<1>10. TypeOK'
  BY <1>2, <1>4, <1>5, <1>6, <1>7, <1>8, <1>9, TypeStep DEF TypeOK
<1>11. loops'[l] = x
  BY <1>2, <1>5, <1>6, Moved
<1>12. Owed(h)' \subseteq found
  BY <1>8 DEF Owed
<1>13. Written(l)'
  <2>1. CASE Content[h] = {}
    <3>1. Owed(h)' = {} /\ loops'[l].pc = "commit" /\ loops'[l].next = h
      BY <1>5, <1>11, <2>1 DEF Owed
    <3>2. Written(l)' <=> /\ (loops'[l].pc \in Fetched => Owed(h)' \subseteq loops'[l].found)
                         /\ (loops'[l].pc \in EventsWritten => HasEvents(h)')
                         /\ (loops'[l].pc \in UtxosWritten => HasUtxos(h)')
                         /\ (loops'[l].pc \in BalancesWritten => HasBalances(h)')
                         /\ (loops'[l].pc = "commit" => HasTrades(h)')
      BY <3>1 DEF Written
    <3>3. HasEvents(h)' /\ HasUtxos(h)' /\ HasBalances(h)' /\ HasTrades(h)'
      BY <3>1 DEF HasEvents, HasUtxos, HasBalances, HasTrades
    <3> QED
      BY <3>1, <3>2, <3>3
  <2>2. CASE Content[h] # {}
    <3>1. loops'[l].pc = "events" /\ loops'[l].next = h /\ loops'[l].found = found
      BY <1>5, <1>11, <2>2
    <3> QED
      BY <3>1, <1>12 DEF Written, Fetched, EventsWritten, UtxosWritten, BalancesWritten
  <2> QED
    BY <2>1, <2>2
<1> QED
  BY <1>1, <1>4, <1>5, <1>6, <1>9, <1>10, <1>13, BlockStep DEF tables

\* A block without transactions is recorded as it is: nothing is owed of it.
LEMMA FetchNothingKeeps ==
  ASSUME Inv, NEW l \in Loops, FetchNothing(l)
  PROVE  Inv'
<1> DEFINE x == [loops[l] EXCEPT !.pc = "commit"]
<1>1. Inside(l) /\ loops[l].pc = "fetch"
  BY DEF FetchNothing, At, Inside
<1> PICK h \in Heights : h = loops[l].next
  BY <1>1, InBlock
<1>2. /\ TypeOK /\ loops[l] \in LoopState /\ Placed(loops[l]) /\ Content[h] \subseteq Parts
  BY <1>1, InBlock
<1>3. /\ UNCHANGED <<tip, tables, initialized, lost, left>>
      /\ Swallow(h, Content[h]) /\ Become(l, x)
  BY DEF FetchNothing, Goto
<1>4. /\ x \in LoopState /\ x.pc = "commit" /\ x.next = h /\ x.upTo = loops[l].upTo
      /\ x.todo = loops[l].todo /\ x.token = loops[l].token
  BY <1>2 DEF LoopState
<1> HIDE DEF x
<1>5. Placed(x)
  BY <1>1, <1>2, <1>4 DEF Placed
<1>6. /\ faults' \in Nat /\ dropped' \in [Heights -> SUBSET Parts]
      /\ \A k \in Heights : dropped[k] \subseteq dropped'[k]
      /\ Content[h] \subseteq dropped'[h]
  BY <1>2, <1>3, Swallowed
<1>7. Grows /\ TablesOK'
  BY <1>2, <1>3, <1>6, TablesStay
<1>8. TypeOK'
  BY <1>2, <1>3, <1>4, <1>5, <1>6, <1>7, TypeStep DEF TypeOK
<1>9. loops'[l] = x
  BY <1>2, <1>3, <1>4, Moved
<1>10. Owed(h)' = {}
  BY <1>6 DEF Owed
<1>11. HasEvents(h)' /\ HasUtxos(h)' /\ HasBalances(h)' /\ HasTrades(h)'
  BY <1>10 DEF HasEvents, HasUtxos, HasBalances, HasTrades
<1>12. Written(l)'
  BY <1>4, <1>9, <1>10, <1>11 DEF Written
<1> QED
  BY <1>1, <1>3, <1>4, <1>7, <1>8, <1>12, BlockStep DEF tables

\* The places a loop goes on to when its block has no balances, or no trades.
LEMMA After ==
  ASSUME NEW found \in SUBSET Parts
  PROVE  /\ AfterEvents(found) \in {"utxos", "trades", "commit"}
         /\ AfterBalances(found) \in {"trades", "commit"}
         /\ AfterEvents(found) = "utxos" <=> found \cap Tokens # {}
         /\ AfterEvents(found) = "commit" => Trades \notin found
         /\ AfterBalances(found) = "commit" => Trades \notin found
  BY DEF AfterEvents, AfterBalances

\* The events of a height are replaced, by all that is owed of them.
LEMMA WriteEventsKeeps ==
  ASSUME Inv, NEW l \in Loops, WriteEvents(l)
  PROVE  Inv'
<1>1. Inside(l) /\ loops[l].pc = "events"
  BY DEF WriteEvents, At, Inside
<1> PICK h \in Heights : h = loops[l].next
  BY <1>1, InBlock
<1> PICK traced \in SUBSET Parts : traced = loops[l].found
  BY <1>1, InBlock
<1>2. /\ TypeOK /\ loops[l] \in LoopState /\ Placed(loops[l])
      /\ Owed(h) \subseteq traced
  BY <1>1, InBlock DEF Inv, Written, Fetched
<1>3. PICK kept \in SUBSET events[h], found \in SUBSET traced :
        /\ events' = [events EXCEPT ![h] = kept \cup traced]
        /\ Swallow(h, traced \ found)
        /\ Become(l, [loops[l] EXCEPT !.found = found, !.pc = AfterEvents(found)])
  BY DEF WriteEvents
<1> DEFINE x == [loops[l] EXCEPT !.found = found, !.pc = AfterEvents(found)]
<1>4. UNCHANGED <<tip, position, processed, utxos, balances, listed, holders, holderCount,
                  trades, initialized, lost, left>>
  BY DEF WriteEvents
<1>5. /\ AfterEvents(found) \in {"utxos", "trades", "commit"}
      /\ AfterEvents(found) = "utxos" <=> found \cap Tokens # {}
      /\ AfterEvents(found) = "commit" => Trades \notin found
  BY After
<1>6. /\ x \in LoopState /\ x.found = found /\ x.next = h /\ x.upTo = loops[l].upTo
      /\ x.todo = loops[l].todo /\ x.token = loops[l].token /\ x.pc = AfterEvents(found)
  BY <1>2, <1>5 DEF LoopState
<1>7. Become(l, x)
  BY <1>3
<1> HIDE DEF x
<1>8. Placed(x)
  BY <1>1, <1>2, <1>5, <1>6 DEF Placed
<1>9. /\ faults' \in Nat /\ dropped' \in [Heights -> SUBSET Parts]
      /\ \A k \in Heights : dropped[k] \subseteq dropped'[k]
      /\ traced \ found \subseteq dropped'[h]
  BY <1>2, <1>3, Swallowed
<1>10. Owed(h)' \subseteq found
  BY <1>2, <1>9 DEF Owed
<1>11. /\ events \in [Heights -> SUBSET Parts] /\ events' \in [Heights -> SUBSET Parts]
       /\ \A k \in Heights \ {h} : events'[k] = events[k]
       /\ traced \subseteq events'[h]
  BY <1>2, <1>3 DEF TypeOK, TablesOK
<1>12. \A k \in Heights : HasEvents(k) => HasEvents(k)'
  <2> TAKE k \in Heights
  <2>1. CASE k = h
    BY <1>10, <1>11, <2>1 DEF HasEvents
  <2>2. CASE k # h
    BY <1>9, <1>11, <2>2 DEF HasEvents, Owed
  <2> QED
    BY <2>1, <2>2
<1>13. Grows
  <2>1. \A k \in Heights : trades[k] \in Nat /\ \A t \in Tokens : balances[t][k] \in Nat
    BY <1>2 DEF TypeOK, TablesOK, Sums
  <2>2. \A k \in Heights : trades'[k] >= trades[k] /\ \A t \in Tokens : balances'[t][k] >= balances[t][k]
    BY <1>4, <2>1
  <2> QED
    BY <1>4, <1>9, <1>12, <2>2 DEF Grows
<1>14. TablesOK'
  BY <1>2, <1>4, <1>11 DEF TypeOK, TablesOK
<1>15. TypeOK'
  BY <1>2, <1>4, <1>6, <1>7, <1>8, <1>9, <1>14, TypeStep DEF TypeOK
<1>16. loops'[l] = x
  BY <1>2, <1>6, <1>7, Moved
<1>17. Written(l)'
  <2>1. HasEvents(h)'
    BY <1>10, <1>11 DEF HasEvents
  <2>2. x.pc # "utxos" => HasUtxos(h)' /\ HasBalances(h)'
    BY <1>5, <1>6, <1>10 DEF HasUtxos, HasBalances
  <2>3. x.pc = "commit" => HasTrades(h)'
    BY <1>5, <1>6, <1>10 DEF HasTrades
  <2> QED
    BY <1>5, <1>6, <1>10, <1>16, <2>1, <2>2, <2>3
    DEF Written, Fetched, EventsWritten, UtxosWritten, BalancesWritten
<1> QED
  BY <1>1, <1>4, <1>6, <1>7, <1>13, <1>15, <1>17, BlockStep

\* A step of a block that writes to one of the other tables.
Records ==
  UNCHANGED <<tip, position, processed, events, initialized, faults, lost, dropped>>
Adds ==
  \A h \in Heights :
    /\ utxos[h] \subseteq utxos'[h] /\ trades'[h] >= trades[h]
    /\ \A t \in Tokens : balances'[t][h] >= balances[t][h]

LEMMA WriteStep ==
  ASSUME Inv, NEW l \in Loops, NEW x \in LoopState, Become(l, x), Placed(x), Inside(l),
         x.next = loops[l].next, Records, Adds, TablesOK', left' \subseteq Tokens,
         Written(l)'
  PROVE  Inv'
<1>1. Grows
  <2>1. \A h \in Heights : HasEvents(h) => HasEvents(h)'
    BY DEF Records, HasEvents, Owed
  <2> QED
    BY <2>1 DEF Records, Adds, Grows
<1>2. TypeOK'
  BY TypeStep DEF Inv, TypeOK, Records
<1> QED
  BY <1>1, <1>2, BlockStep DEF Records

\* The types of the tables.
LEMMA Tables ==
  ASSUME Inv
  PROVE  /\ balances \in [Tokens -> [Heights -> Nat]] /\ holders \in [Tokens -> [Heights -> Nat]]
         /\ holderCount \in [Tokens -> [Heights -> Nat]] /\ trades \in [Heights -> Nat]
         /\ utxos \in [Heights -> SUBSET Tokens] /\ listed \subseteq Tokens
         /\ left \subseteq Tokens
  BY DEF Inv, TypeOK, TablesOK, Sums

\* Tables that a step leaves alone do not shrink.
LEMMA NoneAdded ==
  ASSUME Inv, UNCHANGED <<utxos, balances, trades>>
  PROVE  Adds
  BY Tables DEF Adds

\* The rows of a block are there from the moment its loop goes on to the balances.
LEMMA WriteUtxosKeeps ==
  ASSUME Inv, NEW l \in Loops, WriteUtxos(l)
  PROVE  Inv'
<1> DEFINE x == [loops[l] EXCEPT !.pc = "balances"]
<1>1. Inside(l) /\ loops[l].pc = "utxos"
  BY DEF WriteUtxos, At, Inside
<1> PICK h \in Heights : h = loops[l].next
  BY <1>1, InBlock
<1>2. /\ loops[l] \in LoopState /\ Placed(loops[l]) /\ loops[l].found \subseteq Parts
      /\ Owed(h) \subseteq loops[l].found /\ HasEvents(h)
  BY <1>1, InBlock DEF Inv, Written, Fetched, EventsWritten
<1>3. /\ Become(l, x) /\ Records /\ left' = left
      /\ UNCHANGED <<balances, listed, holders, holderCount, trades>>
      /\ utxos' = [utxos EXCEPT ![h] = @ \cup (loops[l].found \cap Tokens)]
  BY DEF WriteUtxos, Goto, Records
<1>4. /\ x \in LoopState /\ x.pc = "balances" /\ x.next = h /\ x.upTo = loops[l].upTo
      /\ x.todo = loops[l].todo /\ x.token = loops[l].token /\ x.found = loops[l].found
  BY <1>2 DEF LoopState
<1> HIDE DEF x
<1>5. Placed(x)
  BY <1>1, <1>2, <1>4 DEF Placed
<1>6. /\ utxos' \in [Heights -> SUBSET Tokens] /\ loops[l].found \cap Tokens \subseteq utxos'[h]
      /\ \A k \in Heights : utxos[k] \subseteq utxos'[k]
  BY <1>3, Tables
<1>7. Adds
  BY <1>3, <1>6, Tables DEF Adds
<1>8. TablesOK'
  BY <1>3, <1>6 DEF Inv, TypeOK, TablesOK, Records
<1>9. loops'[l] = x
  BY <1>3, <1>4, Moved DEF Inv
<1>10. Owed(h)' = Owed(h) /\ HasEvents(h)'
  BY <1>2, <1>3 DEF Owed, HasEvents, Records
<1>11. HasUtxos(h)'
  BY <1>2, <1>6, <1>10 DEF HasUtxos
<1>12. Written(l)'
  BY <1>2, <1>4, <1>9, <1>10, <1>11
  DEF Written, Fetched, EventsWritten, UtxosWritten, BalancesWritten
<1> QED
  BY <1>1, <1>3, <1>4, <1>5, <1>7, <1>8, <1>12, Tables, WriteStep

\* What adding a block does to the balances.
LEMMA AddedUp ==
  ASSUME Inv, NEW ts \in SUBSET Tokens, NEW h \in Heights, balances' = Added(ts, h)
  PROVE  /\ balances' \in [Tokens -> Sums]
         /\ \A t \in Tokens, k \in Heights : balances'[t][k] >= balances[t][k]
         /\ \A t \in ts : balances'[t][h] > 0
         /\ \A t \in Tokens \ ts : balances'[t] = balances[t]
<1>1. \A t \in Tokens : balances[t] \in [Heights -> Nat]
  BY Tables
<1>2. ASSUME NEW t \in Tokens
      PROVE  /\ balances'[t] \in [Heights -> Nat]
             /\ \A k \in Heights : balances'[t][k] >= balances[t][k]
             /\ t \in ts => balances'[t][h] > 0
             /\ t \notin ts => balances'[t] = balances[t]
  <2>1. CASE t \in ts
    <3>1. balances'[t] = [balances[t] EXCEPT ![h] = @ + 1]
      BY <2>1 DEF Added
    <3>2. balances[t] \in [Heights -> Nat]
      BY <1>1
    <3> QED
      BY <2>1, <3>1, <3>2
  <2>2. CASE t \notin ts
    BY <1>1, <2>2 DEF Added
  <2> QED
    BY <2>1, <2>2
<1>3. DOMAIN balances' = Tokens /\ balances' = [t \in Tokens |-> balances'[t]]
  BY DEF Added
<1>4. balances' \in [Tokens -> [Heights -> Nat]]
  BY <1>2, <1>3
<1> QED
  BY <1>2, <1>4 DEF Sums

\* Adding to the balances only makes them grow, whoever else processes the height.
LEMMA AddBalancesKeeps ==
  ASSUME Inv, NEW l \in Loops, AddBalances(l)
  PROVE  Inv'
<1>1. Inside(l) /\ loops[l].pc = "balances"
  BY DEF AddBalances, At, Inside
<1> PICK h \in Heights : h = loops[l].next
  BY <1>1, InBlock
<1> PICK ts \in SUBSET Tokens : ts = loops[l].found \cap Tokens
  OBVIOUS
<1> DEFINE x == [loops[l] EXCEPT !.pc = "delete", !.todo = ts]
<1>2. /\ loops[l] \in LoopState /\ Placed(loops[l]) /\ Owed(h) \subseteq loops[l].found
      /\ HasEvents(h) /\ HasUtxos(h)
  BY <1>1, InBlock DEF Inv, Written, Fetched, EventsWritten, UtxosWritten
<1>3. /\ Become(l, x) /\ Records /\ left' = left
      /\ UNCHANGED <<utxos, listed, holders, holderCount, trades>>
      /\ balances' = Added(ts, h)
  BY DEF AddBalances, Records
<1>4. /\ x \in LoopState /\ x.pc = "delete" /\ x.next = h /\ x.upTo = loops[l].upTo
      /\ x.todo = ts /\ x.token = loops[l].token /\ x.found = loops[l].found
  BY <1>2 DEF LoopState
<1> HIDE DEF x
<1>5. ts # {}
  BY <1>1, <1>2 DEF Placed
<1>6. Placed(x)
  BY <1>1, <1>2, <1>4, <1>5 DEF Placed
<1>7. /\ balances' \in [Tokens -> Sums]
      /\ \A t \in Tokens, k \in Heights : balances'[t][k] >= balances[t][k]
      /\ \A t \in ts : balances'[t][h] > 0
  BY <1>3, AddedUp
<1>8. Adds
  <2>1. \A k \in Heights : utxos[k] \subseteq utxos'[k] /\ trades'[k] >= trades[k]
    BY <1>3, Tables
  <2> QED
    BY <1>7, <2>1 DEF Adds
<1>9. TablesOK'
  BY <1>3, <1>7 DEF Inv, TypeOK, TablesOK, Records
<1>10. loops'[l] = x
  BY <1>3, <1>4, Moved DEF Inv
<1>11. Owed(h)' = Owed(h) /\ HasEvents(h)' /\ HasUtxos(h)'
  BY <1>2, <1>3 DEF Owed, HasEvents, HasUtxos, Records
<1>12. HasBalances(h)'
  BY <1>2, <1>7, <1>11 DEF HasBalances
<1>13. Written(l)'
  BY <1>2, <1>4, <1>10, <1>11, <1>12
  DEF Written, Fetched, EventsWritten, UtxosWritten, BalancesWritten
<1> QED
  BY <1>1, <1>3, <1>4, <1>6, <1>8, <1>9, <1>13, Tables, WriteStep

\* The three statements of refresh_holders, for one token.
LEMMA DeleteKeeps ==
  ASSUME Inv, NEW l \in Loops, DeleteHolders(l)
  PROVE  Inv'
<1>1. Inside(l) /\ loops[l].pc = "delete"
  BY DEF DeleteHolders, At, Inside
<1>2. PICK t \in loops[l].todo :
        /\ listed' = listed \ {t}
        /\ holders' = [holders EXCEPT ![t] = Nothing]
        /\ Become(l, [loops[l] EXCEPT !.pc = "insert", !.token = t])
  BY DEF DeleteHolders
<1> DEFINE x == [loops[l] EXCEPT !.pc = "insert", !.token = t]
<1>3. /\ loops[l] \in LoopState /\ Placed(loops[l]) /\ t \in Tokens
  BY <1>1, InBlock DEF LoopState
<1>4. /\ Records /\ left' = left /\ UNCHANGED <<utxos, balances, holderCount, trades>>
  BY DEF DeleteHolders, Records
<1>5. /\ x \in LoopState /\ x.pc = "insert" /\ x.next = loops[l].next /\ x.upTo = loops[l].upTo
      /\ x.todo = loops[l].todo /\ x.token = t /\ x.found = loops[l].found
  BY <1>3 DEF LoopState, Parts
<1>6. Become(l, x)
  BY <1>2
<1> HIDE DEF x
<1>7. Placed(x)
  BY <1>1, <1>3, <1>5 DEF Placed
<1>8. Adds
  BY <1>4, NoneAdded
<1>9. Nothing \in Sums
  BY DEF Nothing, Sums
<1>10. TablesOK'
  BY <1>2, <1>3, <1>4, <1>9 DEF Inv, TypeOK, TablesOK, Records
<1>11. Written(l)'
  BY <1>1, <1>4, <1>5, <1>6, Moved
  DEF Inv, Written, Fetched, EventsWritten, UtxosWritten, BalancesWritten, Records, Owed,
      HasEvents, HasUtxos, HasBalances
<1> QED
  BY <1>1, <1>4, <1>5, <1>6, <1>7, <1>8, <1>10, <1>11, Tables, WriteStep

LEMMA InsertKeeps ==
  ASSUME Inv, NEW l \in Loops, InsertHolders(l)
  PROVE  Inv'
<1> DEFINE t == loops[l].token
           x == [loops[l] EXCEPT !.pc = "count"]
<1>1. Inside(l) /\ loops[l].pc = "insert"
  BY DEF InsertHolders, At, Inside
<1>2. /\ Become(l, x) /\ listed' = listed \cup {t} /\ left' = left \ {t}
      /\ holders' = [holders EXCEPT ![t] = balances[t]]
      /\ Records /\ UNCHANGED <<utxos, balances, holderCount, trades>>
  BY DEF InsertHolders, Records, Goto
<1>3. /\ loops[l] \in LoopState /\ Placed(loops[l]) /\ t \in Tokens
  BY <1>1, InBlock DEF LoopState, Placed
<1>4. /\ x \in LoopState /\ x.pc = "count" /\ x.next = loops[l].next /\ x.upTo = loops[l].upTo
      /\ x.todo = loops[l].todo /\ x.token = t /\ x.found = loops[l].found
  BY <1>3 DEF LoopState
<1> HIDE DEF x
<1>5. Placed(x)
  BY <1>1, <1>3, <1>4 DEF Placed
<1>6. Adds
  BY <1>2, NoneAdded
<1>7. TablesOK'
  BY <1>2, <1>3 DEF Inv, TypeOK, TablesOK, Records
<1>8. Written(l)'
  BY <1>1, <1>2, <1>4, Moved
  DEF Inv, Written, Fetched, EventsWritten, UtxosWritten, BalancesWritten, Records, Owed,
      HasEvents, HasUtxos, HasBalances
<1>9. left' \subseteq Tokens
  BY <1>2, Tables
<1> QED
  BY <1>1, <1>2, <1>4, <1>5, <1>6, <1>7, <1>8, <1>9, WriteStep

LEMMA CountKeeps ==
  ASSUME Inv, NEW l \in Loops, CountHolders(l)
  PROVE  Inv'
<1> DEFINE t == loops[l].token
           rest == loops[l].todo \ {t}
           pc == IF rest # {} THEN "delete" ELSE AfterBalances(loops[l].found)
           x == [loops[l] EXCEPT !.todo = rest, !.token = Trades, !.pc = pc]
<1>1. Inside(l) /\ loops[l].pc = "count"
  BY DEF CountHolders, At, Inside
<1>2. /\ Become(l, x) /\ holderCount' = [holderCount EXCEPT ![t] = holders[t]]
      /\ Records /\ UNCHANGED <<utxos, balances, listed, holders, trades, left>>
  BY DEF CountHolders, Records
<1>3. /\ loops[l] \in LoopState /\ Placed(loops[l]) /\ t \in Tokens
      /\ loops[l].found \subseteq Parts
  BY <1>1, InBlock DEF LoopState, Placed
<1>4. /\ AfterBalances(loops[l].found) \in {"trades", "commit"}
      /\ AfterBalances(loops[l].found) = "commit" => Trades \notin loops[l].found
  BY <1>3, After
<1>5. /\ pc \in {"delete", "trades", "commit"} /\ (pc = "delete" <=> rest # {})
      /\ pc = "commit" => Trades \notin loops[l].found
  BY <1>4
<1>6. /\ x \in LoopState /\ x.pc = pc /\ x.next = loops[l].next /\ x.upTo = loops[l].upTo
      /\ x.todo = rest /\ x.token = Trades /\ x.found = loops[l].found
  BY <1>3, <1>5 DEF LoopState, Parts
<1> HIDE DEF x, pc
<1>7. Placed(x)
  BY <1>1, <1>3, <1>5, <1>6 DEF Placed
<1>8. Adds
  BY <1>2, NoneAdded
<1>9. TablesOK'
  BY <1>2, <1>3 DEF Inv, TypeOK, TablesOK, Records
<1>10. /\ loops'[l] = x /\ Owed(loops[l].next) \subseteq loops[l].found
       /\ HasEvents(loops[l].next) /\ HasUtxos(loops[l].next) /\ HasBalances(loops[l].next)
  BY <1>1, <1>2, <1>6, Moved
  DEF Inv, Written, Fetched, EventsWritten, UtxosWritten, BalancesWritten
<1>11. Written(l)'
  BY <1>2, <1>5, <1>6, <1>10
  DEF Written, Fetched, EventsWritten, UtxosWritten, BalancesWritten, Records, Owed,
      HasEvents, HasUtxos, HasBalances, HasTrades
<1> QED
  BY <1>1, <1>2, <1>6, <1>7, <1>8, <1>9, <1>11, Tables, WriteStep

\* After its trades a block has everything its commit relies on.
LEMMA InsertTradesKeeps ==
  ASSUME Inv, NEW l \in Loops, InsertTrades(l)
  PROVE  Inv'
<1> DEFINE x == [loops[l] EXCEPT !.pc = "commit"]
<1>1. Inside(l) /\ loops[l].pc = "trades"
  BY DEF InsertTrades, At, Inside
<1> PICK h \in Heights : h = loops[l].next
  BY <1>1, InBlock
<1>2. /\ loops[l] \in LoopState /\ Placed(loops[l]) /\ Owed(h) \subseteq loops[l].found
      /\ HasEvents(h) /\ HasUtxos(h) /\ HasBalances(h)
  BY <1>1, InBlock DEF Inv, Written, Fetched, EventsWritten, UtxosWritten, BalancesWritten
<1>3. /\ Become(l, x) /\ Records /\ trades' = [trades EXCEPT ![h] = @ + 1]
      /\ UNCHANGED <<utxos, balances, listed, holders, holderCount, left>>
  BY DEF InsertTrades, Records, Goto
<1>4. /\ x \in LoopState /\ x.pc = "commit" /\ x.next = h /\ x.upTo = loops[l].upTo
      /\ x.todo = loops[l].todo /\ x.token = loops[l].token /\ x.found = loops[l].found
  BY <1>2 DEF LoopState
<1> HIDE DEF x
<1>5. Placed(x)
  BY <1>1, <1>2, <1>4 DEF Placed
<1>6. /\ trades' \in Sums /\ trades'[h] > 0 /\ \A k \in Heights : trades'[k] >= trades[k]
  BY <1>3, Tables DEF Sums
<1>7. Adds
  <2>1. \A t \in Tokens, k \in Heights : balances'[t][k] >= balances[t][k]
    BY <1>3, Tables
  <2> QED
    BY <1>3, <1>6, <2>1 DEF Adds
<1>8. TablesOK'
  BY <1>3, <1>6 DEF Inv, TypeOK, TablesOK, Records
<1>9. loops'[l] = x
  BY <1>3, <1>4, Moved DEF Inv
<1>10. /\ Owed(h)' = Owed(h) /\ HasEvents(h)' /\ HasUtxos(h)' /\ HasBalances(h)' /\ HasTrades(h)'
  BY <1>2, <1>3, <1>6 DEF Owed, HasEvents, HasUtxos, HasBalances, HasTrades, Records
<1>11. Written(l)'
  BY <1>2, <1>4, <1>9, <1>10 DEF Written
<1> QED
  BY <1>1, <1>3, <1>4, <1>5, <1>7, <1>8, <1>11, Tables, WriteStep

\* The block that is committed is indexed; if the position moves back, it moves to
\* a height below which everything is.
LEMMA CommitKeeps ==
  ASSUME Inv, NEW l \in Loops, Commit(l)
  PROVE  Inv'
<1>1. Inside(l) /\ loops[l].pc = "commit"
  BY DEF Commit, At, Inside
<1> PICK h \in Heights : h = loops[l].next
  BY <1>1, InBlock
<1> DEFINE more == h < loops[l].upTo
           y == [loops[l] EXCEPT !.pc = "fetch", !.next = h + 1, !.found = {}]
           x == IF more THEN y ELSE Idle
<1>2. /\ TypeOK /\ loops[l] \in LoopState /\ Placed(loops[l])
      /\ h <= loops[l].upTo /\ loops[l].upTo <= tip /\ tip \in Nat /\ tip <= MaxHeight
      /\ StartHeight \in Nat /\ MaxHeight \in Nat /\ h \in Nat /\ loops[l].upTo \in Nat
      /\ h >= StartHeight
  BY <1>1, InBlock, IndexerAssumption DEF TypeOK, Heights, LoopState
<1>3. /\ processed' = processed \cup {h} /\ position' = h
      /\ UNCHANGED <<tip, events, utxos, balances, listed, holders, holderCount, trades,
                     initialized, faults, lost, dropped, left>>
  BY DEF Commit
<1>4. Become(l, x)
  BY DEF Commit, GiveUp, NextHeight
<1>5. /\ x \in LoopState /\ x.pc \in {"position", "fetch"} /\ Placed(x)
      /\ x.pc = "fetch" => x.next = h + 1
  <2>1. CASE more
    <3>1. x = y
      BY <2>1
    <3>2. h + 1 \in Nat /\ {} \subseteq Parts
      BY <1>2
    <3>3. /\ y \in LoopState /\ y.pc = "fetch" /\ y.next = h + 1 /\ y.upTo = loops[l].upTo
          /\ y.todo = loops[l].todo /\ y.token = loops[l].token
      BY <1>2, <3>2 DEF LoopState
    <3>4. h + 1 \in Heights /\ h + 1 <= loops[l].upTo
      BY <1>2, <2>1 DEF Heights
    <3> HIDE DEF x, y
    <3> QED
      BY <1>1, <1>2, <3>1, <3>3, <3>4 DEF Placed
  <2>2. CASE ~more
    BY <2>2 DEF LoopState, Idle, Parts, Placed
  <2> QED
    BY <2>1, <2>2
<1> HIDE DEF x, more
<1>6. TablesOK'
  BY <1>2, <1>3 DEF TypeOK, TablesOK
<1>7. TypeOK'
  BY <1>2, <1>3, <1>4, <1>5, <1>6, TypeStep DEF TypeOK
<1>8. Grows
  <2>1. \A k \in Heights : HasEvents(k) => HasEvents(k)'
    BY <1>3 DEF HasEvents, Owed
  <2>2. Adds
    BY <1>3, NoneAdded
  <2> QED
    BY <1>3, <2>1, <2>2 DEF Grows, Adds
<1>9. /\ loops'[l] = x
      /\ \A m \in Loops \ {l} : loops'[m] = loops[m]
  BY <1>2, <1>4, <1>5, Moved
<1>10. Indexed(h)'
  <2>1. HasEvents(h) /\ HasUtxos(h) /\ HasBalances(h) /\ HasTrades(h)
    BY <1>1 DEF Inv, Written, EventsWritten, UtxosWritten, BalancesWritten, Fetched
  <2>2. HasEvents(h)' /\ HasUtxos(h)' /\ HasBalances(h)' /\ HasTrades(h)'
    BY <1>2, <1>7, <1>8, <2>1, Stays
  <2> QED
    BY <1>3, <2>2 DEF Indexed
<1>11. \A k \in Heights : k < h => Indexed(k)'
  <2> SUFFICES ASSUME NEW k \in Heights, k < h PROVE Indexed(k)'
    OBVIOUS
  <2>1. Indexed(k)
    BY <1>1 DEF Inv, Behind
  <2> QED
    BY <1>2, <1>7, <1>8, <2>1, Stays
<1>12. \A k \in Heights : k <= h => Indexed(k)'
  BY <1>2, <1>10, <1>11 DEF Heights
<1>13. NoGap'
  BY <1>3, <1>12 DEF NoGap
<1>14. Behind(l)'
  <2>1. ASSUME NEW k \in Heights, k < h + 1 PROVE Indexed(k)'
    BY <1>2, <1>12, <2>1 DEF Heights
  <2> QED
    BY <1>2, <1>5, <1>9, <2>1 DEF Behind
<1>15. Written(l)'
  BY <1>5, <1>9 DEF Written, Fetched, EventsWritten, UtxosWritten, BalancesWritten
<1> QED
  BY <1>7, <1>8, <1>9, <1>13, <1>14, <1>15, LoopStep

\* A new block at the tip.
LEMMA TipGrowsKeeps ==
  ASSUME Inv, TipGrows
  PROVE  Inv'
<1>1. /\ tip' = tip + 1 /\ tip' <= MaxHeight /\ tip \in Nat /\ TypeOK
      /\ UNCHANGED <<tables, initialized, loops, faults, lost, dropped, left>>
  BY IndexerAssumption DEF TipGrows, Inv, TypeOK
<1>2. Grows /\ TablesOK'
  BY <1>1, TablesStay
<1>3. ASSUME NEW m \in Loops PROVE Placed(loops[m])'
  <2>1. loops[m] \in LoopState /\ Placed(loops[m])
    BY <1>1 DEF TypeOK
  <2>2. loops[m].upTo \in Nat /\ loops'[m] = loops[m]
    BY <1>1, <2>1 DEF LoopState
  <2> QED
    BY <1>1, <2>1, <2>2 DEF Placed
<1>4. TypeOK'
  BY <1>1, <1>2, <1>3 DEF TypeOK
<1>5. NoGap'
  BY <1>1, <1>2, <1>4, PositionStays DEF tables
<1>6. ASSUME NEW m \in Loops PROVE Behind(m)' /\ Written(m)'
  BY <1>1, <1>2, <1>4, UnmovedLoop
<1> QED
  BY <1>4, <1>5, <1>6 DEF Inv

\* The tokens a loop has to refresh.
LEMMA TodoTokens ==
  ASSUME Inv, NEW l \in Loops
  PROVE  loops[l].todo \subseteq Tokens
  BY DEF Inv, TypeOK, LoopState

\* A restart loses where the loops are, and nothing the tables hold.
LEMMA RestartKeeps ==
  ASSUME Inv, Restart
  PROVE  Inv'
<1>1. Idle \in LoopState /\ Idle.pc = "position" /\ Placed(Idle)
  BY DEF Idle, LoopState, Parts, Placed
<1>2. /\ loops' = [m \in Loops |-> Idle] /\ initialized' = FALSE /\ faults' = faults + 1
      /\ UNCHANGED <<tip, tables, lost, dropped>>
      /\ left' = left \cup UNION {loops[m].todo : m \in Loops}
  BY DEF Restart
<1>3. Grows /\ TablesOK'
  BY <1>2, TablesStay DEF Inv
<1>4. left' \subseteq Tokens
  BY <1>2, TodoTokens, Tables
<1>5. TypeOK'
  <2>1. \A m \in Loops : Placed(loops[m])'
    BY <1>1, <1>2 DEF Placed
  <2>2. loops' \in [Loops -> LoopState] /\ initialized' \in BOOLEAN
    BY <1>1, <1>2
  <2>3. /\ tip' \in Nat /\ tip' <= MaxHeight /\ faults' \in Nat /\ lost' \in Nat
        /\ dropped' \in [Heights -> SUBSET Parts]
    BY <1>2 DEF Inv, TypeOK
  <2> QED
    BY <1>3, <1>4, <2>1, <2>2, <2>3 DEF TypeOK
<1>6. NoGap'
  BY <1>2, <1>3, <1>5, PositionStays DEF tables
<1>7. ASSUME NEW m \in Loops PROVE Behind(m)' /\ Written(m)'
  BY <1>1, <1>2 DEF Behind, Written, Fetched, EventsWritten, UtxosWritten, BalancesWritten
<1> QED
  BY <1>5, <1>6, <1>7 DEF Inv

\* A pass that ends with a failed insert or a failed step.
LEMMA FailureKeeps ==
  ASSUME Inv, NEW l \in Loops, InsertConflict(l) \/ StepFails(l)
  PROVE  Inv'
<1>1. /\ GiveUp(l) /\ UNCHANGED <<tip, tables, dropped>>
      /\ initialized' \in BOOLEAN /\ faults' \in Nat /\ lost' \in Nat
  BY DEF InsertConflict, StepFails, Inv, TypeOK
<1>2. left' \subseteq Tokens
  BY TodoTokens, Tables DEF InsertConflict, StepFails
<1> QED
  BY <1>1, <1>2, GiveUpKeeps

-----------------------------------------------------------------------------

\* One case for every action.
LEMMA InvNext == Inv /\ [Next]_vars => Inv'
<1> SUFFICES ASSUME Inv, [Next]_vars PROVE Inv'
  OBVIOUS
<1>1. ASSUME NEW l \in Loops, Pass(l) PROVE Inv'
  <2>1. CASE ReadPosition(l)
    BY <2>1, ReadPositionKeeps
  <2>2. CASE ReadTip(l)
    BY <2>2, ReadTipKeeps
  <2>3. CASE FetchBlock(l)
    BY <2>3, FetchBlockKeeps
  <2>4. CASE FetchNothing(l)
    BY <2>4, FetchNothingKeeps
  <2>5. CASE WriteEvents(l)
    BY <2>5, WriteEventsKeeps
  <2>6. CASE WriteUtxos(l)
    BY <2>6, WriteUtxosKeeps
  <2>7. CASE AddBalances(l)
    BY <2>7, AddBalancesKeeps
  <2>8. CASE DeleteHolders(l)
    BY <2>8, DeleteKeeps
  <2>9. CASE InsertHolders(l)
    BY <2>9, InsertKeeps
  <2>10. CASE InsertConflict(l)
    BY <2>10, FailureKeeps
  <2>11. CASE CountHolders(l)
    BY <2>11, CountKeeps
  <2>12. CASE InsertTrades(l)
    BY <2>12, InsertTradesKeeps
  <2>13. CASE Commit(l)
    BY <2>13, CommitKeeps
  <2> QED
    BY <1>1, <2>1, <2>2, <2>3, <2>4, <2>5, <2>6, <2>7, <2>8, <2>9, <2>10, <2>11, <2>12, <2>13
    DEF Pass
<1>2. ASSUME NEW l \in Loops, StepFails(l) PROVE Inv'
  BY <1>2, FailureKeeps
<1>3. CASE UNCHANGED vars
  <2>1. UNCHANGED <<tip, tables, initialized, loops, faults, lost, dropped, left>> /\ TypeOK
    BY <1>3 DEF vars, Inv
  <2>2. Grows /\ TablesOK'
    BY <2>1, TablesStay
  <2>3. TypeOK'
    BY <2>1, <2>2 DEF TypeOK, Placed
  <2>4. NoGap'
    BY <2>1, <2>2, <2>3, PositionStays DEF tables
  <2>5. ASSUME NEW m \in Loops PROVE Behind(m)' /\ Written(m)'
    BY <2>1, <2>2, <2>3, UnmovedLoop
  <2> QED
    BY <2>3, <2>4, <2>5 DEF Inv
<1> QED
  BY <1>1, <1>2, <1>3, TipGrowsKeeps, RestartKeeps DEF Next

\* Both loops keep to their types: the height a loop writes lies between the start
\* height and the tip the loop has read, and it refreshes tokens of its own block.
THEOREM TypeCorrect == Spec => []TypeOK
<1>1. Inv => TypeOK
  BY DEF Inv
<1> QED
  BY InvInit, InvNext, <1>1, PTL DEF Spec

\* Of every height up to the position everything is written but what an error that
\* is only logged has left out, for any interleaving of the two loops and any
\* number of failed blocks and restarts: a height enters the position only through
\* a loop that has seen all heights below recorded and has written all it owes.
THEOREM NoGapEver == Spec => []NoGap
<1>1. Inv => NoGap
  BY DEF Inv
<1> QED
  BY InvInit, InvNext, <1>1, PTL DEF Spec

-----------------------------------------------------------------------------
(* The lists of holders. *)

\* Where a loop is with a token: it has yet to delete its list, it is about to
\* insert it (Inserting), or about to count it.
Waiting(l, t) == t \in loops[l].todo /\ loops[l].token # t
Counting(l, t) == At(l, "count") /\ loops[l].token = t

\* Rows that are listed are those of the balances unless a loop is about to delete
\* them, and are counted unless a loop is about to count or to delete them. Without
\* rows a loop is about to insert some, or no balance was ever added.
HoldersInv(t) ==
  /\ t \notin listed => holders[t] = Nothing
  /\ t \notin left /\ (\A l \in Loops : ~Waiting(l, t)) =>
       /\ t \in listed => holders[t] = balances[t]
       /\ t \in listed /\ (\A l \in Loops : ~Counting(l, t)) => holderCount[t] = holders[t]
       /\ t \notin listed /\ (\A l \in Loops : ~Inserting(l, t)) =>
            balances[t] = Nothing /\ holderCount[t] = Nothing

\* The lists of a token that a step does not touch, and that is not given up.
LEMMA HoldersAside ==
  ASSUME NEW t \in Tokens, HoldersInv(t),
         balances'[t] = balances[t], holders'[t] = holders[t],
         holderCount'[t] = holderCount[t], t \in listed' <=> t \in listed,
         t \notin left' => t \notin left,
         t \notin left' =>
           \A l \in Loops : /\ Waiting(l, t) => Waiting(l, t)'
                            /\ Counting(l, t) => Counting(l, t)'
                            /\ Inserting(l, t) => Inserting(l, t)'
  PROVE  HoldersInv(t)'
<1>1. t' = t /\ Nothing' = Nothing
  BY DEF Nothing
<1> QED
  BY <1>1 DEF HoldersInv

\* The tokens a loop works on, by its place.
LEMMA AtToken ==
  ASSUME Inv, NEW l \in Loops, NEW t \in Tokens
  PROVE  /\ loops[l] \in LoopState /\ loops[l].todo \subseteq Tokens
         /\ loops[l].pc \notin {"insert", "count"} => loops[l].token = Trades
         /\ loops[l].pc \in {"insert", "count"} => loops[l].token \in loops[l].todo
         /\ loops[l].pc \notin {"delete", "insert", "count"} => loops[l].todo = {}
         /\ Trades # t
  BY IndexerAssumption DEF Inv, TypeOK, Placed, LoopState

\* A loop that has nothing to refresh is with no token.
LEMMA OtherPlace ==
  ASSUME Inv, NEW l \in Loops, NEW t \in Tokens, loops[l].todo = {}
  PROVE  ~Waiting(l, t) /\ ~Counting(l, t) /\ ~Inserting(l, t)
  BY AtToken DEF Waiting, Counting, Inserting, At

\* A step that leaves the tables of holders and is not one of the three statements.
LEMMA HoldersElsewhere ==
  ASSUME Inv, NEW t \in Tokens, HoldersInv(t), NEW l \in Loops, loops[l].todo = {},
         \A m \in Loops \ {l} : loops'[m] = loops[m],
         UNCHANGED <<balances, listed, holders, holderCount, left>>
  PROVE  HoldersInv(t)'
<1>1. ASSUME NEW m \in Loops
      PROVE  /\ Waiting(m, t) => Waiting(m, t)'
             /\ Counting(m, t) => Counting(m, t)'
             /\ Inserting(m, t) => Inserting(m, t)'
  <2>1. CASE m = l
    BY <2>1, OtherPlace
  <2>2. CASE m # l
    BY <2>2 DEF Waiting, Counting, Inserting, At
  <2> QED
    BY <2>1, <2>2
<1> QED
  BY <1>1, HoldersAside

\* Each step of a pass keeps what HoldersMatch rests on: the loop that inserts last
\* has selected the balances as they are then.
LEMMA HoldersPass ==
  ASSUME Inv, Inv', NEW t \in Tokens, HoldersInv(t), NEW l \in Loops, Pass(l) \/ StepFails(l)
  PROVE  HoldersInv(t)'
<1>1. loops \in [Loops -> LoopState] /\ \A m \in Loops \ {l} : loops'[m] = loops[m]
  BY DEF Inv, TypeOK, Pass, ReadPosition, ReadTip, FetchBlock, FetchNothing, WriteEvents,
         WriteUtxos, AddBalances, DeleteHolders, InsertHolders, InsertConflict, CountHolders,
         InsertTrades, Commit, NextHeight, StepFails, Goto, GiveUp, Become
<1>2. CASE \/ ReadPosition(l) \/ ReadTip(l) \/ FetchBlock(l) \/ FetchNothing(l)
           \/ WriteEvents(l) \/ WriteUtxos(l) \/ InsertTrades(l) \/ Commit(l)
  <2>1. loops[l].pc \notin {"delete", "insert", "count"}
    BY <1>2 DEF ReadPosition, ReadTip, FetchBlock, FetchNothing, WriteEvents, WriteUtxos,
                InsertTrades, Commit, At
  <2>2. UNCHANGED <<balances, listed, holders, holderCount, left>>
    BY <1>2 DEF ReadPosition, ReadTip, FetchBlock, FetchNothing, WriteEvents, WriteUtxos,
                InsertTrades, Commit, tables
  <2>3. loops[l].todo = {}
    BY <2>1, AtToken
  <2> QED
    BY <1>1, <2>2, <2>3, HoldersElsewhere
<1>3. ASSUME NEW m \in Loops \ {l}
      PROVE  /\ Waiting(m, t)' <=> Waiting(m, t)
             /\ Counting(m, t)' <=> Counting(m, t)
             /\ Inserting(m, t)' <=> Inserting(m, t)
  BY <1>1 DEF Waiting, Counting, Inserting, At
<1>4. CASE AddBalances(l)
  <2> PICK ts \in SUBSET Tokens : ts = loops[l].found \cap Tokens
    OBVIOUS
  <2>1. /\ loops' = [loops EXCEPT ![l] = [loops[l] EXCEPT !.pc = "delete", !.todo = ts]]
        /\ balances' = Added(ts, loops[l].next)
        /\ UNCHANGED <<listed, holders, holderCount, left>> /\ loops[l].pc = "balances"
    BY <1>4 DEF AddBalances, Become, At
  <2>2. /\ loops[l] \in LoopState /\ loops[l].token = Trades /\ loops[l].todo = {} /\ Trades # t
    BY <2>1, AtToken
  <2>3. loops'[l].todo = ts /\ loops'[l].token = Trades
    BY <1>1, <2>1, <2>2 DEF LoopState
  <2>4. CASE t \in ts
    <3>1. Waiting(l, t)'
      BY <2>2, <2>3, <2>4 DEF Waiting
    <3> QED
      BY <2>1, <3>1 DEF HoldersInv, Nothing
  <2>5. CASE t \notin ts
    <3>1. balances'[t] = balances[t]
      BY <2>1, <2>5 DEF Added
    <3>2. \A m \in Loops : /\ Waiting(m, t) => Waiting(m, t)'
                           /\ Counting(m, t) => Counting(m, t)'
                           /\ Inserting(m, t) => Inserting(m, t)'
      BY <1>3, <2>2, OtherPlace
    <3> QED
      BY <2>1, <3>1, <3>2, HoldersAside
  <2> QED
    BY <2>4, <2>5
<1>5. CASE DeleteHolders(l)
  <2>1. PICK u \in loops[l].todo :
          /\ listed' = listed \ {u}
          /\ holders' = [holders EXCEPT ![u] = Nothing]
          /\ loops' = [loops EXCEPT ![l] = [loops[l] EXCEPT !.pc = "insert", !.token = u]]
    BY <1>5 DEF DeleteHolders, Become
  <2>2. /\ UNCHANGED <<balances, holderCount, left>> /\ loops[l].pc = "delete"
        /\ holders \in [Tokens -> [Heights -> Nat]] /\ loops[l] \in LoopState
        /\ loops[l].token = Trades /\ Trades # t
    BY <1>5, AtToken, Tables DEF DeleteHolders, At
  <2>3. /\ loops'[l].pc = "insert" /\ loops'[l].token = u /\ loops'[l].todo = loops[l].todo
    BY <1>1, <2>1, <2>2 DEF LoopState
  <2>4. CASE u = t
    <3>1. Inserting(l, t)' /\ t \notin listed' /\ holders'[t] = Nothing
      BY <2>1, <2>2, <2>3, <2>4 DEF Inserting, At
    <3> QED
      BY <3>1 DEF HoldersInv, Nothing
  <2>5. CASE u # t
    <3>1. /\ Waiting(l, t) => Waiting(l, t)'
          /\ ~Counting(l, t) /\ ~Inserting(l, t)
      BY <2>2, <2>3, <2>5 DEF Waiting, Counting, Inserting, At
    <3>2. \A m \in Loops : /\ Waiting(m, t) => Waiting(m, t)'
                           /\ Counting(m, t) => Counting(m, t)'
                           /\ Inserting(m, t) => Inserting(m, t)'
      BY <1>3, <3>1
    <3>3. holders'[t] = holders[t] /\ (t \in listed' <=> t \in listed)
      BY <2>1, <2>2, <2>5
    <3> QED
      BY <2>2, <3>2, <3>3, HoldersAside
  <2> QED
    BY <2>4, <2>5
<1>6. CASE InsertHolders(l)
  <2> PICK u \in Tokens : u = loops[l].token
    BY <1>6, AtToken DEF InsertHolders, At
  <2>1. /\ listed' = listed \cup {u} /\ left' = left \ {u}
        /\ holders' = [holders EXCEPT ![u] = balances[u]]
        /\ loops' = [loops EXCEPT ![l] = [loops[l] EXCEPT !.pc = "count"]]
        /\ UNCHANGED <<balances, holderCount>> /\ loops[l].pc = "insert"
    BY <1>6 DEF InsertHolders, Become, Goto, At
  <2>2. holders \in [Tokens -> [Heights -> Nat]] /\ loops[l] \in LoopState
    BY AtToken, Tables
  <2>3. /\ loops'[l].pc = "count" /\ loops'[l].token = u /\ loops'[l].todo = loops[l].todo
    BY <1>1, <2>1, <2>2 DEF LoopState
  <2>4. CASE u = t
    <3>1. Counting(l, t)' /\ t \in listed' /\ holders'[t] = balances'[t]
      BY <2>1, <2>2, <2>3, <2>4 DEF Counting, At
    <3> QED
      BY <3>1 DEF HoldersInv, Nothing
  <2>5. CASE u # t
    <3>1. /\ Waiting(l, t) => Waiting(l, t)'
          /\ ~Counting(l, t) /\ ~Inserting(l, t)
      BY <2>1, <2>3, <2>5 DEF Waiting, Counting, Inserting, At
    <3>2. \A m \in Loops : /\ Waiting(m, t) => Waiting(m, t)'
                           /\ Counting(m, t) => Counting(m, t)'
                           /\ Inserting(m, t) => Inserting(m, t)'
      BY <1>3, <3>1
    <3>3. /\ holders'[t] = holders[t] /\ (t \in listed' <=> t \in listed)
          /\ t \in left' <=> t \in left
      BY <2>1, <2>2, <2>5
    <3> QED
      BY <2>1, <3>2, <3>3, HoldersAside
  <2> QED
    BY <2>4, <2>5
<1>7. CASE InsertConflict(l)
  <2> PICK u \in Tokens : u = loops[l].token
    BY <1>7, AtToken DEF InsertConflict, At
  <2>1. /\ u \in listed /\ left' = left \cup (loops[l].todo \ {u}) /\ loops[l].pc = "insert"
        /\ UNCHANGED <<balances, listed, holders, holderCount>>
    BY <1>7 DEF InsertConflict, At, tables
  <2>2. u \in loops[l].todo
    BY <2>1, AtToken
  <2>3. CASE u = t
    <3>1. ~Waiting(l, t) /\ ~Counting(l, t)
      BY <2>1, <2>3 DEF Waiting, Counting, At
    <3>2. \A m \in Loops : /\ Waiting(m, t) => Waiting(m, t)'
                           /\ Counting(m, t) => Counting(m, t)'
      BY <1>3, <3>1
    <3>3. t \in listed' /\ t \in listed /\ (t \notin left' => t \notin left)
      BY <2>1, <2>3
    <3> QED
      BY <2>1, <3>2, <3>3 DEF HoldersInv, Nothing
  <2>4. CASE u # t
    <3>1. t \notin left' => ~Waiting(l, t) /\ ~Counting(l, t) /\ ~Inserting(l, t)
      BY <2>1, <2>4 DEF Waiting, Counting, Inserting, At
    <3>2. t \notin left' =>
            \A m \in Loops : /\ Waiting(m, t) => Waiting(m, t)'
                             /\ Counting(m, t) => Counting(m, t)'
                             /\ Inserting(m, t) => Inserting(m, t)'
      BY <1>3, <3>1
    <3>3. t \notin left' => t \notin left
      BY <2>1
    <3> QED
      BY <2>1, <3>2, <3>3, HoldersAside
  <2> QED
    BY <2>3, <2>4
<1>8. CASE CountHolders(l)
  <2> PICK u \in Tokens : u = loops[l].token
    BY <1>8, AtToken DEF CountHolders, At
  <2> DEFINE rest == loops[l].todo \ {u}
             pc == IF rest # {} THEN "delete" ELSE AfterBalances(loops[l].found)
             x == [loops[l] EXCEPT !.todo = rest, !.token = Trades, !.pc = pc]
  <2>1. /\ holderCount' = [holderCount EXCEPT ![u] = holders[u]]
        /\ loops' = [loops EXCEPT ![l] = x] /\ loops[l].pc = "count"
        /\ UNCHANGED <<balances, listed, holders, left>>
    BY <1>8 DEF CountHolders, Become, At
  <2>2. /\ holderCount \in [Tokens -> [Heights -> Nat]] /\ loops[l] \in LoopState /\ Trades # t
    BY AtToken, Tables
  <2>3. loops'[l].todo = rest /\ loops'[l].token = Trades
    BY <1>1, <2>1, <2>2 DEF LoopState
  <2> HIDE DEF x, pc
  <2>4. CASE u = t
    <3>1. holderCount'[t] = holders'[t] /\ ~Waiting(l, t) /\ ~Inserting(l, t)
      BY <2>1, <2>2, <2>4 DEF Waiting, Inserting, At
    <3>2. \A m \in Loops : /\ Waiting(m, t) => Waiting(m, t)'
                           /\ Inserting(m, t) => Inserting(m, t)'
      BY <1>3, <3>1
    <3> QED
      BY <2>1, <3>1, <3>2 DEF HoldersInv, Nothing
  <2>5. CASE u # t
    <3>1. /\ Waiting(l, t) => Waiting(l, t)'
          /\ ~Counting(l, t) /\ ~Inserting(l, t)
      BY <2>1, <2>2, <2>3, <2>5 DEF Waiting, Counting, Inserting, At
    <3>2. \A m \in Loops : /\ Waiting(m, t) => Waiting(m, t)'
                           /\ Counting(m, t) => Counting(m, t)'
                           /\ Inserting(m, t) => Inserting(m, t)'
      BY <1>3, <3>1
    <3>3. holderCount'[t] = holderCount[t]
      BY <2>1, <2>2, <2>5
    <3> QED
      BY <2>1, <3>2, <3>3, HoldersAside
  <2> QED
    BY <2>4, <2>5
<1>9. CASE StepFails(l)
  <2>1. /\ left' = left \cup loops[l].todo
        /\ UNCHANGED <<balances, listed, holders, holderCount>>
    BY <1>9 DEF StepFails, tables
  <2>2. t \notin left' =>
          \A m \in Loops : /\ Waiting(m, t) => Waiting(m, t)'
                           /\ Counting(m, t) => Counting(m, t)'
                           /\ Inserting(m, t) => Inserting(m, t)'
    <3> SUFFICES ASSUME t \notin left'
                 PROVE  ~Waiting(l, t) /\ ~Counting(l, t) /\ ~Inserting(l, t)
      BY <1>3
    <3>1. t \notin loops[l].todo
      BY <2>1
    <3> QED
      BY <3>1, AtToken DEF Waiting, Counting, Inserting, At
  <2> QED
    BY <2>1, <2>2, HoldersAside
<1> QED
  BY <1>2, <1>4, <1>5, <1>6, <1>7, <1>8, <1>9 DEF Pass

\* So does every step.
LEMMA HoldersNext ==
  ASSUME Inv, Inv', NEW t \in Tokens, HoldersInv(t), [Next]_vars
  PROVE  HoldersInv(t)'
<1>1. CASE \E l \in Loops : Pass(l) \/ StepFails(l)
  BY <1>1, HoldersPass
<1>2. CASE TipGrows
  BY <1>2 DEF TipGrows, tables, HoldersInv, Waiting, Counting, Inserting, At, Nothing
<1>3. CASE Restart
  <2>1. /\ left' = left \cup UNION {loops[m].todo : m \in Loops}
        /\ UNCHANGED <<balances, listed, holders, holderCount>>
    BY <1>3 DEF Restart, tables
  <2>2. t \notin left' => \A m \in Loops : ~Waiting(m, t) /\ ~Counting(m, t) /\ ~Inserting(m, t)
    <3> SUFFICES ASSUME t \notin left', NEW m \in Loops
                 PROVE  ~Waiting(m, t) /\ ~Counting(m, t) /\ ~Inserting(m, t)
      OBVIOUS
    <3>1. t \notin loops[m].todo
      BY <2>1
    <3> QED
      BY <3>1, AtToken DEF Waiting, Counting, Inserting, At
  <2> QED
    BY <2>1, <2>2, HoldersAside
<1>4. CASE UNCHANGED vars
  BY <1>4 DEF vars, tables, HoldersInv, Waiting, Counting, Inserting, At, Nothing
<1> QED
  BY <1>1, <1>2, <1>3, <1>4 DEF Next

\* The holders of a token and their count are those of its balances whenever no
\* loop has yet to refresh the token and its last refresh was not broken off, in
\* every interleaving of the two loops and whatever fails: a loop whose insert hits
\* the rows of the other may give up on this token because these rows were selected
\* after its own balances were added.
THEOREM HoldersMatchEver == Spec => []HoldersMatch
<1> DEFINE All == \A t \in Tokens : HoldersInv(t)
<1>1. Init => All
  BY DEF Init, HoldersInv, Nothing
<1>2. Inv /\ Inv' /\ All /\ [Next]_vars => All'
  BY HoldersNext
<1>3. Inv /\ All => HoldersMatch
  <2> SUFFICES ASSUME Inv, All, NEW t \in Tokens,
                      t \notin left, \A l \in Loops : t \notin loops[l].todo
               PROVE  holders[t] = balances[t] /\ holderCount[t] = balances[t]
    BY DEF HoldersMatch
  <2>1. \A l \in Loops : ~Waiting(l, t) /\ ~Counting(l, t) /\ ~Inserting(l, t)
    BY AtToken DEF Waiting, Counting, Inserting, At
  <2> QED
    BY <2>1 DEF HoldersInv
<1> QED
  BY InvInit, InvNext, <1>1, <1>2, <1>3, PTL DEF Spec

=============================================================================
