--------------------------- MODULE MonoSyncProofs ---------------------------
(***************************************************************************)
(* Theorems about the indexing pipeline for every block tree, every        *)
(* configuration and every number of faults.                               *)
(***************************************************************************)
EXTENDS MonoSync, TLAPS, WellFoundedInduction

(* What the assumptions say of one chain of the node. *)
LEMMA ChainFacts ==
    ASSUME NEW c \in Chains
    PROVE  /\ c \in Seq(Blocks) /\ Len(c) \in Nat
           /\ StartBlock < Len(c) /\ Len(c) <= MaxHeight + 1
           /\ \A h \in 0..Len(c) - 1 : c[h + 1] \in Blocks
  <1>1. c \in Seq(Blocks) /\ Len(c) \in Nat
    BY ChainAssumption
  <1>2. StartBlock < Len(c) /\ Len(c) <= MaxHeight + 1
    BY ConfigAssumption
  <1>3. \A h \in 0..Len(c) - 1 : c[h + 1] \in Blocks
    BY <1>1
  <1> QED  BY <1>1, <1>2, <1>3

-----------------------------------------------------------------------------
(* Type correctness: no height anywhere is beyond the chain of the node.    *)

(* A message names a block that the node has. *)
OnChain(m) == m \in BlockData /\ m.height <= Tip

IndexOnChain == indexed <= Tip /\ current <= Tip + 1

FetcherOnChain ==
    /\ fetcher.height <= Tip + 1 /\ fetcher.tip <= Tip
    /\ fetcher.pc \in {"hash", "data", "send"} => fetcher.height <= Tip
    /\ fetcher.pc \in {"data", "send"} => fetcher.hash \in Blocks
    /\ fetcher.pc = "send" => fetcher.data \in Blocks

MessagesOnChain ==
    /\ blockCh # <<>> => OnChain(Head(blockCh))
    /\ processor.pc # "recv" => OnChain(processor.msg)
    /\ resultCh # <<>> => Head(resultCh).height <= Tip

ScansOnChain ==
    \A t \in Tasks :
        /\ scan[t].from <= Tip + 1 /\ scan[t].check <= Tip
        /\ scan[t].pc \in {"local", "remote"} => scan[t].from > 0
        /\ scan[t].pc = "remote" => scan[t].check > 0

HeightsOnChain == IndexOnChain /\ FetcherOnChain /\ MessagesOnChain /\ ScansOnChain

TypeInv == TypeOK /\ HeightsOnChain

(* The height of the node's tip and the blocks below it. *)
LEMMA TipFacts ==
    ASSUME chain \in Chains
    PROVE  /\ Tip \in Heights /\ StartBlock <= Tip
           /\ \A h \in 0..Tip : BlockAt(h) \in Blocks
  BY ChainFacts, ConfigAssumption DEF Tip, BlockAt, Heights

LEMMA ResumeFacts ==
    ASSUME chain \in Chains, NEW i \in Heights, i <= Tip
    PROVE  ResumeHeight(i) \in Heights \cup {MaxHeight + 1} /\ ResumeHeight(i) <= Tip + 1
  BY TipFacts, ConfigAssumption DEF ResumeHeight, Heights

LEMMA TypeInit == Init => TypeInv
  <1> SUFFICES ASSUME Init PROVE TypeInv
    OBVIOUS
  <1>1. chain \in Chains
    BY DEF Init, NodeInit
  <1>2. /\ 0 \in Heights /\ Tip \in Nat /\ MaxHeight \in Nat
        /\ ResumeHeight(0) \in 0..MaxHeight + 1 /\ ResumeHeight(0) <= Tip + 1
    BY <1>1, TipFacts, ResumeFacts, ConfigAssumption DEF Heights
  <1>3. /\ IdleFetcher \in FetcherState /\ IdleProcessor \in ProcessorState
        /\ NoScan \in ScanState
    BY <1>2 DEF IdleFetcher, FetcherState, IdleProcessor, ProcessorState, NoScan,
                ScanState, NoMsg, BlockOrNone
  <1>4. TypeOK
    BY <1>1, <1>2, <1>3, ConfigAssumption DEF Init, TypeOK, BlockOrNone
  <1>5. HeightsOnChain
    BY <1>2 DEF Init, HeightsOnChain, IndexOnChain, FetcherOnChain, MessagesOnChain,
                ScansOnChain, IdleFetcher, IdleProcessor, NoScan
  <1> QED  BY <1>4, <1>5 DEF TypeInv

(* A task enters handle_reorg. *)
LEMMA StartScanType ==
    ASSUME TypeInv, NEW t \in Tasks, NEW h \in 0..MaxHeight + 1, h <= Tip + 1, StartScan(t, h)
    PROVE  scan' \in [Tasks -> ScanState] /\ (chain' = chain => ScansOnChain')
  <1>1. Tip \in Heights /\ MaxHeight \in Nat /\ None \in BlockOrNone
    BY TipFacts, ConfigAssumption DEF TypeInv, TypeOK, BlockOrNone
  <1>2. Monus(h, 1) \in Heights /\ Monus(h, 1) <= Tip
    BY <1>1 DEF Monus, Heights
  <1> DEFINE s == [pc |-> IF h = 0 THEN "done" ELSE "local", from |-> h,
                   check |-> Monus(h, 1), detected |-> FALSE, local |-> None]
  <1>3. /\ s \in ScanState /\ s.from = h /\ s.check = Monus(h, 1) /\ s.pc # "remote"
        /\ s.pc = "local" => s.from > 0
    BY <1>1, <1>2 DEF ScanState
  <1>4. scan' = [scan EXCEPT ![t] = s] /\ scan \in [Tasks -> ScanState]
    BY DEF StartScan, TypeInv, TypeOK
  <1> HIDE DEF s
  <1>5. scan' \in [Tasks -> ScanState] /\ \A u \in Tasks : scan'[u] = IF u = t THEN s ELSE scan[u]
    BY <1>3, <1>4
  <1>6. ASSUME chain' = chain PROVE ScansOnChain'
    <2>1. Tip' = Tip
      BY <1>6 DEF Tip
    <2> QED  BY <1>2, <1>3, <1>5, <2>1 DEF TypeInv, HeightsOnChain, ScansOnChain
  <1> QED  BY <1>5, <1>6

(* The node's chain grows: every bound stays one. *)
LEMMA NodeType == TypeInv /\ NodeStep => TypeInv'
  <1> SUFFICES ASSUME TypeInv, NodeStep PROVE TypeInv'
    OBVIOUS
  <1>1. chain' \in Chains /\ Len(chain') > Len(chain)
    BY DEF NodeStep, NodeAdvance
  <1>2. UNCHANGED <<indexed, hashAt, stored, current, processing, blockCh, resultCh, fetcher,
                    processor, scan, faults>>
    BY DEF NodeStep, storage, engine, channels, tasks
  <1>3. Tip \in Nat /\ Tip' \in Nat /\ Tip < Tip'
    <2>1. /\ Len(chain) \in Nat /\ StartBlock < Len(chain)
          /\ Len(chain') \in Nat /\ StartBlock \in Nat
      BY <1>1, ChainFacts, ConfigAssumption DEF TypeInv, TypeOK
    <2>2. Tip = Len(chain) - 1 /\ Tip' = Len(chain') - 1
      BY DEF Tip
    <2>3. Len(chain) > 0
      BY <2>1
    <2> QED  BY <1>1, <2>1, <2>2, <2>3
  <1>4. /\ \A n \in Nat : n <= Tip => n <= Tip'
        /\ \A n \in Nat : n <= Tip + 1 => n <= Tip' + 1
    <2> DEFINE Longer(a, b) == /\ \A n \in Nat : n <= a => n <= b
                               /\ \A n \in Nat : n <= a + 1 => n <= b + 1
    <2>1. \A a, b \in Nat : a < b => Longer(a, b)
      OBVIOUS
    <2> QED  BY <1>3, <2>1
  <1>5. TypeOK'
    BY <1>1, <1>2 DEF TypeInv, TypeOK
  <1>6. IndexOnChain'
    <2>1. indexed \in Nat /\ current \in Nat
      BY ConfigAssumption DEF TypeInv, TypeOK, Heights
    <2> QED  BY <1>2, <1>4, <2>1 DEF TypeInv, HeightsOnChain, IndexOnChain
  <1>7. FetcherOnChain'
    <2>1. fetcher.height \in Nat /\ fetcher.tip \in Nat
      BY ConfigAssumption DEF TypeInv, TypeOK, FetcherState, Heights
    <2> QED  BY <1>2, <1>4, <2>1 DEF TypeInv, HeightsOnChain, FetcherOnChain
  <1>8. MessagesOnChain'
    <2>1. \A m : OnChain(m) => m \in BlockData /\ m.height <= Tip'
      BY <1>4 DEF OnChain, BlockData, Heights
    <2>2. resultCh # <<>> => Head(resultCh).height \in Nat
      BY DEF TypeInv, TypeOK, BlockResult, Heights
    <2> QED  BY <1>2, <1>4, <2>1, <2>2 DEF TypeInv, HeightsOnChain, MessagesOnChain, OnChain
  <1>9. ScansOnChain'
    <2>1. \A t \in Tasks : scan[t].from \in Nat /\ scan[t].check \in Nat
      BY ConfigAssumption DEF TypeInv, TypeOK, ScanState, Heights
    <2> QED  BY <1>2, <1>4, <2>1 DEF TypeInv, HeightsOnChain, ScansOnChain
  <1> QED  BY <1>5, <1>6, <1>7, <1>8, <1>9 DEF TypeInv, HeightsOnChain

(* One iteration of the loop of handle_reorg, or its rollback. *)
LEMMA ScanType ==
    ASSUME TypeInv, NEW t \in Tasks, Scan(t) \/ ScanRemoteError(t)
    PROVE  TypeInv'
  <1> DEFINE s == scan[t]
  <1>1. /\ s \in ScanState /\ scan \in [Tasks -> ScanState]
        /\ s.from <= Tip + 1 /\ s.check <= Tip
        /\ s.pc \in {"local", "remote"} => s.from > 0
        /\ s.pc = "remote" => s.check > 0
    BY DEF TypeInv, TypeOK, HeightsOnChain, ScansOnChain
  <1>2. /\ Tip \in Heights /\ MaxHeight \in Nat /\ MaxReorgDepth \in Nat
        /\ None \in BlockOrNone /\ hashAt \in [Heights -> BlockOrNone]
    BY TipFacts, ConfigAssumption DEF TypeInv, TypeOK, BlockOrNone
  <1>3. Tip' = Tip /\ UNCHANGED <<chain, hashAt, current, processing, blockCh, resultCh,
                                   fetcher, processor>>
    BY DEF Scan, ScanLocal, ScanRemote, ScanRemoteError, ScanRollback, Tip, storage, engine, channels
  <1> DEFINE Good(r) == /\ r \in ScanState /\ r.from <= Tip + 1 /\ r.check <= Tip
                        /\ r.pc \in {"local", "remote"} => r.from > 0
                        /\ r.pc = "remote" => r.check > 0
  <1>4. \E r : Good(r) /\ scan' = [scan EXCEPT ![t] = r]
    <2>1. CASE ScanLocal(t)
      <3>1. CASE ~InRange(s)
        <4> DEFINE r == [s EXCEPT !.pc = IF s.detected THEN "rollback" ELSE "done"]
        <4>1. Good(r)
          BY <1>1 DEF ScanState
        <4> QED  BY <2>1, <3>1, <4>1 DEF ScanLocal
      <3>2. CASE InRange(s) /\ hashAt[s.check] = None
        <4> DEFINE r == [s EXCEPT !.check = s.check - 1]
        <4>0. s.pc = "local" /\ s.check - 1 \in Heights /\ s.check - 1 <= Tip
          BY <1>1, <1>2, <2>1, <3>2 DEF ScanState, InRange, ScanLocal, Heights
        <4>1. Good(r)
          BY <1>1, <4>0 DEF ScanState
        <4> QED  BY <2>1, <3>2, <4>1 DEF ScanLocal
      <3>3. CASE InRange(s) /\ hashAt[s.check] # None
        <4> DEFINE r == [s EXCEPT !.pc = "remote", !.local = hashAt[s.check]]
        <4>1. hashAt[s.check] \in BlockOrNone
          BY <1>1, <1>2 DEF ScanState
        <4>2. Good(r)
          BY <1>1, <1>2, <2>1, <3>3, <4>1 DEF ScanState, InRange, ScanLocal, Heights
        <4> QED  BY <2>1, <3>3, <4>2 DEF ScanLocal
      <3> QED  BY <3>1, <3>2, <3>3
    <2>2. CASE ScanRemote(t)
      <3>1. CASE s.local = BlockAt(s.check)
        <4> DEFINE r == [s EXCEPT !.pc = IF s.detected THEN "rollback" ELSE "done", !.local = None]
        <4>1. Good(r)
          BY <1>1, <1>2 DEF ScanState
        <4> QED  BY <2>2, <3>1, <4>1 DEF ScanRemote
      <3>2. CASE s.local # BlockAt(s.check)
        <4> DEFINE r == [s EXCEPT !.pc = "local", !.detected = TRUE, !.check = s.check - 1,
                                  !.local = None]
        <4>0. s.pc = "remote" /\ s.check - 1 \in Heights /\ s.check - 1 <= Tip
          BY <1>1, <1>2, <2>2 DEF ScanState, ScanRemote, Heights
        <4>1. Good(r)
          BY <1>1, <1>2, <4>0 DEF ScanState
        <4> QED  BY <2>2, <3>2, <4>1 DEF ScanRemote
      <3> QED  BY <3>1, <3>2
    <2>3. CASE ScanRemoteError(t)
      <3> DEFINE r == [s EXCEPT !.pc = "done", !.check = s.from - 1, !.detected = FALSE, !.local = None]
      <3>0. s.pc = "remote" /\ s.from - 1 \in Heights /\ s.from - 1 <= Tip
        BY <1>1, <1>2, <2>3 DEF ScanState, ScanRemoteError, Heights
      <3>1. Good(r)
        BY <1>1, <1>2, <3>0 DEF ScanState
      <3> QED  BY <2>3, <3>1 DEF ScanRemoteError
    <2>4. CASE ScanRollback(t)
      <3> DEFINE r == [s EXCEPT !.pc = "done"]
      <3>1. Good(r)
        BY <1>1 DEF ScanState
      <3>2. scan' = [scan EXCEPT ![t] = r]
        BY <1>1, <2>4 DEF ScanRollback
      <3> QED  BY <3>1, <3>2
    <2> QED  BY <2>1, <2>2, <2>3, <2>4 DEF Scan
  <1>5. PICK r : Good(r) /\ scan' = [scan EXCEPT ![t] = r]
    BY <1>4
  <1> HIDE DEF s
  <1>6. scan' \in [Tasks -> ScanState] /\ \A u \in Tasks : scan'[u] = IF u = t THEN r ELSE scan[u]
    BY <1>1, <1>5
  <1>7. ScansOnChain'
    BY <1>3, <1>5, <1>6 DEF TypeInv, HeightsOnChain, ScansOnChain
  <1>8. indexed' \in Heights /\ indexed' <= Tip /\ stored' \in [Heights -> SUBSET Blocks]
    BY <1>1 DEF Scan, ScanLocal, ScanRemote, ScanRemoteError, ScanRollback, RolledBack, storage,
                TypeInv, TypeOK, HeightsOnChain, IndexOnChain, ScanState, s
  <1>9. faults' \in 0..MaxFaults
    BY ConfigAssumption DEF Scan, ScanLocal, ScanRemote, ScanRemoteError, ScanRollback, Inject,
                TypeInv, TypeOK
  <1>10. TypeOK'
    BY <1>3, <1>6, <1>8, <1>9 DEF TypeInv, TypeOK
  <1>11. IndexOnChain' /\ FetcherOnChain' /\ MessagesOnChain'
    BY <1>3, <1>8 DEF TypeInv, HeightsOnChain, IndexOnChain, FetcherOnChain, MessagesOnChain, OnChain
  <1> QED  BY <1>7, <1>10, <1>11 DEF TypeInv, HeightsOnChain

(* What a finished handle_reorg returns. *)
LEMMA ScanResultFacts ==
    ASSUME TypeInv, NEW t \in Tasks
    PROVE  ScanResult(scan[t]) \in 0..MaxHeight + 1 /\ ScanResult(scan[t]) <= Tip + 1
  <1>1. scan[t] \in ScanState /\ scan[t].from <= Tip + 1 /\ scan[t].check <= Tip
    BY DEF TypeInv, TypeOK, HeightsOnChain, ScansOnChain
  <1> QED  BY <1>1, TipFacts, ConfigAssumption DEF ScanResult, ScanState, Heights, TypeInv, TypeOK

(* The fetcher's locals only ever name heights of the node's chain. *)
LEMMA FetchType ==
    ASSUME TypeInv, Fetch \/ FetchError
    PROVE  TypeInv'
  <1>1. /\ Tip \in Heights /\ MaxHeight \in Nat /\ ReorgThreshold \in Nat /\ None \in BlockOrNone
        /\ Blocks \subseteq BlockOrNone /\ 0 <= Tip
        /\ \A h \in 0..Tip : BlockAt(h) \in Blocks
    BY TipFacts, ConfigAssumption DEF TypeInv, TypeOK, BlockOrNone, Heights
  <1>2. /\ fetcher \in FetcherState /\ FetcherOnChain /\ current \in 0..MaxHeight + 1
        /\ current <= Tip + 1 /\ scan \in [Tasks -> ScanState]
    BY DEF TypeInv, TypeOK, HeightsOnChain, IndexOnChain
  <1>3. Tip' = Tip /\ UNCHANGED <<chain, indexed, hashAt, stored, resultCh, processor>>
    BY DEF Fetch, FetchPeek, FetchGate, FetchLoad, FetchTip, FetchReorged, FetchHash, FetchData,
           FetchSend, FetchError, Tip, storage, engine, channels
  <1>4. IdleFetcher \in FetcherState
    BY <1>1 DEF IdleFetcher, FetcherState, Heights
  <1> DEFINE ScansGood == scan' \in [Tasks -> ScanState] /\ ScansOnChain'
             EngineGood == /\ current' \in 0..MaxHeight + 1 /\ current' <= Tip + 1
                           /\ processing' \in SUBSET Heights
             SendGood == /\ blockCh' \in {<<>>} \cup {<<m>> : m \in BlockData}
                         /\ blockCh' # <<>> => OnChain(Head(blockCh'))
             FetcherGood == fetcher' \in FetcherState /\ FetcherOnChain'
  <1>5. UNCHANGED <<scan, chain>> => ScansGood
    BY <1>3 DEF TypeInv, TypeOK, HeightsOnChain, ScansOnChain
  <1>6. UNCHANGED <<current, processing>> => EngineGood
    BY DEF TypeInv, TypeOK, HeightsOnChain, IndexOnChain
  <1>7. UNCHANGED blockCh => SendGood
    BY DEF TypeInv, TypeOK, HeightsOnChain, MessagesOnChain
  <1>8. fetcher' = IdleFetcher => FetcherGood
    BY <1>1, <1>3, <1>4 DEF IdleFetcher, FetcherOnChain, Heights
  <1>9. ScansGood /\ EngineGood /\ SendGood /\ FetcherGood /\ faults' \in 0..MaxFaults
    <2>1. CASE FetchPeek
      <3>1. FetcherGood
        BY <1>1, <1>2, <1>3, <2>1 DEF FetchPeek, FetcherState, FetcherOnChain, Heights
      <3> QED  BY <1>5, <1>6, <1>7, <2>1, <3>1
               DEF FetchPeek, engine, channels, TypeInv, TypeOK
    <2>2. CASE FetchGate
      <3>1. FetcherGood
        BY <1>1, <1>2, <1>3, <1>8, <2>2
           DEF FetchGate, FetcherState, FetcherOnChain, IdleFetcher, Heights
      <3> QED  BY <1>5, <1>6, <1>7, <2>2, <3>1
               DEF FetchGate, engine, channels, TypeInv, TypeOK
    <2>3. CASE FetchLoad
      <3>1. FetcherGood
        BY <1>1, <1>2, <1>3, <2>3 DEF FetchLoad, FetcherState, FetcherOnChain, Heights
      <3> QED  BY <1>5, <1>6, <1>7, <2>3, <3>1
               DEF FetchLoad, engine, channels, TypeInv, TypeOK
    <2>4. CASE FetchTip
      <3> DEFINE near == Monus(Tip, fetcher.height) <= ReorgThreshold
      <3>0. /\ fetcher.pc = "tip" /\ (~near => fetcher.height <= Tip)
            /\ fetcher' = [fetcher EXCEPT !.pc = IF near THEN "reorg" ELSE "hash", !.tip = Tip]
        BY <1>1, <1>2, <2>4 DEF FetchTip, Monus, FetcherState, Heights
      <3> HIDE DEF near
      <3>1. FetcherGood
        <4>1. PICK p \in {"reorg", "hash"} :
                 /\ fetcher' = [fetcher EXCEPT !.pc = p, !.tip = Tip]
                 /\ p = "hash" => fetcher.height <= Tip
          BY <3>0
        <4>2. fetcher' \in FetcherState
          BY <1>1, <1>2, <4>1 DEF FetcherState
        <4>3. fetcher'.pc = p /\ fetcher'.height = fetcher.height /\ fetcher'.tip = Tip
          BY <1>2, <4>1 DEF FetcherState
        <4> QED  BY <1>1, <1>2, <1>3, <4>1, <4>2, <4>3 DEF FetcherOnChain, Heights
      <3>2. ScansGood
        BY <1>2, <1>3, <1>5, <2>4, StartScanType DEF FetchTip, FetcherOnChain, FetcherState, Tasks
      <3> QED  BY <1>6, <1>7, <2>4, <3>1, <3>2
               DEF FetchTip, engine, channels, TypeInv, TypeOK
    <2>5. CASE FetchReorged
      <3>1. /\ ScanResult(scan["fetcher"]) \in 0..MaxHeight + 1
            /\ ScanResult(scan["fetcher"]) <= Tip + 1
        BY ScanResultFacts DEF Tasks
      <3> DEFINE h == ScanResult(scan["fetcher"])
      <3>2. FetcherGood
        <4>1. CASE h > fetcher.tip
          BY <1>8, <2>5, <4>1 DEF FetchReorged
        <4>2. CASE ~(h > fetcher.tip)
          <5>1. /\ fetcher' = [fetcher EXCEPT !.pc = "hash", !.height = h]
                /\ fetcher.tip <= Tip /\ fetcher.tip \in Nat /\ h \in 0..MaxHeight + 1
            BY <1>1, <1>2, <2>5, <3>1, <4>2 DEF FetchReorged, FetcherOnChain, FetcherState, Heights
          <5>2. h <= Tip
            BY <1>1, <4>2, <5>1 DEF Heights
          <5> HIDE DEF h
          <5>3. fetcher' \in FetcherState
            BY <1>2, <5>1 DEF FetcherState
          <5>4. fetcher'.pc = "hash" /\ fetcher'.height = h /\ fetcher'.tip = fetcher.tip
            BY <1>2, <5>1 DEF FetcherState
          <5> QED  BY <1>1, <1>3, <5>1, <5>2, <5>3, <5>4 DEF FetcherOnChain, Heights
        <4> QED  BY <4>1, <4>2
      <3>3. NoScan \in ScanState /\ NoScan.pc = "off" /\ NoScan.from <= Tip + 1 /\ NoScan.check <= Tip
        BY <1>1 DEF NoScan, ScanState, Heights
      <3>4. ScansGood
        BY <1>2, <1>3, <2>5, <3>3 DEF FetchReorged, ScansOnChain, TypeInv, HeightsOnChain
      <3> QED  BY <1>7, <2>5, <3>1, <3>2, <3>4
               DEF FetchReorged, channels, TypeInv, TypeOK
    <2>6. CASE FetchHash
      <3>1. fetcher.height \in 0..Tip
        BY <1>1, <1>2, <2>6 DEF FetchHash, FetcherOnChain, FetcherState, Heights
      <3>2. FetcherGood
        BY <1>1, <1>2, <1>3, <2>6, <3>1 DEF FetchHash, FetcherState, FetcherOnChain, Heights
      <3> QED  BY <1>5, <1>6, <1>7, <2>6, <3>2
               DEF FetchHash, engine, channels, TypeInv, TypeOK
    <2>7. CASE FetchData
      <3>1. fetcher.height \in 0..Tip /\ fetcher.height \in Heights
        BY <1>1, <1>2, <2>7 DEF FetchData, FetcherOnChain, FetcherState, Heights
      <3>2. FetcherGood
        BY <1>1, <1>2, <1>3, <2>7, <3>1 DEF FetchData, FetcherState, FetcherOnChain, Heights
      <3>3. EngineGood
        BY <2>7, <3>1 DEF FetchData, TypeInv, TypeOK, HeightsOnChain, IndexOnChain
      <3> QED  BY <1>5, <1>7, <2>7, <3>2, <3>3
               DEF FetchData, channels, TypeInv, TypeOK
    <2>8. CASE FetchSend
      <3> DEFINE m == [height |-> fetcher.height, data |-> fetcher.data, hash |-> fetcher.hash]
      <3>1. OnChain(m)
        BY <1>1, <1>2, <2>8 DEF FetchSend, FetcherOnChain, FetcherState, OnChain, BlockData, Heights
      <3>2. blockCh' = <<m>>
        BY <2>8 DEF FetchSend
      <3> HIDE DEF m
      <3>3. SendGood
        BY <3>1, <3>2 DEF OnChain
      <3> QED  BY <1>5, <1>6, <1>8, <2>8, <3>3
               DEF FetchSend, engine, TypeInv, TypeOK
    <2>9. CASE FetchError
      <3>1. faults' \in 0..MaxFaults
        BY <2>9, ConfigAssumption DEF FetchError, Inject, TypeInv, TypeOK
      <3> QED  BY <1>5, <1>6, <1>7, <1>8, <2>9, <3>1 DEF FetchError, engine, channels
    <2> QED  BY <2>1, <2>2, <2>3, <2>4, <2>5, <2>6, <2>7, <2>8, <2>9 DEF Fetch
  <1>10. TypeOK'
    BY <1>3, <1>9 DEF TypeInv, TypeOK
  <1>11. HeightsOnChain'
    BY <1>3, <1>9 DEF TypeInv, HeightsOnChain, IndexOnChain, MessagesOnChain, OnChain
  <1> QED  BY <1>10, <1>11 DEF TypeInv

(* The processor moves one message through its stages. *)
LEMMA ProcessType ==
    ASSUME TypeInv, Process \/ ProcessRunError \/ ProcessRunSilent
    PROVE  TypeInv'
  <1>1. /\ Tip \in Heights /\ MaxHeight \in Nat /\ MaxFaults \in Nat /\ 0 <= Tip
        /\ processor \in ProcessorState /\ stored \in [Heights -> SUBSET Blocks]
        /\ indexed \in Heights /\ indexed <= Tip /\ hashAt \in [Heights -> BlockOrNone]
        /\ current \in 0..MaxHeight + 1 /\ current <= Tip + 1 /\ faults \in 0..MaxFaults
        /\ processor.pc # "recv" => OnChain(processor.msg)
    BY TipFacts, ConfigAssumption
       DEF TypeInv, TypeOK, HeightsOnChain, IndexOnChain, MessagesOnChain, Heights
  <1>2. Tip' = Tip /\ UNCHANGED <<chain, processing, fetcher, scan>>
    BY DEF Process, ProcessRecv, ProcessValidate, ProcessRun, ProcessMeta, ProcessBump,
           ProcessReply, ProcessRunError, ProcessRunSilent, Tip, storage, engine
  <1>3. IdleProcessor \in ProcessorState
    BY DEF IdleProcessor, ProcessorState
  <1> DEFINE StoreGood == /\ indexed' \in Heights /\ indexed' <= Tip
                          /\ hashAt' \in [Heights -> BlockOrNone]
                          /\ stored' \in [Heights -> SUBSET Blocks]
                          /\ current' \in 0..MaxHeight + 1 /\ current' <= Tip + 1
             ChannelsGood == /\ blockCh' \in {<<>>} \cup {<<m>> : m \in BlockData}
                             /\ blockCh' # <<>> => OnChain(Head(blockCh'))
                             /\ resultCh' \in {<<>>} \cup {<<r>> : r \in BlockResult}
                             /\ resultCh' # <<>> => Head(resultCh').height <= Tip
             ProcessorGood == /\ processor' \in ProcessorState
                              /\ processor'.pc # "recv" => OnChain(processor'.msg)
  <1>4. UNCHANGED <<indexed, hashAt, stored, current>> => StoreGood
    BY <1>1
  <1>5. UNCHANGED <<blockCh, resultCh>> => ChannelsGood
    BY DEF TypeInv, TypeOK, HeightsOnChain, MessagesOnChain
  <1>6. StoreGood /\ ChannelsGood /\ ProcessorGood /\ faults' \in 0..MaxFaults
    <2>1. CASE ProcessRecv
      <3>1. OnChain(Head(blockCh)) /\ Head(blockCh) \in BlockData
        BY <2>1 DEF ProcessRecv, TypeInv, HeightsOnChain, MessagesOnChain, OnChain
      <3>2. ProcessorGood
        BY <1>1, <2>1, <3>1 DEF ProcessRecv, ProcessorState
      <3> QED  BY <1>1, <1>4, <2>1, <3>2
               DEF ProcessRecv, storage, engine, TypeInv, TypeOK, HeightsOnChain, MessagesOnChain
    <2>2. CASE ProcessValidate
      <3>1. ProcessorGood
        BY <1>1, <2>2 DEF ProcessValidate, ProcessorState
      <3> QED  BY <1>1, <1>4, <1>5, <2>2, <3>1 DEF ProcessValidate, storage, engine, channels
    <2>3. CASE ProcessRun \/ ProcessRunError \/ ProcessRunSilent
      <3>1. processor.pc = "run" /\ processor.msg.height \in Heights /\ processor.msg.data \in Blocks
        BY <1>1, <2>3 DEF ProcessRun, ProcessRunError, ProcessRunSilent, OnChain, BlockData
      <3>2. ProcessorGood
        BY <1>1, <2>3, <3>1 DEF ProcessRun, ProcessRunError, ProcessRunSilent, ProcessorState
      <3>3. [stored EXCEPT ![processor.msg.height] = @ \cup {processor.msg.data}]
                \in [Heights -> SUBSET Blocks]
        BY <1>1, <3>1
      <3>4. stored' \in [Heights -> SUBSET Blocks] /\ UNCHANGED <<indexed, hashAt, current>>
        BY <1>1, <2>3, <3>3 DEF ProcessRun, ProcessRunError, ProcessRunSilent, storage, engine
      <3>5. faults' \in 0..MaxFaults /\ UNCHANGED <<blockCh, resultCh>>
        BY <1>1, <2>3 DEF ProcessRun, ProcessRunError, ProcessRunSilent, Inject, channels
      <3> QED  BY <1>1, <1>5, <3>2, <3>4, <3>5
    <2>4. CASE ProcessMeta
      <3>1. processor.pc = "meta" /\ processor.msg \in BlockData /\ processor.msg.height <= Tip
        BY <1>1, <2>4 DEF ProcessMeta, OnChain
      <3>2. ProcessorGood
        BY <1>1, <2>4, <3>1 DEF ProcessMeta, ProcessorState
      <3>3. StoreGood
        BY <1>1, <2>4, <3>1 DEF ProcessMeta, engine, BlockData, BlockOrNone
      <3> QED  BY <1>1, <1>5, <2>4, <3>2, <3>3 DEF ProcessMeta, channels
    <2>5. CASE ProcessBump
      <3>1. processor.pc = "bump" /\ processor.msg \in BlockData /\ processor.msg.height <= Tip
        BY <1>1, <2>5 DEF ProcessBump, OnChain
      <3>2. ProcessorGood
        BY <1>1, <2>5, <3>1 DEF ProcessBump, ProcessorState
      <3>3. StoreGood
        <4>1. UNCHANGED <<indexed, hashAt, stored, faults>>
          BY <2>5 DEF ProcessBump, storage
        <4>2. current' = processor.msg.height + 1 /\ processor.msg.height \in Heights
          BY <2>5, <3>1 DEF ProcessBump, BlockData
        <4>3. current' \in 0..MaxHeight + 1 /\ current' <= Tip + 1
          BY ONLY <1>1, <3>1, <4>2 DEF Heights
        <4> QED  BY <1>1, <4>1, <4>3
      <3> QED  BY <1>1, <1>5, <2>5, <3>2, <3>3 DEF ProcessBump, channels
    <2>6. CASE ProcessReply
      <3> DEFINE r == [height |-> processor.msg.height, kind |-> processor.result]
      <3>1. r \in BlockResult /\ r.height <= Tip
        BY <1>1, <2>6 DEF ProcessReply, OnChain, BlockData, BlockResult, ProcessorState
      <3>2. resultCh' = <<r>> /\ UNCHANGED blockCh
        BY <2>6 DEF ProcessReply
      <3> HIDE DEF r
      <3>3. ChannelsGood
        BY <3>1, <3>2 DEF TypeInv, TypeOK, HeightsOnChain, MessagesOnChain
      <3>4. ProcessorGood
        BY <1>3, <2>6 DEF ProcessReply, IdleProcessor
      <3> QED  BY <1>1, <1>4, <2>6, <3>3, <3>4 DEF ProcessReply, storage, engine
    <2> QED  BY <2>1, <2>2, <2>3, <2>4, <2>5, <2>6 DEF Process
  <1>7. TypeOK'
    BY <1>2, <1>6 DEF TypeInv, TypeOK
  <1>8. HeightsOnChain'
    BY <1>2, <1>6 DEF TypeInv, HeightsOnChain, IndexOnChain, FetcherOnChain, MessagesOnChain,
                      ScansOnChain, OnChain
  <1> QED  BY <1>7, <1>8 DEF TypeInv

(* The indexer takes a result, or drops what its handle_reorg returned. *)
LEMMA IndexType ==
    ASSUME TypeInv, Index
    PROVE  TypeInv'
  <1>1. Tip' = Tip /\ UNCHANGED <<chain, indexed, hashAt, stored, current, blockCh, fetcher,
                                   processor, faults>>
    BY DEF Index, IndexResult, IndexReorged, Tip, storage, engine, channels
  <1>2. Tip \in Heights /\ MaxHeight \in Nat /\ "indexer" \in Tasks
    BY TipFacts, ConfigAssumption DEF TypeInv, TypeOK, Tasks
  <1>3. /\ processing' \in SUBSET Heights
        /\ resultCh' \in {<<>>} \cup {<<r>> : r \in BlockResult}
        /\ resultCh' # <<>> => Head(resultCh').height <= Tip
    BY DEF Index, IndexResult, IndexReorged, engine, channels, TypeInv, TypeOK, HeightsOnChain,
           MessagesOnChain
  <1>4. scan' \in [Tasks -> ScanState] /\ ScansOnChain'
    <2>1. CASE IndexResult
      <3> DEFINE r == Head(resultCh)
      <3>1. r.height \in 0..MaxHeight + 1 /\ r.height <= Tip + 1
        BY <1>2, <2>1 DEF IndexResult, TypeInv, TypeOK, HeightsOnChain, MessagesOnChain,
                          BlockResult, Heights
      <3>2. StartScan("indexer", r.height) \/ UNCHANGED scan
        BY <2>1 DEF IndexResult
      <3> HIDE DEF r
      <3>3. CASE StartScan("indexer", r.height)
        BY <1>1, <1>2, <3>1, <3>3, StartScanType
      <3>4. CASE UNCHANGED scan
        BY <1>1, <3>4 DEF TypeInv, TypeOK, HeightsOnChain, ScansOnChain
      <3> QED  BY <3>2, <3>3, <3>4
    <2>2. CASE IndexReorged
      <3>1. NoScan \in ScanState /\ NoScan.pc = "off" /\ NoScan.from <= Tip + 1 /\ NoScan.check <= Tip
        BY <1>2, ConfigAssumption DEF NoScan, ScanState, Heights, BlockOrNone
      <3> QED  BY <1>1, <1>2, <2>2, <3>1
               DEF IndexReorged, ScansOnChain, TypeInv, TypeOK, HeightsOnChain
    <2> QED  BY <2>1, <2>2 DEF Index
  <1>5. TypeOK'
    BY <1>1, <1>3, <1>4 DEF TypeInv, TypeOK
  <1>6. HeightsOnChain'
    BY <1>1, <1>3, <1>4 DEF TypeInv, HeightsOnChain, IndexOnChain, FetcherOnChain,
                            MessagesOnChain, OnChain
  <1> QED  BY <1>5, <1>6 DEF TypeInv

(* A restarted process resumes within the chain, whatever its store holds. *)
LEMMA RestartType ==
    ASSUME TypeInv, Restart, indexed' \in Heights, indexed' <= Tip,
           hashAt' \in [Heights -> BlockOrNone], stored' \in [Heights -> SUBSET Blocks]
    PROVE  TypeInv'
  <1>1. chain' = chain /\ Tip' = Tip /\ Tip \in Heights /\ 0 <= Tip /\ 0 \in Heights /\ MaxHeight \in Nat
    BY TipFacts, ConfigAssumption DEF Restart, Tip, TypeInv, TypeOK, Heights
  <1>2. current' \in 0..MaxHeight + 1 /\ current' <= Tip + 1
    <2>1. current' = ResumeHeight(indexed')
      BY DEF Restart
    <2>2. ResumeHeight(indexed') \in Heights \cup {MaxHeight + 1} /\ ResumeHeight(indexed') <= Tip + 1
      BY ResumeFacts DEF TypeInv, TypeOK
    <2> QED  BY <1>1, <2>1, <2>2 DEF Heights
  <1>3. /\ IdleFetcher \in FetcherState /\ IdleProcessor \in ProcessorState
        /\ NoScan \in ScanState
    BY <1>1 DEF IdleFetcher, FetcherState, IdleProcessor, ProcessorState, NoScan,
                ScanState, BlockOrNone
  <1>4. faults' \in 0..MaxFaults
    BY ConfigAssumption DEF Restart, Inject, TypeInv, TypeOK
  <1>5. TypeOK'
    BY <1>1, <1>2, <1>3, <1>4 DEF Restart, TypeInv, TypeOK
  <1>6. HeightsOnChain'
    BY <1>1, <1>2 DEF Restart, HeightsOnChain, IndexOnChain, FetcherOnChain, MessagesOnChain,
                      ScansOnChain, IdleFetcher, IdleProcessor, NoScan, Heights
  <1> QED  BY <1>5, <1>6 DEF TypeInv

LEMMA CrashType ==
    ASSUME TypeInv, Crash \/ CrashInMeta \/ CrashInRollback
    PROVE  TypeInv'
  <1>1. Restart /\ hashAt' = hashAt
    BY DEF Crash, CrashInMeta, CrashInRollback, storage
  <1>2. indexed' \in Heights /\ indexed' <= Tip
    BY DEF Crash, CrashInMeta, CrashInRollback, storage, TypeInv, TypeOK, HeightsOnChain,
           IndexOnChain, MessagesOnChain, OnChain, BlockData
  <1>3. stored' \in [Heights -> SUBSET Blocks]
    BY DEF Crash, CrashInMeta, CrashInRollback, storage, TypeInv, TypeOK
  <1> QED  BY <1>1, <1>2, <1>3, RestartType DEF TypeInv, TypeOK

LEMMA TypeNext == TypeInv /\ [Next]_vars => TypeInv'
  <1> SUFFICES ASSUME TypeInv, [Next]_vars PROVE TypeInv'
    OBVIOUS
  <1>1. CASE NodeStep
    BY <1>1, NodeType
  <1>2. ASSUME NEW t \in Tasks, Scan(t) \/ ScanRemoteError(t) PROVE TypeInv'
    BY <1>2, ScanType
  <1>3. CASE Fetch \/ FetchError
    BY <1>3, FetchType
  <1>4. CASE Process \/ ProcessRunError \/ ProcessRunSilent
    BY <1>4, ProcessType
  <1>5. CASE Index
    BY <1>5, IndexType
  <1>6. CASE Crash \/ CrashInMeta \/ CrashInRollback
    BY <1>6, CrashType
  <1>7. CASE UNCHANGED vars
    BY <1>7 DEF vars, storage, engine, channels, tasks, TypeInv, TypeOK, HeightsOnChain,
                IndexOnChain, FetcherOnChain, MessagesOnChain, ScansOnChain, OnChain, Tip
  <1> QED  BY <1>1, <1>2, <1>3, <1>4, <1>5, <1>6, <1>7 DEF Next, Fault

(***************************************************************************)
(* No height in the store, in a channel or in a task is ever outside the   *)
(* node's chain, and every local is in its range: FetchTip can ask for a   *)
(* block without checking the tip only because of it.                      *)
(***************************************************************************)
THEOREM TypeCorrect == Spec => [](TypeOK /\ HeightsOnChain)
  <1>1. Init => TypeInv
    BY TypeInit
  <1>2. TypeInv /\ [Next]_vars => TypeInv'
    BY TypeNext
  <1> QED  BY <1>1, <1>2, PTL DEF Spec, TypeInv

-----------------------------------------------------------------------------
(***************************************************************************)
(* Between validate_block_connects and store_block_hash, the hash below    *)
(* the block being processed is still the one it was validated against.    *)
(***************************************************************************)
Validated == processor.pc \in {"run", "meta"} => Connects(processor.msg)

LEMMA ValidatedInit == Init => Validated
  BY DEF Init, IdleProcessor, Validated

(* Who writes what. *)
LEMMA Writers ==
    ASSUME [Next]_vars
    PROVE  /\ UNCHANGED chain \/ NodeStep
           /\ UNCHANGED hashAt \/ ProcessMeta
           /\ \/ UNCHANGED indexed \/ ProcessMeta \/ Crash \/ CrashInMeta \/ CrashInRollback
              \/ \E t \in Tasks : ScanRollback(t)
           /\ \/ UNCHANGED stored \/ ProcessRun \/ ProcessRunError \/ CrashInRollback
              \/ \E t \in Tasks : ScanRollback(t)
           /\ UNCHANGED current \/ Restart \/ FetchReorged \/ ProcessBump
           /\ UNCHANGED processing \/ Restart \/ FetchData \/ IndexResult
           /\ UNCHANGED blockCh \/ Restart \/ FetchSend \/ ProcessRecv
           /\ UNCHANGED resultCh \/ Restart \/ ProcessReply \/ IndexResult
           /\ UNCHANGED fetcher \/ Restart \/ Fetch \/ FetchError
           /\ UNCHANGED processor \/ Restart \/ Process \/ ProcessRunError \/ ProcessRunSilent
           /\ \/ UNCHANGED scan \/ Restart \/ FetchTip \/ FetchReorged \/ Index
              \/ \E t \in Tasks : Scan(t) \/ ScanRemoteError(t)
  BY DEF Next, NodeStep, Scan, ScanLocal, ScanRemote, ScanRollback, Fetch, FetchPeek, FetchGate,
         FetchLoad, FetchTip, FetchReorged, FetchHash, FetchData, FetchSend, Process, ProcessRecv,
         ProcessValidate, ProcessRun, ProcessMeta, ProcessBump, ProcessReply, Index, IndexResult,
         IndexReorged, Fault, FetchError, ProcessRunError, ProcessRunSilent, ScanRemoteError,
         Crash, CrashInMeta, CrashInRollback, Restart, vars, storage, engine, channels, tasks

LEMMA ValidatedNext == TypeInv /\ Validated /\ [Next]_vars => Validated'
  <1> SUFFICES ASSUME TypeInv, Validated, [Next]_vars PROVE Validated'
    OBVIOUS
  <1>1. CASE ProcessMeta
    BY <1>1 DEF ProcessMeta, Validated, TypeInv, TypeOK, ProcessorState
  <1>2. CASE ~ProcessMeta
    <2>1. UNCHANGED hashAt
      BY <1>2, Writers
    <2>2. CASE UNCHANGED processor
      BY <2>1, <2>2 DEF Validated, Connects
    <2>3. CASE Process \/ ProcessRunError \/ ProcessRunSilent
      <3>1. processor \in ProcessorState
        BY DEF TypeInv, TypeOK
      <3>2. CASE ProcessValidate
        BY <2>1, <3>1, <3>2 DEF ProcessValidate, ProcessorState, Validated, Connects
      <3>3. CASE ProcessRun \/ ProcessRunSilent
        BY <2>1, <3>1, <3>3 DEF ProcessRun, ProcessRunSilent, ProcessorState, Validated, Connects
      <3>4. CASE ProcessRecv \/ ProcessBump \/ ProcessReply \/ ProcessRunError
        <4>1. processor'.pc \notin {"run", "meta"}
          <5>1. CASE ProcessRecv
            BY <3>1, <5>1 DEF ProcessRecv, ProcessorState
          <5>2. CASE ProcessBump
            BY <3>1, <5>2 DEF ProcessBump, ProcessorState
          <5>3. CASE ProcessReply
            BY <5>3 DEF ProcessReply, IdleProcessor
          <5>4. CASE ProcessRunError
            BY <3>1, <5>4 DEF ProcessRunError, ProcessorState
          <5> QED  BY <3>4, <5>1, <5>2, <5>3, <5>4
        <4> QED  BY <4>1 DEF Validated
      <3> QED  BY <1>2, <2>3, <3>2, <3>3, <3>4 DEF Process
    <2>4. CASE Restart
      BY <2>4 DEF Restart, IdleProcessor, Validated
    <2> QED  BY <2>2, <2>3, <2>4, Writers
  <1> QED  BY <1>1, <1>2

(* A step from a state of the invariant stores only hashes that connect. *)
LEMMA MetaConnects ==
    ASSUME TypeInv, Validated, [Next]_vars,
           NEW h \in Heights \ {0}, hashAt'[h] # hashAt[h]
    PROVE  hashAt[h - 1] \in {None, Parent[hashAt'[h]]}
  <1>1. ProcessMeta
    BY Writers
  <1>2. Connects(processor.msg) /\ processor.msg \in BlockData
    BY <1>1 DEF ProcessMeta, Validated, TypeInv, HeightsOnChain, MessagesOnChain, OnChain
  <1>3. hashAt' = [hashAt EXCEPT ![processor.msg.height] = processor.msg.hash]
    BY <1>1 DEF ProcessMeta
  <1>4. h = processor.msg.height /\ hashAt'[h] = processor.msg.data
    BY <1>2, <1>3 DEF Connects, TypeInv, TypeOK
  <1> QED  BY <1>2, <1>4 DEF Connects

(***************************************************************************)
(* Whatever two tasks, the node, faults and crashes do while a block runs, *)
(* the hash that process_block stores extends the hash below it.           *)
(***************************************************************************)
THEOREM CommitsConnect == Spec => CommitConnects
  <1>1. Init => TypeInv /\ Validated
    BY TypeInit, ValidatedInit
  <1>2. TypeInv /\ Validated /\ [Next]_vars => (TypeInv /\ Validated)'
    BY TypeNext, ValidatedNext
  <1>3. TypeInv /\ Validated /\ [Next]_vars
          => [\A h \in Heights \ {0} :
                 hashAt'[h] # hashAt[h] => hashAt[h - 1] \in {None, Parent[hashAt'[h]]}]_vars
    BY MetaConnects
  <1> QED  BY <1>1, <1>2, <1>3, PTL DEF Spec, CommitConnects

-----------------------------------------------------------------------------
(* While the node only extends its chain: then the processing_heights guard *)
(* does make the pipeline serial, and after any crashes and errors the      *)
(* store holds exactly the node's blocks.                                   *)

(* The chains the node can have are prefixes of each other. *)
OneBranch ==
    \A c, d \in Chains : Len(c) <= Len(d) => \A i \in 1..Len(c) : c[i] = d[i]

(* Every hash anywhere is the node's. *)
TrueMsg(m) == m.hash = BlockAt(m.height) /\ m.data = BlockAt(m.height)

TrueHashes ==
    /\ \A h \in Heights : hashAt[h] # None => h <= Tip /\ hashAt[h] = BlockAt(h)
    /\ fetcher.pc \in {"data", "send"} => fetcher.hash = BlockAt(fetcher.height)
    /\ fetcher.pc = "send" => fetcher.data = BlockAt(fetcher.height)
    /\ blockCh # <<>> => TrueMsg(Head(blockCh))
    /\ processor.pc # "recv" => TrueMsg(processor.msg)

(* No reorg is ever suspected. *)
NoReorg ==
    /\ processor.result # "connect"
    /\ resultCh # <<>> => Head(resultCh).kind # "connect"
    /\ scan["indexer"].pc = "off"
    /\ scan["fetcher"].detected = FALSE /\ scan["fetcher"].pc # "rollback"
    /\ scan["fetcher"].pc = "remote" =>
          scan["fetcher"].local = BlockAt(scan["fetcher"].check)
    /\ fetcher.pc = "reorg" => scan["fetcher"].from = fetcher.height

(* A block is queued or being processed. *)
Working == processor.pc \in {"validate", "run", "meta", "bump"}
Busy == blockCh # <<>> \/ Working

(* The answers on their way back are of heights before current. *)
AnswersBelow ==
    /\ resultCh # <<>> => Head(resultCh).height < current
    /\ processor.pc = "reply" => processor.msg.height < current

InProcess(h) == h = current /\ h \in processing

(* At most one of the fetcher and the processor is at current, and the      *)
(* guard keeps the fetcher out as long as the processor is.                 *)
Turns ==
    /\ blockCh # <<>> => InProcess(Head(blockCh).height)
    /\ Working => InProcess(processor.msg.height) /\ blockCh = <<>>
    /\ processor.pc = "reply" =>
          \/ processor.msg.height < current
          \/ InProcess(processor.msg.height) /\ blockCh = <<>>
    /\ resultCh # <<>> =>
          \/ Head(resultCh).height < current
          \/ InProcess(Head(resultCh).height) /\ ~Busy
    /\ resultCh # <<>> /\ processor.pc = "reply" =>
          Head(resultCh).height < processor.msg.height
    /\ fetcher.pc = "gate" =>
          \/ fetcher.height = current
          \/ fetcher.height + 1 = current /\ ~Busy /\ AnswersBelow
    /\ fetcher.pc \notin {"peek", "gate"} => ~Busy /\ AnswersBelow
    /\ fetcher.pc \notin {"peek", "gate", "load"} => fetcher.height = current
    /\ fetcher.pc = "send" => fetcher.height \in processing

LineInv == TrueHashes /\ NoReorg /\ Turns

(* The store holds the blocks up to the indexed height, and current follows *)
(* the indexed height.                                                      *)
StoredTrue ==
    /\ \A h \in Heights : stored[h] # {} => h <= Tip /\ stored[h] = {BlockAt(h)}
    /\ \A h \in StartBlock..indexed : stored[h] # {}
    /\ processor.pc = "meta" => stored[processor.msg.height] # {}
    /\ processor.pc = "bump" => indexed = current /\ StartBlock <= current
    /\ processor.pc # "bump" => current = ResumeHeight(indexed)

-----------------------------------------------------------------------------
(* What each step of the fetcher and of the processor does to its locals. *)
LEMMA FetchFields ==
    ASSUME TypeInv
    PROVE  /\ FetchPeek => fetcher'.pc = "gate" /\ fetcher'.height = current
           /\ FetchGate => \/ fetcher'.pc = "peek"
                           \/ fetcher'.pc = "load" /\ fetcher.height \notin processing
           /\ FetchLoad => fetcher'.pc = "tip" /\ fetcher'.height = current
           /\ FetchTip => fetcher'.pc \in {"reorg", "hash"} /\ fetcher'.height = fetcher.height
           /\ FetchReorged => \/ fetcher'.pc = "peek"
                              \/ /\ fetcher'.pc = "hash"
                                 /\ fetcher'.height = ScanResult(scan["fetcher"])
           /\ FetchHash => /\ fetcher'.pc = "data" /\ fetcher'.height = fetcher.height
                           /\ fetcher'.hash = BlockAt(fetcher.height)
           /\ FetchData => /\ fetcher'.pc = "send" /\ fetcher'.height = fetcher.height
                           /\ fetcher'.hash = fetcher.hash
                           /\ fetcher'.data = BlockAt(fetcher.height)
           /\ FetchSend \/ FetchError => fetcher'.pc = "peek"
  <1>1. fetcher \in FetcherState
    BY DEF TypeInv, TypeOK
  <1>2. FetchPeek => fetcher'.pc = "gate" /\ fetcher'.height = current
    BY <1>1 DEF FetchPeek, FetcherState
  <1>3. FetchGate => \/ fetcher'.pc = "peek"
                     \/ fetcher'.pc = "load" /\ fetcher.height \notin processing
    BY DEF FetchGate, IdleFetcher
  <1>4. FetchLoad => fetcher'.pc = "tip" /\ fetcher'.height = current
    BY <1>1 DEF FetchLoad, FetcherState
  <1>5. FetchTip => fetcher'.pc \in {"reorg", "hash"} /\ fetcher'.height = fetcher.height
    BY <1>1 DEF FetchTip, FetcherState
  <1>6. FetchReorged => \/ fetcher'.pc = "peek"
                        \/ /\ fetcher'.pc = "hash"
                           /\ fetcher'.height = ScanResult(scan["fetcher"])
    BY <1>1 DEF FetchReorged, FetcherState, IdleFetcher
  <1>7. FetchHash => /\ fetcher'.pc = "data" /\ fetcher'.height = fetcher.height
                     /\ fetcher'.hash = BlockAt(fetcher.height)
    BY <1>1 DEF FetchHash, FetcherState
  <1>8. FetchData => /\ fetcher'.pc = "send" /\ fetcher'.height = fetcher.height
                     /\ fetcher'.hash = fetcher.hash /\ fetcher'.data = BlockAt(fetcher.height)
    BY <1>1 DEF FetchData, FetcherState
  <1>9. FetchSend \/ FetchError => fetcher'.pc = "peek"
    BY DEF FetchSend, FetchError, IdleFetcher
  <1> QED  BY <1>2, <1>3, <1>4, <1>5, <1>6, <1>7, <1>8, <1>9

LEMMA ProcessFields ==
    ASSUME TypeInv
    PROVE  /\ ProcessRecv => /\ processor'.pc = "validate" /\ processor'.msg = Head(blockCh)
                             /\ processor'.result = processor.result
           /\ ProcessValidate => /\ processor'.msg = processor.msg
                                 /\ \/ processor'.pc = "run" /\ processor'.result = processor.result
                                    \/ processor'.pc = "reply" /\ ~Connects(processor.msg)
           /\ ProcessRun \/ ProcessRunSilent =>
                 /\ processor'.pc = "meta" /\ processor'.msg = processor.msg
                 /\ processor'.result = processor.result
           /\ ProcessRunError => /\ processor'.pc = "reply" /\ processor'.msg = processor.msg
                                 /\ processor'.result = "runtime"
           /\ ProcessMeta => /\ processor'.pc = "bump" /\ processor'.msg = processor.msg
                             /\ processor'.result = processor.result
           /\ ProcessBump => /\ processor'.pc = "reply" /\ processor'.msg = processor.msg
                             /\ processor'.result = "success"
           /\ ProcessReply => processor'.pc = "recv" /\ processor'.result = "success"
  <1>1. processor \in ProcessorState
    BY DEF TypeInv, TypeOK
  <1>2. ProcessRecv => /\ processor'.pc = "validate" /\ processor'.msg = Head(blockCh)
                       /\ processor'.result = processor.result
    BY <1>1 DEF ProcessRecv, ProcessorState
  <1>3. ProcessValidate => /\ processor'.msg = processor.msg
                           /\ \/ processor'.pc = "run" /\ processor'.result = processor.result
                              \/ processor'.pc = "reply" /\ ~Connects(processor.msg)
    BY <1>1 DEF ProcessValidate, ProcessorState
  <1>4. ProcessRun \/ ProcessRunSilent => /\ processor'.pc = "meta" /\ processor'.msg = processor.msg
                                          /\ processor'.result = processor.result
    BY <1>1 DEF ProcessRun, ProcessRunSilent, ProcessorState
  <1>5. ProcessRunError => /\ processor'.pc = "reply" /\ processor'.msg = processor.msg
                           /\ processor'.result = "runtime"
    BY <1>1 DEF ProcessRunError, ProcessorState
  <1>6. ProcessMeta => /\ processor'.pc = "bump" /\ processor'.msg = processor.msg
                       /\ processor'.result = processor.result
    BY <1>1 DEF ProcessMeta, ProcessorState
  <1>7. ProcessBump => /\ processor'.pc = "reply" /\ processor'.msg = processor.msg
                       /\ processor'.result = "success"
    BY <1>1 DEF ProcessBump, ProcessorState
  <1>8. ProcessReply => processor'.pc = "recv" /\ processor'.result = "success"
    BY DEF ProcessReply, IdleProcessor
  <1> QED  BY <1>2, <1>3, <1>4, <1>5, <1>6, <1>7, <1>8

-----------------------------------------------------------------------------
(* Every hash is the node's, and every block connects. *)

LEMMA BranchFacts ==
    ASSUME OneBranch, chain \in Chains, NodeAdvance
    PROVE  /\ Tip \in Nat /\ Tip' \in Nat /\ Tip < Tip'
           /\ \A h \in 0..Tip : BlockAt(h)' = BlockAt(h)
  <1>1. chain' \in Chains /\ Len(chain) < Len(chain')
    BY DEF NodeAdvance
  <1>2. /\ Len(chain) \in Nat /\ Len(chain') \in Nat /\ Len(chain) > 0
        /\ \A i \in 1..Len(chain) : chain'[i] = chain[i]
    BY <1>1, ChainFacts, ConfigAssumption DEF OneBranch
  <1>3. \A h \in 0..Tip : h + 1 \in 1..Len(chain)
    BY <1>2 DEF Tip
  <1> QED  BY <1>1, <1>2, <1>3 DEF Tip, BlockAt

LEMMA TrueConnects ==
    ASSUME TypeInv, TrueHashes, processor.pc # "recv"
    PROVE  Connects(processor.msg)
  <1> DEFINE m == processor.msg
  <1>1. /\ m.height \in Heights /\ m.height <= Tip /\ chain \in Chains
        /\ m.data = BlockAt(m.height) /\ m.hash = m.data
    BY DEF TypeInv, TypeOK, HeightsOnChain, MessagesOnChain, OnChain, BlockData, TrueHashes, TrueMsg
  <1> HIDE DEF m
  <1>2. CASE m.height = 0
    BY <1>1, <1>2 DEF Connects, m
  <1>3. CASE m.height # 0
    <2>1. m.height - 1 \in Heights /\ m.height + 1 \in 2..Len(chain)
      BY <1>1, <1>3, ChainFacts, ConfigAssumption DEF Heights, Tip
    <2>2. Parent[chain[m.height + 1]] = chain[m.height]
      BY <1>1, <2>1, ChainAssumption DEF Heights
    <2>3. hashAt[m.height - 1] \in {None, chain[m.height]}
      BY <1>1, <2>1 DEF TrueHashes, BlockAt, Heights
    <2> QED  BY <1>1, <2>2, <2>3 DEF Connects, BlockAt, m
  <1> QED  BY <1>2, <1>3

LEMMA TrueHashesInit == Init => TrueHashes
  BY DEF Init, TrueHashes, IdleFetcher, IdleProcessor

LEMMA TrueHashesNext ==
    ASSUME OneBranch, TypeInv, TrueHashes, [Next]_vars
    PROVE  TrueHashes'
  <1>1. CASE NodeStep
    <2>1. /\ Tip \in Nat /\ Tip' \in Nat /\ Tip < Tip'
          /\ \A h \in 0..Tip : BlockAt(h)' = BlockAt(h)
      BY <1>1, BranchFacts DEF NodeStep, TypeInv, TypeOK
    <2>2. UNCHANGED <<hashAt, fetcher, blockCh, processor>>
      BY <1>1 DEF NodeStep, storage, channels, tasks
    <2>3. \A h \in Heights : hashAt[h] # None => h <= Tip' /\ hashAt[h] = BlockAt(h)'
      BY <2>1, ConfigAssumption DEF TrueHashes, Heights
    <2>4. /\ fetcher.pc \in {"data", "send"} => fetcher.height \in 0..Tip
          /\ blockCh # <<>> => Head(blockCh).height \in 0..Tip
          /\ processor.pc # "recv" => processor.msg.height \in 0..Tip
      BY <2>1, ConfigAssumption DEF TypeInv, TypeOK, HeightsOnChain, FetcherOnChain, MessagesOnChain,
                                    OnChain, BlockData, Heights, FetcherState
    <2>5. /\ fetcher.pc \in {"data", "send"} => fetcher.hash = BlockAt(fetcher.height)'
          /\ fetcher.pc = "send" => fetcher.data = BlockAt(fetcher.height)'
      BY <2>1, <2>2, <2>4 DEF TrueHashes
    <2>6. /\ blockCh # <<>> => TrueMsg(Head(blockCh))'
          /\ processor.pc # "recv" => TrueMsg(processor.msg)'
      BY <2>1, <2>2, <2>4 DEF TrueHashes, TrueMsg
    <2> QED  BY <2>2, <2>3, <2>5, <2>6 DEF TrueHashes
  <1>2. CASE ~NodeStep
    <2>1. UNCHANGED chain /\ Tip' = Tip /\ \A h : BlockAt(h)' = BlockAt(h)
      BY <1>2, Writers DEF Tip, BlockAt
    <2>2. \A m : TrueMsg(m) => m.hash = BlockAt(m.height)' /\ m.data = BlockAt(m.height)'
      BY <2>1 DEF TrueMsg
    <2>3. \A h \in Heights : hashAt'[h] # None => h <= Tip' /\ hashAt'[h] = BlockAt(h)'
      <3>1. CASE UNCHANGED hashAt
        BY <2>1, <3>1 DEF TrueHashes
      <3>2. CASE ProcessMeta
        <4>1. /\ TrueMsg(processor.msg) /\ processor.msg.height <= Tip
              /\ hashAt' = [hashAt EXCEPT ![processor.msg.height] = processor.msg.hash]
          BY <3>2 DEF ProcessMeta, TrueHashes, TypeInv, HeightsOnChain, MessagesOnChain, OnChain
        <4> QED  BY <2>1, <4>1 DEF TrueHashes, TrueMsg, TypeInv, TypeOK
      <3> QED  BY <3>1, <3>2, Writers
    <2>4. /\ fetcher'.pc \in {"data", "send"} => fetcher'.hash = BlockAt(fetcher'.height)
          /\ fetcher'.pc = "send" => fetcher'.data = BlockAt(fetcher'.height)
      <3>1. CASE UNCHANGED fetcher
        BY <3>1 DEF TrueHashes
      <3>2. CASE Restart
        BY <3>2 DEF Restart, IdleFetcher
      <3>3. CASE FetchPeek \/ FetchGate \/ FetchLoad \/ FetchTip \/ FetchReorged
                    \/ FetchSend \/ FetchError
        BY <3>3, FetchFields
      <3>4. CASE FetchHash \/ FetchData
        <4>1. FetchData => fetcher.pc = "data"
          BY DEF FetchData
        <4> QED  BY <3>4, <4>1, FetchFields DEF TrueHashes
      <3> QED  BY <3>1, <3>2, <3>3, <3>4, Writers DEF Fetch
    <2>5. blockCh' # <<>> => TrueMsg(Head(blockCh'))
      <3>1. CASE UNCHANGED blockCh
        BY <3>1 DEF TrueHashes
      <3>2. CASE Restart \/ ProcessRecv
        BY <3>2 DEF Restart, ProcessRecv
      <3>3. CASE FetchSend
        BY <3>3 DEF FetchSend, TrueHashes, TrueMsg
      <3> QED  BY <3>1, <3>2, <3>3, Writers
    <2>6. processor'.pc # "recv" => TrueMsg(processor'.msg)
      <3>1. CASE UNCHANGED processor
        BY <3>1 DEF TrueHashes
      <3>2. CASE Restart
        BY <3>2 DEF Restart, IdleProcessor
      <3>3. CASE ProcessRecv
        BY <3>3, ProcessFields DEF ProcessRecv, TrueHashes
      <3>4. CASE ProcessValidate \/ ProcessRun \/ ProcessRunSilent \/ ProcessRunError
                    \/ ProcessMeta \/ ProcessBump
        <4>1. processor.pc # "recv"
          BY <3>4 DEF ProcessValidate, ProcessRun, ProcessRunSilent, ProcessRunError, ProcessMeta,
                      ProcessBump
        <4> QED  BY <3>4, <4>1, ProcessFields DEF TrueHashes
      <3>5. CASE ProcessReply
        BY <3>5, ProcessFields
      <3> QED  BY <3>1, <3>2, <3>3, <3>4, <3>5, Writers DEF Process
    <2> QED  BY <2>1, <2>2, <2>3, <2>4, <2>5, <2>6 DEF TrueHashes, TrueMsg
  <1> QED  BY <1>1, <1>2

-----------------------------------------------------------------------------
(* No block fails to connect and handle_reorg never finds a mismatch. *)

LEMMA NoReorgInit == Init => NoReorg
  BY DEF Init, NoReorg, IdleFetcher, IdleProcessor, NoScan, Tasks

(* What a step may do to the fetcher's handle_reorg, and to the indexer's. *)
LEMMA ScanFields ==
    ASSUME TypeInv, TrueHashes, NoReorg, NEW t \in Tasks, Scan(t) \/ ScanRemoteError(t)
    PROVE  /\ t = "fetcher" /\ scan'["indexer"] = scan["indexer"]
           /\ scan'["fetcher"].pc # "rollback" /\ scan'["fetcher"].detected = FALSE
           /\ scan'["fetcher"].from = scan["fetcher"].from
           /\ scan'["fetcher"].pc = "remote" =>
                 scan'["fetcher"].local = BlockAt(scan'["fetcher"].check)
  <1> DEFINE s == scan["fetcher"]
  <1>1. /\ scan \in [Tasks -> ScanState] /\ s \in ScanState
        /\ s.detected = FALSE /\ s.pc # "rollback"
        /\ s.pc = "remote" => s.local = BlockAt(s.check)
    BY DEF NoReorg, TypeInv, TypeOK, Tasks
  <1>2. t = "fetcher"
    BY DEF Tasks, Scan, ScanLocal, ScanRemote, ScanRollback, ScanRemoteError, NoReorg
  <1>3. ~ScanRollback(t)
    BY <1>1, <1>2 DEF ScanRollback
  <1> DEFINE Good(r) == /\ r.pc # "rollback" /\ r.detected = FALSE /\ r.from = s.from
                        /\ r.pc = "remote" => r.local = BlockAt(r.check)
  <1>4. \E r : Good(r) /\ scan' = [scan EXCEPT !["fetcher"] = r]
    <2>1. CASE ScanLocal(t)
      <3>1. CASE ~InRange(s)
        <4> DEFINE r == [s EXCEPT !.pc = "done"]
        <4>1. scan' = [scan EXCEPT !["fetcher"] = r]
          BY <1>1, <1>2, <2>1, <3>1 DEF ScanLocal
        <4>2. Good(r)
          BY <1>1 DEF ScanState
        <4> QED  BY <4>1, <4>2
      <3>2. CASE InRange(s) /\ hashAt[s.check] = None
        <4> DEFINE r == [s EXCEPT !.check = @ - 1]
        <4>1. scan' = [scan EXCEPT !["fetcher"] = r] /\ s.pc = "local"
          BY <1>1, <1>2, <2>1, <3>2 DEF ScanLocal
        <4>2. Good(r)
          BY <1>1, <4>1 DEF ScanState
        <4> QED  BY <4>1, <4>2
      <3>3. CASE InRange(s) /\ hashAt[s.check] # None
        <4> DEFINE r == [s EXCEPT !.pc = "remote", !.local = hashAt[s.check]]
        <4>1. scan' = [scan EXCEPT !["fetcher"] = r]
          BY <1>1, <1>2, <2>1, <3>3 DEF ScanLocal
        <4>2. hashAt[s.check] = BlockAt(s.check)
          BY <1>1, <3>3 DEF TrueHashes, ScanState
        <4>3. Good(r)
          BY <1>1, <4>2 DEF ScanState
        <4> QED  BY <4>1, <4>3
      <3> QED  BY <3>1, <3>2, <3>3
    <2>2. CASE ScanRemote(t)
      <3> DEFINE r == [s EXCEPT !.pc = "done", !.local = None]
      <3>1. scan' = [scan EXCEPT !["fetcher"] = r]
        BY <1>1, <1>2, <2>2 DEF ScanRemote
      <3>2. Good(r)
        BY <1>1 DEF ScanState
      <3> QED  BY <3>1, <3>2
    <2>3. CASE ScanRemoteError(t)
      <3> DEFINE r == [s EXCEPT !.pc = "done", !.check = s.from - 1, !.detected = FALSE, !.local = None]
      <3>1. scan' = [scan EXCEPT !["fetcher"] = r]
        BY <1>2, <2>3 DEF ScanRemoteError
      <3>2. Good(r)
        BY <1>1 DEF ScanState
      <3> QED  BY <3>1, <3>2
    <2> QED  BY <1>3, <2>1, <2>2, <2>3 DEF Scan
  <1>5. PICK r : Good(r) /\ scan' = [scan EXCEPT !["fetcher"] = r]
    BY <1>4
  <1> HIDE DEF s
  <1>6. scan'["fetcher"] = r /\ scan'["indexer"] = scan["indexer"]
    BY <1>1, <1>5 DEF Tasks
  <1>7. Good(scan'["fetcher"])
    BY <1>5, <1>6
  <1> QED  BY <1>2, <1>6, <1>7 DEF s

(* The fetcher's handle_reorg returns the height it was entered with. *)
LEMMA ReorgedFields ==
    ASSUME TypeInv, NoReorg, FetchReorged
    PROVE  ScanResult(scan["fetcher"]) = fetcher.height
  BY DEF NoReorg, FetchReorged, ScanResult

LEMMA NoReorgNext ==
    ASSUME OneBranch, TypeInv, TrueHashes, NoReorg, [Next]_vars
    PROVE  NoReorg'
  <1> DEFINE f == scan["fetcher"]
             ScanGood == /\ scan'["indexer"].pc = "off"
                         /\ scan'["fetcher"].detected = FALSE /\ scan'["fetcher"].pc # "rollback"
                         /\ scan'["fetcher"].pc = "remote" =>
                               scan'["fetcher"].local = chain'[scan'["fetcher"].check + 1]
                         /\ fetcher'.pc = "reorg" => scan'["fetcher"].from = fetcher'.height
  <1>1. scan \in [Tasks -> ScanState] /\ fetcher \in FetcherState
    BY DEF TypeInv, TypeOK
  <1>2. processor'.result # "connect"
    <2>1. CASE UNCHANGED processor
      BY <2>1 DEF NoReorg
    <2>2. CASE Restart
      BY <2>2 DEF Restart, IdleProcessor
    <2>3. CASE ProcessValidate
      <3>1. Connects(processor.msg)
        BY <2>3, TrueConnects DEF ProcessValidate
      <3> QED  BY <2>3, <3>1, ProcessFields DEF NoReorg
    <2>4. CASE ProcessRecv \/ ProcessRun \/ ProcessRunSilent \/ ProcessRunError \/ ProcessMeta
                  \/ ProcessBump \/ ProcessReply
      BY <2>4, ProcessFields DEF NoReorg
    <2> QED  BY <2>1, <2>2, <2>3, <2>4, Writers DEF Process
  <1>3. resultCh' # <<>> => Head(resultCh').kind # "connect"
    <2>1. CASE UNCHANGED resultCh
      BY <2>1 DEF NoReorg
    <2>2. CASE Restart \/ IndexResult
      BY <2>2 DEF Restart, IndexResult
    <2>3. CASE ProcessReply
      BY <2>3 DEF ProcessReply, NoReorg
    <2> QED  BY <2>1, <2>2, <2>3, Writers
  <1>4. ScanGood
    <2>1. CASE NodeStep
      <3>1. UNCHANGED <<fetcher, scan>>
        BY <2>1 DEF NodeStep, tasks
      <3>2. \A h \in 0..Tip : chain'[h + 1] = chain[h + 1]
        BY <2>1, BranchFacts DEF NodeStep, TypeInv, TypeOK, BlockAt
      <3>3. f.check \in 0..Tip
        BY <1>1, TipFacts DEF TypeInv, TypeOK, HeightsOnChain, ScansOnChain, ScanState, Heights, Tasks
      <3> QED  BY <3>1, <3>2, <3>3 DEF NoReorg, BlockAt
    <2>2. CASE ~NodeStep
      <3>1. chain' = chain
        BY <2>2, Writers
      <3>2. CASE Restart
        BY <3>2 DEF Restart, NoScan, IdleFetcher, Tasks
      <3>3. CASE FetchTip
        <4>1. scan'["indexer"] = scan["indexer"]
          BY <1>1, <3>3 DEF FetchTip, StartScan, Tasks
        <4>2. \/ scan' = scan /\ fetcher'.pc # "reorg"
              \/ /\ scan'["fetcher"].detected = FALSE
                 /\ scan'["fetcher"].pc \in {"local", "done"}
                 /\ scan'["fetcher"].from = fetcher.height
          BY <1>1, <3>3 DEF FetchTip, StartScan, FetcherState, Tasks
        <4> QED  BY <3>1, <3>3, <4>1, <4>2, FetchFields DEF NoReorg, BlockAt
      <3>4. CASE FetchReorged
        <4>1. scan'["fetcher"] = NoScan /\ scan'["indexer"] = scan["indexer"]
          BY <1>1, <3>4 DEF FetchReorged, Tasks
        <4>2. fetcher'.pc # "reorg"
          BY <3>4, FetchFields
        <4> QED  BY <4>1, <4>2 DEF NoScan, NoReorg
      <3>5. CASE UNCHANGED scan /\ (UNCHANGED fetcher \/ Fetch \/ FetchError)
                    /\ ~FetchTip /\ ~FetchReorged
        <4>1. fetcher' = fetcher \/ fetcher'.pc # "reorg"
          BY <3>5, FetchFields DEF Fetch
        <4> QED  BY <3>1, <3>5, <4>1 DEF NoReorg, BlockAt
      <3>6. CASE \E t \in Tasks : Scan(t) \/ ScanRemoteError(t)
        <4>1. fetcher' = fetcher
          BY <3>6 DEF Scan, ScanLocal, ScanRemote, ScanRollback, ScanRemoteError
        <4> QED  BY <3>1, <3>6, <4>1, ScanFields DEF NoReorg, BlockAt
      <3>7. CASE Index
        <4>1. IndexResult /\ Head(resultCh).kind # "connect"
          BY <3>7 DEF Index, IndexReorged, IndexResult, NoReorg
        <4>2. scan' = scan /\ fetcher' = fetcher
          BY <4>1 DEF IndexResult
        <4> QED  BY <3>1, <4>2 DEF NoReorg, BlockAt
      <3> QED  BY <3>2, <3>3, <3>4, <3>5, <3>6, <3>7, Writers
    <2> QED  BY <2>1, <2>2
  <1> QED  BY <1>2, <1>3, <1>4 DEF NoReorg, BlockAt

-----------------------------------------------------------------------------
(* The fetcher and the processor take turns. *)

LEMMA TurnsInit == Init => Turns
  BY DEF Init, Turns, Working, Busy, IdleFetcher, IdleProcessor

(* Steps that Turns does not see. *)
LEMMA TurnsFrame ==
    ASSUME Turns, UNCHANGED <<current, processing, blockCh, resultCh, fetcher, processor>>
    PROVE  Turns'
  BY DEF Turns, Working, Busy, AnswersBelow, InProcess

LEMMA TurnsFetch ==
    ASSUME TypeInv, NoReorg, Turns, Fetch \/ FetchError
    PROVE  Turns'
  <1>1. current \in Nat /\ fetcher.height \in Nat
    BY ConfigAssumption DEF TypeInv, TypeOK, FetcherState
  <1>2. UNCHANGED <<resultCh, processor>>
    BY DEF Fetch, FetchPeek, FetchGate, FetchLoad, FetchTip, FetchReorged, FetchHash, FetchData,
           FetchSend, FetchError, channels
  <1>3. CASE FetchPeek \/ FetchGate \/ FetchLoad \/ FetchTip \/ FetchHash \/ FetchError
    <2>1. UNCHANGED <<current, processing, blockCh>>
      BY <1>3 DEF FetchPeek, FetchGate, FetchLoad, FetchTip, FetchHash, FetchError, engine, channels
    <2>2. CASE FetchPeek
      BY <1>2, <2>1, <2>2, FetchFields DEF Turns, Working, Busy, AnswersBelow, InProcess
    <2>3. CASE FetchGate
      <3>1. fetcher.pc = "gate"
        BY <2>3 DEF FetchGate
      <3>2. fetcher.height \notin processing => ~Busy /\ AnswersBelow
        BY <1>1, <3>1 DEF Turns, Working, Busy, AnswersBelow, InProcess
      <3> QED  BY <1>2, <2>1, <2>3, <3>1, <3>2, FetchFields
               DEF Turns, Working, Busy, AnswersBelow, InProcess
    <2>4. CASE FetchLoad
      BY <1>2, <2>1, <2>4, FetchFields DEF FetchLoad, Turns, Working, Busy, AnswersBelow, InProcess
    <2>5. CASE FetchTip
      <3>1. fetcher.pc = "tip"
        BY <2>5 DEF FetchTip
      <3> QED  BY <1>2, <2>1, <2>5, <3>1, FetchFields
               DEF Turns, Working, Busy, AnswersBelow, InProcess
    <2>6. CASE FetchHash
      <3>1. fetcher.pc = "hash"
        BY <2>6 DEF FetchHash
      <3> QED  BY <1>2, <2>1, <2>6, <3>1, FetchFields
               DEF Turns, Working, Busy, AnswersBelow, InProcess
    <2>7. CASE FetchError
      BY <1>2, <2>1, <2>7, FetchFields DEF Turns, Working, Busy, AnswersBelow, InProcess
    <2> QED  BY <1>3, <2>2, <2>3, <2>4, <2>5, <2>6, <2>7
  <1>4. CASE FetchReorged
    <2>1. /\ fetcher.pc = "reorg" /\ current' = fetcher.height /\ current' = current
          /\ UNCHANGED <<processing, blockCh>>
      BY <1>4, ReorgedFields DEF FetchReorged, Turns, channels
    <2>2. fetcher'.pc = "peek" \/ (fetcher'.pc = "hash" /\ fetcher'.height = fetcher.height)
      <3>1. ScanResult(scan["fetcher"]) = fetcher.height
        BY <1>4, ReorgedFields
      <3>2. \/ fetcher'.pc = "peek"
            \/ fetcher'.pc = "hash" /\ fetcher'.height = ScanResult(scan["fetcher"])
        BY <1>4, FetchFields
      <3> QED  BY <3>1, <3>2
    <2> QED  BY <1>2, <2>1, <2>2 DEF Turns, Working, Busy, AnswersBelow, InProcess
  <1>5. CASE FetchData
    <2>1. /\ fetcher.pc = "data" /\ UNCHANGED <<current, blockCh>>
          /\ processing' = processing \cup {fetcher.height}
      BY <1>5 DEF FetchData, channels
    <2>2. fetcher'.pc = "send" /\ fetcher'.height = fetcher.height
      BY <1>5, FetchFields
    <2> QED  BY <1>2, <2>1, <2>2 DEF Turns, Working, Busy, AnswersBelow, InProcess
  <1>6. CASE FetchSend
    <2>1. /\ fetcher.pc = "send" /\ UNCHANGED <<current, processing>>
          /\ Head(blockCh').height = fetcher.height /\ fetcher'.pc = "peek"
      BY <1>6, FetchFields DEF FetchSend, engine
    <2> QED  BY <1>2, <2>1 DEF Turns, Working, Busy, AnswersBelow, InProcess
  <1> QED  BY <1>3, <1>4, <1>5, <1>6 DEF Fetch

LEMMA TurnsProcess ==
    ASSUME TypeInv, Turns, Process \/ ProcessRunError \/ ProcessRunSilent
    PROVE  Turns'
  <1>1. UNCHANGED <<processing, fetcher>>
    BY DEF Process, ProcessRecv, ProcessValidate, ProcessRun, ProcessMeta, ProcessBump,
           ProcessReply, ProcessRunError, ProcessRunSilent, engine
  <1>2. CASE ProcessRecv
    <2>1. /\ processor.pc = "recv" /\ blockCh # <<>> /\ blockCh' = <<>>
          /\ UNCHANGED <<current, resultCh>>
      BY <1>2 DEF ProcessRecv, engine
    <2>2. processor'.pc = "validate" /\ processor'.msg = Head(blockCh)
      BY <1>2, ProcessFields
    <2> QED  BY <1>1, <2>1, <2>2 DEF Turns, Working, Busy, AnswersBelow, InProcess
  <1>3. CASE ProcessValidate \/ ProcessRun \/ ProcessRunError \/ ProcessRunSilent \/ ProcessMeta
    <2>1. Working /\ UNCHANGED <<current, blockCh, resultCh>>
      BY <1>3 DEF ProcessValidate, ProcessRun, ProcessRunError, ProcessRunSilent, ProcessMeta,
                  Working, engine, channels
    <2>2. /\ processor'.pc \in {"run", "meta", "bump", "reply"}
          /\ processor'.msg = processor.msg
      BY <1>3, ProcessFields
    <2> QED  BY <1>1, <2>1, <2>2 DEF Turns, Working, Busy, AnswersBelow, InProcess
  <1>4. CASE ProcessBump
    <2>1. /\ Working /\ UNCHANGED <<blockCh, resultCh>> /\ current' = processor.msg.height + 1
      BY <1>4 DEF ProcessBump, Working, channels
    <2>2. processor'.pc = "reply" /\ processor'.msg = processor.msg
      BY <1>4, ProcessFields
    <2>3. /\ current \in Nat /\ fetcher.height \in Nat /\ current' = current + 1 /\ blockCh = <<>>
          /\ resultCh # <<>> => Head(resultCh).height \in Nat /\ Head(resultCh).height < current
      BY <2>1, ConfigAssumption DEF TypeInv, TypeOK, FetcherState, BlockResult, Heights, Turns,
                                    Busy, InProcess
    <2> QED  BY <1>1, <2>1, <2>2, <2>3 DEF Turns, Working, Busy, AnswersBelow, InProcess
  <1>5. CASE ProcessReply
    <2>1. /\ processor.pc = "reply" /\ resultCh = <<>> /\ resultCh' # <<>>
          /\ Head(resultCh').height = processor.msg.height /\ UNCHANGED <<current, blockCh>>
      BY <1>5 DEF ProcessReply, engine
    <2>2. processor'.pc = "recv"
      BY <1>5, ProcessFields
    <2> QED  BY <1>1, <2>1, <2>2 DEF Turns, Working, Busy, AnswersBelow, InProcess
  <1> QED  BY <1>2, <1>3, <1>4, <1>5 DEF Process

LEMMA TurnsIndex ==
    ASSUME TypeInv, Turns, Index
    PROVE  Turns'
  <1>1. UNCHANGED <<current, blockCh, fetcher, processor>>
    BY DEF Index, IndexResult, IndexReorged, engine, channels
  <1>2. CASE IndexResult
    <2>1. /\ resultCh # <<>> /\ resultCh' = <<>>
          /\ processing' = processing \ {Head(resultCh).height}
      BY <1>2 DEF IndexResult
    <2>2. /\ current \in Nat /\ Head(resultCh).height \in Nat
          /\ processor.pc = "reply" => processor.msg.height \in Nat
      BY <2>1, ConfigAssumption DEF TypeInv, TypeOK, BlockResult, Heights, HeightsOnChain,
                                    MessagesOnChain, OnChain, BlockData
    <2>3. Busy => Head(resultCh).height # current
      BY <2>1, <2>2 DEF Turns
    <2>4. fetcher.pc = "send" => Head(resultCh).height # fetcher.height
      BY <2>1, <2>2 DEF Turns, AnswersBelow
    <2>5. processor.pc = "reply" => Head(resultCh).height # processor.msg.height
      BY <2>1, <2>2 DEF Turns
    <2> QED  BY <1>1, <2>1, <2>3, <2>4, <2>5 DEF Turns, Working, Busy, AnswersBelow, InProcess
  <1>3. CASE IndexReorged
    BY <1>1, <1>3, TurnsFrame DEF IndexReorged, engine, channels
  <1> QED  BY <1>2, <1>3 DEF Index

LEMMA TurnsNext == TypeInv /\ NoReorg /\ Turns /\ [Next]_vars => Turns'
  <1> SUFFICES ASSUME TypeInv, NoReorg, Turns, [Next]_vars PROVE Turns'
    OBVIOUS
  <1>1. CASE NodeStep \/ UNCHANGED vars \/ \E t \in Tasks : Scan(t) \/ ScanRemoteError(t)
    BY <1>1, TurnsFrame DEF NodeStep, Scan, ScanLocal, ScanRemote, ScanRollback, ScanRemoteError,
                            vars, engine, channels, tasks
  <1>2. CASE Restart
    BY <1>2 DEF Restart, Turns, Working, Busy, IdleFetcher, IdleProcessor
  <1> QED  BY <1>1, <1>2, TurnsFetch, TurnsProcess, TurnsIndex
           DEF Next, Fault, Crash, CrashInMeta, CrashInRollback

(***************************************************************************)
(* Without reorgs the promise of run() holds: while the fetcher is past    *)
(* the processing_heights guard no block is queued or half done, whatever  *)
(* fails and however often the process restarts.                           *)
(***************************************************************************)
THEOREM SerialWithoutReorgs == OneBranch => (Spec => []StrictlySerial)
  <1> SUFFICES ASSUME OneBranch PROVE Spec => []StrictlySerial
    OBVIOUS
  <1>1. Init => TypeInv /\ LineInv
    BY TypeInit, TrueHashesInit, NoReorgInit, TurnsInit DEF LineInv
  <1>2. TypeInv /\ LineInv /\ [Next]_vars => (TypeInv /\ LineInv)'
    BY TypeNext, TrueHashesNext, NoReorgNext, TurnsNext DEF LineInv
  <1>3. LineInv => StrictlySerial
    BY DEF LineInv, Turns, Busy, Working, StrictlySerial
  <1> QED  BY <1>1, <1>2, <1>3, PTL DEF Spec

-----------------------------------------------------------------------------
(* The store follows the node. *)

LEMMA StoredInit == Init /\ StartBlock > 0 => StoredTrue
  BY ConfigAssumption DEF Init, StoredTrue, IdleProcessor, Heights

(* Rollbacks need a reorg. *)
LEMMA NoRollback ==
    ASSUME NoReorg
    PROVE  ~CrashInRollback /\ \A t \in Tasks : ~ScanRollback(t)
  BY DEF NoReorg, CrashInRollback, ScanRollback, Tasks

(* The height about to be committed is the next one, or the first. *)
LEMMA NextHeight ==
    ASSUME StartBlock > 0, TypeInv, StoredTrue, Turns, processor.pc \in {"run", "meta"}
    PROVE  /\ processor.msg.height = current /\ current \in Heights
           /\ StartBlock <= current /\ current <= Tip
           /\ \A h \in StartBlock..current : h = current \/ h \in StartBlock..indexed
  <1>1. processor.msg.height = current /\ processor.msg \in BlockData /\ processor.msg.height <= Tip
    BY DEF Turns, Working, InProcess, TypeInv, HeightsOnChain, MessagesOnChain, OnChain
  <1>2. current = ResumeHeight(indexed) /\ indexed \in Nat /\ StartBlock \in Nat
    BY ConfigAssumption DEF StoredTrue, TypeInv, TypeOK, Heights
  <1> QED  BY <1>1, <1>2 DEF ResumeHeight, BlockData

LEMMA StoredNext ==
    ASSUME OneBranch, "flush" \notin FaultKinds, StartBlock > 0,
           TypeInv, LineInv, StoredTrue, [Next]_vars
    PROVE  StoredTrue'
  <1> USE DEF LineInv
  <1>1. /\ StartBlock \in Nat /\ stored \in [Heights -> SUBSET Blocks] /\ indexed \in Heights
        /\ Heights \subseteq Nat /\ current \in Nat /\ Tip \in Nat
        /\ \A i \in Heights : StartBlock..i \subseteq Heights
    BY TipFacts, ConfigAssumption DEF TypeInv, TypeOK, Heights
  <1>2. \A h \in Heights : stored'[h] # {} => h <= Tip' /\ stored'[h] = {BlockAt(h)'}
    <2>1. CASE UNCHANGED stored
      <3>1. CASE NodeStep
        <4>1. Tip' \in Nat /\ Tip < Tip' /\ \A h \in 0..Tip : BlockAt(h)' = BlockAt(h)
          BY <3>1, BranchFacts DEF NodeStep, TypeInv, TypeOK
        <4> QED  BY <1>1, <2>1, <4>1 DEF StoredTrue
      <3>2. CASE UNCHANGED chain
        BY <2>1, <3>2 DEF StoredTrue, Tip, BlockAt
      <3> QED  BY <3>1, <3>2, Writers
    <2>2. CASE ProcessRun \/ ProcessRunError
      <3>1. /\ processor.pc = "run" /\ chain' = chain
            /\ \/ stored' = stored
               \/ stored' = [stored EXCEPT ![processor.msg.height] = @ \cup {processor.msg.data}]
        BY <2>2 DEF ProcessRun, ProcessRunError
      <3>2. /\ processor.msg.height \in Heights /\ processor.msg.height <= Tip
            /\ processor.msg.data = BlockAt(processor.msg.height)
        BY <3>1, NextHeight DEF TrueHashes, TrueMsg
      <3>3. \A h \in Heights : \/ stored'[h] = stored[h]
                               \/ h <= Tip /\ stored'[h] = stored[h] \cup {BlockAt(h)}
        BY <1>1, <3>1, <3>2
      <3> QED  BY <3>1, <3>3 DEF StoredTrue, Tip, BlockAt
    <2> QED  BY <2>1, <2>2, NoRollback, Writers
  <1>3. \A h \in Heights : stored[h] # {} => stored'[h] # {}
    <2>1. CASE ProcessRun \/ ProcessRunError
      <3>1. \/ stored' = stored
            \/ stored' = [stored EXCEPT ![processor.msg.height] = @ \cup {processor.msg.data}]
        BY <2>1 DEF ProcessRun, ProcessRunError
      <3> QED  BY <1>1, <3>1
    <2> QED  BY <2>1, NoRollback, Writers
  <1>4. \A h \in StartBlock..indexed' : stored'[h] # {}
    <2>1. CASE UNCHANGED indexed
      BY <1>1, <1>3, <2>1 DEF StoredTrue
    <2>2. CASE ProcessMeta \/ CrashInMeta
      <3>1. processor.pc = "meta" /\ indexed' = processor.msg.height
        BY <2>2 DEF ProcessMeta, CrashInMeta
      <3>2. \A h \in StartBlock..indexed' : stored[h] # {}
        BY <3>1, NextHeight DEF StoredTrue
      <3> QED  BY <1>1, <1>3, <3>1, <3>2, NextHeight
    <2>3. CASE Crash
      BY <1>1, <1>3, <2>3 DEF Crash, storage, StoredTrue
    <2> QED  BY <2>1, <2>2, <2>3, NoRollback, Writers
  <1>5. processor'.pc = "meta" => stored'[processor'.msg.height] # {}
    <2>1. CASE UNCHANGED processor
      <3>1. processor.pc = "meta" => processor.msg.height \in Heights
        BY DEF TypeInv, HeightsOnChain, MessagesOnChain, OnChain, BlockData
      <3> QED  BY <1>3, <2>1, <3>1 DEF StoredTrue
    <2>2. CASE ProcessRun
      <3>1. /\ processor.pc = "run" /\ processor'.msg = processor.msg
            /\ stored' = [stored EXCEPT ![processor.msg.height] = @ \cup {processor.msg.data}]
        BY <2>2, ProcessFields DEF ProcessRun
      <3> QED  BY <1>1, <3>1, NextHeight
    <2>3. CASE Restart
      BY <2>3 DEF Restart, IdleProcessor
    <2>4. CASE ProcessRecv \/ ProcessValidate \/ ProcessRunError \/ ProcessMeta \/ ProcessBump
                  \/ ProcessReply
      BY <2>4, ProcessFields
    <2>5. ~ProcessRunSilent
      BY DEF ProcessRunSilent, Inject
    <2> QED  BY <2>1, <2>2, <2>3, <2>4, <2>5, Writers DEF Process
  <1>6. /\ processor'.pc = "bump" => indexed' = current' /\ StartBlock <= current'
        /\ processor'.pc # "bump" => current' = ResumeHeight(indexed')
    <2>1. CASE Restart
      BY <2>1 DEF Restart, IdleProcessor
    <2>2. CASE FetchReorged
      <3>1. current' = current /\ UNCHANGED <<indexed, processor>>
        BY <2>2, ReorgedFields DEF FetchReorged, Turns, storage
      <3> QED  BY <3>1 DEF StoredTrue
    <2>3. CASE ProcessMeta
      <3>1. /\ processor.pc = "meta" /\ indexed' = processor.msg.height /\ current' = current
            /\ processor'.pc = "bump"
        BY <2>3, ProcessFields DEF ProcessMeta, engine
      <3> QED  BY <3>1, NextHeight
    <2>4. CASE ProcessBump
      <3>1. /\ processor.pc = "bump" /\ indexed' = indexed /\ processor'.pc = "reply"
            /\ current' = processor.msg.height + 1
        BY <2>4, ProcessFields DEF ProcessBump, storage
      <3>2. processor.msg.height = current /\ indexed = current /\ StartBlock <= current
        BY <3>1 DEF Turns, Working, InProcess, StoredTrue
      <3> QED  BY <1>1, <3>1, <3>2 DEF ResumeHeight
    <2>5. CASE ProcessRecv \/ ProcessValidate \/ ProcessRun \/ ProcessRunError \/ ProcessReply
                  \/ ProcessRunSilent
      <3>1. UNCHANGED <<indexed, current>> /\ processor.pc # "bump"
        BY <2>5 DEF ProcessRecv, ProcessValidate, ProcessRun, ProcessRunError, ProcessReply,
                    ProcessRunSilent, storage, engine
      <3>2. processor'.pc # "bump"
        BY <2>5, ProcessFields
      <3> QED  BY <3>1, <3>2 DEF StoredTrue
    <2>6. CASE UNCHANGED <<indexed, current, processor>>
      BY <2>6 DEF StoredTrue
    <2> QED  BY <2>1, <2>2, <2>3, <2>4, <2>5, <2>6, NoRollback, Writers
             DEF Process, Crash, CrashInMeta
  <1> QED  BY <1>2, <1>4, <1>5, <1>6 DEF StoredTrue

(***************************************************************************)
(* Without reorgs, and as long as no host function fails silently, the     *)
(* store holds the node's block, and nothing else, at every indexed height *)
(* after any RPC errors, runtime errors and crashes.                       *)
(***************************************************************************)
THEOREM StoredWithoutReorgs ==
    OneBranch /\ "flush" \notin FaultKinds /\ StartBlock > 0 => (Spec => []StoreMatchesNode)
  <1> SUFFICES ASSUME OneBranch, "flush" \notin FaultKinds, StartBlock > 0
               PROVE  Spec => []StoreMatchesNode
    OBVIOUS
  <1>1. Init => TypeInv /\ LineInv /\ StoredTrue
    BY TypeInit, TrueHashesInit, NoReorgInit, TurnsInit, StoredInit DEF LineInv
  <1>2. TypeInv /\ LineInv /\ StoredTrue /\ [Next]_vars => (TypeInv /\ LineInv /\ StoredTrue)'
    BY TypeNext, TrueHashesNext, NoReorgNext, TurnsNext, StoredNext DEF LineInv
  <1>3. TypeInv /\ StoredTrue => StoreMatchesNode
    BY ConfigAssumption DEF TypeInv, TypeOK, Heights, StoredTrue, StoreMatchesNode
  <1> QED  BY <1>1, <1>2, <1>3, PTL DEF Spec

-----------------------------------------------------------------------------
(***************************************************************************)
(* One reorg.  Every block that is in flight or has its hash stored is at  *)
(* its height of the chain the node has left or of the chain it has moved  *)
(* to.  The blocks travel in order, so a block of the new chain is stored  *)
(* only after the last one of the old chain; it connects, so every hash    *)
(* below it is the node's by then; and handle_reorg lands on a hash that   *)
(* is the node's and stays.                                                *)
(***************************************************************************)

Prefix(c, d) == Len(c) <= Len(d) /\ \A i \in 1..Len(c) : c[i] = d[i]

(* Once the node has left a branch it only extends the chain it moved to. *)
OneReorg ==
    \A c, d, e \in Chains :
        Len(c) < Len(d) /\ Len(d) < Len(e) /\ ~Prefix(c, d) => Prefix(d, e)

(* A reorg replaces at most the last MaxReorgDepth blocks. *)
ShallowReorgs ==
    \A c, d \in Chains :
        Len(c) < Len(d) =>
            \A i \in 1..Len(c) : i + MaxReorgDepth <= Len(c) => c[i] = d[i]

(* old is the chain the node has left; before the reorg, its chain.         *)
Reorged(old) == Len(old) < Len(chain) /\ ~Prefix(old, chain)

OldAt(old, b, h) == h < Len(old) /\ b = old[h + 1]
TrueAt(b, h) == h <= Tip /\ b = BlockAt(h)
Known(old, b, h) == OldAt(old, b, h) \/ TrueAt(b, h)

(* Every block is at its height of the old chain or of the node's. *)
OldOrTrue(old) ==
    /\ \A h \in Heights : hashAt[h] # None => Known(old, hashAt[h], h)
    /\ fetcher.pc = "send" => Known(old, fetcher.data, fetcher.height)
    /\ blockCh # <<>> => Known(old, Head(blockCh).data, Head(blockCh).height)
    /\ processor.pc # "recv" => Known(old, processor.msg.data, processor.msg.height)
    /\ \A t \in Tasks : scan[t].pc = "remote" => Known(old, scan[t].local, scan[t].check)

(* A height to go on from: the block below it has a hash. *)
Supported(h) == h <= StartBlock \/ hashAt[h - 1] # None

(* The hashes have no gap and every task is at most one height above them. *)
HashesReach ==
    /\ \A h \in Heights : hashAt[h] # None => \A j \in StartBlock..h : hashAt[j] # None
    /\ indexed >= StartBlock => hashAt[indexed] # None
    /\ Supported(current) /\ Supported(fetcher.height)
    /\ blockCh # <<>> => Supported(Head(blockCh).height)
    /\ processor.pc # "recv" => Supported(processor.msg.height)
    /\ processor.pc = "bump" => hashAt[processor.msg.height] # None
    /\ resultCh # <<>> => Supported(Head(resultCh).height)
    /\ \A t \in Tasks : Supported(scan[t].from)

FetcherTrue == fetcher.pc = "send" => TrueAt(fetcher.data, fetcher.height)
QueueTrue == blockCh # <<>> => TrueAt(Head(blockCh).data, Head(blockCh).height)
ProcessorTrue ==
    processor.pc # "recv" => TrueAt(processor.msg.data, processor.msg.height)

(* A stored hash that the old chain does not have. *)
Fresh(old, h) == hashAt[h] # None /\ ~OldAt(old, hashAt[h], h)
StoreFresh(old) == \E h \in Heights : Fresh(old, h)

(* Blocks are fetched, queued and stored in order: behind a block of the new *)
(* chain there is none of the old one.                                      *)
FreshOrder(old) ==
    /\ StoreFresh(old) => ProcessorTrue /\ QueueTrue /\ FetcherTrue
    /\ processor.pc # "recv" /\ ~OldAt(old, processor.msg.data, processor.msg.height)
          => QueueTrue /\ FetcherTrue
    /\ blockCh # <<>> /\ ~OldAt(old, Head(blockCh).data, Head(blockCh).height)
          => FetcherTrue

(* Below a hash of the new chain every hash is the node's, and with one     *)
(* stored the indexed height is at a hash of the node.                      *)
FreshLinked(old) ==
    /\ \A h \in Heights :
          Fresh(old, h) => \A j \in StartBlock..h - 1 : TrueAt(hashAt[j], j)
    /\ StoreFresh(old) => indexed < StartBlock \/ TrueAt(hashAt[indexed], indexed)

(* handle_reorg ends at a hash of the node, or below the first indexed one. *)
ScanFinds(old, s) ==
    /\ s.detected \/ s.pc = "rollback" => Reorged(old) /\ s.from <= Len(old)
    /\ s.pc \in {"local", "remote"} => s.check < s.from
    /\ s.pc \in {"local", "remote"} /\ ~s.detected =>
          s.check + 1 = s.from \/ s.from <= StartBlock
    /\ s.pc = "remote" /\ s.local = BlockAt(s.check) => hashAt[s.check] = s.local
    /\ s.pc = "rollback" \/ (s.pc = "done" /\ s.detected) =>
          s.check < StartBlock \/ TrueAt(hashAt[s.check], s.check)

ReorgInv(old) ==
    /\ old = chain \/ Reorged(old)
    /\ OldOrTrue(old) /\ HashesReach /\ FreshOrder(old) /\ FreshLinked(old)
    /\ \A t \in Tasks : ScanFinds(old, scan[t])

-----------------------------------------------------------------------------
(* The order of the heights. *)
Smaller == {p \in Nat \X Nat : p[1] < p[2]}

(* Two chains with a common block agree below it, by their headers. *)
LEMMA CommonBelow ==
    ASSUME NEW c \in Chains, NEW d \in Chains,
           NEW i \in 1..Len(c), i <= Len(d), c[i] = d[i], NEW j \in 1..i
    PROVE  c[j] = d[j]
  <1> SUFFICES ASSUME c[j] # d[j] PROVE FALSE
    OBVIOUS
  <1> DEFINE S == {n \in 0..i - 1 : c[i - n] # d[i - n]}
  <1>1. Len(c) \in Nat /\ Len(d) \in Nat /\ i \in Nat
    BY ChainFacts
  <1>2. S \in SUBSET Nat /\ i - j \in S
    BY <1>1
  <1>3. IsWellFoundedOn(Smaller, Nat)
    BY NatLessThanWellFounded DEF OpToRel, Smaller
  <1>4. PICK n \in S : \A m \in S : ~(<<m, n>> \in Smaller)
    <2>1. S # {}
      BY <1>2
    <2> HIDE DEF S
    <2> QED  BY <1>2, <1>3, <2>1, WFMin
  <1>5. n \in Nat /\ n <= i - 1 /\ n # 0 /\ c[i - n] # d[i - n]
    BY <1>1, <1>4
  <1>6. n - 1 \in Nat /\ <<n - 1, n>> \in Smaller
    BY <1>5 DEF Smaller
  <1>7. n - 1 \notin S
    BY <1>4, <1>6
  <1>8. c[i - (n - 1)] = d[i - (n - 1)]
    BY <1>1, <1>5, <1>6, <1>7
  <1> DEFINE k == i - (n - 1)
  <1>9. k \in 2..Len(c) /\ k \in 2..Len(d) /\ i - n = k - 1
    BY <1>1, <1>5
  <1>10. c[k] = d[k] /\ Parent[c[k]] = c[k - 1] /\ Parent[d[k]] = d[k - 1]
    <2> HIDE DEF k
    <2>1. Parent[c[k]] = c[k - 1] /\ Parent[d[k]] = d[k - 1]
      BY <1>9, ChainAssumption
    <2> QED  BY <1>8, <2>1 DEF k
  <1> QED  BY <1>5, <1>9, <1>10

(* The node's block at a height of the chain. *)
LEMMA TrueBlock ==
    ASSUME TypeInv, NEW b, NEW h \in Nat, TrueAt(b, h)
    PROVE  b \in Blocks /\ b # None
  BY TipFacts, ChainAssumption DEF TrueAt, TypeInv, TypeOK

(* A known block is a block. *)
LEMMA KnownBlock ==
    ASSUME TypeInv, NEW old \in Chains, NEW b, NEW h \in Nat, Known(old, b, h)
    PROVE  b \in Blocks /\ b # None
  BY TrueBlock, ChainFacts, ChainAssumption DEF Known, OldAt

(* Below a stored hash of the node every stored hash is the node's. *)
LEMMA TrueBelow ==
    ASSUME TypeInv, NEW old \in Chains, ReorgInv(old),
           NEW h \in Heights, NEW j \in StartBlock..h,
           hashAt[h] # None, TrueAt(hashAt[h], h)
    PROVE  hashAt[j] # None /\ TrueAt(hashAt[j], j)
  <1>1. /\ h \in Nat /\ j \in Nat /\ j <= h /\ j \in Heights /\ chain \in Chains
        /\ Len(chain) \in Nat /\ Len(old) \in Nat
    BY ConfigAssumption, ChainFacts DEF Heights, TypeInv, TypeOK
  <1>2. hashAt[j] # None /\ Known(old, hashAt[j], j)
    BY <1>1 DEF ReorgInv, HashesReach, OldOrTrue
  <1>3. CASE Fresh(old, h)
    BY <1>1, <1>2, <1>3, ConfigAssumption DEF ReorgInv, FreshLinked
  <1>4. CASE OldAt(old, hashAt[h], h)
    <2>1. /\ h + 1 \in 1..Len(old) /\ h + 1 <= Len(chain) /\ old[h + 1] = chain[h + 1]
          /\ j + 1 \in 1..h + 1
      BY <1>1, <1>4 DEF OldAt, TrueAt, Tip, BlockAt
    <2>2. old[j + 1] = chain[j + 1]
      BY <1>1, <2>1, CommonBelow
    <2>3. j <= Tip
      BY <1>1, <2>1 DEF Tip
    <2> QED  BY <1>2, <2>2, <2>3 DEF Known, OldAt, TrueAt, BlockAt
  <1> QED  BY <1>3, <1>4 DEF Fresh

(* What the invariant says of the hashes up to the indexed height. *)
LEMMA ReorgLinked ==
    ASSUME TypeInv, NEW old \in Chains, ReorgInv(old)
    PROVE  ChainLinked
  <1> SUFFICES ASSUME NEW h \in StartBlock + 1 .. indexed
               PROVE  hashAt[h] # None /\ hashAt[h - 1] = Parent[hashAt[h]]
    BY DEF ChainLinked
  <1>1. /\ StartBlock \in Nat /\ indexed \in Heights /\ indexed \in Nat /\ h \in Nat
        /\ h \in StartBlock..indexed /\ h - 1 \in StartBlock..indexed /\ h >= 1
        /\ h \in Heights /\ h - 1 \in Heights /\ indexed >= StartBlock /\ chain \in Chains
        /\ Len(chain) \in Nat /\ Len(old) \in Nat
    BY ConfigAssumption, ChainFacts DEF Heights, TypeInv, TypeOK
  <1>2. hashAt[indexed] # None /\ hashAt[h] # None /\ hashAt[h - 1] # None
    BY <1>1 DEF ReorgInv, HashesReach
  <1>3. CASE StoreFresh(old)
    <2>1. TrueAt(hashAt[indexed], indexed)
      BY <1>1, <1>3 DEF ReorgInv, FreshLinked
    <2>2. TrueAt(hashAt[h], h) /\ TrueAt(hashAt[h - 1], h - 1)
      BY <1>1, <1>2, <2>1, TrueBelow
    <2>3. h + 1 \in 2..Len(chain) /\ hashAt[h] = chain[h + 1] /\ hashAt[h - 1] = chain[h]
      BY <1>1, <2>2 DEF TrueAt, Tip, BlockAt
    <2> QED  BY <1>1, <1>2, <2>3, ChainAssumption
  <1>4. CASE ~StoreFresh(old)
    <2>1. OldAt(old, hashAt[h], h) /\ OldAt(old, hashAt[h - 1], h - 1)
      BY <1>1, <1>2, <1>4 DEF StoreFresh, Fresh
    <2>2. h + 1 \in 2..Len(old) /\ hashAt[h] = old[h + 1] /\ hashAt[h - 1] = old[h]
      BY <1>1, <2>1 DEF OldAt
    <2> QED  BY <1>1, <1>2, <2>2, ChainAssumption
  <1> QED  BY <1>3, <1>4

(* At first there is one chain and nothing is stored. *)
LEMMA ReorgInit ==
    ASSUME StartBlock > 0, Init
    PROVE  \E old \in Chains : ReorgInv(old)
  <1>1. chain \in Chains /\ StartBlock \in Nat /\ MaxHeight \in Nat
    BY ConfigAssumption DEF Init, NodeInit
  <1>2. current = StartBlock
    BY <1>1 DEF Init, ResumeHeight
  <1>3. ReorgInv(chain)
    BY <1>1, <1>2 DEF Init, ReorgInv, OldOrTrue, HashesReach, Supported, FreshOrder, StoreFresh,
       Fresh, FreshLinked, ScanFinds, IdleFetcher, IdleProcessor, NoScan
  <1> QED  BY <1>1, <1>3

-----------------------------------------------------------------------------
(* The node. *)

(* A chain that extends another has its blocks. *)
LEMMA ExtensionFacts ==
    ASSUME chain \in Chains, chain' \in Chains, Len(chain) < Len(chain'), Prefix(chain, chain')
    PROVE  /\ Tip \in Nat /\ Tip < Tip'
           /\ \A h \in 0..Tip : BlockAt(h)' = BlockAt(h)
           /\ \A b : \A h \in Nat : TrueAt(b, h) => TrueAt(b, h)'
  <1>1. /\ Len(chain) \in Nat /\ Len(chain') \in Nat /\ Len(chain) > 0
        /\ \A i \in 1..Len(chain) : chain'[i] = chain[i]
    BY ChainFacts, ConfigAssumption DEF Prefix
  <1>2. Tip \in Nat /\ Tip < Tip' /\ Tip' \in Nat
    BY <1>1 DEF Tip
  <1>3. \A h \in 0..Tip : BlockAt(h)' = BlockAt(h)
    BY <1>1 DEF Tip, BlockAt
  <1>4. \A b : \A h \in Nat : TrueAt(b, h) => TrueAt(b, h)'
    <2> SUFFICES ASSUME NEW b, NEW h \in Nat, TrueAt(b, h) PROVE h <= Tip' /\ b = BlockAt(h)'
      BY DEF TrueAt
    <2> QED  BY <1>2, <1>3 DEF TrueAt
  <1> QED  BY <1>2, <1>3, <1>4

(* Before the reorg: all blocks are of the chain, whatever the node does    *)
(* next they are of the old chain.                                          *)
LEMMA NodeFirst ==
    ASSUME TypeInv, ReorgInv(chain), NodeStep
    PROVE  \E o \in Chains : ReorgInv(o)'
  <1>1. /\ chain \in Chains /\ chain' \in Chains /\ Len(chain) < Len(chain')
        /\ Len(chain) \in Nat /\ Len(chain') \in Nat
    BY ChainFacts DEF NodeStep, NodeAdvance, TypeInv, TypeOK
  <1>2. UNCHANGED <<indexed, hashAt, stored, current, processing, blockCh, resultCh, fetcher,
                    processor, scan, faults>>
    BY DEF NodeStep, storage, engine, channels, tasks
  <1>3. PICK o \in Chains :
           /\ o = chain' \/ Reorged(o)'
           /\ \A b : \A h \in Nat : OldAt(chain, b, h) => OldAt(o, b, h)
    <2>1. CASE Prefix(chain, chain')
      <3>1. \A b : \A h \in Nat : OldAt(chain, b, h) => OldAt(chain', b, h)
        BY <1>1, <2>1 DEF Prefix, OldAt
      <3> QED  BY <1>1, <3>1
    <2>2. CASE ~Prefix(chain, chain')
      <3>1. \A o : o = chain => (Reorged(o)' <=> Len(o) < Len(chain') /\ ~Prefix(o, chain'))
        BY DEF Reorged
      <3> QED  BY <1>1, <2>2, <3>1
    <2> QED  BY <2>1, <2>2
  <1>4. \A b : \A h \in Nat : Known(chain, b, h) => OldAt(chain, b, h) /\ TrueAt(b, h)
    BY <1>1 DEF Known, OldAt, TrueAt, Tip, BlockAt
  <1>5. \A b : \A h \in Nat : Known(chain, b, h) => OldAt(o, b, h)
    BY <1>3, <1>4
  <1> DEFINE AllOld == /\ \A h \in Heights : hashAt[h] # None => OldAt(o, hashAt[h], h)
                       /\ fetcher.pc = "send" => OldAt(o, fetcher.data, fetcher.height)
                       /\ blockCh # <<>> => OldAt(o, Head(blockCh).data, Head(blockCh).height)
                       /\ processor.pc # "recv" =>
                             OldAt(o, processor.msg.data, processor.msg.height)
                       /\ \A t \in Tasks : scan[t].pc = "remote" =>
                             OldAt(o, scan[t].local, scan[t].check)
  <1>6. /\ Heights \subseteq Nat /\ fetcher.height \in Nat
        /\ blockCh # <<>> => Head(blockCh).height \in Nat
        /\ processor.pc # "recv" => processor.msg.height \in Nat
        /\ \A t \in Tasks : scan[t].check \in Nat
    BY ConfigAssumption DEF Heights, TypeInv, TypeOK, HeightsOnChain, MessagesOnChain, OnChain,
                            BlockData, FetcherState, ScanState
  <1>7. AllOld
    BY <1>5, <1>6 DEF ReorgInv, OldOrTrue
  <1>8. OldOrTrue(o)' /\ FreshOrder(o)' /\ FreshLinked(o)'
    BY <1>2, <1>7 DEF OldOrTrue, Known, FreshOrder, StoreFresh, Fresh, FreshLinked, QueueTrue,
                      FetcherTrue
  <1>9. HashesReach'
    BY <1>2 DEF ReorgInv, HashesReach, Supported
  <1>10. \A t \in Tasks : ScanFinds(o, scan[t])'
    <2> SUFFICES ASSUME NEW t \in Tasks PROVE ScanFinds(o, scan[t])'
      OBVIOUS
    <2>1. ScanFinds(chain, scan[t]) /\ ~Reorged(chain)
      BY <1>1 DEF ReorgInv, Reorged
    <2>2. ~scan[t].detected /\ scan[t].pc # "rollback"
      BY <2>1 DEF ScanFinds
    <2>3. scan[t].pc = "remote" => hashAt[scan[t].check] = scan[t].local
      <3> SUFFICES ASSUME scan[t].pc = "remote" PROVE hashAt[scan[t].check] = scan[t].local
        OBVIOUS
      <3>1. TrueAt(scan[t].local, scan[t].check)
        BY <1>4, <1>6 DEF ReorgInv, OldOrTrue
      <3> QED  BY <2>1, <3>1 DEF ScanFinds, TrueAt
    <2> QED  BY <1>2, <2>1, <2>2, <2>3 DEF ScanFinds
  <1> QED  BY <1>3, <1>8, <1>9, <1>10 DEF ReorgInv

(* After the reorg the node only extends its chain. *)
LEMMA NodeLater ==
    ASSUME OneReorg, TypeInv, NEW old \in Chains, Reorged(old), ReorgInv(old), NodeStep
    PROVE  ReorgInv(old)'
  <1>1. /\ chain \in Chains /\ chain' \in Chains /\ Len(chain) < Len(chain')
        /\ Len(old) \in Nat /\ Len(chain) \in Nat /\ Len(chain') \in Nat
    BY ChainFacts DEF NodeStep, NodeAdvance, TypeInv, TypeOK
  <1>2. UNCHANGED <<indexed, hashAt, stored, current, processing, blockCh, resultCh, fetcher,
                    processor, scan, faults>>
    BY DEF NodeStep, storage, engine, channels, tasks
  <1>3. Prefix(chain, chain')
    BY <1>1 DEF OneReorg, Reorged
  <1>4. Reorged(old)'
    <2>1. Len(old) < Len(chain) /\ ~Prefix(old, chain)
      BY DEF Reorged
    <2>2. ~Prefix(old, chain')
      BY <1>1, <1>3, <2>1 DEF Prefix
    <2>3. Len(old) < Len(chain')
      BY <1>1, <2>1
    <2> QED  BY <2>2, <2>3 DEF Reorged
  <1>5. /\ Tip \in Nat /\ Tip < Tip'
        /\ \A h \in 0..Tip : BlockAt(h)' = BlockAt(h)
        /\ \A b : \A h \in Nat : TrueAt(b, h) => TrueAt(b, h)'
    BY <1>1, <1>3, ExtensionFacts
  <1>6. /\ Heights \subseteq Nat /\ fetcher.height \in Nat /\ indexed \in Nat /\ StartBlock \in Nat
        /\ blockCh # <<>> => Head(blockCh).height \in Nat
        /\ processor.pc # "recv" => processor.msg.height \in Nat
        /\ \A t \in Tasks : scan[t].check \in 0..Tip
    BY <1>5, ConfigAssumption DEF Heights, TypeInv, TypeOK, HeightsOnChain, MessagesOnChain, OnChain,
                            ScansOnChain, BlockData, FetcherState, ScanState
  <1>7. \A b : \A h \in Nat : Known(old, b, h) => Known(old, b, h)'
    BY <1>5 DEF Known
  <1>8. OldOrTrue(old)'
    BY <1>2, <1>6, <1>7 DEF ReorgInv, OldOrTrue
  <1>9. HashesReach'
    BY <1>2 DEF ReorgInv, HashesReach, Supported
  <1>10. /\ FetcherTrue => FetcherTrue'
         /\ QueueTrue => QueueTrue'
         /\ ProcessorTrue => ProcessorTrue'
    BY <1>2, <1>5, <1>6 DEF FetcherTrue, QueueTrue, ProcessorTrue
  <1>11. /\ StoreFresh(old)' <=> StoreFresh(old)
         /\ \A h : Fresh(old, h)' <=> Fresh(old, h)
    BY <1>2 DEF StoreFresh, Fresh, OldAt
  <1>12. FreshOrder(old)'
    BY <1>2, <1>10, <1>11 DEF ReorgInv, FreshOrder, OldAt
  <1>13. FreshLinked(old)'
    <2>1. \A h \in Heights : Fresh(old, h) =>
             \A j \in StartBlock..h - 1 : TrueAt(hashAt[j], j)'
      BY <1>2, <1>5, <1>6 DEF ReorgInv, FreshLinked
    <2>2. StoreFresh(old) => indexed < StartBlock \/ TrueAt(hashAt[indexed], indexed)'
      BY <1>2, <1>5, <1>6 DEF ReorgInv, FreshLinked
    <2> QED  BY <1>2, <1>11, <2>1, <2>2 DEF FreshLinked
  <1>14. \A t \in Tasks : ScanFinds(old, scan[t])'
    <2> SUFFICES ASSUME NEW t \in Tasks PROVE ScanFinds(old, scan[t])'
      OBVIOUS
    <2>1. ScanFinds(old, scan[t]) /\ scan[t].check \in 0..Tip /\ scan'[t] = scan[t]
      BY <1>2, <1>6 DEF ReorgInv
    <2>2. BlockAt(scan[t].check)' = BlockAt(scan[t].check)
      BY <1>2, <1>5, <2>1
    <2>3. TrueAt(hashAt[scan[t].check], scan[t].check)
             => TrueAt(hashAt[scan[t].check], scan[t].check)'
      BY <1>2, <1>5, <2>1
    <2> QED  BY <1>2, <1>4, <2>1, <2>2, <2>3 DEF ScanFinds
  <1> QED  BY <1>4, <1>8, <1>9, <1>12, <1>13, <1>14 DEF ReorgInv

-----------------------------------------------------------------------------
(* The other steps leave the node's chain as it is. *)

LEMMA SteadyChain ==
    ASSUME [Next]_vars, ~NodeStep
    PROVE  /\ chain' = chain /\ Tip' = Tip /\ \A h : BlockAt(h)' = BlockAt(h)
           /\ \A b, h : TrueAt(b, h)' <=> TrueAt(b, h)
           /\ \A o, b, h : Known(o, b, h)' <=> Known(o, b, h)
           /\ \A o : Reorged(o)' <=> Reorged(o)
  <1>1. chain' = chain
    BY Writers
  <1> QED  BY <1>1 DEF Tip, BlockAt, TrueAt, Known, OldAt, Reorged, Prefix

(* The one step that stores a hash. *)
LEMMA StoresHash ==
    ASSUME TypeInv, Validated, [Next]_vars, hashAt' # hashAt
    PROVE  /\ ProcessMeta /\ processor.pc = "meta" /\ indexed' = processor.msg.height
           /\ processor.msg.height \in Heights /\ processor.msg.data \in Blocks
           /\ processor.msg.data # None
           /\ hashAt' = [hashAt EXCEPT ![processor.msg.height] = processor.msg.data]
           /\ \/ processor.msg.height = 0
              \/ hashAt[processor.msg.height - 1] \in {None, Parent[processor.msg.data]}
  <1>1. ProcessMeta
    BY Writers
  <1>2. processor.pc = "meta" /\ Connects(processor.msg) /\ processor.msg \in BlockData
    BY <1>1 DEF ProcessMeta, Validated, TypeInv, HeightsOnChain, MessagesOnChain, OnChain
  <1> QED  BY <1>1, <1>2, ChainAssumption DEF ProcessMeta, Connects, BlockData

(* A stored hash may be replaced and is never removed. *)
LEMMA HashesKept ==
    ASSUME TypeInv, Validated, [Next]_vars, NEW h \in Heights, hashAt[h] # None
    PROVE  hashAt'[h] # None
  BY StoresHash DEF TypeInv, TypeOK

(* A height to go on from stays one. *)
LEMMA SupportKept ==
    ASSUME TypeInv, Validated, [Next]_vars, NEW h \in 0..MaxHeight + 1, Supported(h)
    PROVE  h <= StartBlock \/ hashAt'[h - 1] # None
  <1>1. CASE h <= StartBlock
    BY <1>1
  <1>2. CASE h > StartBlock
    <2>1. h - 1 \in Heights
      BY <1>2, ConfigAssumption DEF Heights
    <2> QED  BY <1>2, <2>1, HashesKept, ConfigAssumption DEF Supported
  <1> QED  BY <1>1, <1>2, ConfigAssumption

(* A hash of the node is not replaced: what is stored next is the same. *)
LEMMA TrueStays ==
    ASSUME TypeInv, Validated, NEW old \in Chains, ReorgInv(old), [Next]_vars,
           NEW h \in Heights, hashAt[h] # None, TrueAt(hashAt[h], h)
    PROVE  hashAt'[h] = hashAt[h]
  <1> SUFFICES ASSUME hashAt' # hashAt, h = processor.msg.height
               PROVE  processor.msg.data = hashAt[h]
    BY StoresHash DEF TypeInv, TypeOK
  <1>1. processor.pc = "meta" /\ Known(old, processor.msg.data, h)
    BY StoresHash DEF ReorgInv, OldOrTrue
  <1>2. CASE Fresh(old, h)
    <2>1. TrueAt(processor.msg.data, processor.msg.height)
      BY <1>1, <1>2 DEF ReorgInv, FreshOrder, StoreFresh, ProcessorTrue
    <2> QED  BY <2>1 DEF TrueAt
  <1>3. CASE ~Fresh(old, h)
    <2>1. OldAt(old, hashAt[h], h)
      BY <1>3 DEF Fresh
    <2> QED  BY <1>1, <2>1 DEF Known, OldAt, TrueAt
  <1> QED  BY <1>2, <1>3

(* Where handle_reorg leads has a hash. *)
LEMMA ScanLands ==
    ASSUME TypeInv, NEW old \in Chains, ReorgInv(old), NEW t \in Tasks,
           scan[t].pc = "rollback" \/ (scan[t].pc = "done" /\ scan[t].detected)
    PROVE  /\ scan[t].check \in Heights
           /\ \/ scan[t].check < StartBlock
              \/ TrueAt(hashAt[scan[t].check], scan[t].check) /\ hashAt[scan[t].check] # None
  <1>1. scan[t].check \in Heights /\ scan[t].check \in Nat
    BY ConfigAssumption DEF TypeInv, TypeOK, ScanState, Heights
  <1>2. scan[t].check < StartBlock \/ TrueAt(hashAt[scan[t].check], scan[t].check)
    BY DEF ReorgInv, ScanFinds
  <1> QED  BY <1>1, <1>2, TrueBlock

(* The steps of handle_reorg, from the locals s to the locals r. *)
Leaves(s, r) == r.pc = (IF s.detected THEN "rollback" ELSE "done") /\ r.detected = s.detected

ScanStep(s, r) ==
    /\ r.from = s.from
    /\ \/ s.pc = "local" /\ ~InRange(s) /\ Leaves(s, r) /\ r.check = s.check
       \/ /\ s.pc = "local" /\ InRange(s) /\ hashAt[s.check] = None
          /\ r.pc = "local" /\ r.detected = s.detected /\ r.check = s.check - 1
       \/ /\ s.pc = "local" /\ hashAt[s.check] # None
          /\ r.pc = "remote" /\ r.detected = s.detected /\ r.check = s.check
          /\ r.local = hashAt[s.check]
       \/ s.pc = "remote" /\ s.local = BlockAt(s.check) /\ Leaves(s, r) /\ r.check = s.check
       \/ /\ s.pc = "remote" /\ s.local # BlockAt(s.check)
          /\ r.pc = "local" /\ r.detected = TRUE /\ r.check = s.check - 1
       \/ s.pc = "remote" /\ r.pc = "done" /\ r.detected = FALSE
       \/ s.pc = "rollback" /\ r.pc = "done" /\ r.detected = s.detected /\ r.check = s.check

(* A step of one call changes only that call. *)
LEMMA ScanSteps ==
    ASSUME TypeInv, NEW t \in Tasks, Scan(t) \/ ScanRemoteError(t)
    PROVE  /\ ScanStep(scan[t], scan'[t])
           /\ \A u \in Tasks \ {t} : scan'[u] = scan[u]
  <1> DEFINE s == scan[t]
  <1>1. s \in ScanState /\ scan \in [Tasks -> ScanState]
    BY DEF TypeInv, TypeOK
  <1>2. \E r : ScanStep(s, r) /\ scan' = [scan EXCEPT ![t] = r]
    <2>1. CASE ScanLocal(t)
      <3>1. CASE ~InRange(s)
        <4> DEFINE r == [s EXCEPT !.pc = IF s.detected THEN "rollback" ELSE "done"]
        <4>1. scan' = [scan EXCEPT ![t] = r] /\ s.pc = "local"
          BY <2>1, <3>1 DEF ScanLocal
        <4>2. Leaves(s, r) /\ r.check = s.check /\ r.from = s.from
          BY <1>1 DEF ScanState, Leaves
        <4> QED  BY <3>1, <4>1, <4>2 DEF ScanStep
      <3>2. CASE InRange(s) /\ hashAt[s.check] = None
        <4> DEFINE r == [s EXCEPT !.check = s.check - 1]
        <4>1. scan' = [scan EXCEPT ![t] = r] /\ s.pc = "local"
          BY <2>1, <3>2 DEF ScanLocal
        <4>2. /\ r.pc = s.pc /\ r.detected = s.detected /\ r.check = s.check - 1
              /\ r.from = s.from
          BY <1>1 DEF ScanState
        <4> QED  BY <3>2, <4>1, <4>2 DEF ScanStep
      <3>3. CASE InRange(s) /\ hashAt[s.check] # None
        <4> DEFINE r == [s EXCEPT !.pc = "remote", !.local = hashAt[s.check]]
        <4>1. scan' = [scan EXCEPT ![t] = r] /\ s.pc = "local"
          BY <2>1, <3>3 DEF ScanLocal
        <4>2. /\ r.pc = "remote" /\ r.detected = s.detected /\ r.check = s.check
              /\ r.local = hashAt[s.check] /\ r.from = s.from
          BY <1>1 DEF ScanState
        <4> QED  BY <3>3, <4>1, <4>2 DEF ScanStep
      <3> QED  BY <3>1, <3>2, <3>3
    <2>2. CASE ScanRemote(t)
      <3>1. CASE s.local = BlockAt(s.check)
        <4> DEFINE r == [s EXCEPT !.pc = IF s.detected THEN "rollback" ELSE "done", !.local = None]
        <4>1. scan' = [scan EXCEPT ![t] = r] /\ s.pc = "remote"
          BY <2>2, <3>1 DEF ScanRemote
        <4>2. Leaves(s, r) /\ r.check = s.check /\ r.from = s.from
          BY <1>1 DEF ScanState, Leaves
        <4> QED  BY <3>1, <4>1, <4>2 DEF ScanStep
      <3>2. CASE s.local # BlockAt(s.check)
        <4> DEFINE r == [s EXCEPT !.pc = "local", !.detected = TRUE, !.check = s.check - 1,
                                  !.local = None]
        <4>1. scan' = [scan EXCEPT ![t] = r] /\ s.pc = "remote"
          BY <2>2, <3>2 DEF ScanRemote
        <4>2. r.pc = "local" /\ r.detected = TRUE /\ r.check = s.check - 1 /\ r.from = s.from
          BY <1>1 DEF ScanState
        <4> QED  BY <3>2, <4>1, <4>2 DEF ScanStep
      <3> QED  BY <3>1, <3>2
    <2>3. CASE ScanRemoteError(t)
      <3> DEFINE r == [s EXCEPT !.pc = "done", !.check = s.from - 1, !.detected = FALSE, !.local = None]
      <3>1. scan' = [scan EXCEPT ![t] = r] /\ s.pc = "remote"
        BY <2>3 DEF ScanRemoteError
      <3>2. r.pc = "done" /\ r.detected = FALSE /\ r.from = s.from
        BY <1>1 DEF ScanState
      <3> QED  BY <3>1, <3>2 DEF ScanStep
    <2>4. CASE ScanRollback(t)
      <3> DEFINE r == [s EXCEPT !.pc = "done"]
      <3>1. scan' = [scan EXCEPT ![t] = r] /\ s.pc = "rollback"
        BY <1>1, <2>4 DEF ScanRollback
      <3>2. r.pc = "done" /\ r.detected = s.detected /\ r.check = s.check /\ r.from = s.from
        BY <1>1 DEF ScanState
      <3> QED  BY <3>1, <3>2 DEF ScanStep
    <2> QED  BY <2>1, <2>2, <2>3, <2>4 DEF Scan
  <1> HIDE DEF s
  <1>3. PICK r : ScanStep(s, r) /\ scan' = [scan EXCEPT ![t] = r]
    BY <1>2
  <1>4. scan'[t] = r /\ \A u \in Tasks \ {t} : scan'[u] = scan[u]
    BY <1>1, <1>3
  <1> QED  BY <1>3, <1>4 DEF s

(* The locals of a call that starts at h. *)
Started(h) == [pc |-> IF h = 0 THEN "done" ELSE "local", from |-> h,
               check |-> Monus(h, 1), detected |-> FALSE, local |-> None]

(* Without crashes nothing restarts. *)
LEMMA NoRestart == "crash" \notin FaultKinds => ~Restart
  BY DEF Restart, Inject

(* What a step may do to one call of handle_reorg. *)
LEMMA ScanChanges ==
    ASSUME TypeInv, "crash" \notin FaultKinds, [Next]_vars, NEW t \in Tasks
    PROVE  \/ scan'[t] = scan[t] \/ scan'[t] = NoScan
           \/ ScanStep(scan[t], scan'[t])
           \/ scan'[t] = Started(fetcher.height)
           \/ resultCh # <<>> /\ scan'[t] = Started(Head(resultCh).height)
  <1>1. scan \in [Tasks -> ScanState] /\ "fetcher" \in Tasks /\ "indexer" \in Tasks
    BY DEF TypeInv, TypeOK, Tasks
  <1>2. \A u \in Tasks : \A h : StartScan(u, h) => scan' = [scan EXCEPT ![u] = Started(h)]
    BY DEF StartScan, Started
  <1>3. CASE UNCHANGED scan
    BY <1>3
  <1>4. CASE FetchTip
    <2>1. UNCHANGED scan \/ scan' = [scan EXCEPT !["fetcher"] = Started(fetcher.height)]
      BY <1>1, <1>2, <1>4 DEF FetchTip
    <2> QED  BY <1>1, <2>1
  <1>5. CASE FetchReorged
    BY <1>1, <1>5 DEF FetchReorged
  <1>6. CASE Index
    <2>1. CASE IndexReorged
      BY <1>1, <2>1 DEF IndexReorged
    <2>2. CASE IndexResult
      <3>1. /\ resultCh # <<>>
            /\ \/ UNCHANGED scan
               \/ scan' = [scan EXCEPT !["indexer"] = Started(Head(resultCh).height)]
        BY <1>1, <1>2, <2>2 DEF IndexResult
      <3> QED  BY <1>1, <3>1
    <2> QED  BY <1>6, <2>1, <2>2 DEF Index
  <1>7. CASE \E u \in Tasks : Scan(u) \/ ScanRemoteError(u)
    <2>1. PICK u \in Tasks : Scan(u) \/ ScanRemoteError(u)
      BY <1>7
    <2> QED  BY <2>1, ScanSteps
  <1> QED  BY <1>3, <1>4, <1>5, <1>6, <1>7, Writers, NoRestart

(* The fetcher asks the node; everything else is handed on. *)
LEMMA OldOrTrueNext ==
    ASSUME "crash" \notin FaultKinds, TypeInv, Validated, NEW old \in Chains, ReorgInv(old),
           [Next]_vars, ~NodeStep
    PROVE  OldOrTrue(old)'
  <1>1. OldOrTrue(old) /\ ~Restart
    BY NoRestart DEF ReorgInv
  <1>2. \A h \in Heights : hashAt'[h] # None => Known(old, hashAt'[h], h)
    BY <1>1, StoresHash DEF OldOrTrue, TypeInv, TypeOK
  <1>3. fetcher'.pc = "send" => Known(old, fetcher'.data, fetcher'.height)
    <2>1. CASE FetchData
      <3>1. /\ fetcher.pc = "data" /\ fetcher'.height = fetcher.height
            /\ fetcher'.data = BlockAt(fetcher.height)
        BY <2>1, FetchFields DEF FetchData
      <3>2. fetcher.height <= Tip
        BY <3>1 DEF TypeInv, HeightsOnChain, FetcherOnChain
      <3> QED  BY <3>1, <3>2 DEF Known, TrueAt
    <2>2. CASE UNCHANGED fetcher
      BY <1>1, <2>2 DEF OldOrTrue
    <2> QED  BY <1>1, <2>1, <2>2, Writers, FetchFields DEF Fetch
  <1>4. blockCh' # <<>> => Known(old, Head(blockCh').data, Head(blockCh').height)
    <2>1. CASE FetchSend
      BY <1>1, <2>1 DEF FetchSend, OldOrTrue
    <2> QED  BY <1>1, <2>1, Writers DEF OldOrTrue, ProcessRecv
  <1>5. processor'.pc # "recv" => Known(old, processor'.msg.data, processor'.msg.height)
    <2>1. CASE ProcessRecv
      BY <1>1, <2>1, ProcessFields DEF ProcessRecv, OldOrTrue
    <2>2. CASE ProcessReply
      BY <2>2, ProcessFields
    <2>3. CASE ProcessValidate \/ ProcessRun \/ ProcessRunSilent \/ ProcessRunError
                  \/ ProcessMeta \/ ProcessBump
      <3>1. processor.pc # "recv"
        BY <2>3 DEF ProcessValidate, ProcessRun, ProcessRunSilent, ProcessRunError, ProcessMeta,
                    ProcessBump
      <3> QED  BY <1>1, <2>3, <3>1, ProcessFields DEF OldOrTrue
    <2> QED  BY <1>1, <2>1, <2>2, <2>3, Writers DEF OldOrTrue, Process
  <1>6. \A t \in Tasks : scan'[t].pc = "remote" => Known(old, scan'[t].local, scan'[t].check)
    <2> SUFFICES ASSUME NEW t \in Tasks, scan'[t].pc = "remote"
                 PROVE  Known(old, scan'[t].local, scan'[t].check)
      OBVIOUS
    <2>1. scan[t] \in ScanState
      BY DEF TypeInv, TypeOK
    <2>2. CASE ScanStep(scan[t], scan'[t])
      <3>1. /\ hashAt[scan[t].check] # None /\ scan'[t].check = scan[t].check
            /\ scan'[t].local = hashAt[scan[t].check]
        BY <2>2 DEF ScanStep, Leaves
      <3> QED  BY <1>1, <2>1, <3>1 DEF OldOrTrue, ScanState
    <2> QED  BY <1>1, <2>2, ScanChanges DEF OldOrTrue, NoScan, Started
  <1> QED  BY <1>2, <1>3, <1>4, <1>5, <1>6, SteadyChain DEF OldOrTrue

(* What a finished handle_reorg returns to the fetcher has a hash below it. *)
LEMMA ResultSupported ==
    ASSUME TypeInv, NEW old \in Chains, ReorgInv(old), FetchReorged
    PROVE  Supported(ScanResult(scan["fetcher"]))
  <1>1. "fetcher" \in Tasks /\ scan["fetcher"].pc = "done"
    BY DEF FetchReorged, Tasks
  <1>2. CASE scan["fetcher"].detected
    <2>1. /\ scan["fetcher"].check \in Heights
          /\ scan["fetcher"].check < StartBlock \/ hashAt[scan["fetcher"].check] # None
      BY <1>1, <1>2, ScanLands
    <2> QED  BY <1>2, <2>1, ConfigAssumption DEF ScanResult, Supported, Heights
  <1>3. CASE ~scan["fetcher"].detected
    BY <1>1, <1>3 DEF ScanResult, ReorgInv, HashesReach
  <1> QED  BY <1>2, <1>3

(* Where the fetcher takes its height from. *)
LEMMA FetchHeight ==
    ASSUME TypeInv, Fetch \/ FetchError
    PROVE  \/ fetcher'.height \in {0, current, fetcher.height}
           \/ FetchReorged /\ fetcher'.height = ScanResult(scan["fetcher"])
  <1>1. fetcher \in FetcherState
    BY DEF TypeInv, TypeOK
  <1>2. CASE FetchGate \/ FetchSend \/ FetchError
    BY <1>1, <1>2 DEF FetchGate, FetchSend, FetchError, IdleFetcher, FetcherState
  <1>3. CASE FetchReorged
    <2>1. fetcher' = IdleFetcher \/ fetcher'.height = ScanResult(scan["fetcher"])
      BY <1>1, <1>3 DEF FetchReorged, FetcherState
    <2> QED  BY <1>3, <2>1 DEF IdleFetcher
  <1> QED  BY <1>2, <1>3, FetchFields DEF Fetch

(* Every height a task takes up has a hash below it. *)
LEMMA HashesReachNext ==
    ASSUME "crash" \notin FaultKinds, TypeInv, Validated, NEW old \in Chains, ReorgInv(old),
           [Next]_vars
    PROVE  HashesReach'
  <1>1. HashesReach /\ ~Restart
    BY NoRestart DEF ReorgInv
  <1> DEFINE Above(h) == h <= StartBlock \/ hashAt'[h - 1] # None
  <1>2. \A h \in 0..MaxHeight + 1 : Supported(h) => Above(h)
    BY SupportKept
  <1>3. /\ StartBlock \in Nat /\ MaxHeight \in Nat /\ Heights \subseteq 0..MaxHeight + 1
        /\ Heights \subseteq Nat
    BY ConfigAssumption DEF Heights
  <1>4. \A h \in Heights : hashAt'[h] # None => \A j \in StartBlock..h : hashAt'[j] # None
    <2> SUFFICES ASSUME NEW h \in Heights, hashAt'[h] # None, NEW j \in StartBlock..h
                 PROVE  hashAt'[j] # None
      OBVIOUS
    <2>1. j \in Heights /\ j \in Nat /\ h \in Nat /\ j <= h /\ StartBlock <= j
      BY <1>3 DEF Heights
    <2>2. CASE hashAt[h] # None
      BY <1>1, <2>1, <2>2, HashesKept DEF HashesReach
    <2>3. CASE hashAt[h] = None
      <3>1. h = processor.msg.height /\ processor.pc = "meta"
        BY <2>3, StoresHash DEF TypeInv, TypeOK
      <3>2. Supported(h)
        BY <1>1, <3>1 DEF HashesReach
      <3>3. CASE j = h
        BY <3>3
      <3>4. CASE j # h
        <4>1. h - 1 \in Heights /\ hashAt[h - 1] # None /\ j \in StartBlock..h - 1
          BY <1>3, <2>1, <3>2, <3>4 DEF Supported, Heights
        <4>2. hashAt[j] # None
          BY <1>1, <4>1 DEF HashesReach
        <4> QED  BY <2>1, <4>2, HashesKept
      <3> QED  BY <3>3, <3>4
    <2> QED  BY <2>2, <2>3
  <1>5. indexed' >= StartBlock => hashAt'[indexed'] # None
    <2>1. CASE ProcessMeta
      <3>1. /\ processor.msg.height \in Heights /\ processor.msg.hash # None
            /\ indexed' = processor.msg.height
            /\ hashAt' = [hashAt EXCEPT ![processor.msg.height] = processor.msg.hash]
        BY <2>1, ChainAssumption DEF ProcessMeta, TypeInv, HeightsOnChain, MessagesOnChain, OnChain,
                                     BlockData
      <3> QED  BY <3>1 DEF TypeInv, TypeOK
    <2>2. CASE \E t \in Tasks : ScanRollback(t)
      <3>1. PICK t \in Tasks : ScanRollback(t)
        BY <2>2
      <3>2. indexed' = scan[t].check /\ scan[t].pc = "rollback" /\ hashAt' = hashAt
        BY <3>1 DEF ScanRollback
      <3> QED  BY <1>3, <3>2, ScanLands
    <2>3. CASE UNCHANGED indexed
      BY <1>1, <2>3, HashesKept DEF HashesReach, TypeInv, TypeOK
    <2> QED  BY <1>1, <2>1, <2>2, <2>3, Writers DEF Crash, CrashInMeta, CrashInRollback
  <1>6. Above(current')
    <2>1. CASE UNCHANGED current
      BY <1>1, <1>2, <2>1 DEF HashesReach, TypeInv, TypeOK
    <2>2. CASE FetchReorged
      <3>1. Supported(ScanResult(scan["fetcher"])) /\ ScanResult(scan["fetcher"]) \in 0..MaxHeight + 1
        BY <2>2, ResultSupported, ScanResultFacts DEF Tasks
      <3> QED  BY <1>2, <2>2, <3>1 DEF FetchReorged
    <2>3. CASE ProcessBump
      <3>1. /\ processor.pc = "bump" /\ current' = processor.msg.height + 1
            /\ processor.msg.height \in Heights
        BY <2>3 DEF ProcessBump, TypeInv, HeightsOnChain, MessagesOnChain, OnChain, BlockData
      <3>2. hashAt'[processor.msg.height] # None
        BY <1>1, <3>1, HashesKept DEF HashesReach
      <3>3. processor.msg.height \in Nat
        BY <1>3, <3>1
      <3>4. current' - 1 = processor.msg.height
        BY <3>1, <3>3
      <3> QED  BY <3>2, <3>4
    <2> QED  BY <1>1, <2>1, <2>2, <2>3, Writers
  <1>7. Above(fetcher'.height)
    <2>1. /\ fetcher.height \in 0..MaxHeight + 1 /\ current \in 0..MaxHeight + 1
          /\ Supported(current) /\ Supported(fetcher.height)
      BY <1>1 DEF HashesReach, TypeInv, TypeOK, FetcherState
    <2>2. CASE FetchReorged /\ fetcher'.height = ScanResult(scan["fetcher"])
      <3>1. Supported(ScanResult(scan["fetcher"])) /\ ScanResult(scan["fetcher"]) \in 0..MaxHeight + 1
        BY <2>2, ResultSupported, ScanResultFacts DEF Tasks
      <3> QED  BY <1>2, <2>2, <3>1
    <2>3. CASE fetcher'.height \in {0, current, fetcher.height}
      BY <1>2, <1>3, <2>1, <2>3
    <2> QED  BY <1>1, <2>2, <2>3, FetchHeight, Writers
  <1>8. blockCh' # <<>> => Above(Head(blockCh').height)
    <2>1. CASE FetchSend
      <3>1. /\ Head(blockCh').height = fetcher.height /\ Supported(fetcher.height)
            /\ fetcher.height \in 0..MaxHeight + 1
        BY <1>1, <2>1 DEF FetchSend, HashesReach, TypeInv, TypeOK, FetcherState
      <3> QED  BY <1>2, <3>1
    <2>2. CASE UNCHANGED blockCh
      <3>1. blockCh # <<>> => Head(blockCh).height \in Heights /\ Supported(Head(blockCh).height)
        BY <1>1 DEF HashesReach, TypeInv, HeightsOnChain, MessagesOnChain, OnChain, BlockData
      <3> QED  BY <1>2, <1>3, <2>2, <3>1
    <2> QED  BY <1>1, <2>1, <2>2, Writers DEF ProcessRecv
  <1>9. /\ processor'.pc # "recv" => Above(processor'.msg.height)
        /\ processor'.pc = "bump" => hashAt'[processor'.msg.height] # None
    <2>1. processor.pc # "recv" => /\ processor.msg.height \in Heights
                                   /\ Above(processor.msg.height)
      BY <1>1, <1>2, <1>3 DEF HashesReach, TypeInv, HeightsOnChain, MessagesOnChain, OnChain, BlockData
    <2>2. CASE UNCHANGED processor
      BY <1>1, <2>1, <2>2, HashesKept DEF HashesReach
    <2>3. CASE ProcessRecv
      <3>1. /\ blockCh # <<>> /\ Head(blockCh).height \in Heights /\ Supported(Head(blockCh).height)
            /\ processor'.msg = Head(blockCh) /\ processor'.pc = "validate"
        BY <1>1, <2>3, ProcessFields
           DEF ProcessRecv, HashesReach, TypeInv, HeightsOnChain, MessagesOnChain, OnChain, BlockData
      <3> QED  BY <1>2, <1>3, <3>1
    <2>4. CASE ProcessMeta
      <3>1. processor.pc = "meta" /\ processor'.msg = processor.msg
        BY <2>4, ProcessFields DEF ProcessMeta
      <3>2. /\ processor.msg.height \in Heights /\ processor.msg.hash # None
            /\ hashAt' = [hashAt EXCEPT ![processor.msg.height] = processor.msg.hash]
        BY <2>4, ChainAssumption DEF ProcessMeta, TypeInv, HeightsOnChain, MessagesOnChain, OnChain,
                                     BlockData
      <3> QED  BY <2>1, <3>1, <3>2 DEF TypeInv, TypeOK
    <2>5. CASE ProcessValidate \/ ProcessRun \/ ProcessRunSilent \/ ProcessRunError \/ ProcessBump
      <3>1. processor.pc # "recv"
        BY <2>5 DEF ProcessValidate, ProcessRun, ProcessRunSilent, ProcessRunError, ProcessBump
      <3> QED  BY <2>1, <2>5, <3>1, ProcessFields
    <2>6. CASE ProcessReply
      BY <2>6, ProcessFields
    <2> QED  BY <1>1, <2>2, <2>3, <2>4, <2>5, <2>6, Writers DEF Process
  <1>10. resultCh # <<>> => /\ Head(resultCh).height \in 0..MaxHeight + 1
                            /\ Supported(Head(resultCh).height)
    BY <1>1, <1>3 DEF HashesReach, TypeInv, TypeOK, BlockResult
  <1>11. resultCh' # <<>> => Above(Head(resultCh').height)
    <2>1. CASE ProcessReply
      <3>1. /\ Head(resultCh').height = processor.msg.height /\ Supported(processor.msg.height)
            /\ processor.msg.height \in Heights
        BY <1>1, <2>1 DEF ProcessReply, HashesReach, TypeInv, HeightsOnChain, MessagesOnChain, OnChain,
                          BlockData
      <3> QED  BY <1>2, <1>3, <3>1
    <2> QED  BY <1>1, <1>2, <1>10, <2>1, Writers DEF IndexResult
  <1>12. \A t \in Tasks : Above(scan'[t].from)
    <2> SUFFICES ASSUME NEW t \in Tasks PROVE Above(scan'[t].from)
      OBVIOUS
    <2>1. /\ scan[t] \in ScanState /\ fetcher.height \in 0..MaxHeight + 1
          /\ Supported(scan[t].from) /\ Supported(fetcher.height)
      BY <1>1 DEF HashesReach, TypeInv, TypeOK, FetcherState
    <2>2. Above(scan[t].from) /\ Above(fetcher.height) /\ Above(0)
      BY <1>2, <1>3, <2>1 DEF ScanState
    <2>3. resultCh # <<>> => Above(Head(resultCh).height)
      BY <1>2, <1>10
    <2>4. ScanStep(scan[t], scan'[t]) => scan'[t].from = scan[t].from
      BY DEF ScanStep
    <2>5. NoScan.from = 0 /\ \A h : Started(h).from = h
      BY DEF NoScan, Started
    <2> QED  BY <2>2, <2>3, <2>4, <2>5, ScanChanges
  <1> QED  BY <1>4, <1>5, <1>6, <1>7, <1>8, <1>9, <1>11, <1>12, <1>3 DEF HashesReach, Supported

(* True blocks move from the fetcher through the queue to the processor. *)
LEMMA TruePasses ==
    ASSUME "crash" \notin FaultKinds, TypeInv, [Next]_vars, ~NodeStep
    PROVE  /\ FetcherTrue => FetcherTrue'
           /\ FetcherTrue /\ QueueTrue => QueueTrue'
           /\ QueueTrue /\ ProcessorTrue => ProcessorTrue'
           /\ \/ blockCh' # <<>> => blockCh' = blockCh
              \/ fetcher'.pc = "peek"
           /\ \/ processor'.pc # "recv" => processor.pc # "recv" /\ processor'.msg = processor.msg
              \/ blockCh # <<>> /\ processor'.msg = Head(blockCh) /\ blockCh' = <<>>
  <1>1. ~Restart
    BY NoRestart
  <1>2. fetcher'.pc = "send" =>
           UNCHANGED fetcher \/ TrueAt(fetcher'.data, fetcher'.height)
    <2>1. CASE FetchData
      <3>1. /\ fetcher.pc = "data" /\ fetcher'.height = fetcher.height
            /\ fetcher'.data = BlockAt(fetcher.height)
        BY <2>1, FetchFields DEF FetchData
      <3>2. fetcher.height <= Tip
        BY <3>1 DEF TypeInv, HeightsOnChain, FetcherOnChain
      <3> QED  BY <3>1, <3>2 DEF TrueAt
    <2> QED  BY <1>1, <2>1, Writers, FetchFields DEF Fetch
  <1>3. FetcherTrue => FetcherTrue'
    BY <1>2, SteadyChain DEF FetcherTrue
  <1>4. CASE FetchSend
    <2>1. /\ fetcher.pc = "send" /\ fetcher'.pc = "peek" /\ processor' = processor
          /\ Head(blockCh').data = fetcher.data /\ Head(blockCh').height = fetcher.height
      BY <1>4, FetchFields DEF FetchSend
    <2>2. FetcherTrue => QueueTrue'
      BY <2>1, SteadyChain DEF FetcherTrue, QueueTrue
    <2>3. ProcessorTrue => ProcessorTrue'
      BY <2>1, SteadyChain DEF ProcessorTrue
    <2> QED  BY <1>3, <2>1, <2>2, <2>3
  <1>5. CASE ProcessRecv
    <2>1. /\ blockCh # <<>> /\ blockCh' = <<>> /\ processor'.msg = Head(blockCh)
      BY <1>5, ProcessFields DEF ProcessRecv
    <2>2. QueueTrue' /\ (QueueTrue => ProcessorTrue')
      BY <2>1, SteadyChain DEF QueueTrue, ProcessorTrue
    <2> QED  BY <1>3, <2>1, <2>2
  <1>6. CASE ~FetchSend /\ ~ProcessRecv
    <2>1. blockCh' = blockCh
      BY <1>1, <1>6, Writers
    <2>2. processor'.pc # "recv" => processor.pc # "recv" /\ processor'.msg = processor.msg
      <3>1. CASE ProcessReply
        BY <3>1, ProcessFields
      <3>2. CASE ProcessValidate \/ ProcessRun \/ ProcessRunSilent \/ ProcessRunError
                    \/ ProcessMeta \/ ProcessBump
        <4>1. processor.pc # "recv"
          BY <3>2 DEF ProcessValidate, ProcessRun, ProcessRunSilent, ProcessRunError, ProcessMeta,
                      ProcessBump
        <4> QED  BY <3>2, <4>1, ProcessFields
      <3> QED  BY <1>1, <1>6, <3>1, <3>2, Writers DEF Process
    <2>3. (QueueTrue => QueueTrue') /\ (ProcessorTrue => ProcessorTrue')
      BY <2>1, <2>2, SteadyChain DEF QueueTrue, ProcessorTrue
    <2> QED  BY <1>3, <2>1, <2>2, <2>3
  <1> QED  BY <1>4, <1>5, <1>6

(* A fresh hash is the processor's, or it was there before. *)
LEMMA FreshComes ==
    ASSUME TypeInv, Validated, [Next]_vars, NEW old, NEW h \in Heights,
           hashAt'[h] # None, ~OldAt(old, hashAt'[h], h)
    PROVE  \/ Fresh(old, h)
           \/ /\ hashAt' # hashAt /\ h = processor.msg.height /\ processor.pc = "meta"
              /\ ~OldAt(old, processor.msg.data, processor.msg.height)
  BY StoresHash DEF Fresh, TypeInv, TypeOK

(* Old blocks do not overtake: they were fetched before. *)
LEMMA FreshOrderNext ==
    ASSUME "crash" \notin FaultKinds, TypeInv, Validated, NEW old \in Chains, ReorgInv(old),
           [Next]_vars, ~NodeStep
    PROVE  FreshOrder(old)'
  <1>1. FreshOrder(old) /\ OldOrTrue(old)
    BY DEF ReorgInv
  <1>2. StoreFresh(old)' => ProcessorTrue' /\ QueueTrue' /\ FetcherTrue'
    <2> SUFFICES ASSUME NEW h \in Heights, hashAt'[h] # None, ~OldAt(old, hashAt'[h], h)
                 PROVE  ProcessorTrue' /\ QueueTrue' /\ FetcherTrue'
      BY DEF StoreFresh, Fresh, OldAt
    <2>1. CASE StoreFresh(old)
      BY <1>1, <2>1, TruePasses DEF FreshOrder
    <2>2. CASE /\ processor.pc # "recv"
               /\ ~OldAt(old, processor.msg.data, processor.msg.height)
      <3>1. QueueTrue /\ FetcherTrue
        BY <1>1, <2>2 DEF FreshOrder
      <3>2. ProcessorTrue
        BY <1>1, <2>2 DEF OldOrTrue, Known, ProcessorTrue
      <3> QED  BY <3>1, <3>2, TruePasses
    <2> QED  BY <2>1, <2>2, FreshComes DEF StoreFresh
  <1>3. processor'.pc # "recv" /\ ~OldAt(old, processor'.msg.data, processor'.msg.height)
           => QueueTrue' /\ FetcherTrue'
    <2> SUFFICES ASSUME processor'.pc # "recv",
                        ~OldAt(old, processor'.msg.data, processor'.msg.height)
                 PROVE  QueueTrue' /\ FetcherTrue'
      OBVIOUS
    <2>1. CASE processor.pc # "recv" /\ processor'.msg = processor.msg
      <3>1. QueueTrue /\ FetcherTrue
        BY <1>1, <2>1 DEF FreshOrder
      <3> QED  BY <3>1, TruePasses
    <2>2. CASE blockCh # <<>> /\ processor'.msg = Head(blockCh) /\ blockCh' = <<>>
      <3>1. FetcherTrue /\ QueueTrue'
        BY <1>1, <2>2 DEF FreshOrder, QueueTrue
      <3> QED  BY <3>1, TruePasses
    <2> QED  BY <2>1, <2>2, TruePasses
  <1>4. blockCh' # <<>> /\ ~OldAt(old, Head(blockCh').data, Head(blockCh').height)
           => FetcherTrue'
    <2> SUFFICES ASSUME blockCh' # <<>>,
                        ~OldAt(old, Head(blockCh').data, Head(blockCh').height)
                 PROVE  FetcherTrue'
      OBVIOUS
    <2>1. CASE blockCh' = blockCh
      <3>1. FetcherTrue
        BY <1>1, <2>1 DEF FreshOrder
      <3> QED  BY <3>1, TruePasses
    <2>2. CASE fetcher'.pc = "peek"
      BY <2>2 DEF FetcherTrue
    <2> QED  BY <2>1, <2>2, TruePasses
  <1> QED  BY <1>2, <1>3, <1>4 DEF FreshOrder, OldAt

(* A new block connects to the hash below it, which is then the node's. *)
LEMMA FreshLinkedNext ==
    ASSUME "crash" \notin FaultKinds, StartBlock > 0, TypeInv, Validated, NEW old \in Chains,
           ReorgInv(old), [Next]_vars, ~NodeStep
    PROVE  FreshLinked(old)'
  <1>1. /\ FreshLinked(old) /\ HashesReach /\ OldOrTrue(old) /\ ~Restart
        /\ StartBlock \in Nat /\ Heights \subseteq Nat /\ chain \in Chains
    BY NoRestart, ConfigAssumption DEF ReorgInv, Heights, TypeInv, TypeOK
  <1>2. ASSUME NEW h \in Heights, hashAt'[h] # None, ~OldAt(old, hashAt'[h], h),
               NEW j \in StartBlock..h - 1
        PROVE  TrueAt(hashAt'[j], j)
    <2>1. h \in Nat /\ j \in Nat /\ StartBlock <= j /\ j < h /\ j \in Heights /\ h > StartBlock
      <3>1. h \in Nat /\ h <= MaxHeight /\ MaxHeight \in Nat
        BY <1>1, ConfigAssumption DEF Heights
      <3>2. j \in Nat /\ StartBlock <= j /\ j <= h - 1
        BY <1>1, <3>1
      <3> QED  BY <1>1, <3>1, <3>2 DEF Heights
    <2>2. hashAt[j] # None /\ TrueAt(hashAt[j], j)
      <3>1. CASE Fresh(old, h)
        <4>1. TrueAt(hashAt[j], j)
          BY <1>1, <3>1 DEF FreshLinked
        <4> QED  BY <2>1, <4>1, TrueBlock
      <3>2. CASE /\ hashAt' # hashAt /\ h = processor.msg.height /\ processor.pc = "meta"
                 /\ ~OldAt(old, processor.msg.data, processor.msg.height)
        <4>1. TrueAt(processor.msg.data, h)
          BY <1>1, <3>2 DEF OldOrTrue, Known
        <4>2. hashAt[h - 1] # None /\ h - 1 \in Heights /\ j \in StartBlock..h - 1
          <5>1. Supported(h)
            BY <1>1, <3>2 DEF HashesReach
          <5>2. h - 1 \in Heights /\ h - 1 \in Nat
            BY <2>1, ConfigAssumption DEF Heights
          <5>3. hashAt[h - 1] # None
            BY <1>1, <2>1, <5>1 DEF Supported
          <5> QED  BY <1>1, <2>1, <5>2, <5>3
        <4>3. hashAt[h - 1] = Parent[processor.msg.data]
          BY <2>1, <3>2, <4>2, StoresHash
        <4>4. h + 1 \in 2..Len(chain) /\ processor.msg.data = chain[h + 1] /\ Len(chain) \in Nat
          BY <1>1, <2>1, <4>1, ChainFacts DEF TrueAt, Tip, BlockAt
        <4>5. hashAt[h - 1] = chain[h]
          BY <1>1, <2>1, <4>3, <4>4, ChainAssumption
        <4>6. TrueAt(hashAt[h - 1], h - 1)
          BY <2>1, <4>4, <4>5 DEF TrueAt, Tip, BlockAt
        <4> QED  BY <4>2, <4>6, TrueBelow
      <3> QED  BY <1>2, <3>1, <3>2, FreshComes
    <2> QED  BY <2>1, <2>2, TrueStays
  <1>3. StoreFresh(old)' => indexed' < StartBlock \/ TrueAt(hashAt'[indexed'], indexed')
    <2> SUFFICES ASSUME StoreFresh(old)'
                 PROVE  indexed' < StartBlock \/ TrueAt(hashAt'[indexed'], indexed')
      OBVIOUS
    <2>1. CASE ProcessMeta
      <3>1. /\ processor.pc = "meta" /\ indexed' = processor.msg.height
            /\ processor.msg.height \in Heights
            /\ hashAt'[processor.msg.height] = processor.msg.data
        <4>1. /\ processor.pc = "meta" /\ processor.msg \in BlockData
              /\ processor.msg.hash = processor.msg.data
          BY <2>1 DEF ProcessMeta, Validated, Connects, TypeInv, HeightsOnChain, MessagesOnChain,
                      OnChain
        <4> QED  BY <2>1, <4>1 DEF ProcessMeta, BlockData, TypeInv, TypeOK
      <3>2. processor'.pc # "recv" /\ processor'.msg = processor.msg
        BY <2>1, ProcessFields
      <3>3. ProcessorTrue'
        BY FreshOrderNext DEF FreshOrder
      <3>4. TrueAt(processor.msg.data, processor.msg.height)'
        BY <3>2, <3>3 DEF ProcessorTrue
      <3> QED  BY <3>1, <3>2, <3>4, SteadyChain DEF TrueAt
    <2>2. CASE ~ProcessMeta
      <3>1. hashAt' = hashAt
        BY <2>2, Writers
      <3>2. StoreFresh(old)
        BY <3>1 DEF StoreFresh, Fresh, OldAt
      <3>3. CASE UNCHANGED indexed
        BY <1>1, <3>1, <3>2, <3>3 DEF FreshLinked
      <3>4. CASE \E t \in Tasks : ScanRollback(t)
        <4>1. PICK t \in Tasks : ScanRollback(t)
          BY <3>4
        <4>2. indexed' = scan[t].check /\ scan[t].pc = "rollback"
          BY <4>1 DEF ScanRollback
        <4> QED  BY <3>1, <4>2, ScanLands
      <3> QED  BY <1>1, <2>2, <3>3, <3>4, Writers DEF Crash, CrashInMeta, CrashInRollback
    <2> QED  BY <2>1, <2>2
  <1> QED  BY <1>2, <1>3, SteadyChain DEF FreshLinked, Fresh, OldAt

-----------------------------------------------------------------------------
(* handle_reorg. *)

(* Leaving the range after a mismatch, the scan is below the reorg. *)
LEMMA ScanBottom ==
    ASSUME ShallowReorgs, StartBlock > 0, TypeInv, NEW old \in Chains, ReorgInv(old),
           NEW t \in Tasks, scan[t].pc = "local", ~InRange(scan[t]), scan[t].detected
    PROVE  scan[t].check < StartBlock \/ TrueAt(hashAt[scan[t].check], scan[t].check)
  <1> DEFINE c == scan[t].check
             f == scan[t].from
  <1> SUFFICES ASSUME ~(c < StartBlock) PROVE TrueAt(hashAt[c], c)
    OBVIOUS
  <1>1. /\ Reorged(old) /\ f <= Len(old) /\ c < f /\ HashesReach /\ OldOrTrue(old)
        /\ StartBlock \in Nat /\ MaxReorgDepth \in Nat /\ MaxHeight \in Nat /\ chain \in Chains
        /\ c \in Nat /\ c \in Heights /\ f \in Nat /\ f <= MaxHeight + 1
        /\ Len(old) \in Nat /\ Len(chain) \in Nat
    BY ConfigAssumption, ChainFacts
       DEF ReorgInv, ScanFinds, TypeInv, TypeOK, ScanState, Heights
  <1>2. c > 0 /\ c + MaxReorgDepth < f
    BY <1>1 DEF InRange, Monus
  <1> HIDE DEF c, f
  <1>3. hashAt[c] # None
    <2>1. f - 1 \in Heights /\ f > StartBlock /\ c \in StartBlock..f - 1
      BY ONLY <1>1, ~(c < StartBlock) DEF Heights
    <2>2. hashAt[f - 1] # None
      BY <1>1, <2>1 DEF HashesReach, Supported, f
    <2> QED  BY <1>1, <2>1, <2>2 DEF HashesReach
  <1>4. Known(old, hashAt[c], c)
    BY <1>1, <1>3 DEF OldOrTrue
  <1>5. CASE OldAt(old, hashAt[c], c)
    <2>1. /\ c + 1 \in 1..Len(old) /\ (c + 1) + MaxReorgDepth <= Len(old)
          /\ Len(old) < Len(chain) /\ c <= Tip
      <3>1. Len(old) < Len(chain)
        BY <1>1 DEF Reorged
      <3> QED  BY ONLY <1>1, <1>2, <3>1 DEF Tip
    <2>2. old[c + 1] = chain[c + 1]
      BY <1>1, <2>1 DEF ShallowReorgs
    <2> QED  BY <1>5, <2>1, <2>2 DEF OldAt, TrueAt, BlockAt
  <1> QED  BY <1>4, <1>5 DEF Known

(* A height that differs from the node's proves that the node has left it.  *)
LEMMA ScanMismatch ==
    ASSUME TypeInv, NEW old \in Chains, ReorgInv(old), NEW t \in Tasks,
           scan[t].pc = "remote", scan[t].local # BlockAt(scan[t].check)
    PROVE  Reorged(old) /\ scan[t].from <= Len(old)
  <1> DEFINE c == scan[t].check
             f == scan[t].from
  <1>1. /\ c < f /\ (scan[t].detected => Reorged(old) /\ f <= Len(old))
        /\ scan[t].detected \/ c + 1 = f \/ f <= StartBlock
        /\ Known(old, scan[t].local, c) /\ c <= Tip
        /\ StartBlock \in Nat /\ chain \in Chains /\ StartBlock < Len(old)
        /\ c \in Nat /\ f \in Nat /\ Len(old) \in Nat /\ Len(chain) \in Nat
    BY ConfigAssumption, ChainFacts
       DEF ReorgInv, OldOrTrue, ScanFinds, TypeInv, TypeOK, HeightsOnChain, ScansOnChain, ScanState,
           Heights
  <1>2. OldAt(old, scan[t].local, c)
    BY <1>1 DEF Known, TrueAt
  <1>3. old # chain
    BY <1>2 DEF OldAt, BlockAt
  <1>4. Reorged(old)
    BY <1>3 DEF ReorgInv
  <1>5. f <= Len(old)
    BY <1>1, <1>2 DEF OldAt
  <1> QED  BY <1>4, <1>5

(* handle_reorg compares its way down to a hash of the node. *)
LEMMA ScanFindsNext ==
    ASSUME ShallowReorgs, "crash" \notin FaultKinds, StartBlock > 0, TypeInv, Validated,
           NEW old \in Chains, ReorgInv(old), [Next]_vars, ~NodeStep, NEW t \in Tasks
    PROVE  ScanFinds(old, scan[t])'
  <1> DEFINE s == scan[t]
             r == scan'[t]
  <1>1. /\ ScanFinds(old, s) /\ HashesReach /\ OldOrTrue(old) /\ s \in ScanState
        /\ s.check \in Heights /\ s.check \in Nat /\ s.from \in Nat /\ StartBlock \in Nat
        /\ MaxHeight \in Nat /\ s.detected \in BOOLEAN /\ s.from <= MaxHeight + 1
    BY ConfigAssumption DEF ReorgInv, TypeInv, TypeOK, ScanState, Heights
  <1> DEFINE Found(c) == c < StartBlock \/ (TrueAt(hashAt[c], c) /\ hashAt[c] # None)
             Kept(c) == c < StartBlock \/ TrueAt(hashAt'[c], c)
  <1>2. Found(s.check) => Kept(s.check)
    BY <1>1, TrueStays
  <1>3. s.pc = "rollback" \/ (s.pc = "done" /\ s.detected) => Found(s.check)
    BY ScanLands
  <1> DEFINE Next2 ==
        /\ r.detected \/ r.pc = "rollback" => Reorged(old) /\ r.from <= Len(old)
        /\ r.pc \in {"local", "remote"} => r.check < r.from
        /\ r.pc \in {"local", "remote"} /\ ~r.detected =>
              r.check + 1 = r.from \/ r.from <= StartBlock
        /\ r.pc = "remote" /\ r.local = BlockAt(r.check) => hashAt'[r.check] = r.local
        /\ r.pc = "rollback" \/ (r.pc = "done" /\ r.detected) => Kept(r.check)
  <1>4. SUFFICES Next2
    BY SteadyChain DEF ScanFinds
  <1>5. CASE r = s
    <2>1. s.pc = "remote" /\ s.local = BlockAt(s.check) => hashAt'[s.check] = s.local
      <3> SUFFICES ASSUME s.pc = "remote", s.local = BlockAt(s.check)
                   PROVE  hashAt'[s.check] = s.local
        OBVIOUS
      <3>1. hashAt[s.check] = s.local /\ Known(old, s.local, s.check)
        BY <1>1 DEF ScanFinds, OldOrTrue
      <3>2. hashAt[s.check] # None
        BY <1>1, <3>1, KnownBlock
      <3>3. TrueAt(s.local, s.check)
        BY DEF TrueAt, TypeInv, HeightsOnChain, ScansOnChain
      <3> QED  BY <1>1, <3>1, <3>2, <3>3, TrueStays
    <2> QED  BY <1>1, <1>2, <1>3, <1>5, <2>1 DEF ScanFinds
  <1>6. CASE r = NoScan
    BY <1>6 DEF NoScan
  <1>7. ASSUME NEW h \in Nat, r = Started(h) PROVE Next2
    BY <1>7 DEF Started, Monus
  <1>8. CASE ScanStep(s, r)
    <2>1. CASE s.pc = "local" /\ ~InRange(s) /\ Leaves(s, r) /\ r.check = s.check
      <3>1. s.detected => Kept(s.check)
        BY <1>1, <1>2, <2>1, ScanBottom, TrueBlock
      <3> QED  BY <1>1, <1>8, <2>1, <3>1 DEF ScanStep, ScanFinds, Leaves
    <2>2. CASE /\ s.pc = "local" /\ InRange(s) /\ hashAt[s.check] = None
               /\ r.pc = "local" /\ r.detected = s.detected /\ r.check = s.check - 1
      <3>1. s.detected \/ s.from <= StartBlock
        <4> SUFFICES ASSUME ~s.detected, s.from > StartBlock PROVE FALSE
          BY <1>1
        <4>1. s.check = s.from - 1
          BY <1>1, <2>2 DEF ScanFinds
        <4> QED  BY <1>1, <2>2, <4>1 DEF HashesReach, Supported
      <3>2. r.check < s.from
        BY <1>1, <2>2 DEF ScanFinds
      <3> QED  BY <1>1, <1>8, <2>2, <3>1, <3>2 DEF ScanStep, ScanFinds
    <2>3. CASE /\ s.pc = "local" /\ hashAt[s.check] # None
               /\ r.pc = "remote" /\ r.detected = s.detected /\ r.check = s.check
               /\ r.local = hashAt[s.check]
      <3>1. r.local = BlockAt(r.check) => hashAt'[r.check] = r.local
        <4>1. r.local = BlockAt(r.check) => TrueAt(hashAt[s.check], s.check)
          BY <2>3 DEF TrueAt, TypeInv, HeightsOnChain, ScansOnChain
        <4> QED  BY <1>1, <2>3, <4>1, TrueStays
      <3> QED  BY <1>1, <1>8, <2>3, <3>1 DEF ScanStep, ScanFinds
    <2>4. CASE s.pc = "remote" /\ s.local = BlockAt(s.check) /\ Leaves(s, r) /\ r.check = s.check
      <3>1. TrueAt(hashAt[s.check], s.check)
        BY <1>1, <2>4 DEF ScanFinds, TrueAt, TypeInv, HeightsOnChain, ScansOnChain
      <3>2. Kept(s.check)
        BY <1>1, <1>2, <3>1, TrueBlock
      <3> QED  BY <1>1, <1>8, <2>4, <3>2 DEF ScanStep, ScanFinds, Leaves
    <2>5. CASE /\ s.pc = "remote" /\ s.local # BlockAt(s.check)
               /\ r.pc = "local" /\ r.detected = TRUE /\ r.check = s.check - 1
      <3>1. Reorged(old) /\ s.from <= Len(old)
        BY <2>5, ScanMismatch
      <3>2. r.check < s.from
        BY <1>1, <2>5 DEF ScanFinds
      <3> QED  BY <1>8, <2>5, <3>1, <3>2 DEF ScanStep
    <2>6. CASE s.pc = "remote" /\ r.pc = "done" /\ r.detected = FALSE
      BY <2>6
    <2>7. CASE s.pc = "rollback" /\ r.pc = "done" /\ r.detected = s.detected /\ r.check = s.check
      BY <1>1, <1>2, <1>3, <1>8, <2>7 DEF ScanStep, ScanFinds
    <2> QED  BY <1>8, <2>1, <2>2, <2>3, <2>4, <2>5, <2>6, <2>7 DEF ScanStep
  <1>9. fetcher.height \in Nat /\ (resultCh # <<>> => Head(resultCh).height \in Nat)
    BY ConfigAssumption DEF TypeInv, TypeOK, FetcherState, BlockResult, Heights
  <1> QED  BY <1>5, <1>6, <1>7, <1>8, <1>9, ScanChanges

-----------------------------------------------------------------------------
(* Every step keeps the invariant; the first reorg chooses the old chain.   *)
LEMMA ReorgNext ==
    ASSUME OneReorg, ShallowReorgs, "crash" \notin FaultKinds, StartBlock > 0, TypeInv, Validated,
           NEW old \in Chains, ReorgInv(old), [Next]_vars
    PROVE  \E o \in Chains : ReorgInv(o)'
  <1>1. CASE NodeStep /\ old = chain
    BY <1>1, NodeFirst
  <1>2. CASE NodeStep /\ Reorged(old)
    BY <1>2, NodeLater
  <1>3. CASE ~NodeStep
    <2>1. old = chain' \/ Reorged(old)'
      BY <1>3, SteadyChain DEF ReorgInv
    <2>2. OldOrTrue(old)' /\ HashesReach' /\ FreshOrder(old)' /\ FreshLinked(old)'
      BY <1>3, OldOrTrueNext, HashesReachNext, FreshOrderNext, FreshLinkedNext
    <2>3. \A t \in Tasks : ScanFinds(old, scan[t])'
      BY <1>3, ScanFindsNext
    <2> QED  BY <2>1, <2>2, <2>3 DEF ReorgInv
  <1> QED  BY <1>1, <1>2, <1>3 DEF ReorgInv

(***************************************************************************)
(* The node leaves its chain for another once, by at most MaxReorgDepth    *)
(* blocks, at any moment, and the process does not crash: then, whatever   *)
(* RPC, runtime and flush errors happen and however the two handle_reorg   *)
(* calls overlap with process_block, the hashes stored up to the indexed   *)
(* height form one chain (validate_block_connects, handle_reorg).          *)
(***************************************************************************)
THEOREM LinkedThroughOneReorg ==
    OneReorg /\ ShallowReorgs /\ "crash" \notin FaultKinds /\ StartBlock > 0
        => (Spec => []ChainLinked)
  <1> SUFFICES ASSUME OneReorg, ShallowReorgs, "crash" \notin FaultKinds, StartBlock > 0
               PROVE  Spec => []ChainLinked
    OBVIOUS
  <1> DEFINE Inv == TypeInv /\ Validated /\ \E old \in Chains : ReorgInv(old)
  <1>1. Init => Inv
    BY TypeInit, ValidatedInit, ReorgInit
  <1>2. Inv /\ [Next]_vars => Inv'
    <2> SUFFICES ASSUME Inv, [Next]_vars PROVE Inv'
      OBVIOUS
    <2>1. PICK old \in Chains : ReorgInv(old)
      OBVIOUS
    <2>2. \E o \in Chains : ReorgInv(o)'
      BY <2>1, ReorgNext
    <2>3. TypeInv' /\ Validated'
      BY TypeNext, ValidatedNext
    <2> QED  BY <2>2, <2>3
  <1>3. Inv => ChainLinked
    BY ReorgLinked
  <1> HIDE DEF Inv
  <1> QED  BY <1>1, <1>2, <1>3, PTL DEF Spec
=============================================================================
