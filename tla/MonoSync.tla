------------------------------ MODULE MonoSync ------------------------------
(***************************************************************************)
(* The indexing pipeline of rockshrew-mono (crates/rockshrew-mono/src/     *)
(* lib.rs, run): a fetcher task, a processor thread and an indexer task    *)
(* that share one SnapshotMetashrewSync engine (crates/metashrew-sync/src/ *)
(* snapshot_sync.rs), hand blocks and results over two channels of size 1  *)
(* and talk to a Bitcoin node that may reorganise at any moment.           *)
(*                                                                         *)
(* handle_reorg (sync.rs) is run by two of the tasks, the fetcher before   *)
(* it fetches and the indexer when a block does not connect, and takes the *)
(* storage lock only for single reads and for the rollback itself.         *)
(*                                                                         *)
(* What the database holds is abstracted to the set of blocks whose writes *)
(* are stored at each height; AppendStore models the entries.              *)
(***************************************************************************)
EXTENDS NodeChain

CONSTANTS
    StartBlock,         \* SyncConfig.start_block
    ReorgThreshold,     \* SyncConfig.reorg_check_threshold
    MaxReorgDepth,      \* SyncConfig.max_reorg_depth
    MaxHeight,          \* bound: no chain is longer
    FaultKinds,         \* the kinds of fault considered
    MaxFaults           \* bound: how many of them happen

ASSUME ConfigAssumption ==
    /\ StartBlock \in Nat /\ ReorgThreshold \in Nat /\ MaxReorgDepth \in Nat
    /\ FaultKinds \subseteq {"rpc", "runtime", "flush", "crash"}
    /\ MaxFaults \in Nat /\ MaxHeight \in Nat
    /\ \A c \in Chains : StartBlock < Len(c) /\ Len(c) <= MaxHeight + 1

Heights == 0..MaxHeight
BlockOrNone == Blocks \cup {None}

(* A BlockData message: the hash and the data come from separate RPCs. *)
BlockData == [height : Heights, data : Blocks, hash : Blocks]
(* A BlockResult message; "connect" is the error of validate_block_connects. *)
BlockResult == [height : Heights, kind : {"success", "connect", "runtime"}]

VARIABLES
    indexed,    \* "__INTERNAL/height"
    hashAt,     \* "/__INTERNAL/height-to-hash/{h}"
    stored,     \* stored[h]: the blocks whose flush at height h is in the store
    current,    \* SnapshotMetashrewSync.current_height
    processing, \* SnapshotMetashrewSync.processing_heights
    blockCh,    \* mpsc::channel::<BlockData>(1)
    resultCh,   \* mpsc::channel::<BlockResult>(1)
    fetcher,    \* pc and locals of the fetcher task
    processor,  \* pc and locals of the processor thread
    scan,       \* the handle_reorg call of the fetcher and of the indexer
    faults      \* faults injected so far

storage == <<indexed, hashAt, stored>>
engine == <<current, processing>>
channels == <<blockCh, resultCh>>
tasks == <<fetcher, processor, scan>>
vars == <<chain, storage, engine, channels, tasks, faults>>

Tasks == {"fetcher", "indexer"}
Monus(a, b) == IF a > b THEN a - b ELSE 0
Inject(kind) == kind \in FaultKinds /\ faults < MaxFaults /\ faults' = faults + 1

NoMsg == [height |-> 0, data |-> None, hash |-> None]
NoScan == [pc |-> "off", from |-> 0, check |-> 0, detected |-> FALSE, local |-> None]
IdleFetcher == [pc |-> "peek", height |-> 0, tip |-> 0, hash |-> None, data |-> None]
IdleProcessor == [pc |-> "recv", msg |-> NoMsg, result |-> "success"]

(* SnapshotMetashrewSync::init: where a starting process resumes. *)
ResumeHeight(i) ==
    IF StartBlock > i THEN StartBlock
    ELSE IF i > 0 THEN i + 1 ELSE StartBlock

Init ==
    /\ NodeInit
    /\ indexed = 0
    /\ hashAt = [h \in Heights |-> None]
    /\ stored = [h \in Heights |-> {}]
    /\ current = ResumeHeight(0)
    /\ processing = {}
    /\ blockCh = <<>> /\ resultCh = <<>>
    /\ fetcher = IdleFetcher
    /\ processor = IdleProcessor
    /\ scan = [t \in Tasks |-> NoScan]
    /\ faults = 0

-----------------------------------------------------------------------------
(* handle_reorg, one call per task, entered with scan[t].pc = "local". *)

StartScan(t, h) ==
    scan' = [scan EXCEPT ![t] =
        [pc |-> IF h = 0 THEN "done" ELSE "local", from |-> h,
         check |-> Monus(h, 1), detected |-> FALSE, local |-> None]]

InRange(s) == s.check > 0 /\ s.check >= Monus(s.from, MaxReorgDepth)

(* The top of the loop: leave it, skip a height without a stored hash, or  *)
(* read the local hash under the storage read lock.                        *)
ScanLocal(t) ==
    LET s == scan[t] IN
    /\ s.pc = "local"
    /\ scan' = [scan EXCEPT ![t] =
          CASE ~InRange(s) -> [s EXCEPT !.pc = IF s.detected THEN "rollback" ELSE "done"]
            [] InRange(s) /\ hashAt[s.check] = None -> [s EXCEPT !.check = @ - 1]
            [] OTHER -> [s EXCEPT !.pc = "remote", !.local = hashAt[s.check]]]
    /\ UNCHANGED <<chain, storage, engine, channels, fetcher, processor, faults>>

(* Mutant: the mismatch is not remembered. *)
ScanRemote_Forgets(t) ==
    LET s == scan[t] IN
    /\ s.pc = "remote"
    /\ scan' = [scan EXCEPT ![t] =
          IF s.local = BlockAt(s.check) THEN [s EXCEPT !.pc = "done", !.local = None]
          ELSE [s EXCEPT !.pc = "local", !.check = @ - 1, !.local = None]]
    /\ UNCHANGED <<chain, storage, engine, channels, fetcher, processor, faults>>

(* The node's hash at the same height, and the comparison. *)
ScanRemote(t) ==
    LET s == scan[t] IN
    /\ s.pc = "remote"
    /\ scan' = [scan EXCEPT ![t] =
          IF s.local = BlockAt(s.check)
          THEN [s EXCEPT !.pc = IF s.detected THEN "rollback" ELSE "done", !.local = None]
          ELSE [s EXCEPT !.pc = "local", !.detected = TRUE, !.check = @ - 1, !.local = None]]
    /\ UNCHANGED <<chain, storage, engine, channels, fetcher, processor, faults>>

(* getblockhash fails: the call returns current_height and forgets what it  *)
(* has detected.                                                            *)
ScanRemoteError(t) ==
    LET s == scan[t] IN
    /\ s.pc = "remote"
    /\ Inject("rpc")
    /\ scan' = [scan EXCEPT ![t] =
          [s EXCEPT !.pc = "done", !.check = s.from - 1, !.detected = FALSE, !.local = None]]
    /\ UNCHANGED <<chain, storage, engine, channels, fetcher, processor>>

(***************************************************************************)
(* StorageAdapter::rollback_to_height(R), as one step. It holds the storage*)
(* write lock, which keeps out the other tasks' reads and the metadata of  *)
(* a block, but not __flush, which writes through the runtime's own handle *)
(* of the database: a flush in the middle of a rollback is taken as one    *)
(* before or after it. It removes what is stored at the heights            *)
(* R+1..indexed; what a flush has stored above indexed may or may not go   *)
(* with it (it does when a full scan is used or when its keys are in a     *)
(* rolled back manifest). With R >= indexed nothing is removed. The        *)
(* height-to-hash keys stay, and the indexed height becomes R in every     *)
(* case.                                                                   *)
(***************************************************************************)
RolledBack(R, keep) ==
    [h \in Heights |->
        IF R < indexed /\ h > R /\ ~(h > indexed /\ keep) THEN {} ELSE stored[h]]

ScanRollback(t) ==
    LET R == scan[t].check IN
    /\ scan[t].pc = "rollback"
    /\ \E keep \in BOOLEAN : stored' = RolledBack(R, keep)
    /\ indexed' = R
    /\ scan' = [scan EXCEPT ![t].pc = "done"]
    /\ UNCHANGED <<chain, hashAt, engine, channels, fetcher, processor, faults>>

(* What a finished call returns: the height to resume from. *)
ScanResult(s) == IF s.detected THEN s.check + 1 ELSE s.from

-----------------------------------------------------------------------------
(* The fetcher: its loop in run() and get_next_block_data. *)

(* The loop reads current_height ... *)
FetchPeek ==
    /\ fetcher.pc = "peek"
    /\ fetcher' = [fetcher EXCEPT !.pc = "gate", !.height = current]
    /\ UNCHANGED <<chain, storage, engine, channels, processor, scan, faults>>

(* Mutant: no duplicate guard. *)
FetchGate_Unguarded ==
    /\ fetcher.pc = "gate"
    /\ fetcher' = [IdleFetcher EXCEPT !.pc = "load"]
    /\ UNCHANGED <<chain, storage, engine, channels, processor, scan, faults>>

(* ... and, under the lock of processing_heights, sleeps and loops as long  *)
(* as that height is being processed.                                       *)
FetchGate ==
    /\ fetcher.pc = "gate"
    /\ fetcher' = IF fetcher.height \in processing THEN IdleFetcher
                  ELSE [IdleFetcher EXCEPT !.pc = "load"]
    /\ UNCHANGED <<chain, storage, engine, channels, processor, scan, faults>>

(* get_next_block_data reads current_height again, before its first await,  *)
FetchLoad ==
    /\ fetcher.pc = "load"
    /\ fetcher' = [fetcher EXCEPT !.pc = "tip", !.height = current]
    /\ UNCHANGED <<chain, storage, engine, channels, processor, scan, faults>>

(* asks for the tip, and checks for a reorg if the tip is close. *)
FetchTip ==
    LET near == Monus(Tip, fetcher.height) <= ReorgThreshold IN
    /\ fetcher.pc = "tip"
    /\ fetcher' = [fetcher EXCEPT !.pc = IF near THEN "reorg" ELSE "hash", !.tip = Tip]
    /\ IF near THEN StartScan("fetcher", fetcher.height) ELSE UNCHANGED scan
    /\ UNCHANGED <<chain, storage, engine, channels, processor, faults>>

(* handle_reorg has returned: store the height to resume from, then wait   *)
(* for a new block or go on to fetch one.                                  *)
FetchReorged ==
    LET h == ScanResult(scan["fetcher"]) IN
    /\ fetcher.pc = "reorg" /\ scan["fetcher"].pc = "done"
    /\ current' = h
    /\ fetcher' = IF h > fetcher.tip THEN IdleFetcher
                  ELSE [fetcher EXCEPT !.pc = "hash", !.height = h]
    /\ scan' = [scan EXCEPT !["fetcher"] = NoScan]
    /\ UNCHANGED <<chain, storage, processing, channels, processor, faults>>

(* get_block_info: getblockhash ... *)
FetchHash ==
    /\ fetcher.pc = "hash"
    /\ fetcher' = [fetcher EXCEPT !.pc = "data", !.hash = BlockAt(fetcher.height)]
    /\ UNCHANGED <<chain, storage, engine, channels, processor, scan, faults>>

(* ... then the block itself, by a hash asked for again, and the height is  *)
(* marked as being processed.                                               *)
FetchData ==
    /\ fetcher.pc = "data"
    /\ fetcher' = [fetcher EXCEPT !.pc = "send", !.data = BlockAt(fetcher.height)]
    /\ processing' = processing \cup {fetcher.height}
    /\ UNCHANGED <<chain, storage, current, channels, processor, scan, faults>>

(* Mutant: an unbounded channel. *)
FetchSend_Unbounded ==
    /\ fetcher.pc = "send"
    /\ blockCh' = Append(blockCh,
          [height |-> fetcher.height, data |-> fetcher.data, hash |-> fetcher.hash])
    /\ fetcher' = IdleFetcher
    /\ UNCHANGED <<chain, storage, engine, resultCh, processor, scan, faults>>

(* Sending waits for the one slot of the channel. *)
FetchSend ==
    /\ fetcher.pc = "send" /\ blockCh = <<>>
    /\ blockCh' = <<[height |-> fetcher.height, data |-> fetcher.data, hash |-> fetcher.hash]>>
    /\ fetcher' = IdleFetcher
    /\ UNCHANGED <<chain, storage, engine, resultCh, processor, scan, faults>>

(* An RPC of get_next_block_data fails after its retries: sleep and loop. *)
FetchError ==
    /\ fetcher.pc \in {"tip", "hash", "data"}
    /\ Inject("rpc")
    /\ fetcher' = IdleFetcher
    /\ UNCHANGED <<chain, storage, engine, channels, processor, scan>>

-----------------------------------------------------------------------------
(* The processor: SnapshotMetashrewSync::process_block. *)

ProcessRecv ==
    /\ processor.pc = "recv" /\ blockCh # <<>>
    /\ processor' = [processor EXCEPT !.pc = "validate", !.msg = Head(blockCh)]
    /\ blockCh' = <<>>
    /\ UNCHANGED <<chain, storage, engine, resultCh, fetcher, scan, faults>>

(* Mutant: only the header hash is verified. *)
Connects_HashOnly(m) == m.data = m.hash

(* validate_block_connects: the hash recomputed from the header is the one *)
(* received, and its parent is the stored hash below, if there is one.     *)
Connects(m) ==
    /\ m.data = m.hash
    /\ \/ m.height = 0
       \/ hashAt[m.height - 1] \in {None, Parent[m.data]}

ProcessValidate ==
    /\ processor.pc = "validate"
    /\ processor' = IF Connects(processor.msg)
                    THEN [processor EXCEPT !.pc = "run"]
                    ELSE [processor EXCEPT !.pc = "reply", !.result = "connect"]
    /\ UNCHANGED <<chain, storage, engine, channels, fetcher, scan, faults>>

(* runtime.process_block_atomic, whose __flush writes to the store at once *)
(* (or, when it fails, the fallback runtime.process_block).                *)
ProcessRun ==
    LET m == processor.msg IN
    /\ processor.pc = "run"
    /\ stored' = [stored EXCEPT ![m.height] = @ \cup {m.data}]
    /\ processor' = [processor EXCEPT !.pc = "meta"]
    /\ UNCHANGED <<chain, indexed, hashAt, engine, channels, fetcher, scan, faults>>

(* A host function fails, __flush in particular, and only sets had_failure: *)
(* _start returns, and the run counts as a success with nothing written.    *)
ProcessRunSilent ==
    /\ processor.pc = "run"
    /\ Inject("flush")
    /\ processor' = [processor EXCEPT !.pc = "meta"]
    /\ UNCHANGED <<chain, storage, engine, channels, fetcher, scan>>

(* Mutant: a failed run is taken for a finished one. *)
ProcessRunError_Swallowed ==
    /\ processor.pc = "run"
    /\ Inject("runtime")
    /\ processor' = [processor EXCEPT !.pc = "meta"]
    /\ UNCHANGED <<chain, storage, engine, channels, fetcher, scan>>

(* Both attempts fail, before a __flush or after one. *)
ProcessRunError ==
    LET m == processor.msg IN
    /\ processor.pc = "run"
    /\ Inject("runtime")
    /\ stored' \in {stored, [stored EXCEPT ![m.height] = @ \cup {m.data}]}
    /\ processor' = [processor EXCEPT !.pc = "reply", !.result = "runtime"]
    /\ UNCHANGED <<chain, indexed, hashAt, engine, channels, fetcher, scan>>

(* The metadata, under the storage write lock. *)
ProcessMeta ==
    LET m == processor.msg IN
    /\ processor.pc = "meta"
    /\ indexed' = m.height
    /\ hashAt' = [hashAt EXCEPT ![m.height] = m.hash]
    /\ processor' = [processor EXCEPT !.pc = "bump"]
    /\ UNCHANGED <<chain, stored, engine, channels, fetcher, scan, faults>>

ProcessBump ==
    /\ processor.pc = "bump"
    /\ current' = processor.msg.height + 1
    /\ processor' = [processor EXCEPT !.pc = "reply", !.result = "success"]
    /\ UNCHANGED <<chain, storage, processing, channels, fetcher, scan, faults>>

ProcessReply ==
    /\ processor.pc = "reply" /\ resultCh = <<>>
    /\ resultCh' = <<[height |-> processor.msg.height, kind |-> processor.result]>>
    /\ processor' = IdleProcessor
    /\ UNCHANGED <<chain, storage, engine, blockCh, fetcher, scan, faults>>

-----------------------------------------------------------------------------
(* The indexer: the result loop of run(). *)

(* Mutant: a failed height stays in processing_heights. *)
IndexResult_KeepsFailed ==
    LET r == Head(resultCh) IN
    /\ scan["indexer"].pc = "off" /\ resultCh # <<>>
    /\ resultCh' = <<>>
    /\ processing' = IF r.kind = "success" THEN processing \ {r.height} ELSE processing
    /\ IF r.kind = "connect" THEN StartScan("indexer", r.height) ELSE UNCHANGED scan
    /\ UNCHANGED <<chain, storage, current, blockCh, fetcher, processor, faults>>

(* The height leaves processing_heights first; a block that did not connect *)
(* then starts handle_reorg in this task.  (The 5 s sleep after an error is  *)
(* the task not taking its next step.)                                       *)
IndexResult ==
    LET r == Head(resultCh) IN
    /\ scan["indexer"].pc = "off" /\ resultCh # <<>>
    /\ resultCh' = <<>>
    /\ processing' = processing \ {r.height}
    /\ IF r.kind = "connect" THEN StartScan("indexer", r.height) ELSE UNCHANGED scan
    /\ UNCHANGED <<chain, storage, current, blockCh, fetcher, processor, faults>>

(* handle_reorg has returned; its result is logged and dropped. *)
IndexReorged ==
    /\ scan["indexer"].pc = "done"
    /\ scan' = [scan EXCEPT !["indexer"] = NoScan]
    /\ UNCHANGED <<chain, storage, engine, channels, fetcher, processor, faults>>

-----------------------------------------------------------------------------
(* Crashes: everything but the database is lost, and init() runs again. *)

Restart ==
    /\ Inject("crash")
    /\ current' = ResumeHeight(indexed')
    /\ processing' = {}
    /\ blockCh' = <<>> /\ resultCh' = <<>>
    /\ fetcher' = IdleFetcher
    /\ processor' = IdleProcessor
    /\ scan' = [t \in Tasks |-> NoScan]
    /\ UNCHANGED chain

Crash == UNCHANGED storage /\ Restart

(* A crash between the three puts of process_block's metadata. *)
CrashInMeta ==
    /\ processor.pc = "meta"
    /\ indexed' = processor.msg.height
    /\ UNCHANGED <<hashAt, stored>>
    /\ Restart

(* A crash inside a rollback, whose deletes are not one batch: some of the  *)
(* heights are gone and the indexed height is not yet lowered.              *)
CrashInRollback ==
    /\ \E t \in Tasks : \E gone \in SUBSET (scan[t].check + 1 .. indexed) :
          /\ scan[t].pc = "rollback"
          /\ stored' = [h \in Heights |-> IF h \in gone THEN {} ELSE stored[h]]
    /\ UNCHANGED <<indexed, hashAt>>
    /\ Restart

-----------------------------------------------------------------------------
NodeStep == NodeAdvance /\ UNCHANGED <<storage, engine, channels, tasks, faults>>

Scan(t) == ScanLocal(t) \/ ScanRemote(t) \/ ScanRollback(t)
Fetch == FetchPeek \/ FetchGate \/ FetchLoad \/ FetchTip
            \/ FetchReorged \/ FetchHash \/ FetchData \/ FetchSend
Process == ProcessRecv \/ ProcessValidate \/ ProcessRun \/ ProcessMeta
              \/ ProcessBump \/ ProcessReply
Index == IndexResult \/ IndexReorged
Fault == FetchError \/ ProcessRunError \/ ProcessRunSilent
            \/ (\E t \in Tasks : ScanRemoteError(t))
            \/ Crash \/ CrashInMeta \/ CrashInRollback

Next ==
    \/ NodeStep
    \/ \E t \in Tasks : Scan(t)
    \/ Fetch
    \/ Process
    \/ Index
    \/ Fault

Spec == Init /\ [][Next]_vars

(* Every task keeps running; the node and the faults owe nothing. *)
Fairness ==
    /\ WF_vars(Fetch) /\ WF_vars(Process) /\ WF_vars(Index)
    /\ \A t \in Tasks : WF_vars(Scan(t))

LiveSpec == Spec /\ Fairness

-----------------------------------------------------------------------------
FetcherState ==
    [pc : {"peek", "gate", "load", "tip", "reorg", "hash", "data", "send"},
     height : 0..MaxHeight + 1, tip : Heights, hash : BlockOrNone, data : BlockOrNone]
ProcessorState ==
    [pc : {"recv", "validate", "run", "meta", "bump", "reply"},
     msg : BlockData \cup {NoMsg}, result : {"success", "connect", "runtime"}]
ScanState ==
    [pc : {"off", "local", "remote", "rollback", "done"}, from : 0..MaxHeight + 1,
     check : Heights, detected : BOOLEAN, local : BlockOrNone]

(* The shape of the shared state and of the tasks' locals. *)
TypeOK ==
    /\ chain \in Chains
    /\ indexed \in Heights
    /\ hashAt \in [Heights -> BlockOrNone]
    /\ stored \in [Heights -> SUBSET Blocks]
    /\ current \in 0..MaxHeight + 1
    /\ processing \in SUBSET Heights
    /\ blockCh \in {<<>>} \cup {<<m>> : m \in BlockData}
    /\ resultCh \in {<<>>} \cup {<<r>> : r \in BlockResult}
    /\ fetcher \in FetcherState
    /\ processor \in ProcessorState
    /\ scan \in [Tasks -> ScanState]
    /\ faults \in 0..MaxFaults

(***************************************************************************)
(* process_block validates a block against the stored hash below it, then  *)
(* runs it for a long time without any lock while two other tasks may roll *)
(* the store back.  Still no step ever stores, at a height, the hash of a  *)
(* block that does not extend the hash stored below it at that moment      *)
(* (validate_block_connects against store_block_hash in process_block).    *)
(***************************************************************************)
CommitConnects ==
    [][\A h \in Heights \ {0} :
          hashAt'[h] # hashAt[h] => hashAt[h - 1] \in {None, Parent[hashAt'[h]]}]_vars

(***************************************************************************)
(* "Validate block chain continuity like a light client" (snapshot_sync.rs, *)
(* validate_block_connects): the hashes stored up to the indexed height     *)
(* form one chain.  While the node leaves its chain once, by no more blocks *)
(* than handle_reorg looks back, and the process does not crash, the stale  *)
(* hashes that rollback_to_height leaves behind never become part of it.    *)
(***************************************************************************)
ChainLinked ==
    \A h \in StartBlock + 1 .. indexed :
        hashAt[h] # None /\ hashAt[h - 1] = Parent[hashAt[h]]

(* "Block N+1 cannot be fetched until block N is fully processed and        *)
(* committed" (rockshrew-mono lib.rs, above the channels): once the fetcher *)
(* has passed the processing_heights guard no block is queued or half done. *)
StrictlySerial ==
    fetcher.pc \notin {"peek", "gate"} =>
        /\ blockCh = <<>>
        /\ processor.pc \notin {"validate", "run", "meta", "bump"}

(* No task is in the middle of anything. *)
Quiet ==
    /\ fetcher.pc = "peek" /\ scan["indexer"].pc = "off"
    /\ blockCh = <<>> /\ resultCh = <<>> /\ processor.pc = "recv"

(***************************************************************************)
(* What the index is for: when the pipeline is at rest and none of its     *)
(* hashes disagrees with the node, the store holds at every indexed height *)
(* the writes of the node's block, of nothing else, and misses none        *)
(* (process_block, rollback_to_height and init together).                  *)
(***************************************************************************)
StoreMatchesNode ==
    (/\ Quiet
     /\ \A h \in StartBlock..indexed : hashAt[h] \in {None, BlockAt(h)})
    => \A h \in StartBlock..indexed : stored[h] = {BlockAt(h)}

(* The index has caught up with the node and follows the same chain. *)
Synced == indexed = Tip /\ \A h \in StartBlock..Tip : hashAt[h] = BlockAt(h)

(* The fetcher, the processor and the indexer together reach the tip and    *)
(* stay there, after any number of RPC errors, runtime errors and crashes   *)
(* (run, init and the retries).                                             *)
CatchesUp == <>[](indexed = Tip /\ current = Tip + 1)

(* After a reorg the index follows the node's chain to its tip ("The sync   *)
(* engine will pick up from the new height", rockshrew-mono lib.rs).        *)
FollowsReorg == <>[]Synced

(* The same for one reorg and no failed RPC, as long as the fetcher does    *)
(* not overlap the processor for ever.                                      *)
FollowsReorgIfSerial == (<>[]StrictlySerial) => FollowsReorg
=============================================================================
