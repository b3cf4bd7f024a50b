---------------------------- MODULE AppendStore ----------------------------
(***************************************************************************)
(* The append-only versioned store of metashrew, entry by entry, under one *)
(* sequential sync engine: every key has a list of entries "height:value", *)
(* a "/length" key and, per height, a manifest of the keys it changed.     *)
(*   - a block is written by one atomic batch (crates/metashrew-runtime/   *)
(*     src/smt.rs, calculate_and_store_state_root_batched);                *)
(*   - its metadata by single puts (metashrew-sync snapshot_sync.rs);      *)
(*   - a reorg rolls it back put by put and delete by delete               *)
(*     (metashrew-runtime rollback.rs), from manifests or by a full scan;  *)
(*   - reads are a binary search in a key's list (get_at_height).          *)
(* A crash may fall between any two writes.  The value a block writes to a *)
(* key is the block itself.  Interleaving of the tasks is MonoSync's part. *)
(***************************************************************************)
EXTENDS NodeChain, Integers, FiniteSets

CONSTANTS
    Keys,           \* the indexer's keys
    Effects,        \* what the WASM indexer may do: the keys each block changes
    StartBlock,     \* SyncConfig.start_block
    MaxScanKeys,    \* max_keys_to_collect of the full rollback (100 000)
    MaxHeight,      \* bound: no chain is longer
    MaxLength,      \* bound: entries of one key
    CrashAt,        \* the points of the engine at which a crash is considered
    MaxFaults       \* bound: crashes and repeated flushes

ASSUME StoreAssumption ==
    /\ Effects \subseteq [Blocks -> SUBSET Keys]
    /\ StartBlock \in Nat \ {0}
    /\ MaxHeight \in Nat /\ MaxLength \in Nat /\ MaxFaults \in Nat /\ MaxScanKeys \in Nat
    /\ CrashAt \subseteq {"idle", "flush", "height", "hash", "fast", "trim", "full",
                       "erase", "rewrite", "lower"}
    /\ \A c \in Chains : StartBlock < Len(c) /\ Len(c) <= MaxHeight + 1
    /\ None \notin [height : 0..MaxHeight, value : Blocks]
    /\ \A ks \in SUBSET Keys : ks # None

Heights == 0..MaxHeight
Slots == 0..MaxLength - 1
BlockOrNone == Blocks \cup {None}
Entry == [height : Heights, value : Blocks]

VARIABLES
    writes,     \* writes[b]: the keys block b changes (fixed; the indexer is deterministic)
    length,     \* "{key}/length"; 0 when the key is absent
    entry,      \* "{key}/{i}"
    manifest,   \* MANIFEST_PREFIX{h}
    indexed,    \* "__INTERNAL/height"
    hashAt,     \* "/__INTERNAL/height-to-hash/{h}"
    current,    \* current_height of the engine
    job,        \* what the engine is in the middle of, with its locals
    faults      \* faults injected so far

db == <<length, entry, manifest, indexed, hashAt>>
vars == <<chain, writes, db, current, job, faults>>

Idle == [pc |-> "idle", block |-> None, target |-> 0, height |-> 0, keys |-> {},
         key |-> None, i |-> 0, newLength |-> 0, valid |-> <<>>]

(* SnapshotMetashrewSync::init *)
ResumeHeight(i) == IF StartBlock > i THEN StartBlock ELSE i + 1

Init ==
    /\ NodeInit
    /\ writes \in Effects
    /\ length = [k \in Keys |-> 0]
    /\ entry = [k \in Keys |-> [i \in Slots |-> None]]
    /\ manifest = [h \in Heights |-> None]
    /\ indexed = 0
    /\ hashAt = [h \in Heights |-> None]
    /\ current = ResumeHeight(0)
    /\ job = Idle
    /\ faults = 0

-----------------------------------------------------------------------------
(* Reading *)

(* The loop variables of the binary search. *)
Search == [left : 0..MaxLength, right : 0..MaxLength, best : BlockOrNone]

(* Mutants: the newest entry whatever its height; entries strictly below.   *)
GetAtHeight_Newest(k, h) ==
    IF length[k] = 0 THEN None
    ELSE IF entry[k][length[k] - 1] = None THEN "error" ELSE entry[k][length[k] - 1].value

GetAtHeight_Strict(k, h) ==
    LET search[s \in Search] ==
          LET m == (s.left + s.right) \div 2
              e == entry[k][m]
          IN IF s.left >= s.right THEN s.best
             ELSE IF e = None THEN "error"
             ELSE IF e.height < h THEN search[[s EXCEPT !.left = m + 1, !.best = e.value]]
             ELSE search[[s EXCEPT !.right = m]]
    IN search[[left |-> 0, right |-> length[k], best |-> None]]

(* get_at_height: the binary search; "error" is its "Missing update".       *)
GetAtHeight(k, h) ==
    LET search[s \in Search] ==
          LET m == (s.left + s.right) \div 2
              e == entry[k][m]
          IN IF s.left >= s.right THEN s.best
             ELSE IF e = None THEN "error"
             ELSE IF e.height <= h THEN search[[s EXCEPT !.left = m + 1, !.best = e.value]]
             ELSE search[[s EXCEPT !.right = m]]
    IN search[[left |-> 0, right |-> length[k], best |-> None]]

-----------------------------------------------------------------------------
(* The engine: get_next_block_data and process_block *)

(* handle_reorg: the heights where a stored hash differs from the node's,   *)
(* from the top down to the first one that agrees (none stored: skipped).   *)
(* Every height is within reorg_check_threshold and max_reorg_depth here.   *)
Agrees(h) == hashAt[h] # None /\ hashAt[h] = BlockAt(h)
Differs(h) == hashAt[h] # None /\ hashAt[h] # BlockAt(h)
CommonAncestor ==
    LET below == {h \in 1..current - 1 : Agrees(h)}
    IN IF below = {} THEN 0 ELSE CHOOSE h \in below : \A x \in below : x <= h
ReorgDetected == \E h \in CommonAncestor + 1 .. current - 1 : Differs(h)

(* A block that connects to the stored hash below it is handed to the runtime. *)
Accept ==
    /\ job.pc = "idle" /\ ~ReorgDetected
    /\ current <= Tip
    /\ hashAt[current - 1] \in {None, Parent[BlockAt(current)]}
    /\ job' = [Idle EXCEPT !.pc = "flush", !.block = BlockAt(current)]
    /\ UNCHANGED <<chain, writes, db, current, faults>>

(* Mutant: a manifest that is already there is kept. *)
FlushBatch_KeepsManifest(b, h) ==
    /\ entry' = [k \in Keys |->
          IF k \in writes[b]
          THEN [entry[k] EXCEPT ![length[k]] = [height |-> h, value |-> b]]
          ELSE entry[k]]
    /\ length' = [k \in Keys |-> IF k \in writes[b] THEN length[k] + 1 ELSE length[k]]
    /\ manifest' = IF writes[b] = {} \/ manifest[h] # None THEN manifest
                   ELSE [manifest EXCEPT ![h] = writes[b]]

(* The batch of __flush: an entry and a new length per key, the manifest    *)
(* unless the block writes nothing, all or nothing.                         *)
FlushBatch(b, h) ==
    /\ entry' = [k \in Keys |->
          IF k \in writes[b]
          THEN [entry[k] EXCEPT ![length[k]] = [height |-> h, value |-> b]]
          ELSE entry[k]]
    /\ length' = [k \in Keys |-> IF k \in writes[b] THEN length[k] + 1 ELSE length[k]]
    /\ manifest' = IF writes[b] = {} THEN manifest
                   ELSE [manifest EXCEPT ![h] = writes[b]]

HasRoom(b) == \A k \in writes[b] : length[k] < MaxLength

Flush ==
    /\ job.pc = "flush" /\ HasRoom(job.block)
    /\ FlushBatch(job.block, current)
    /\ job' = [job EXCEPT !.pc = "height"]
    /\ UNCHANGED <<chain, writes, indexed, hashAt, current, faults>>

(* process_block_atomic fails after its flush: the fallback process_block   *)
(* runs the block once more.                                                *)
FlushAgain ==
    /\ job.pc = "flush" /\ HasRoom(job.block)
    /\ faults < MaxFaults /\ faults' = faults + 1
    /\ FlushBatch(job.block, current)
    /\ UNCHANGED <<chain, writes, indexed, hashAt, current, job>>

(* Mutant: the next height instead of the indexed one. *)
PutHeight_OffByOne ==
    /\ job.pc = "height"
    /\ indexed' = current + 1
    /\ job' = [job EXCEPT !.pc = "hash"]
    /\ UNCHANGED <<chain, writes, length, entry, manifest, hashAt, current, faults>>

(* set_indexed_height, then store_block_hash; then current_height. *)
PutHeight ==
    /\ job.pc = "height"
    /\ indexed' = current
    /\ job' = [job EXCEPT !.pc = "hash"]
    /\ UNCHANGED <<chain, writes, length, entry, manifest, hashAt, current, faults>>

PutHash ==
    /\ job.pc = "hash"
    /\ hashAt' = [hashAt EXCEPT ![current] = job.block]
    /\ current' = current + 1
    /\ job' = Idle
    /\ UNCHANGED <<chain, writes, length, entry, manifest, indexed, faults>>

-----------------------------------------------------------------------------
(* RocksDBStorageAdapter::rollback_to_height *)

HasManifests(R) == \A h \in R + 1 .. indexed : manifest[h] # None

(* rollback_with_manifests when every height has one, else rollback_smt_data, *)
(* which collects no more than max_keys_to_collect lists.                     *)
BeginRollback ==
    /\ job.pc = "idle" /\ ReorgDetected
    /\ LET R == CommonAncestor
           lists == {k \in Keys : length[k] > 0}
       IN \/ /\ HasManifests(R)
             /\ job' = IF R < indexed
                       THEN [Idle EXCEPT !.pc = "fast", !.target = R, !.height = indexed,
                                         !.keys = manifest[indexed]]
                       ELSE [Idle EXCEPT !.pc = "lower", !.target = R]
          \/ /\ ~HasManifests(R)
             /\ \E ks \in SUBSET lists :
                   /\ Cardinality(ks) <= MaxScanKeys
                   /\ Cardinality(ks) = MaxScanKeys \/ ks = lists
                   /\ job' = [Idle EXCEPT !.pc = "full", !.target = R, !.keys = ks]
    /\ UNCHANGED <<chain, writes, db, current, faults>>

(* Fast: take the next key of the manifest and its length ... *)
FastNextKey ==
    /\ job.pc = "fast" /\ job.keys # {}
    /\ \E k \in job.keys :
          job' = [job EXCEPT !.pc = "trim", !.key = k, !.keys = @ \ {k},
                             !.i = length[k], !.newLength = length[k]]
    /\ UNCHANGED <<chain, writes, db, current, faults>>

(* Mutant: the first rolled back height is kept. *)
Above_OffByOne(k, i) == entry[k][i] # None /\ entry[k][i].height > job.target + 1

(* ... walk it backwards, deleting what is above the target and passing     *)
(* over entries that are missing ...                                        *)
Above(k, i) == entry[k][i] # None /\ entry[k][i].height > job.target

FastTrim ==
    LET k == job.key
        i == job.i - 1
    IN /\ job.pc = "trim" /\ job.i > 0
       /\ entry[k][i] = None \/ Above(k, i)
       /\ entry' = [entry EXCEPT ![k][i] = None]
       /\ job' = [job EXCEPT !.i = i, !.newLength = IF Above(k, i) THEN i ELSE @]
       /\ UNCHANGED <<chain, writes, length, manifest, indexed, hashAt, current, faults>>

(* Mutant: the length is written only when the list becomes empty. *)
FastPutLength_Stale ==
    /\ job.pc = "trim"
    /\ job.i > 0 => entry[job.key][job.i - 1] # None /\ ~Above(job.key, job.i - 1)
    /\ length' = IF job.newLength = 0 THEN [length EXCEPT ![job.key] = 0] ELSE length
    /\ job' = [job EXCEPT !.pc = "fast", !.key = None, !.i = 0, !.newLength = 0]
    /\ UNCHANGED <<chain, writes, entry, manifest, indexed, hashAt, current, faults>>

(* ... stop at the first entry to keep and write (or delete) the length. *)
FastPutLength ==
    /\ job.pc = "trim"
    /\ job.i > 0 => entry[job.key][job.i - 1] # None /\ ~Above(job.key, job.i - 1)
    /\ length' = [length EXCEPT ![job.key] = job.newLength]
    /\ job' = [job EXCEPT !.pc = "fast", !.key = None, !.i = 0, !.newLength = 0]
    /\ UNCHANGED <<chain, writes, entry, manifest, indexed, hashAt, current, faults>>

(* The manifest of the height goes last; then the height below. *)
FastNextHeight ==
    /\ job.pc = "fast" /\ job.keys = {}
    /\ manifest' = [manifest EXCEPT ![job.height] = None]
    /\ job' = IF job.height = job.target + 1
              THEN [Idle EXCEPT !.pc = "lower", !.target = job.target]
              ELSE [job EXCEPT !.height = @ - 1, !.keys = manifest[job.height - 1]]
    /\ UNCHANGED <<chain, writes, length, entry, indexed, hashAt, current, faults>>

(* Mutant: nothing is filtered. *)
Kept_All(k) == [i \in 1..length[k] |-> entry[k][i - 1]]

(* Full: the loop that pushes the entries of a list that stay, after n of them, ... *)
Kept(k) ==
    LET pushed[n \in 0..length[k]] ==
          IF n = 0 THEN <<>>
          ELSE IF entry[k][n - 1] # None /\ ~Above(k, n - 1)
               THEN Append(pushed[n - 1], entry[k][n - 1])
               ELSE pushed[n - 1]
    IN pushed[length[k]]

FullNextKey ==
    /\ job.pc = "full" /\ job.keys # {}
    /\ \E k \in job.keys :
          job' = [job EXCEPT !.pc = "erase", !.key = k, !.keys = @ \ {k}, !.valid = Kept(k)]
    /\ UNCHANGED <<chain, writes, db, current, faults>>

(* ... delete every entry of the list, ... *)
FullErase ==
    /\ job.pc = "erase"
    /\ IF job.i < length[job.key]
       THEN /\ entry' = [entry EXCEPT ![job.key][job.i] = None]
            /\ job' = [job EXCEPT !.i = @ + 1]
       ELSE /\ job' = [job EXCEPT !.pc = "rewrite", !.i = 0]
            /\ UNCHANGED entry
    /\ UNCHANGED <<chain, writes, length, manifest, indexed, hashAt, current, faults>>

(* ... put the kept ones back from index 0, and write the length. *)
FullRewrite ==
    /\ job.pc = "rewrite"
    /\ IF job.i < Len(job.valid)
       THEN /\ entry' = [entry EXCEPT ![job.key][job.i] = job.valid[job.i + 1]]
            /\ job' = [job EXCEPT !.i = @ + 1]
            /\ UNCHANGED length
       ELSE /\ length' = [length EXCEPT ![job.key] = Len(job.valid)]
            /\ job' = [job EXCEPT !.pc = "full", !.key = None, !.i = 0, !.valid = <<>>]
            /\ UNCHANGED entry
    /\ UNCHANGED <<chain, writes, manifest, indexed, hashAt, current, faults>>

FullDone ==
    /\ job.pc = "full" /\ job.keys = {}
    /\ job' = [Idle EXCEPT !.pc = "lower", !.target = job.target]
    /\ UNCHANGED <<chain, writes, db, current, faults>>

(* set_indexed_height(R); handle_reorg returns R + 1. *)
LowerHeight ==
    /\ job.pc = "lower"
    /\ indexed' = job.target
    /\ current' = job.target + 1
    /\ job' = Idle
    /\ UNCHANGED <<chain, writes, length, entry, manifest, hashAt, faults>>

-----------------------------------------------------------------------------
(* The process dies between two writes and init() runs again. *)
Crash ==
    /\ job.pc \in CrashAt
    /\ faults < MaxFaults /\ faults' = faults + 1
    /\ current' = ResumeHeight(indexed)
    /\ job' = Idle
    /\ UNCHANGED <<chain, writes, db>>

NodeStep == NodeAdvance /\ UNCHANGED <<writes, db, current, job, faults>>

Rollback ==
    \/ BeginRollback \/ FastNextKey \/ FastTrim \/ FastPutLength \/ FastNextHeight
    \/ FullNextKey \/ FullErase \/ FullRewrite \/ FullDone \/ LowerHeight

Next ==
    \/ NodeStep
    \/ Accept \/ Flush \/ FlushAgain \/ PutHeight \/ PutHash
    \/ Rollback
    \/ Crash

Spec == Init /\ [][Next]_vars
-----------------------------------------------------------------------------
(* The shape of the database and of the engine's locals. *)
TypeOK ==
    /\ chain \in Chains /\ writes \in Effects
    /\ length \in [Keys -> 0..MaxLength]
    /\ entry \in [Keys -> [Slots -> Entry \cup {None}]]
    /\ manifest \in [Heights -> (SUBSET Keys) \cup {None}]
    /\ indexed \in Heights /\ current \in 1..MaxHeight + 1
    /\ hashAt \in [Heights -> BlockOrNone]
    /\ job.keys \subseteq Keys /\ job.i \in 0..MaxLength
    /\ faults \in 0..MaxFaults

RollingBack == job.pc \notin {"idle", "flush", "height", "hash"}

(***************************************************************************)
(* "Entries are ordered by height" (rollback.rs): in every list the        *)
(* heights never decrease.  get_at_height and the early stop of            *)
(* rollback_with_manifests both rest on it.                                *)
(***************************************************************************)
EntriesOrdered ==
    \A k \in Keys : \A i, j \in 0..length[k] - 1 :
        (i < j /\ entry[k][i] # None /\ entry[k][j] # None)
        => entry[k][i].height <= entry[k][j].height

(* Outside a rollback every list is exactly its indices 0..length-1, so no  *)
(* read meets "Missing update" and no leftover entry lies beyond the length *)
(* (calculate_and_store_state_root_batched and both rollbacks).             *)
ListsDense ==
    ~RollingBack => \A k \in Keys, i \in Slots : (entry[k][i] # None) <=> (i < length[k])

(* Every entry a later rollback must find is named by the manifest of its   *)
(* height, whichever way earlier rollbacks went.                            *)
ManifestsComplete ==
    ~RollingBack => \A k \in Keys : \A i \in 0..length[k] - 1 :
        LET h == entry[k][i].height IN manifest[h] # None /\ k \in manifest[h]

(* A reader of an indexed height is not disturbed by the blocks that are    *)
(* being written above it, flushed twice or not (__flush against view).     *)
FlushInvisible ==
    [][~RollingBack => \A k \in Keys, h \in StartBlock..indexed :
          GetAtHeight(k, h)' = GetAtHeight(k, h)]_vars

(* "Concurrent reads are safe" (rockshrew-mono adapters.rs): a height that  *)
(* stays indexed reads the same before and after every single step.         *)
ReadsStable ==
    [][\A k \in Keys, h \in StartBlock..indexed :
          h <= indexed' /\ (RollingBack => h <= job.target)
          => GetAtHeight(k, h)' = GetAtHeight(k, h)]_vars

-----------------------------------------------------------------------------
(* The promise to the readers *)

(* The heights whose block is completely stored. *)
Visible ==
    IF job.pc # "hash" THEN indexed
    ELSE IF indexed = StartBlock THEN 0 ELSE indexed - 1

Promise == INSTANCE VersionedKV WITH
    top <- Visible,
    ledger <- [h \in StartBlock..Visible |-> hashAt[h]],
    open <- ~RollingBack,
    table <- [k \in Keys |-> [h \in StartBlock..IF RollingBack THEN 0 ELSE Visible |->
                GetAtHeight(k, h)]]

(* Writing, rolling back from manifests and rolling back by a full scan     *)
(* implement the versioned map: every read of every height after every      *)
(* step is the latest write on the ledger of stored hashes.                 *)
ImplementsPromise == Promise!Spec

(***************************************************************************)
(* The reads at rest, against the node: when no stored hash disagrees with *)
(* the node, every key reads at every indexed height the latest block of   *)
(* the node's chain that wrote it.                                         *)
(***************************************************************************)
ReadsMatchNode ==
    (/\ job.pc = "idle"
     /\ \A h \in StartBlock..indexed : hashAt[h] \in {None, BlockAt(h)})
    => \A k \in Keys, h \in StartBlock..indexed :
          GetAtHeight(k, h) =
              Promise!LatestWrite([x \in StartBlock..indexed |-> BlockAt(x)], k, h)

=============================================================================
