-------------------------- MODULE AppendStoreProofs --------------------------
(***************************************************************************)
(* Theorems about the lists of the append-only store, for any indexer      *)
(* program: they stay dense and ordered, and every entry is named by the   *)
(* manifest of its height,                                                 *)
(*   - while the node only extends its chain, through any number of        *)
(*     crashes between any two writes and of blocks flushed twice;         *)
(*   - for any tree of blocks and any rollbacks, when crashes fall between *)
(*     lists and not between a batch and its height.                       *)
(***************************************************************************)
EXTENDS AppendStore, FiniteSetTheorems, WellFoundedInduction, TLAPS

(* The chains the node can have are prefixes of each other. *)
OneBranch ==
    \A c, d \in Chains : Len(c) <= Len(d) => \A i \in 1..Len(c) : c[i] = d[i]

(* The engine never rolls back: its locals are a place and a block. *)
JobLine ==
    /\ job = [Idle EXCEPT !.pc = job.pc, !.block = job.block]
    /\ job.pc \in {"idle", "flush", "height", "hash"}
    /\ job.pc # "idle" => current <= Tip /\ job.block = BlockAt(current)

(* The height it works on is where a restart would resume, but for the      *)
(* moment when only the hash is missing.                                    *)
Resumable ==
    /\ current >= StartBlock
    /\ IF job.pc = "hash" THEN indexed = current ELSE current = ResumeHeight(indexed)

(* What is stored is of the node's chain. *)
TrueHashes == \A h \in Heights : hashAt[h] # None => h <= Tip /\ hashAt[h] = BlockAt(h)

(* So is every entry; it is at most at the height in progress, and the      *)
(* manifest of its height is what its block writes, its key included.       *)
TrueEntry(k, e) ==
    /\ e.height <= Tip /\ e.height <= current
    /\ e.value = BlockAt(e.height)
    /\ k \in writes[e.value]
    /\ manifest[e.height] = writes[e.value]

TrueEntries == \A k \in Keys, i \in Slots : entry[k][i] # None => TrueEntry(k, entry[k][i])

Dense == \A k \in Keys, i \in Slots : (entry[k][i] # None) <=> (i < length[k])

LineInv ==
    /\ TypeOK /\ JobLine /\ Resumable
    /\ TrueHashes /\ TrueEntries /\ Dense /\ EntriesOrdered

-----------------------------------------------------------------------------
(* Data. *)

(* Numbers that are smaller than others: a relation without infinite descent. *)
Smaller == {p \in Nat \X Nat : p[1] < p[2]}

(* A set of numbers below a bound has a greatest one. *)
LEMMA Greatest ==
  ASSUME NEW n \in Nat, NEW S \in SUBSET (0..n), S # {}
  PROVE  \E x \in S : \A y \in S : y <= x
<1> DEFINE T == {n - y : y \in S}
<1>1. T \in SUBSET Nat /\ T # {}
  <2>1. \A y \in S : n - y \in Nat
    OBVIOUS
  <2>2. T # {}
    OBVIOUS
  <2> QED
    BY <2>1, <2>2
<1>2. IsWellFoundedOn(Smaller, Nat)
  BY NatLessThanWellFounded DEF OpToRel, Smaller
<1>3. PICK t \in T : \A u \in T : ~ (<<u, t>> \in Smaller)
  BY <1>1, <1>2, WFMin
<1>4. PICK x \in S : t = n - x
  BY <1>3
<1>5. ASSUME NEW y \in S PROVE y <= x
  <2>1. n - y \in T /\ n - y \in Nat /\ n - x \in Nat
    OBVIOUS
  <2>2. <<n - y, n - x>> \notin Smaller
    BY <1>3, <1>4, <2>1
  <2>3. ~ (n - y < n - x)
    BY <2>1, <2>2 DEF Smaller
  <2> QED
    BY <2>3
<1> QED
  BY <1>5

(* A chain is a sequence of blocks long enough for the start height. *)
LEMMA ChainShape ==
  ASSUME NEW c \in Chains
  PROVE  /\ c \in Seq(Blocks) /\ Len(c) \in Nat
         /\ StartBlock < Len(c) /\ Len(c) <= MaxHeight + 1
         /\ \A h \in 0..(Len(c) - 1) : c[h + 1] \in Blocks
<1>1. c \in Seq(Blocks)
  BY ChainAssumption
<1> QED
  BY <1>1, StoreAssumption

-----------------------------------------------------------------------------
(* The invariant. *)

(* What the assumptions and the parts of the invariant say together. *)
LEMMA LineFacts ==
  ASSUME LineInv
  PROVE  /\ StartBlock \in Nat \ {0} /\ MaxHeight \in Nat /\ MaxLength \in Nat
         /\ chain \in Seq(Blocks) /\ Tip \in Nat /\ Tip <= MaxHeight
         /\ \A h \in 0..Tip : BlockAt(h) \in Blocks
         /\ writes \in [Blocks -> SUBSET Keys]
         /\ current \in Nat /\ current >= 1 /\ indexed \in Nat
<1>1. chain \in Chains /\ writes \in Effects /\ current \in 1..MaxHeight + 1 /\ indexed \in Heights
  BY DEF LineInv, TypeOK
<1> QED
  BY <1>1, ChainShape, StoreAssumption DEF Tip, BlockAt, Heights

(* The invariant holds in the initial states. *)
LEMMA LineInit == Init => LineInv
<1> SUFFICES ASSUME Init PROVE LineInv
  OBVIOUS
<1>1. /\ StartBlock \in Nat \ {0} /\ StartBlock <= MaxHeight
      /\ MaxHeight \in Nat /\ MaxLength \in Nat /\ MaxFaults \in Nat
  BY ChainShape, StoreAssumption DEF Init, NodeInit
<1>2. current = StartBlock /\ ResumeHeight(indexed) = StartBlock
  BY <1>1 DEF Init, ResumeHeight
<1>3. TypeOK
  <2>1. job.keys = {} /\ job.i = 0
    BY DEF Init, Idle
  <2>2. /\ length \in [Keys -> 0..MaxLength] /\ entry \in [Keys -> [Slots -> Entry \cup {None}]]
        /\ manifest \in [Heights -> (SUBSET Keys) \cup {None}]
        /\ hashAt \in [Heights -> BlockOrNone]
    <3>1. length \in [Keys -> 0..MaxLength]
      BY <1>1 DEF Init
    <3>2. entry \in [Keys -> [Slots -> Entry \cup {None}]]
      BY DEF Init
    <3>3. manifest \in [Heights -> (SUBSET Keys) \cup {None}]
      BY DEF Init
    <3>4. hashAt \in [Heights -> BlockOrNone]
      BY DEF Init, BlockOrNone
    <3> QED
      BY <3>1, <3>2, <3>3, <3>4
  <2>3. 0 \in Heights /\ StartBlock \in 1..MaxHeight + 1 /\ 0 \in 0..MaxFaults /\ 0 \in 0..MaxLength
    BY <1>1 DEF Heights
  <2>4. /\ chain \in Chains /\ writes \in Effects /\ indexed = 0 /\ faults = 0
    BY DEF Init, NodeInit
  <2> QED
    BY <1>2, <2>1, <2>2, <2>3, <2>4 DEF TypeOK
<1>4. JobLine
  BY DEF Init, Idle, JobLine
<1>5. Resumable
  BY <1>1, <1>2 DEF Init, Idle, Resumable
<1>6. TrueHashes /\ TrueEntries
  BY DEF Init, TrueHashes, TrueEntries
<1>7. Dense
  BY <1>1 DEF Init, Dense, Slots
<1>8. EntriesOrdered
  BY <1>1 DEF Init, EntriesOrdered
<1> QED
  BY <1>3, <1>4, <1>5, <1>6, <1>7, <1>8 DEF LineInv

(* The height handle_reorg compares down to is one it has looked at. *)
LEMMA AncestorIsHeight ==
  ASSUME LineInv
  PROVE  CommonAncestor \in Nat
<1> DEFINE below == {h \in 1..current - 1 : Agrees(h)}
<1>1. CASE below = {}
  BY <1>1 DEF CommonAncestor
<1>2. CASE below # {}
  <2>1. below \in SUBSET (0..current) /\ current \in Nat
    BY LineFacts
  <2>2. \E h \in below : \A x \in below : x <= h
    BY <1>2, <2>1, Greatest
  <2>3. CommonAncestor \in below
    BY <1>2, <2>2 DEF CommonAncestor
  <2> QED
    BY <2>3
<1> QED
  BY <1>1, <1>2

(* No stored hash ever differs from the node's, so nothing is rolled back. *)
LEMMA NoReorgOnLine ==
  ASSUME LineInv
  PROVE  ~ReorgDetected
<1> SUFFICES ASSUME NEW h \in CommonAncestor + 1 .. current - 1, Differs(h) PROVE FALSE
  BY DEF ReorgDetected
<1>1. h \in Heights
  BY AncestorIsHeight, LineFacts DEF LineInv, TypeOK, Heights
<1> QED
  BY <1>1 DEF LineInv, TrueHashes, Differs

(* The node extends its chain: what it has shown stays. *)
LEMMA NodeKeepsLine ==
  ASSUME OneBranch, LineInv, NodeStep
  PROVE  LineInv'
<1>1. /\ chain' \in Chains /\ chain \in Chains /\ Len(chain') > Len(chain)
      /\ UNCHANGED <<writes, length, entry, manifest, indexed, hashAt, current, job, faults>>
  BY DEF NodeStep, NodeAdvance, LineInv, TypeOK, db
<1>2. /\ Tip \in Nat /\ Tip' \in Nat /\ Tip' >= Tip
      /\ \A h \in 0..Tip : BlockAt(h)' = BlockAt(h)
  <2>1. Len(chain) \in Nat /\ Len(chain') \in Nat /\ Len(chain) > 0
    BY <1>1, ChainShape, StoreAssumption
  <2>2. \A i \in 1..Len(chain) : chain[i] = chain'[i]
    BY <1>1, <2>1 DEF OneBranch
  <2> QED
    BY <1>1, <2>1, <2>2 DEF Tip, BlockAt
<1>3. TypeOK' /\ Dense' /\ EntriesOrdered' /\ Resumable'
  BY <1>1 DEF LineInv, TypeOK, Dense, EntriesOrdered, Resumable
<1>4. JobLine'
  <2>1. current \in Nat
    BY LineFacts
  <2> QED
    BY <1>1, <1>2, <2>1 DEF LineInv, JobLine
<1>5. TrueHashes'
  BY <1>1, <1>2 DEF LineInv, TrueHashes, Heights
<1>6. TrueEntries'
  <2> SUFFICES ASSUME NEW k \in Keys, NEW i \in Slots, entry[k][i] # None
               PROVE  TrueEntry(k, entry[k][i])'
    BY <1>1 DEF TrueEntries
  <2>1. TrueEntry(k, entry[k][i])
    BY DEF LineInv, TrueEntries
  <2>2. entry[k][i].height \in Nat
    BY DEF LineInv, TypeOK, Entry, Heights
  <2> QED
    BY <1>1, <1>2, <2>1, <2>2 DEF TrueEntry
<1> QED
  BY <1>3, <1>4, <1>5, <1>6 DEF LineInv

(* A step that leaves the entries alone and does not go back keeps what is  *)
(* said of them.                                                            *)
LEMMA EntriesAside ==
  ASSUME LineInv, UNCHANGED <<chain, writes, length, entry, manifest>>,
         current' \in Nat, current' >= current
  PROVE  TrueEntries' /\ Dense' /\ EntriesOrdered'
<1>1. Dense' /\ EntriesOrdered'
  BY DEF LineInv, Dense, EntriesOrdered
<1>2. TrueEntries'
  <2> SUFFICES ASSUME NEW k \in Keys, NEW i \in Slots, entry[k][i] # None
               PROVE  TrueEntry(k, entry[k][i])'
    BY DEF TrueEntries
  <2>1. TrueEntry(k, entry[k][i])
    BY DEF LineInv, TrueEntries
  <2>2. entry[k][i].height \in Nat /\ current \in Nat
    BY LineFacts DEF LineInv, TypeOK, Entry, Heights
  <2> QED
    BY <2>1, <2>2 DEF TrueEntry, Tip, BlockAt
<1> QED
  BY <1>1, <1>2

(* A block is accepted: from here on it is the node's block at the height. *)
LEMMA AcceptKeepsLine ==
  ASSUME LineInv, Accept
  PROVE  LineInv'
<1>1. /\ job.pc = "idle" /\ current <= Tip
      /\ job' = [Idle EXCEPT !.pc = "flush", !.block = BlockAt(current)]
      /\ UNCHANGED <<chain, writes, length, entry, manifest, indexed, hashAt, current, faults>>
  BY DEF Accept, db
<1>2. job'.pc = "flush" /\ job'.block = BlockAt(current) /\ job'.keys = {} /\ job'.i = 0
  BY <1>1 DEF Idle
<1>3. TrueEntries' /\ Dense' /\ EntriesOrdered'
  BY <1>1, EntriesAside, LineFacts
<1>4. TypeOK'
  BY <1>1, <1>2, LineFacts DEF LineInv, TypeOK
<1>5. JobLine'
  BY <1>1, <1>2 DEF JobLine, Tip, BlockAt, Idle
<1>6. Resumable' /\ TrueHashes'
  BY <1>1, <1>2 DEF LineInv, Resumable, TrueHashes, Tip, BlockAt, ResumeHeight
<1> QED
  BY <1>3, <1>4, <1>5, <1>6 DEF LineInv

(* The batch of a block: one more entry at the end of the lists it changes, *)
(* no lower than any other, and the manifest that names them.  Nothing      *)
(* changes if an earlier flush of the height has left the same manifest.    *)
LEMMA BatchKeepsLine ==
  ASSUME LineInv, job.pc = "flush", HasRoom(job.block), FlushBatch(job.block, current),
         UNCHANGED <<chain, writes, current>>
  PROVE  /\ length' \in [Keys -> 0..MaxLength]
         /\ entry' \in [Keys -> [Slots -> Entry \cup {None}]]
         /\ manifest' \in [Heights -> (SUBSET Keys) \cup {None}]
         /\ TrueEntries' /\ Dense' /\ EntriesOrdered'
<1> DEFINE b == job.block
           e == [height |-> current, value |-> b]
<1>1. /\ current \in Nat /\ current \in Heights /\ current <= Tip /\ b = BlockAt(current)
      /\ b \in Blocks /\ writes[b] \in SUBSET Keys
  BY LineFacts DEF LineInv, JobLine, Heights
<1>2. e \in Entry /\ e # None /\ e.height = current /\ e.value = b
  BY <1>1, StoreAssumption DEF Entry, Heights
<1>3. /\ MaxLength \in Nat /\ length \in [Keys -> 0..MaxLength]
      /\ entry \in [Keys -> [Slots -> Entry \cup {None}]]
      /\ manifest \in [Heights -> (SUBSET Keys) \cup {None}]
  BY LineFacts DEF LineInv, TypeOK
<1>4. \A k \in writes[b] : k \in Keys /\ length[k] \in Slots /\ length[k] + 1 \in 0..MaxLength
  BY <1>1, <1>3 DEF HasRoom, Slots
<1>5. ASSUME NEW k \in Keys
      PROVE  IF k \in writes[b]
             THEN /\ length'[k] = length[k] + 1
                  /\ \A i \in Slots : entry'[k][i] = IF i = length[k] THEN e ELSE entry[k][i]
             ELSE length'[k] = length[k] /\ entry'[k] = entry[k]
  <2>1. entry[k] \in [Slots -> Entry \cup {None}]
    BY <1>3
  <2>2. CASE k \in writes[b]
    <3>1. entry'[k] = [entry[k] EXCEPT ![length[k]] = e] /\ length'[k] = length[k] + 1
      BY <2>2 DEF FlushBatch
    <3> QED
      BY <2>1, <2>2, <3>1
  <2>3. CASE k \notin writes[b]
    BY <2>3 DEF FlushBatch
  <2> QED
    BY <2>2, <2>3
<1>6. /\ length' \in [Keys -> 0..MaxLength]
      /\ entry' \in [Keys -> [Slots -> Entry \cup {None}]]
  <2>1. ASSUME NEW k \in Keys
        PROVE  /\ (IF k \in writes[b] THEN length[k] + 1 ELSE length[k]) \in 0..MaxLength
               /\ (IF k \in writes[b] THEN [entry[k] EXCEPT ![length[k]] = e] ELSE entry[k])
                    \in [Slots -> Entry \cup {None}]
    <3>1. entry[k] \in [Slots -> Entry \cup {None}] /\ length[k] \in 0..MaxLength
      BY <1>3
    <3>2. e \in Entry \cup {None}
      BY <1>2
    <3>3. [entry[k] EXCEPT ![length[k]] = e] \in [Slots -> Entry \cup {None}]
      BY ONLY <3>1, <3>2
    <3> HIDE DEF e
    <3> QED
      BY <1>4, <3>1, <3>3
  <2> QED
    BY <2>1 DEF FlushBatch
<1>7. \A h \in Heights : manifest'[h] = IF h = current /\ writes[b] # {} THEN writes[b]
                                        ELSE manifest[h]
  BY <1>3 DEF FlushBatch
<1>8. manifest' \in [Heights -> (SUBSET Keys) \cup {None}]
  BY <1>1, <1>3 DEF FlushBatch
<1>9. ASSUME NEW k \in Keys, NEW i \in Slots, entry'[k][i] # None
      PROVE  \/ k \in writes[b] /\ i = length[k] /\ entry'[k][i] = e
             \/ entry'[k][i] = entry[k][i] /\ entry[k][i] # None /\ TrueEntry(k, entry[k][i])
  BY <1>3, <1>4, <1>5, <1>9 DEF LineInv, TrueEntries
<1>10. TrueEntries'
  <2> SUFFICES ASSUME NEW k \in Keys, NEW i \in Slots, entry'[k][i] # None
               PROVE  TrueEntry(k, entry[k][i])'
    BY DEF TrueEntries
  <2>1. CASE k \in writes[b] /\ entry'[k][i] = e
    BY <1>1, <1>2, <1>7, <2>1 DEF TrueEntry, Tip, BlockAt
  <2>2. CASE entry'[k][i] = entry[k][i] /\ entry[k][i] # None /\ TrueEntry(k, entry[k][i])
    <3>1. entry[k][i].height \in Heights
      BY <1>3, <2>2 DEF Entry
    <3>2. manifest'[entry[k][i].height] = writes[entry[k][i].value]
      BY <1>1, <1>7, <2>2, <3>1 DEF TrueEntry
    <3> QED
      BY <2>2, <3>2 DEF TrueEntry, Tip, BlockAt
  <2> QED
    BY <1>9, <2>1, <2>2
<1>11. Dense'
  <2> SUFFICES ASSUME NEW k \in Keys, NEW i \in Slots
               PROVE  (entry'[k][i] # None) <=> (i < length'[k])
    BY DEF Dense
  <2>1. (entry[k][i] # None) <=> (i < length[k])
    BY DEF LineInv, Dense
  <2>2. i \in Nat /\ length[k] \in Nat
    BY <1>3 DEF Slots
  <2>3. CASE k \notin writes[b]
    BY <1>5, <2>1, <2>3
  <2>4. CASE k \in writes[b] /\ i = length[k]
    BY <1>2, <1>3, <1>5, <2>2, <2>4
  <2>5. CASE k \in writes[b] /\ i # length[k]
    <3>1. entry'[k][i] = entry[k][i] /\ length'[k] = length[k] + 1
      BY <1>5, <2>5
    <3> QED
      BY <2>1, <2>2, <2>5, <3>1
  <2> QED
    BY <2>3, <2>4, <2>5
<1>12. EntriesOrdered'
  <2> SUFFICES ASSUME NEW k \in Keys, NEW i \in 0..length'[k] - 1, NEW j \in 0..length'[k] - 1,
                      i < j, entry'[k][i] # None, entry'[k][j] # None
               PROVE  entry'[k][i].height <= entry'[k][j].height
    BY DEF EntriesOrdered
  <2>1. i \in Slots /\ j \in Slots /\ length[k] \in Nat
    BY <1>3, <1>6 DEF Slots
  <2>2. CASE entry'[k][i] = entry[k][i] /\ entry'[k][j] = entry[k][j] /\ entry[k][i] # None
             /\ entry[k][j] # None
    <3>1. i < length[k] /\ j < length[k]
      BY <2>1, <2>2 DEF LineInv, Dense
    <3> QED
      BY <2>1, <2>2, <3>1 DEF LineInv, EntriesOrdered, Slots
  <2>3. CASE k \in writes[b] /\ j = length[k] /\ entry'[k][j] = e
    <3>1. entry'[k][i] = entry[k][i] /\ TrueEntry(k, entry[k][i])
      BY <1>9, <2>1, <2>3 DEF Slots
    <3> QED
      BY <1>2, <2>3, <3>1 DEF TrueEntry
  <2>4. ~ (i = length[k] /\ k \in writes[b])
    <3>1. k \in writes[b] => length'[k] = length[k] + 1
      BY <1>5
    <3>2. j <= length'[k] - 1 /\ length'[k] \in Nat /\ i \in Nat /\ j \in Nat
      BY <1>3, <1>6, <2>1 DEF Slots
    <3> QED
      BY <2>1, <3>1, <3>2
  <2> QED
    BY <1>9, <2>1, <2>2, <2>3, <2>4
<1> QED
  BY <1>6, <1>8, <1>10, <1>11, <1>12

(* The flush, once. *)
LEMMA FlushKeepsLine ==
  ASSUME LineInv, Flush
  PROVE  LineInv'
<1>1. /\ job.pc = "flush" /\ job' = [job EXCEPT !.pc = "height"]
      /\ UNCHANGED <<chain, writes, indexed, hashAt, current, faults>>
  BY DEF Flush
<1>2. /\ job'.pc = "height" /\ job'.block = job.block /\ job'.keys = {} /\ job'.i = 0
      /\ job' = [Idle EXCEPT !.pc = "height", !.block = job.block]
  BY <1>1 DEF LineInv, JobLine, Idle
<1>3. /\ length' \in [Keys -> 0..MaxLength]
      /\ entry' \in [Keys -> [Slots -> Entry \cup {None}]]
      /\ manifest' \in [Heights -> (SUBSET Keys) \cup {None}]
      /\ TrueEntries' /\ Dense' /\ EntriesOrdered'
  BY BatchKeepsLine DEF Flush
<1>4. TypeOK'
  BY <1>1, <1>2, <1>3, LineFacts DEF LineInv, TypeOK
<1>5. JobLine'
  BY <1>1, <1>2 DEF LineInv, JobLine, Tip, BlockAt
<1>6. Resumable' /\ TrueHashes'
  BY <1>1, <1>2 DEF LineInv, Resumable, TrueHashes, Tip, BlockAt, ResumeHeight
<1> QED
  BY <1>3, <1>4, <1>5, <1>6 DEF LineInv

(* The flush, repeated by the fallback. *)
LEMMA FlushAgainKeepsLine ==
  ASSUME LineInv, FlushAgain
  PROVE  LineInv'
<1>1. /\ job.pc = "flush" /\ faults < MaxFaults /\ faults' = faults + 1
      /\ UNCHANGED <<chain, writes, indexed, hashAt, current, job>>
  BY DEF FlushAgain
<1>2. /\ length' \in [Keys -> 0..MaxLength]
      /\ entry' \in [Keys -> [Slots -> Entry \cup {None}]]
      /\ manifest' \in [Heights -> (SUBSET Keys) \cup {None}]
      /\ TrueEntries' /\ Dense' /\ EntriesOrdered'
  BY BatchKeepsLine DEF FlushAgain
<1>3. TypeOK'
  BY <1>1, <1>2, StoreAssumption DEF LineInv, TypeOK
<1>4. JobLine' /\ Resumable' /\ TrueHashes'
  BY <1>1 DEF LineInv, JobLine, Resumable, TrueHashes, Tip, BlockAt, ResumeHeight
<1> QED
  BY <1>2, <1>3, <1>4 DEF LineInv

(* The height is stored after its batch. *)
LEMMA PutHeightKeepsLine ==
  ASSUME LineInv, PutHeight
  PROVE  LineInv'
<1>1. /\ job.pc = "height" /\ job' = [job EXCEPT !.pc = "hash"] /\ indexed' = current
      /\ UNCHANGED <<chain, writes, length, entry, manifest, hashAt, current, faults>>
  BY DEF PutHeight
<1>2. /\ job'.pc = "hash" /\ job'.block = job.block /\ job'.keys = {} /\ job'.i = 0
      /\ job' = [Idle EXCEPT !.pc = "hash", !.block = job.block]
  BY <1>1 DEF LineInv, JobLine, Idle
<1>3. TrueEntries' /\ Dense' /\ EntriesOrdered'
  BY <1>1, EntriesAside, LineFacts
<1>4. current \in Heights
  BY <1>1, LineFacts DEF LineInv, JobLine, Heights
<1>5. TypeOK'
  BY <1>1, <1>2, <1>4, LineFacts DEF LineInv, TypeOK
<1>6. JobLine'
  BY <1>1, <1>2 DEF LineInv, JobLine, Tip, BlockAt
<1>7. Resumable' /\ TrueHashes'
  BY <1>1, <1>2 DEF LineInv, Resumable, TrueHashes, Tip, BlockAt
<1> QED
  BY <1>3, <1>5, <1>6, <1>7 DEF LineInv

(* Its hash is stored last, and the engine moves on to the next height. *)
LEMMA PutHashKeepsLine ==
  ASSUME LineInv, PutHash
  PROVE  LineInv'
<1>1. /\ job.pc = "hash" /\ hashAt' = [hashAt EXCEPT ![current] = job.block]
      /\ current' = current + 1 /\ job' = Idle
      /\ UNCHANGED <<chain, writes, length, entry, manifest, indexed, faults>>
  BY DEF PutHash
<1>2. job'.pc = "idle" /\ job'.block = None /\ job'.keys = {} /\ job'.i = 0
  BY <1>1 DEF Idle
<1>3. /\ current \in Nat /\ current \in Heights /\ current + 1 \in 1..MaxHeight + 1
      /\ current <= Tip /\ job.block = BlockAt(current) /\ job.block \in Blocks
  BY <1>1, LineFacts DEF LineInv, JobLine, Heights
<1>4. TrueEntries' /\ Dense' /\ EntriesOrdered'
  BY <1>1, <1>3, EntriesAside, LineFacts
<1>5. /\ hashAt' \in [Heights -> BlockOrNone]
      /\ \A h \in Heights : hashAt'[h] = IF h = current THEN job.block ELSE hashAt[h]
  BY <1>1, <1>3 DEF LineInv, TypeOK, BlockOrNone
<1>6. TypeOK'
  BY <1>1, <1>2, <1>3, <1>5, LineFacts DEF LineInv, TypeOK
<1>7. JobLine'
  BY <1>1, <1>2 DEF JobLine, Idle
<1>8. Resumable'
  BY <1>1, <1>2, <1>3, LineFacts DEF LineInv, Resumable, ResumeHeight
<1>9. TrueHashes'
  BY <1>1, <1>3, <1>5 DEF LineInv, TrueHashes, Tip, BlockAt
<1> QED
  BY <1>4, <1>6, <1>7, <1>8, <1>9 DEF LineInv

(* A restart resumes at the height in progress or, when only the hash was   *)
(* missing, at the one above it.                                            *)
LEMMA CrashKeepsLine ==
  ASSUME LineInv, Crash
  PROVE  LineInv'
<1>1. /\ faults < MaxFaults /\ faults' = faults + 1
      /\ current' = ResumeHeight(indexed) /\ job' = Idle
      /\ UNCHANGED <<chain, writes, length, entry, manifest, indexed, hashAt>>
  BY DEF Crash, db
<1>2. job'.pc = "idle" /\ job'.block = None /\ job'.keys = {} /\ job'.i = 0
  BY <1>1 DEF Idle
<1>3. /\ current' \in 1..MaxHeight + 1 /\ current' \in Nat /\ current' >= current
      /\ current' >= StartBlock
  <2>1. indexed \in 0..MaxHeight /\ StartBlock <= MaxHeight
    BY ChainShape, StoreAssumption DEF LineInv, TypeOK, Heights
  <2>2. /\ current' = IF StartBlock > indexed THEN StartBlock ELSE indexed + 1
    BY <1>1 DEF ResumeHeight
  <2>3. IF job.pc = "hash" THEN indexed = current ELSE current = current'
    BY <1>1 DEF LineInv, Resumable
  <2>4. current >= StartBlock
    BY DEF LineInv, Resumable
  <2> QED
    BY <2>1, <2>2, <2>3, <2>4, LineFacts
<1>4. TrueEntries' /\ Dense' /\ EntriesOrdered'
  BY <1>1, <1>3, EntriesAside
<1>5. TypeOK'
  BY <1>1, <1>2, <1>3, StoreAssumption DEF LineInv, TypeOK
<1>6. JobLine'
  BY <1>1, <1>2 DEF JobLine, Idle
<1>7. Resumable' /\ TrueHashes'
  BY <1>1, <1>2, <1>3 DEF LineInv, Resumable, TrueHashes, Tip, BlockAt, ResumeHeight
<1> QED
  BY <1>4, <1>5, <1>6, <1>7 DEF LineInv

(* Every step keeps the invariant; those of a rollback never happen. *)
LEMMA LineNext ==
  ASSUME OneBranch, LineInv, [Next]_vars
  PROVE  LineInv'
<1>1. CASE NodeStep
  BY <1>1, NodeKeepsLine
<1>2. CASE Accept
  BY <1>2, AcceptKeepsLine
<1>3. CASE Flush
  BY <1>3, FlushKeepsLine
<1>4. CASE FlushAgain
  BY <1>4, FlushAgainKeepsLine
<1>5. CASE PutHeight
  BY <1>5, PutHeightKeepsLine
<1>6. CASE PutHash
  BY <1>6, PutHashKeepsLine
<1>7. CASE Rollback
  <2>1. job.pc \in {"idle", "flush", "height", "hash"}
    BY DEF LineInv, JobLine
  <2>2. ~BeginRollback
    BY NoReorgOnLine DEF BeginRollback
  <2>3. ~ (FastNextKey \/ FastTrim \/ FastPutLength \/ FastNextHeight)
    BY <2>1 DEF FastNextKey, FastTrim, FastPutLength, FastNextHeight
  <2>4. ~ (FullNextKey \/ FullErase \/ FullRewrite \/ FullDone \/ LowerHeight)
    BY <2>1 DEF FullNextKey, FullErase, FullRewrite, FullDone, LowerHeight
  <2> QED
    BY <1>7, <2>2, <2>3, <2>4 DEF Rollback
<1>8. CASE Crash
  BY <1>8, CrashKeepsLine
<1>9. CASE UNCHANGED vars
  BY <1>9 DEF vars, db, LineInv, TypeOK, JobLine, Resumable, TrueHashes, TrueEntries,
              TrueEntry, Dense, EntriesOrdered, Tip, BlockAt, ResumeHeight
<1> QED
  BY <1>1, <1>2, <1>3, <1>4, <1>5, <1>6, <1>7, <1>8, <1>9 DEF Next

(* The invariant always holds. *)
LEMMA LineAlways == OneBranch => (Spec => []LineInv)
<1> SUFFICES ASSUME OneBranch PROVE Spec => []LineInv
  OBVIOUS
<1>1. LineInv /\ [Next]_vars => LineInv'
  BY LineNext
<1> QED
  BY <1>1, LineInit, PTL DEF Spec

-----------------------------------------------------------------------------
(* The theorems. *)

(* Type correctness of the database and of the engine's locals, the heights *)
(* within the chain's bound included (snapshot_sync.rs init and             *)
(* process_block).                                                          *)
THEOREM TypeOnLine == OneBranch => (Spec => []TypeOK)
<1>1. LineInv => TypeOK
  BY DEF LineInv
<1> QED
  BY <1>1, LineAlways, PTL

(* A block that is flushed a second time, after a crash or by the fallback  *)
(* of process_block_atomic, appends to lists that already hold entries of   *)
(* its height: the heights still never decrease (rollback.rs, "entries are  *)
(* ordered by height").                                                     *)
THEOREM OrderedOnLine == OneBranch => (Spec => []EntriesOrdered)
<1>1. LineInv => EntriesOrdered
  BY DEF LineInv
<1> QED
  BY <1>1, LineAlways, PTL

(* Whatever crashed and was repeated, a list is its indices 0..length - 1   *)
(* (smt.rs, calculate_and_store_state_root_batched), so that get_at_height  *)
(* never meets a missing entry.                                             *)
THEOREM DenseOnLine == OneBranch => (Spec => []ListsDense)
<1>1. LineInv => ListsDense
  BY DEF LineInv, Dense, ListsDense
<1> QED
  BY <1>1, LineAlways, PTL

(* A rollback from manifests would find every entry that is in the          *)
(* database, those of a flush that a crash cut off from its height          *)
(* included (rollback.rs, rollback_with_manifests).                         *)
THEOREM ManifestsOnLine == OneBranch => (Spec => []ManifestsComplete)
<1>1. LineInv => ManifestsComplete
  <2> SUFFICES ASSUME LineInv, NEW k \in Keys, NEW i \in 0..length[k] - 1
               PROVE  /\ manifest[entry[k][i].height] # None
                      /\ k \in manifest[entry[k][i].height]
    BY DEF ManifestsComplete
  <2>1. i \in Slots /\ i < length[k]
    BY LineFacts DEF LineInv, TypeOK, Slots
  <2>2. entry[k][i] # None
    BY <2>1 DEF LineInv, Dense
  <2>3. TrueEntry(k, entry[k][i]) /\ entry[k][i] \in Entry
    BY <2>1, <2>2 DEF LineInv, TrueEntries, TypeOK
  <2>4. writes[entry[k][i].value] \in SUBSET Keys
    BY <2>3, LineFacts DEF Entry
  <2> QED
    BY <2>3, <2>4, StoreAssumption DEF TrueEntry
<1> QED
  BY <1>1, LineAlways, PTL

-----------------------------------------------------------------------------
(* Lists: where they are cut by a height, and their fronts. *)

(* Induction over the natural numbers, as membership in a set. *)
LEMMA Induction ==
  ASSUME NEW S \in SUBSET Nat, 0 \in S, \A n \in S : n + 1 \in S
  PROVE  \A n \in Nat : n \in S
<1> SUFFICES ASSUME Nat \ S # {} PROVE FALSE
  OBVIOUS
<1>1. IsWellFoundedOn(Smaller, Nat)
  BY NatLessThanWellFounded DEF OpToRel, Smaller
<1>2. PICK t \in Nat \ S : \A u \in Nat \ S : ~ (<<u, t>> \in Smaller)
  <2>1. Nat \ S \in SUBSET Nat
    OBVIOUS
  <2> QED
    BY <1>1, <2>1, WFMin
<1>3. t # 0 /\ t - 1 \in Nat
  OBVIOUS
<1>4. t - 1 \in S
  <2>1. <<t - 1, t>> \in Smaller
    BY <1>3 DEF Smaller
  <2> QED
    BY <1>2, <1>3, <2>1
<1>5. (t - 1) + 1 = t
  OBVIOUS
<1> QED
  BY <1>4, <1>5

(* A list of n entries is cut at c: those below c are at most at height h,  *)
(* the others above it.                                                     *)
Cut(list, n, h, c) ==
    /\ c \in 0..n
    /\ \A i \in 0..c - 1 : list[i] # None /\ list[i].height <= h
    /\ \A i \in c..n - 1 : list[i] # None /\ list[i].height > h

(* Every dense and ordered list is cut somewhere at every height. *)
LEMMA CutExists ==
  ASSUME NEW list \in [Slots -> Entry \cup {None}], NEW n \in 0..MaxLength, NEW h \in Nat,
         \A i \in 0..n - 1 : list[i] # None,
         \A i, j \in 0..n - 1 : i < j => list[i].height <= list[j].height
  PROVE  \E c : Cut(list, n, h, c)
<1> DEFINE S == {c \in 0..n : \A i \in 0..c - 1 : list[i].height <= h}
<1>0. MaxLength \in Nat /\ n \in Nat /\ \A i \in 0..n - 1 : list[i].height \in Nat
  BY StoreAssumption DEF Slots, Entry, Heights
<1>1. 0 \in S
  BY <1>0
<1>2. PICK c \in S : \A y \in S : y <= c
  <2>1. S \in SUBSET (0..n) /\ S # {}
    BY <1>1
  <2> HIDE DEF S
  <2> QED
    BY <1>0, <2>1, Greatest
<1>3. c < n => list[c].height > h
  <2> SUFFICES ASSUME c < n, list[c].height <= h PROVE FALSE
    BY <1>0
  <2>1. c + 1 \in S
    BY <1>0
  <2> QED
    BY <1>0, <1>2, <2>1
<1>4. \A i \in c..n - 1 : list[i].height > h
  BY <1>0, <1>3
<1>5. \A i \in 0..c - 1 : list[i] # None /\ list[i].height <= h
  BY <1>0
<1>6. \A i \in c..n - 1 : list[i] # None
  BY <1>0
<1> QED
  BY <1>4, <1>5, <1>6 DEF Cut

(* The first n entries of a list, as a sequence. *)
Front(list, n) == [i \in 1..n |-> list[i - 1]]

(* It is a sequence, and it grows by one entry at a time. *)
LEMMA FrontIsSeq ==
  ASSUME NEW S, NEW n \in Nat, NEW list, \A i \in 0..n - 1 : list[i] \in S
  PROVE  Front(list, n) \in Seq(S) /\ Len(Front(list, n)) = n
<1>1. \A i \in 1..n : list[i - 1] \in S
  OBVIOUS
<1> QED
  BY <1>1 DEF Front

LEMMA FrontAppend ==
  ASSUME NEW S, NEW n \in Nat \ {0}, NEW list, \A i \in 0..n - 1 : list[i] \in S
  PROVE  Append(Front(list, n - 1), list[n - 1]) = Front(list, n)
<1>1. Front(list, n - 1) \in Seq(S) /\ Len(Front(list, n - 1)) = n - 1
  BY FrontIsSeq
<1>2. Front(list, n) \in Seq(S) /\ Len(Front(list, n)) = n
  BY FrontIsSeq
<1> DEFINE a == Append(Front(list, n - 1), list[n - 1])
<1>3. a \in Seq(S) /\ Len(a) = n
  <2>1. list[n - 1] \in S
    OBVIOUS
  <2> QED
    BY <1>1, <2>1
<1>4. \A i \in 1..n : a[i] = Front(list, n)[i]
  <2> TAKE i \in 1..n
  <2>1. CASE i < n
    BY <1>1, <2>1 DEF Front
  <2>2. CASE i = n
    BY <1>1, <2>2 DEF Front
  <2>3. i < n \/ i = n
    OBVIOUS
  <2> HIDE DEF a
  <2> QED
    BY <2>1, <2>2, <2>3
<1> HIDE DEF a
<1> QED
  <2>1. a = Front(list, n)
    BY <1>2, <1>3, <1>4
  <2> QED
    BY <2>1 DEF a

(* The loop of the full rollback keeps exactly what is below the cut. *)
LEMMA KeptIsFront ==
  ASSUME NEW k \in Keys, length \in [Keys -> 0..MaxLength],
         entry \in [Keys -> [Slots -> Entry \cup {None}]],
         NEW c, job.target \in Nat, Cut(entry[k], length[k], job.target, c)
  PROVE  Kept(k) = Front(entry[k], c)
<1> DEFINE n == length[k]
           list == entry[k]
           small(i) == IF i <= c THEN i ELSE c
           Eq(f) == f = [i \in 0..n |->
                           IF i = 0 THEN <<>>
                           ELSE IF list[i - 1] # None /\ ~Above(k, i - 1)
                                THEN Append(f[i - 1], list[i - 1])
                                ELSE f[i - 1]]
           g == [i \in 0..n |-> Front(list, small(i))]
           p == CHOOSE f : Eq(f)
<1>0. n \in Nat /\ c \in 0..n /\ c \in Nat
  BY StoreAssumption DEF Cut
<1>1. \A i \in 0..n - 1 : (list[i] # None /\ ~Above(k, i)) <=> i < c
  <2> TAKE i \in 0..n - 1
  <2>1. i \in Slots
    BY StoreAssumption DEF Slots
  <2>2. i \in 0..c - 1 \/ i \in c..n - 1
    BY <1>0
  <2>3. list[i] # None
    BY <2>2 DEF Cut
  <2>4. list[i].height \in Nat
    BY <2>1, <2>3, StoreAssumption DEF Entry, Heights
  <2> QED
    BY <1>0, <2>2, <2>3, <2>4 DEF Cut, Above
<1>2. \A i \in 1..c : Append(Front(list, i - 1), list[i - 1]) = Front(list, i)
  <2>1. \A i \in 0..c - 1 : list[i] \in Entry
    BY <1>0, StoreAssumption DEF Cut, Slots
  <2> TAKE i \in 1..c
  <2>2. i \in Nat \ {0} /\ \A j \in 0..i - 1 : list[j] \in Entry
    BY <1>0, <2>1
  <2> HIDE DEF list
  <2> QED
    BY <2>2, FrontAppend
<1>3. Front(list, 0) = <<>>
  BY DEF Front
<1>4. ASSUME NEW i \in 0..n
      PROVE  g[i] = IF i = 0 THEN <<>>
                    ELSE IF list[i - 1] # None /\ ~Above(k, i - 1)
                         THEN Append(g[i - 1], list[i - 1])
                         ELSE g[i - 1]
  <2>1. CASE i = 0
    BY <1>0, <1>3, <2>1
  <2>2. CASE i # 0 /\ i <= c
    <3>1. g[i] = Front(list, i) /\ g[i - 1] = Front(list, i - 1)
      BY <1>0, <2>2
    <3>2. list[i - 1] # None /\ ~Above(k, i - 1)
      BY <1>0, <1>1, <2>2
    <3>3. Append(g[i - 1], list[i - 1]) = g[i]
      BY <1>0, <1>2, <2>2, <3>1
    <3> HIDE DEF g
    <3> QED
      BY <2>2, <3>2, <3>3
  <2>3. CASE i # 0 /\ ~ (i <= c)
    <3>1. g[i] = Front(list, c) /\ g[i - 1] = Front(list, c)
      <4>1. small(i) = c /\ small(i - 1) = c /\ i - 1 \in 0..n
        BY <1>0, <2>3
      <4> HIDE DEF small
      <4> QED
        BY <4>1
    <3>2. ~ (list[i - 1] # None /\ ~Above(k, i - 1))
      BY <1>0, <1>1, <2>3
    <3> HIDE DEF g
    <3> QED
      BY <2>3, <3>1, <3>2
  <2> QED
    BY <2>1, <2>2, <2>3
<1>5. Eq(g)
  BY <1>4
<1>6. Eq(p)
  <2>1. Eq(g) => Eq(p)
    <3> HIDE DEF Eq
    <3> QED
      OBVIOUS
  <2> QED
    BY <1>5, <2>1
<1>7. Kept(k) = p[n]
  BY DEF Kept
<1> HIDE DEF p
<1>8. ASSUME NEW i \in 0..n
      PROVE  p[i] = IF i = 0 THEN <<>>
                    ELSE IF list[i - 1] # None /\ ~Above(k, i - 1)
                         THEN Append(p[i - 1], list[i - 1])
                         ELSE p[i - 1]
  BY <1>6
<1> DEFINE S == {i \in Nat : i <= n => p[i] = g[i]}
<1>9. 0 \in S
  <2>1. 0 \in 0..n
    BY <1>0
  <2>2. p[0] = <<>> /\ g[0] = <<>>
    <3> HIDE DEF g
    <3> QED
      BY <1>4, <1>8, <2>1
  <2> HIDE DEF g
  <2> QED
    BY <2>2
<1>10. ASSUME NEW i \in S PROVE i + 1 \in S
  <2> SUFFICES ASSUME i + 1 <= n PROVE p[i + 1] = g[i + 1]
    OBVIOUS
  <2>1. i + 1 \in 0..n /\ i \in 0..n /\ (i + 1) - 1 = i /\ i + 1 # 0
    BY <1>0
  <2>2. p[i] = g[i]
    BY <1>0
  <2> HIDE DEF g
  <2> QED
    BY <1>4, <1>8, <2>1, <2>2
<1>11. n \in S
  <2>1. S \in SUBSET Nat
    OBVIOUS
  <2> HIDE DEF S
  <2> QED
    BY <1>0, <1>9, <1>10, <2>1, Induction
<1>12. g[n] = Front(list, c)
  BY <1>0
<1> QED
  BY <1>0, <1>7, <1>11, <1>12

-----------------------------------------------------------------------------
(* The lists through rollbacks. *)

(* Restarts that leave no list and no flush half done: not between a batch  *)
(* and its height, not inside a list.  A repeated flush followed by a crash *)
(* would be such a batch.  The full rollback can collect every list.        *)
CleanRestarts ==
    /\ CrashAt \subseteq {"idle", "flush", "hash", "fast", "full", "lower"}
    /\ "flush" \in CrashAt => MaxFaults <= 1
    /\ IsFiniteSet(Keys) /\ Cardinality(Keys) <= MaxScanKeys

(* The points of the engine, and its locals. *)
Points == {"idle", "flush", "height", "hash", "fast", "trim", "full", "erase", "rewrite", "lower"}

Jobs ==
    [pc : Points, block : BlockOrNone, target : Heights, height : Heights, keys : SUBSET Keys,
     key : Keys \cup {None}, i : 0..MaxLength, newLength : 0..MaxLength, valid : Seq(Entry)]

JobType == job \in Jobs

(* The engine is writing a block; it is inside a list of a rollback. *)
Writing == job.pc \in {"flush", "height"}
Inside(k) == k = job.key /\ job.pc \in {"trim", "erase", "rewrite"}

(* Where the engine is. *)
Position ==
    /\ job.pc \in {"idle", "flush", "height"} => indexed < current
    /\ job.pc = "hash" => indexed = current
    /\ job.pc \in {"flush", "height", "hash"} => current <= Tip /\ job.block \in Blocks
    /\ job.pc \in {"trim", "erase", "rewrite"} => job.key \in Keys
    /\ job.pc \in {"fast", "trim"} =>
          /\ job.target < job.height /\ job.height <= indexed
          /\ \A h \in job.target + 1 .. job.height : manifest[h] # None

(* The manifest of the height names the key. *)
Named(k, h) == manifest[h] # None /\ k \in manifest[h]

(* How high the entries of a key may be: at most the indexed height, but    *)
(* for the block that is being written; in a rollback, above the target     *)
(* only what is still to be trimmed or rewritten.                           *)
Placed(k, h) ==
    /\ h <= indexed \/ (h = current /\ Writing /\ k \in writes[job.block]
                        /\ (job.pc = "flush" => faults > 0))
    /\ (job.pc \in {"fast", "trim"} /\ h > job.target) =>
          /\ h <= job.height
          /\ h = job.height => k \in job.keys \/ (job.pc = "trim" /\ k = job.key)
    /\ (job.pc \in {"full", "erase", "rewrite"} /\ h > job.target) =>
          k \in job.keys \/ (job.pc = "erase" /\ k = job.key)
    /\ job.pc = "lower" => h <= job.target

(* Every entry is named by the manifest of its height and is where it may be. *)
EntriesPlaced ==
    \A k \in Keys, i \in Slots :
        entry[k][i] # None => Named(k, entry[k][i].height) /\ Placed(k, entry[k][i].height)

(* The heights of a list never decrease, holes left out. *)
Sorted ==
    \A k \in Keys : \A i, j \in Slots :
        (i < j /\ entry[k][i] # None /\ entry[k][j] # None)
        => entry[k][i].height <= entry[k][j].height

(* A list is its indices below n; every list is, but for the one in work. *)
DenseBelow(k, n) == \A i \in Slots : (entry[k][i] # None) <=> (i < n)

DenseOutside == \A k \in Keys : Inside(k) \/ DenseBelow(k, length[k])

(* The list that is trimmed from above is dense up to where the walk is. *)
TrimInv ==
    job.pc = "trim" => job.newLength = job.i /\ DenseBelow(job.key, job.i)

(* What is kept of a list: entries up to the target, named and in order. *)
ValidInv ==
    job.pc \in {"erase", "rewrite"} =>
        /\ Len(job.valid) <= MaxLength
        /\ \A n \in 1..Len(job.valid) :
              LET h == job.valid[n].height
              IN h <= job.target /\ h <= indexed /\ Named(job.key, h)
        /\ \A m, n \in 1..Len(job.valid) : m < n => job.valid[m].height <= job.valid[n].height

(* A list is erased from below, then rewritten from below. *)
EraseInv ==
    /\ job.pc = "full" => job.i = 0
    /\ job.pc = "erase" =>
          /\ job.i <= length[job.key]
          /\ \A i \in Slots : (i < job.i \/ i >= length[job.key]) => entry[job.key][i] = None

RewriteInv ==
    job.pc = "rewrite" =>
        /\ job.i <= Len(job.valid)
        /\ \A i \in Slots : entry[job.key][i] = IF i < job.i THEN job.valid[i + 1] ELSE None

(* The invariant of the lists. *)
ListInv ==
    /\ TypeOK /\ JobType /\ Position
    /\ EntriesPlaced /\ Sorted /\ DenseOutside
    /\ TrimInv /\ ValidInv /\ EraseInv /\ RewriteInv


-----------------------------------------------------------------------------
(* What the assumptions and the types say together. *)
LEMMA ListFacts ==
  ASSUME ListInv
  PROVE  /\ StartBlock \in Nat \ {0} /\ MaxHeight \in Nat /\ MaxLength \in Nat /\ MaxFaults \in Nat
         /\ Tip \in Nat /\ Tip <= MaxHeight /\ StartBlock <= MaxHeight
         /\ writes \in [Blocks -> SUBSET Keys]
         /\ length \in [Keys -> 0..MaxLength]
         /\ entry \in [Keys -> [Slots -> Entry \cup {None}]]
         /\ manifest \in [Heights -> (SUBSET Keys) \cup {None}]
         /\ current \in Nat /\ current \in 1..MaxHeight + 1 /\ indexed \in Nat /\ indexed \in Heights
         /\ faults \in Nat /\ None \notin Entry
         /\ \A k \in Keys, i \in Slots : entry[k][i] # None =>
              entry[k][i] \in Entry /\ entry[k][i].height \in Heights /\ entry[k][i].height \in Nat
<1>1. chain \in Chains /\ writes \in Effects /\ current \in 1..MaxHeight + 1 /\ indexed \in Heights
      /\ faults \in 0..MaxFaults
  BY DEF ListInv, TypeOK
<1>2. /\ StartBlock \in Nat \ {0} /\ MaxHeight \in Nat /\ MaxLength \in Nat /\ MaxFaults \in Nat
      /\ Tip \in Nat /\ Tip <= MaxHeight /\ StartBlock <= MaxHeight
      /\ writes \in [Blocks -> SUBSET Keys]
  BY <1>1, ChainShape, StoreAssumption DEF Tip
<1>3. None \notin Entry
  BY StoreAssumption DEF Entry, Heights
<1>4. /\ length \in [Keys -> 0..MaxLength]
      /\ entry \in [Keys -> [Slots -> Entry \cup {None}]]
      /\ manifest \in [Heights -> (SUBSET Keys) \cup {None}]
  BY DEF ListInv, TypeOK
<1>5. \A k \in Keys, i \in Slots : entry[k][i] # None =>
         entry[k][i] \in Entry /\ entry[k][i].height \in Heights /\ entry[k][i].height \in Nat
  BY <1>2, <1>4 DEF Entry, Heights
<1> QED
  BY <1>1, <1>2, <1>3, <1>4, <1>5 DEF Heights

(* The invariant holds in the initial states. *)
LEMMA ListInit == Init => ListInv
<1> SUFFICES ASSUME Init PROVE ListInv
  OBVIOUS
<1>1. TypeOK
  BY LineInit DEF LineInv
<1>2. MaxHeight \in Nat /\ MaxLength \in Nat
  BY StoreAssumption
<1>3. JobType
  <2>1. <<>> \in Seq(Entry) /\ 0 \in Heights /\ 0 \in 0..MaxLength /\ None \in BlockOrNone
    BY <1>2 DEF Heights, BlockOrNone
  <2> QED
    BY <2>1 DEF Init, Idle, JobType, Jobs, Points
<1>4. Position
  <2>1. StartBlock \in Nat /\ StartBlock > 0
    BY StoreAssumption
  <2> QED
    BY <2>1 DEF Init, Idle, Position, ResumeHeight
<1>5. EntriesPlaced /\ Sorted
  BY DEF Init, EntriesPlaced, Sorted
<1>6. DenseOutside
  BY <1>2 DEF Init, DenseOutside, DenseBelow, Slots
<1>7. TrimInv /\ ValidInv /\ EraseInv /\ RewriteInv
  BY DEF Init, Idle, TrimInv, ValidInv, EraseInv, RewriteInv
<1> QED
  BY <1>1, <1>3, <1>4, <1>5, <1>6, <1>7 DEF ListInv

(* The node moves: the engine's block and height are still below its tip. *)
LEMMA NodeKeepsLists ==
  ASSUME ListInv, NodeStep
  PROVE  ListInv'
<1>1. /\ chain' \in Chains /\ Len(chain') > Len(chain)
      /\ UNCHANGED <<writes, length, entry, manifest, indexed, hashAt, current, job, faults>>
  BY DEF NodeStep, NodeAdvance, db
<1>2. Tip \in Nat /\ Tip' \in Nat /\ Tip' >= Tip
  BY <1>1, ChainShape, StoreAssumption DEF ListInv, TypeOK, Tip
<1>3. TypeOK' /\ JobType'
  BY <1>1 DEF ListInv, TypeOK, JobType, Jobs
<1>4. Position'
  BY <1>1, <1>2, ListFacts DEF ListInv, Position
<1>5. EntriesPlaced' /\ Sorted' /\ DenseOutside'
  BY <1>1 DEF ListInv, EntriesPlaced, Placed, Named, Sorted, DenseOutside, DenseBelow, Inside, Writing
<1>6. TrimInv' /\ ValidInv' /\ EraseInv' /\ RewriteInv'
  BY <1>1 DEF ListInv, TrimInv, ValidInv, EraseInv, RewriteInv, DenseBelow, Named
<1> QED
  BY <1>3, <1>4, <1>5, <1>6 DEF ListInv

(* A job that has nothing but a point, a block, a target, a height and keys. *)
LEMMA IdleJob ==
  ASSUME NEW p \in Points, NEW b \in BlockOrNone, NEW t \in Heights, NEW h \in Heights,
         NEW ks \in SUBSET Keys, NEW j,
         j = [pc |-> p, block |-> b, target |-> t, height |-> h, keys |-> ks,
              key |-> None, i |-> 0, newLength |-> 0, valid |-> <<>>]
  PROVE  j \in Jobs
<1>1. <<>> \in Seq(Entry) /\ 0 \in 0..MaxLength
  BY StoreAssumption
<1> QED
  BY <1>1 DEF Jobs

(* A block is accepted. *)
LEMMA AcceptKeepsLists ==
  ASSUME ListInv, Accept
  PROVE  ListInv'
<1>1. /\ job.pc = "idle" /\ current <= Tip
      /\ job' = [Idle EXCEPT !.pc = "flush", !.block = BlockAt(current)]
      /\ UNCHANGED <<chain, writes, length, entry, manifest, indexed, hashAt, current, faults>>
  BY DEF Accept, db
<1>2. BlockAt(current) \in Blocks
  BY <1>1, ListFacts, ChainShape DEF ListInv, TypeOK, Tip, BlockAt
<1>3. /\ job'.pc = "flush" /\ job'.block = BlockAt(current) /\ job'.keys = {} /\ job'.i = 0
      /\ job' = [pc |-> "flush", block |-> BlockAt(current), target |-> 0, height |-> 0,
                 keys |-> {}, key |-> None, i |-> 0, newLength |-> 0, valid |-> <<>>]
  BY <1>1 DEF Idle
<1>4. JobType'
  <2>1. 0 \in Heights /\ BlockAt(current) \in BlockOrNone /\ "flush" \in Points
    BY <1>2, ListFacts DEF Heights, BlockOrNone, Points
  <2> QED
    BY <1>3, <2>1, IdleJob DEF JobType
<1>5. TypeOK'
  BY <1>1, <1>3, ListFacts DEF ListInv, TypeOK
<1>6. Position'
  BY <1>1, <1>2, <1>3 DEF ListInv, Position, Tip
<1>7. EntriesPlaced' /\ Sorted' /\ DenseOutside'
  BY <1>1, <1>3 DEF ListInv, EntriesPlaced, Placed, Named, Sorted, DenseOutside, DenseBelow,
                    Inside, Writing
<1>8. TrimInv' /\ ValidInv' /\ EraseInv' /\ RewriteInv'
  BY <1>3 DEF TrimInv, ValidInv, EraseInv, RewriteInv
<1> QED
  BY <1>4, <1>5, <1>6, <1>7, <1>8 DEF ListInv

(* The batch of a block: one more entry at the end of the lists it changes, *)
(* no lower than any other, and the manifest that names them.               *)
LEMMA BatchKeepsLists ==
  ASSUME ListInv, job.pc = "flush", HasRoom(job.block), FlushBatch(job.block, current),
         UNCHANGED writes
  PROVE  /\ length' \in [Keys -> 0..MaxLength]
         /\ entry' \in [Keys -> [Slots -> Entry \cup {None}]]
         /\ manifest' \in [Heights -> (SUBSET Keys) \cup {None}]
         /\ Sorted' /\ \A k \in Keys : DenseBelow(k, length[k])'
         /\ \A k \in Keys, i \in Slots : entry'[k][i] # None =>
               LET h == entry'[k][i].height
               IN manifest'[h] # None /\ k \in manifest'[h] /\ (h <= indexed \/ (h = current /\ k \in writes[job.block]))
<1> DEFINE b == job.block
           e == [height |-> current, value |-> b]
<1>1. /\ current \in Nat /\ current \in Heights /\ b \in Blocks /\ writes[b] \in SUBSET Keys
      /\ indexed \in Nat /\ indexed < current
  BY ListFacts DEF ListInv, Position, Heights
<1>2. e \in Entry /\ e # None /\ e.height = current /\ e.value = b
  BY <1>1, ListFacts DEF Entry
<1>3. /\ MaxLength \in Nat /\ length \in [Keys -> 0..MaxLength]
      /\ entry \in [Keys -> [Slots -> Entry \cup {None}]]
      /\ manifest \in [Heights -> (SUBSET Keys) \cup {None}]
  BY ListFacts
<1>4. \A k \in writes[b] : k \in Keys /\ length[k] \in Slots /\ length[k] + 1 \in 0..MaxLength
  BY <1>1, <1>3 DEF HasRoom, Slots
<1>5. ASSUME NEW k \in Keys
      PROVE  IF k \in writes[b]
             THEN /\ length'[k] = length[k] + 1
                  /\ \A i \in Slots : entry'[k][i] = IF i = length[k] THEN e ELSE entry[k][i]
             ELSE length'[k] = length[k] /\ entry'[k] = entry[k]
  <2>1. entry[k] \in [Slots -> Entry \cup {None}]
    BY <1>3
  <2>2. CASE k \in writes[b]
    <3>1. entry'[k] = [entry[k] EXCEPT ![length[k]] = e] /\ length'[k] = length[k] + 1
      BY <2>2 DEF FlushBatch
    <3> QED
      BY <2>1, <2>2, <3>1
  <2>3. CASE k \notin writes[b]
    BY <2>3 DEF FlushBatch
  <2> QED
    BY <2>2, <2>3
<1>6. /\ length' \in [Keys -> 0..MaxLength]
      /\ entry' \in [Keys -> [Slots -> Entry \cup {None}]]
  <2>1. ASSUME NEW k \in Keys
        PROVE  /\ (IF k \in writes[b] THEN length[k] + 1 ELSE length[k]) \in 0..MaxLength
               /\ (IF k \in writes[b] THEN [entry[k] EXCEPT ![length[k]] = e] ELSE entry[k])
                    \in [Slots -> Entry \cup {None}]
    <3>1. entry[k] \in [Slots -> Entry \cup {None}] /\ length[k] \in 0..MaxLength
      BY <1>3
    <3>2. e \in Entry \cup {None}
      BY <1>2
    <3>3. [entry[k] EXCEPT ![length[k]] = e] \in [Slots -> Entry \cup {None}]
      BY ONLY <3>1, <3>2
    <3> HIDE DEF e
    <3> QED
      BY <1>4, <3>1, <3>3
  <2> QED
    BY <2>1 DEF FlushBatch
<1>7. \A h \in Heights : manifest'[h] = IF h = current /\ writes[b] # {} THEN writes[b]
                                        ELSE manifest[h]
  BY <1>3 DEF FlushBatch
<1>8. manifest' \in [Heights -> (SUBSET Keys) \cup {None}]
  BY <1>1, <1>3 DEF FlushBatch
<1>9. ASSUME NEW k \in Keys, NEW i \in Slots, entry'[k][i] # None
      PROVE  \/ k \in writes[b] /\ i = length[k] /\ entry'[k][i] = e
             \/ /\ entry'[k][i] = entry[k][i] /\ entry[k][i] # None
                /\ Named(k, entry[k][i].height) /\ Placed(k, entry[k][i].height)
  BY <1>3, <1>4, <1>5, <1>9 DEF ListInv, EntriesPlaced
<1>10. ASSUME NEW k \in Keys, NEW i \in Slots, entry'[k][i] # None
       PROVE  /\ manifest'[entry'[k][i].height] # None /\ k \in manifest'[entry'[k][i].height]
              /\ entry'[k][i].height \in Nat /\ entry'[k][i].height <= current
              /\ \/ entry'[k][i].height <= indexed
                 \/ entry'[k][i].height = current /\ k \in writes[b]
  <2>1. CASE k \in writes[b] /\ entry'[k][i] = e
    <3>1. manifest'[current] = writes[b] /\ writes[b] # None
      BY <1>1, <1>7, <2>1, StoreAssumption
    <3> QED
      BY <1>1, <1>2, <2>1, <3>1 DEF Named
  <2>2. CASE entry'[k][i] = entry[k][i] /\ entry[k][i] # None
             /\ Named(k, entry[k][i].height) /\ Placed(k, entry[k][i].height)
    <3>1. entry[k][i].height \in Heights /\ entry[k][i].height \in Nat
      BY <2>2, ListFacts
    <3>2. \/ entry[k][i].height <= indexed
          \/ entry[k][i].height = current /\ k \in writes[b]
      BY <2>2 DEF Placed
    <3>3. manifest'[entry[k][i].height] = manifest[entry[k][i].height]
          \/ (entry[k][i].height = current /\ manifest'[current] = writes[b]
              /\ k \in writes[b] /\ writes[b] # None)
      BY <1>1, <1>7, <3>1, <3>2, StoreAssumption
    <3> QED
      BY <1>1, <2>2, <3>1, <3>2, <3>3 DEF Named
  <2> QED
    BY <1>9, <1>10, <2>1, <2>2
<1>11. ASSUME NEW k \in Keys PROVE DenseBelow(k, length[k])'
  <2> SUFFICES ASSUME NEW i \in Slots
               PROVE  (entry'[k][i] # None) <=> (i < length'[k])
    BY DEF DenseBelow
  <2>1. (entry[k][i] # None) <=> (i < length[k])
    BY DEF ListInv, DenseOutside, DenseBelow, Inside
  <2>2. i \in Nat /\ length[k] \in Nat
    BY <1>3 DEF Slots
  <2>3. CASE k \notin writes[b]
    BY <1>5, <2>1, <2>3
  <2>4. CASE k \in writes[b] /\ i = length[k]
    BY <1>2, <1>3, <1>5, <2>2, <2>4
  <2>5. CASE k \in writes[b] /\ i # length[k]
    <3>1. entry'[k][i] = entry[k][i] /\ length'[k] = length[k] + 1
      BY <1>5, <2>5
    <3> QED
      BY <2>1, <2>2, <2>5, <3>1
  <2> QED
    BY <2>3, <2>4, <2>5
<1>12. Sorted'
  <2> SUFFICES ASSUME NEW k \in Keys, NEW i \in Slots, NEW j \in Slots,
                      i < j, entry'[k][i] # None, entry'[k][j] # None
               PROVE  entry'[k][i].height <= entry'[k][j].height
    BY DEF Sorted
  <2>1. i \in Nat /\ j \in Nat /\ length[k] \in Nat
    BY <1>3 DEF Slots
  <2>2. CASE entry'[k][i] = entry[k][i] /\ entry'[k][j] = entry[k][j] /\ entry[k][i] # None
             /\ entry[k][j] # None
    BY <2>2 DEF ListInv, Sorted
  <2>3. CASE k \in writes[b] /\ j = length[k] /\ entry'[k][j] = e
    BY <1>2, <1>10, <2>3
  <2>4. ~ (i = length[k] /\ k \in writes[b])
    <3>1. k \in writes[b] => length'[k] = length[k] + 1
      BY <1>5
    <3>2. j < length'[k]
      BY <1>11 DEF DenseBelow
    <3> QED
      BY <2>1, <3>1, <3>2
  <2> QED
    BY <1>9, <2>2, <2>3, <2>4
<1> QED
  BY <1>6, <1>8, <1>10, <1>11, <1>12

(* The flush, once. *)
LEMMA FlushKeepsLists ==
  ASSUME ListInv, Flush
  PROVE  ListInv'
<1>1. /\ job.pc = "flush" /\ job' = [job EXCEPT !.pc = "height"]
      /\ UNCHANGED <<chain, writes, indexed, hashAt, current, faults>>
      /\ HasRoom(job.block) /\ FlushBatch(job.block, current)
  BY DEF Flush
<1>2. /\ job'.pc = "height" /\ job'.block = job.block /\ job'.keys = job.keys /\ job'.i = job.i
      /\ JobType'
  BY <1>1 DEF ListInv, JobType, Jobs, Points
<1>3. /\ length' \in [Keys -> 0..MaxLength]
      /\ entry' \in [Keys -> [Slots -> Entry \cup {None}]]
      /\ manifest' \in [Heights -> (SUBSET Keys) \cup {None}]
      /\ Sorted' /\ \A k \in Keys : DenseBelow(k, length[k])'
      /\ \A k \in Keys, i \in Slots : entry'[k][i] # None =>
            LET h == entry'[k][i].height
            IN manifest'[h] # None /\ k \in manifest'[h] /\ (h <= indexed \/ (h = current /\ k \in writes[job.block]))
  BY <1>1, BatchKeepsLists
<1>4. TypeOK'
  BY <1>1, <1>2, <1>3 DEF ListInv, TypeOK
<1>5. Position'
  BY <1>1, <1>2 DEF ListInv, Position, Tip
<1>6. EntriesPlaced'
  <2> SUFFICES ASSUME NEW k \in Keys, NEW i \in Slots, entry'[k][i] # None
               PROVE  Named(k, entry[k][i].height)' /\ Placed(k, entry[k][i].height)'
    BY DEF EntriesPlaced
  <2>1. LET h == entry'[k][i].height
        IN /\ manifest'[h] # None /\ k \in manifest'[h]
           /\ (h <= indexed \/ (h = current /\ k \in writes[job.block]))
    BY <1>3
  <2> QED
    BY <1>1, <1>2, <2>1 DEF Placed, Named, Writing
<1>7. DenseOutside'
  BY <1>3 DEF DenseOutside
<1>8. TrimInv' /\ ValidInv' /\ EraseInv' /\ RewriteInv'
  BY <1>2 DEF TrimInv, ValidInv, EraseInv, RewriteInv
<1> QED
  BY <1>2, <1>3, <1>4, <1>5, <1>6, <1>7, <1>8 DEF ListInv

(* The flush, repeated by the fallback. *)
LEMMA FlushAgainKeepsLists ==
  ASSUME ListInv, FlushAgain
  PROVE  ListInv'
<1>1. /\ job.pc = "flush" /\ faults < MaxFaults /\ faults' = faults + 1
      /\ UNCHANGED <<chain, writes, indexed, hashAt, current, job>>
      /\ HasRoom(job.block) /\ FlushBatch(job.block, current)
  BY DEF FlushAgain
<1>2. faults' \in 0..MaxFaults /\ faults' > 0
  BY <1>1, ListFacts
<1>3. /\ length' \in [Keys -> 0..MaxLength]
      /\ entry' \in [Keys -> [Slots -> Entry \cup {None}]]
      /\ manifest' \in [Heights -> (SUBSET Keys) \cup {None}]
      /\ Sorted' /\ \A k \in Keys : DenseBelow(k, length[k])'
      /\ \A k \in Keys, i \in Slots : entry'[k][i] # None =>
            LET h == entry'[k][i].height
            IN manifest'[h] # None /\ k \in manifest'[h] /\ (h <= indexed \/ (h = current /\ k \in writes[job.block]))
  BY <1>1, BatchKeepsLists
<1>4. TypeOK' /\ JobType'
  BY <1>1, <1>2, <1>3 DEF ListInv, TypeOK, JobType
<1>5. Position'
  BY <1>1 DEF ListInv, Position, Tip
<1>6. EntriesPlaced'
  <2> SUFFICES ASSUME NEW k \in Keys, NEW i \in Slots, entry'[k][i] # None
               PROVE  Named(k, entry[k][i].height)' /\ Placed(k, entry[k][i].height)'
    BY DEF EntriesPlaced
  <2>1. LET h == entry'[k][i].height
        IN /\ manifest'[h] # None /\ k \in manifest'[h]
           /\ (h <= indexed \/ (h = current /\ k \in writes[job.block]))
    BY <1>3
  <2> QED
    BY <1>1, <1>2, <2>1 DEF Placed, Named, Writing
<1>7. DenseOutside'
  BY <1>3 DEF DenseOutside
<1>8. TrimInv' /\ ValidInv' /\ EraseInv' /\ RewriteInv'
  BY <1>1 DEF TrimInv, ValidInv, EraseInv, RewriteInv
<1> QED
  BY <1>3, <1>4, <1>5, <1>6, <1>7, <1>8 DEF ListInv

(* The height is stored after its batch. *)
LEMMA PutHeightKeepsLists ==
  ASSUME ListInv, PutHeight
  PROVE  ListInv'
<1>1. /\ job.pc = "height" /\ job' = [job EXCEPT !.pc = "hash"] /\ indexed' = current
      /\ UNCHANGED <<chain, writes, length, entry, manifest, hashAt, current, faults>>
  BY DEF PutHeight
<1>2. /\ job'.pc = "hash" /\ job'.block = job.block /\ job'.keys = job.keys /\ job'.i = job.i
      /\ JobType'
  BY <1>1 DEF ListInv, JobType, Jobs, Points
<1>3. current \in Heights /\ current \in Nat /\ indexed < current /\ indexed \in Nat
  BY <1>1, ListFacts DEF ListInv, Position, Heights
<1>4. TypeOK'
  BY <1>1, <1>2, <1>3 DEF ListInv, TypeOK
<1>5. Position'
  BY <1>1, <1>2 DEF ListInv, Position, Tip
<1>6. EntriesPlaced'
  <2> SUFFICES ASSUME NEW k \in Keys, NEW i \in Slots, entry[k][i] # None
               PROVE  Named(k, entry[k][i].height)' /\ Placed(k, entry[k][i].height)'
    BY <1>1 DEF EntriesPlaced
  <2>1. Named(k, entry[k][i].height) /\ Placed(k, entry[k][i].height)
    BY DEF ListInv, EntriesPlaced
  <2>2. entry[k][i].height <= current
    BY <1>3, <2>1, ListFacts DEF Placed
  <2> QED
    BY <1>1, <1>2, <2>1, <2>2 DEF Placed, Named
<1>7. Sorted' /\ DenseOutside'
  BY <1>1, <1>2 DEF ListInv, Sorted, DenseOutside, DenseBelow, Inside
<1>8. TrimInv' /\ ValidInv' /\ EraseInv' /\ RewriteInv'
  BY <1>2 DEF TrimInv, ValidInv, EraseInv, RewriteInv
<1> QED
  BY <1>2, <1>4, <1>5, <1>6, <1>7, <1>8 DEF ListInv

(* A new, idle job: of the entries only that none is above the indexed      *)
(* height has to be shown.                                                  *)
LEMMA IdleKeepsLists ==
  ASSUME ListInv, job' = Idle, UNCHANGED <<chain, writes, length, entry, manifest>>,
         current' \in 1..MaxHeight + 1, indexed' \in Heights, indexed' < current',
         hashAt' \in [Heights -> BlockOrNone], faults' \in 0..MaxFaults,
         \A k \in Keys : ~Inside(k),
         \A k \in Keys, i \in Slots : entry[k][i] # None => entry[k][i].height <= indexed'
  PROVE  ListInv'
<1>1. /\ job'.pc = "idle" /\ job'.keys = {} /\ job'.i = 0
      /\ job' = [pc |-> "idle", block |-> None, target |-> 0, height |-> 0,
                 keys |-> {}, key |-> None, i |-> 0, newLength |-> 0, valid |-> <<>>]
  BY DEF Idle
<1>2. JobType'
  <2>1. 0 \in Heights /\ None \in BlockOrNone /\ "idle" \in Points
    BY ListFacts DEF Heights, BlockOrNone, Points
  <2> QED
    BY <1>1, <2>1, IdleJob DEF JobType
<1>3. TypeOK'
  BY <1>1, ListFacts DEF ListInv, TypeOK
<1>4. Position'
  BY <1>1 DEF Position
<1>5. EntriesPlaced'
  BY <1>1 DEF ListInv, EntriesPlaced, Placed, Named
<1>6. Sorted' /\ DenseOutside'
  BY DEF ListInv, Sorted, DenseOutside, DenseBelow
<1>7. TrimInv' /\ ValidInv' /\ EraseInv' /\ RewriteInv'
  BY <1>1 DEF TrimInv, ValidInv, EraseInv, RewriteInv
<1> QED
  BY <1>2, <1>3, <1>4, <1>5, <1>6, <1>7 DEF ListInv

(* The hash is stored last, and the engine moves on. *)
LEMMA PutHashKeepsLists ==
  ASSUME ListInv, PutHash
  PROVE  ListInv'
<1>1. /\ job.pc = "hash" /\ hashAt' = [hashAt EXCEPT ![current] = job.block]
      /\ current' = current + 1 /\ job' = Idle
      /\ UNCHANGED <<chain, writes, length, entry, manifest, indexed, faults>>
  BY DEF PutHash
<1>2. /\ current <= Tip /\ job.block \in Blocks /\ indexed = current
  BY <1>1 DEF ListInv, Position
<1>3. /\ current + 1 \in 1..MaxHeight + 1 /\ indexed < current + 1 /\ current \in Heights
  BY <1>2, ListFacts DEF Heights
<1>4. hashAt' \in [Heights -> BlockOrNone] /\ faults' \in 0..MaxFaults
  BY <1>1, <1>2, <1>3 DEF ListInv, TypeOK, BlockOrNone
<1>5. \A k \in Keys, i \in Slots : entry[k][i] # None => entry[k][i].height <= indexed
  BY <1>1 DEF ListInv, EntriesPlaced, Placed, Writing
<1>6. \A k \in Keys : ~Inside(k)
  BY <1>1 DEF Inside
<1> QED
  BY <1>1, <1>3, <1>4, <1>5, <1>6, IdleKeepsLists, ListFacts

(* The indexed height is lowered after all entries above it are gone. *)
LEMMA LowerKeepsLists ==
  ASSUME ListInv, LowerHeight
  PROVE  ListInv'
<1>1. /\ job.pc = "lower" /\ indexed' = job.target /\ current' = job.target + 1 /\ job' = Idle
      /\ UNCHANGED <<chain, writes, length, entry, manifest, hashAt, faults>>
  BY DEF LowerHeight
<1>2. job.target \in Heights /\ MaxHeight \in Nat
  BY ListFacts DEF ListInv, JobType, Jobs
<1>3. /\ job.target + 1 \in 1..MaxHeight + 1 /\ job.target < job.target + 1
  BY <1>2 DEF Heights
<1>4. hashAt' \in [Heights -> BlockOrNone] /\ faults' \in 0..MaxFaults
  BY <1>1 DEF ListInv, TypeOK
<1>5. \A k \in Keys, i \in Slots : entry[k][i] # None => entry[k][i].height <= job.target
  BY <1>1 DEF ListInv, EntriesPlaced, Placed
<1>6. \A k \in Keys : ~Inside(k)
  BY <1>1 DEF Inside
<1> QED
  BY <1>1, <1>2, <1>3, <1>4, <1>5, <1>6, IdleKeepsLists

(* A restart comes when no list and no batch is half done. *)
LEMMA CrashKeepsLists ==
  ASSUME CleanRestarts, ListInv, Crash
  PROVE  ListInv'
<1>1. /\ job.pc \in CrashAt /\ faults < MaxFaults /\ faults' = faults + 1
      /\ current' = ResumeHeight(indexed) /\ job' = Idle
      /\ UNCHANGED <<chain, writes, length, entry, manifest, indexed, hashAt>>
  BY DEF Crash, db
<1>2. /\ current' \in 1..MaxHeight + 1 /\ indexed < current'
  BY <1>1, ListFacts DEF ResumeHeight, Heights
<1>3. hashAt' \in [Heights -> BlockOrNone] /\ faults' \in 0..MaxFaults
  BY <1>1, ListFacts DEF ListInv, TypeOK
<1>4. job.pc \in {"idle", "flush", "hash", "fast", "full", "lower"}
  BY <1>1 DEF CleanRestarts
<1>5. job.pc = "flush" => faults = 0
  <2> SUFFICES ASSUME job.pc = "flush" PROVE faults = 0
    OBVIOUS
  <2>1. MaxFaults <= 1
    BY <1>1 DEF CleanRestarts
  <2>2. faults \in Nat /\ MaxFaults \in Nat /\ faults < MaxFaults
    BY <1>1, ListFacts
  <2> QED
    BY <2>1, <2>2
<1>6. \A k \in Keys, i \in Slots : entry[k][i] # None => entry[k][i].height <= indexed
  BY <1>4, <1>5 DEF ListInv, EntriesPlaced, Placed, Writing
<1>7. \A k \in Keys : ~Inside(k)
  BY <1>4 DEF Inside
<1> QED
  BY <1>1, <1>2, <1>3, <1>6, <1>7, IdleKeepsLists, ListFacts

-----------------------------------------------------------------------------
(* The rollback. *)

(* The height to roll back to lies below the current one. *)
LEMMA AncestorBelow ==
  ASSUME ListInv
  PROVE  CommonAncestor \in Heights /\ CommonAncestor < current
<1> DEFINE below == {h \in 1..current - 1 : Agrees(h)}
<1>1. CASE below = {}
  BY <1>1, ListFacts DEF CommonAncestor, Heights
<1>2. CASE below # {}
  <2>1. below \in SUBSET (0..current) /\ current \in Nat
    BY ListFacts
  <2>2. \E h \in below : \A x \in below : x <= h
    BY <1>2, <2>1, Greatest
  <2>3. CommonAncestor \in below
    BY <1>2, <2>2 DEF CommonAncestor
  <2> QED
    BY <2>3, ListFacts DEF Heights
<1> QED
  BY <1>1, <1>2

(* The full rollback collects every list that has entries. *)
LEMMA CollectsAll ==
  ASSUME CleanRestarts, NEW lists \in SUBSET Keys, NEW ks \in SUBSET lists,
         Cardinality(ks) = MaxScanKeys \/ ks = lists
  PROVE  ks = lists
<1> SUFFICES ASSUME Cardinality(ks) = MaxScanKeys PROVE ks = lists
  OBVIOUS
<1>1. IsFiniteSet(Keys) /\ Cardinality(Keys) <= MaxScanKeys /\ MaxScanKeys \in Nat
  BY StoreAssumption DEF CleanRestarts
<1>2. ks \subseteq Keys /\ Cardinality(ks) \in Nat /\ Cardinality(Keys) \in Nat
      /\ Cardinality(ks) <= Cardinality(Keys)
  BY <1>1, FS_Subset, FS_CardinalityType
<1>3. Cardinality(ks) = Cardinality(Keys)
  BY <1>1, <1>2
<1>4. ks = Keys
  BY <1>1, <1>2, <1>3, FS_Subset
<1> QED
  BY <1>4

(* A rollback begins: from manifests, by a full scan, or with nothing to do *)
(* but lowering the height.                                                 *)
LEMMA BeginKeepsLists ==
  ASSUME CleanRestarts, ListInv, BeginRollback
  PROVE  ListInv'
<1> DEFINE R == CommonAncestor
<1>1. /\ job.pc = "idle"
      /\ UNCHANGED <<chain, writes, length, entry, manifest, indexed, hashAt, current, faults>>
  BY DEF BeginRollback, db
<1>2. R \in Heights /\ R < current /\ R \in Nat /\ indexed \in Nat /\ indexed \in Heights
  BY AncestorBelow, ListFacts DEF Heights
<1>3. \A k \in Keys, i \in Slots : entry[k][i] # None =>
         Named(k, entry[k][i].height) /\ entry[k][i].height <= indexed
  BY <1>1 DEF ListInv, EntriesPlaced, Placed, Writing
<1>4. \A k \in Keys : DenseBelow(k, length[k])
  BY <1>1 DEF ListInv, DenseOutside, Inside
<1>5. ASSUME NEW p \in {"fast", "full", "lower"}, NEW h \in Heights, NEW ks \in SUBSET Keys,
             job' = [pc |-> p, block |-> None, target |-> R, height |-> h, keys |-> ks,
                     key |-> None, i |-> 0, newLength |-> 0, valid |-> <<>>],
             p = "fast" => /\ R < h /\ h <= indexed /\ HasManifests(R)
                           /\ \A k \in Keys, i \in Slots : entry[k][i] # None =>
                                 /\ entry[k][i].height <= h
                                 /\ entry[k][i].height = h => k \in ks,
             p = "full" => \A k \in Keys, i \in Slots : entry[k][i] # None => k \in ks,
             p = "lower" => indexed <= R
      PROVE  ListInv'
  <2>1. /\ job'.pc = p /\ job'.keys = ks /\ job'.i = 0 /\ job'.target = R /\ job'.height = h
    BY <1>5
  <2>2. JobType'
    <3>1. p \in Points /\ None \in BlockOrNone
      BY DEF Points, BlockOrNone
    <3> QED
      BY <1>2, <1>5, <3>1, IdleJob DEF JobType
  <2>3. TypeOK'
    BY <1>1, <2>1, ListFacts DEF ListInv, TypeOK
  <2>4. Position'
    <3>1. p = "fast" => \A x \in R + 1 .. h : manifest[x] # None
      BY <1>2, <1>5 DEF HasManifests, Heights
    <3> QED
      BY <1>1, <1>5, <2>1, <3>1 DEF Position
  <2>5. EntriesPlaced'
    <3> SUFFICES ASSUME NEW k \in Keys, NEW i \in Slots, entry[k][i] # None
                 PROVE  Named(k, entry[k][i].height)' /\ Placed(k, entry[k][i].height)'
      BY <1>1 DEF EntriesPlaced
    <3>1. Named(k, entry[k][i].height) /\ entry[k][i].height <= indexed
          /\ entry[k][i].height \in Nat
      BY <1>3, ListFacts
    <3>2. CASE p = "fast"
      BY <1>1, <1>5, <2>1, <3>1, <3>2 DEF Named, Placed
    <3>3. CASE p = "full"
      BY <1>1, <1>5, <2>1, <3>1, <3>3 DEF Named, Placed
    <3>4. CASE p = "lower"
      BY <1>1, <1>2, <1>5, <2>1, <3>1, <3>4 DEF Named, Placed
    <3> QED
      BY <3>2, <3>3, <3>4
  <2>6. Sorted' /\ DenseOutside'
    BY <1>1, <1>4 DEF ListInv, Sorted, DenseOutside, DenseBelow
  <2>7. TrimInv' /\ ValidInv' /\ EraseInv' /\ RewriteInv'
    BY <2>1 DEF TrimInv, ValidInv, EraseInv, RewriteInv
  <2> QED
    BY <2>2, <2>3, <2>4, <2>5, <2>6, <2>7 DEF ListInv
<1>6. CASE HasManifests(R) /\ R < indexed
  <2>1. job' = [Idle EXCEPT !.pc = "fast", !.target = R, !.height = indexed,
                            !.keys = manifest[indexed]]
    BY <1>6 DEF BeginRollback
  <2>2. manifest[indexed] # None
    BY <1>2, <1>6 DEF HasManifests
  <2>3. manifest[indexed] \in SUBSET Keys
    BY <1>2, <2>2, ListFacts
  <2>4. \A k \in Keys, i \in Slots : entry[k][i] # None =>
           /\ entry[k][i].height <= indexed
           /\ entry[k][i].height = indexed => k \in manifest[indexed]
    BY <1>3 DEF Named
  <2>5. job' = [pc |-> "fast", block |-> None, target |-> R, height |-> indexed,
                keys |-> manifest[indexed], key |-> None, i |-> 0, newLength |-> 0,
                valid |-> <<>>]
    BY <2>1 DEF Idle
  <2> QED
    BY <1>2, <1>5, <1>6, <2>3, <2>4, <2>5
<1>7. CASE HasManifests(R) /\ ~ (R < indexed)
  <2>1. job' = [Idle EXCEPT !.pc = "lower", !.target = R]
    BY <1>7 DEF BeginRollback
  <2>2. job' = [pc |-> "lower", block |-> None, target |-> R, height |-> 0,
                keys |-> {}, key |-> None, i |-> 0, newLength |-> 0, valid |-> <<>>]
    BY <2>1 DEF Idle
  <2> QED
    BY <1>2, <1>5, <1>7, <2>2, ListFacts DEF Heights
<1>8. CASE ~HasManifests(R)
  <2> DEFINE lists == {k \in Keys : length[k] > 0}
  <2>1. PICK ks \in SUBSET lists : /\ Cardinality(ks) = MaxScanKeys \/ ks = lists
                                   /\ job' = [Idle EXCEPT !.pc = "full", !.target = R, !.keys = ks]
    BY <1>8 DEF BeginRollback
  <2>2. ks = lists
    BY <2>1, CollectsAll
  <2>3. \A k \in Keys, i \in Slots : entry[k][i] # None => k \in ks
    <3> TAKE k \in Keys, i \in Slots
    <3> HAVE entry[k][i] # None
    <3>1. i < length[k] /\ i \in Nat /\ length[k] \in Nat
      BY <1>4, ListFacts DEF DenseBelow, Slots
    <3> QED
      BY <2>2, <3>1
  <2>4. job' = [pc |-> "full", block |-> None, target |-> R, height |-> 0,
                keys |-> ks, key |-> None, i |-> 0, newLength |-> 0, valid |-> <<>>]
    BY <2>1 DEF Idle
  <2>5. ks \in SUBSET Keys /\ 0 \in Heights
    BY <2>2, ListFacts DEF Heights
  <2> QED
    BY <1>5, <2>3, <2>4, <2>5
<1> QED
  BY <1>6, <1>7, <1>8

(* Fast: the next key of the manifest. *)
LEMMA FastKeyKeepsLists ==
  ASSUME ListInv, FastNextKey
  PROVE  ListInv'
<1>1. /\ job.pc = "fast"
      /\ UNCHANGED <<chain, writes, length, entry, manifest, indexed, hashAt, current, faults>>
  BY DEF FastNextKey, db
<1>2. PICK k \in job.keys : job' = [job EXCEPT !.pc = "trim", !.key = k, !.keys = @ \ {k},
                                               !.i = length[k], !.newLength = length[k]]
  BY DEF FastNextKey
<1>3. k \in Keys /\ length[k] \in 0..MaxLength
  BY ListFacts DEF ListInv, TypeOK
<1>4. /\ job'.pc = "trim" /\ job'.key = k /\ job'.keys = job.keys \ {k} /\ job'.i = length[k]
      /\ job'.newLength = length[k] /\ job'.target = job.target /\ job'.height = job.height
      /\ JobType'
  BY <1>2, <1>3 DEF ListInv, JobType, Jobs, Points
<1>5. TypeOK'
  BY <1>1, <1>3, <1>4 DEF ListInv, TypeOK
<1>6. Position'
  BY <1>1, <1>3, <1>4 DEF ListInv, Position
<1>7. EntriesPlaced'
  <2> SUFFICES ASSUME NEW q \in Keys, NEW i \in Slots, entry[q][i] # None
               PROVE  Named(q, entry[q][i].height)' /\ Placed(q, entry[q][i].height)'
    BY <1>1 DEF EntriesPlaced
  <2>1. Named(q, entry[q][i].height) /\ Placed(q, entry[q][i].height)
    BY DEF ListInv, EntriesPlaced
  <2> QED
    BY <1>1, <1>4, <2>1 DEF Named, Placed, Writing
<1>8. \A q \in Keys : DenseBelow(q, length[q])
  BY <1>1 DEF ListInv, DenseOutside, Inside
<1>9. Sorted' /\ DenseOutside'
  BY <1>1, <1>8 DEF ListInv, Sorted, DenseOutside, DenseBelow
<1>10. TrimInv'
  BY <1>1, <1>3, <1>4, <1>8 DEF TrimInv, DenseBelow
<1>11. ValidInv' /\ EraseInv' /\ RewriteInv'
  BY <1>4 DEF ValidInv, EraseInv, RewriteInv
<1> QED
  BY <1>4, <1>5, <1>6, <1>7, <1>9, <1>10, <1>11 DEF ListInv

(* An entry of one key is replaced. *)
LEMMA OneEntry ==
  ASSUME ListInv, NEW k \in Keys, NEW n \in Slots, NEW e \in Entry \cup {None},
         entry' = [entry EXCEPT ![k][n] = e]
  PROVE  /\ entry' \in [Keys -> [Slots -> Entry \cup {None}]]
         /\ \A q \in Keys, i \in Slots :
               entry'[q][i] = IF q = k /\ i = n THEN e ELSE entry[q][i]
         /\ \A q \in Keys : q # k => entry'[q] = entry[q]
<1>1. entry \in [Keys -> [Slots -> Entry \cup {None}]]
  BY ListFacts
<1>2. entry' = [entry EXCEPT ![k] = [entry[k] EXCEPT ![n] = e]]
  OBVIOUS
<1>3. entry[k] \in [Slots -> Entry \cup {None}]
  BY <1>1
<1>4. [entry[k] EXCEPT ![n] = e] \in [Slots -> Entry \cup {None}]
  BY ONLY <1>3, e \in Entry \cup {None}, n \in Slots
<1>5. \A q \in Keys : entry'[q] = IF q = k THEN [entry[k] EXCEPT ![n] = e] ELSE entry[q]
  BY <1>1, <1>2
<1>6. entry' \in [Keys -> [Slots -> Entry \cup {None}]]
  <2> DEFINE list == [entry[k] EXCEPT ![n] = e]
  <2>1. entry' = [entry EXCEPT ![k] = list] /\ list \in [Slots -> Entry \cup {None}]
    BY <1>2, <1>4
  <2> HIDE DEF list
  <2> QED
    BY <1>1, <2>1
<1>7. \A i \in Slots : [entry[k] EXCEPT ![n] = e][i] = IF i = n THEN e ELSE entry[k][i]
  BY <1>3
<1> QED
  BY <1>5, <1>6, <1>7

(* ... its list is walked backwards, above the target; lists are dense, so  *)
(* no entry is missing ...                                                  *)
LEMMA TrimKeepsLists ==
  ASSUME ListInv, FastTrim
  PROVE  ListInv'
<1> DEFINE k == job.key
           n == job.i - 1
<1>1. /\ job.pc = "trim" /\ job.i > 0
      /\ entry[k][n] = None \/ Above(k, n)
      /\ entry' = [entry EXCEPT ![k][n] = None]
      /\ job' = [job EXCEPT !.i = n, !.newLength = IF Above(k, n) THEN n ELSE @]
      /\ UNCHANGED <<chain, writes, length, manifest, indexed, hashAt, current, faults>>
  BY DEF FastTrim
<1>2. /\ k \in Keys /\ job.i \in 0..MaxLength /\ MaxLength \in Nat
      /\ n \in 0..MaxLength /\ n \in Slots
  BY <1>1, ListFacts DEF ListInv, Position, TypeOK, Slots
<1>3. DenseBelow(k, job.i)
  BY <1>1 DEF ListInv, TrimInv
<1>4. Above(k, n)
  BY <1>1, <1>2, <1>3 DEF DenseBelow
<1>5. job' = [job EXCEPT !.i = n, !.newLength = n]
  BY <1>1, <1>4
<1> HIDE DEF n
<1>6. /\ job'.pc = "trim" /\ job'.key = k /\ job'.keys = job.keys /\ job'.i = n
      /\ job'.newLength = n /\ job'.target = job.target /\ job'.height = job.height /\ JobType'
  BY <1>1, <1>2, <1>5 DEF ListInv, JobType, Jobs
<1>7. /\ entry' \in [Keys -> [Slots -> Entry \cup {None}]]
      /\ \A q \in Keys, i \in Slots : entry'[q][i] = IF q = k /\ i = n THEN None ELSE entry[q][i]
  BY <1>1, <1>2, OneEntry
<1>8. TypeOK'
  BY <1>1, <1>2, <1>6, <1>7 DEF ListInv, TypeOK
<1>9. Position'
  BY <1>1, <1>2, <1>6 DEF ListInv, Position
<1>10. EntriesPlaced'
  <2> SUFFICES ASSUME NEW q \in Keys, NEW i \in Slots, entry'[q][i] # None
               PROVE  Named(q, entry[q][i].height)' /\ Placed(q, entry[q][i].height)'
    BY DEF EntriesPlaced
  <2>1. entry'[q][i] = entry[q][i] /\ entry[q][i] # None
    BY <1>7
  <2>2. Named(q, entry[q][i].height) /\ Placed(q, entry[q][i].height)
    BY <2>1 DEF ListInv, EntriesPlaced
  <2> QED
    BY <1>1, <1>6, <2>1, <2>2 DEF Named, Placed, Writing
<1>11. Sorted'
  BY <1>7 DEF ListInv, Sorted
<1>12. DenseOutside'
  BY <1>1, <1>6, <1>7 DEF ListInv, DenseOutside, DenseBelow, Inside
<1>13. TrimInv'
  <2>1. ASSUME NEW i \in Slots PROVE (entry'[k][i] # None) <=> (i < n)
    <3>1. (entry[k][i] # None) <=> (i < job.i)
      BY <1>3 DEF DenseBelow
    <3>2. i \in Nat /\ n = job.i - 1 /\ job.i \in Nat
      BY <1>2 DEF n, Slots
    <3> QED
      BY <1>2, <1>7, <3>1, <3>2
  <2> QED
    BY <1>6, <2>1 DEF TrimInv, DenseBelow
<1>14. ValidInv' /\ EraseInv' /\ RewriteInv'
  BY <1>6 DEF ValidInv, EraseInv, RewriteInv
<1> QED
  BY <1>6, <1>8, <1>9, <1>10, <1>11, <1>12, <1>13, <1>14 DEF ListInv

(* ... and its length is written when the first entry to keep is met: what  *)
(* is left is at most as high as that one.                                  *)
LEMMA PutLengthKeepsLists ==
  ASSUME ListInv, FastPutLength
  PROVE  ListInv'
<1> DEFINE k == job.key
<1>1. /\ job.pc = "trim"
      /\ job.i > 0 => entry[k][job.i - 1] # None /\ ~Above(k, job.i - 1)
      /\ length' = [length EXCEPT ![k] = job.newLength]
      /\ job' = [job EXCEPT !.pc = "fast", !.key = None, !.i = 0, !.newLength = 0]
      /\ UNCHANGED <<chain, writes, entry, manifest, indexed, hashAt, current, faults>>
  BY DEF FastPutLength
<1>2. /\ k \in Keys /\ job.i \in 0..MaxLength /\ job.newLength = job.i /\ MaxLength \in Nat
      /\ job.target \in Nat
  BY <1>1, ListFacts DEF ListInv, Position, TypeOK, TrimInv, JobType, Jobs, Heights
<1>3. DenseBelow(k, job.i)
  BY <1>1 DEF ListInv, TrimInv
<1>4. /\ job'.pc = "fast" /\ job'.keys = job.keys /\ job'.i = 0
      /\ job'.target = job.target /\ job'.height = job.height /\ JobType'
  <2>1. 0 \in 0..MaxLength /\ None \in Keys \cup {None} /\ "fast" \in Points
    BY <1>2 DEF Points
  <2> QED
    BY <1>1, <2>1 DEF ListInv, JobType, Jobs
<1>5. /\ length' \in [Keys -> 0..MaxLength]
      /\ \A q \in Keys : length'[q] = IF q = k THEN job.i ELSE length[q]
  BY <1>1, <1>2, ListFacts
<1>6. TypeOK'
  BY <1>1, <1>4, <1>5, ListFacts DEF ListInv, TypeOK
<1>7. Position'
  BY <1>1, <1>4 DEF ListInv, Position
<1>8. \A i \in Slots : entry[k][i] # None => entry[k][i].height <= job.target
  <2> SUFFICES ASSUME NEW i \in Slots, entry[k][i] # None
               PROVE  entry[k][i].height <= job.target
    OBVIOUS
  <2> DEFINE j == job.i - 1
  <2>1. i < job.i /\ i \in Nat /\ job.i \in Nat
    BY <1>2, <1>3 DEF DenseBelow, Slots
  <2>2. j \in Slots /\ i <= j /\ i \in Nat /\ j \in Nat
    BY <1>2, <2>1 DEF Slots
  <2>3. entry[k][j] # None /\ entry[k][j].height <= job.target
    BY <1>1, <1>2, <2>1, <2>2, ListFacts DEF Above
  <2> HIDE DEF j
  <2>4. entry[k][i].height <= entry[k][j].height
    <3>1. CASE i = j
      BY <1>2, <2>2, <2>3, <3>1, ListFacts
    <3>2. CASE i < j
      BY <1>2, <2>2, <2>3, <3>2 DEF ListInv, Sorted
    <3> QED
      BY <2>2, <3>1, <3>2
  <2> QED
    BY <1>2, <2>2, <2>3, <2>4, ListFacts
<1>9. EntriesPlaced'
  <2> SUFFICES ASSUME NEW q \in Keys, NEW i \in Slots, entry[q][i] # None
               PROVE  Named(q, entry[q][i].height)' /\ Placed(q, entry[q][i].height)'
    BY <1>1 DEF EntriesPlaced
  <2>1. Named(q, entry[q][i].height) /\ Placed(q, entry[q][i].height)
    BY DEF ListInv, EntriesPlaced
  <2>2. CASE q = k
    <3>1. entry[q][i].height <= job.target /\ entry[q][i].height \in Nat
      BY <1>2, <1>8, <2>2, ListFacts
    <3> QED
      BY <1>1, <1>2, <1>4, <2>1, <3>1 DEF Named, Placed, Writing
  <2>3. CASE q # k
    BY <1>1, <1>4, <2>1, <2>3 DEF Named, Placed, Writing
  <2> QED
    BY <2>2, <2>3
<1>10. Sorted'
  BY <1>1 DEF ListInv, Sorted
<1>11. DenseOutside'
  BY <1>1, <1>3, <1>4, <1>5 DEF ListInv, DenseOutside, DenseBelow, Inside
<1>12. TrimInv' /\ ValidInv' /\ EraseInv' /\ RewriteInv'
  BY <1>4 DEF TrimInv, ValidInv, EraseInv, RewriteInv
<1> QED
  BY <1>4, <1>6, <1>7, <1>9, <1>10, <1>11, <1>12 DEF ListInv

(* The manifest of the height goes when no entry of it is left. *)
LEMMA FastHeightKeepsLists ==
  ASSUME ListInv, FastNextHeight
  PROVE  ListInv'
<1> DEFINE H == job.height
           R == job.target
<1>1. /\ job.pc = "fast" /\ job.keys = {}
      /\ manifest' = [manifest EXCEPT ![H] = None]
      /\ UNCHANGED <<chain, writes, length, entry, indexed, hashAt, current, faults>>
  BY DEF FastNextHeight
<1>2. /\ H \in Heights /\ R \in Heights /\ H \in Nat /\ R \in Nat /\ R < H /\ H <= indexed
      /\ \A x \in R + 1 .. H : manifest[x] # None
  BY <1>1 DEF ListInv, Position, JobType, Jobs, Heights
<1>3. /\ manifest' \in [Heights -> (SUBSET Keys) \cup {None}]
      /\ \A x \in Heights : manifest'[x] = IF x = H THEN None ELSE manifest[x]
  BY <1>1, <1>2, ListFacts
<1>4. ASSUME NEW k \in Keys, NEW i \in Slots, entry[k][i] # None
      PROVE  /\ entry[k][i].height \in Nat /\ entry[k][i].height <= indexed
             /\ entry[k][i].height <= R \/ entry[k][i].height < H
             /\ Named(k, entry[k][i].height) /\ Named(k, entry[k][i].height)'
  <2>1. Named(k, entry[k][i].height) /\ Placed(k, entry[k][i].height)
        /\ entry[k][i].height \in Heights /\ entry[k][i].height \in Nat
    BY <1>4, ListFacts DEF ListInv, EntriesPlaced
  <2>2. entry[k][i].height <= indexed
    BY <1>1, <2>1 DEF Placed, Writing
  <2>3. entry[k][i].height <= R \/ entry[k][i].height < H
    BY <1>1, <1>2, <2>1 DEF Placed
  <2>4. entry[k][i].height # H
    BY <1>2, <2>1, <2>3
  <2> QED
    BY <1>1, <1>3, <2>1, <2>2, <2>3, <2>4 DEF Named
<1>5. CASE H = R + 1
  <2>1. job' = [Idle EXCEPT !.pc = "lower", !.target = R]
    BY <1>1, <1>5 DEF FastNextHeight
  <2>2. job' = [pc |-> "lower", block |-> None, target |-> R, height |-> 0,
                keys |-> {}, key |-> None, i |-> 0, newLength |-> 0, valid |-> <<>>]
    BY <2>1 DEF Idle
  <2>3. JobType'
    <3>1. "lower" \in Points /\ None \in BlockOrNone /\ 0 \in Heights
      BY ListFacts DEF Points, BlockOrNone, Heights
    <3> QED
      BY <1>2, <2>2, <3>1, IdleJob DEF JobType
  <2>4. job'.pc = "lower" /\ job'.target = R /\ job'.keys = {} /\ job'.i = 0
    BY <2>2
  <2>5. TypeOK'
    BY <1>1, <1>3, <2>4, ListFacts DEF ListInv, TypeOK
  <2>6. Position'
    BY <2>4 DEF Position
  <2>7. EntriesPlaced'
    <3> SUFFICES ASSUME NEW k \in Keys, NEW i \in Slots, entry[k][i] # None
                 PROVE  Named(k, entry[k][i].height)' /\ Placed(k, entry[k][i].height)'
      BY <1>1 DEF EntriesPlaced
    <3> QED
      BY <1>1, <1>2, <1>4, <1>5, <2>4 DEF Placed
  <2>8. Sorted' /\ DenseOutside'
    BY <1>1, <2>4 DEF ListInv, Sorted, DenseOutside, DenseBelow, Inside
  <2>9. TrimInv' /\ ValidInv' /\ EraseInv' /\ RewriteInv'
    BY <2>4 DEF TrimInv, ValidInv, EraseInv, RewriteInv
  <2> QED
    BY <2>3, <2>5, <2>6, <2>7, <2>8, <2>9 DEF ListInv
<1>6. CASE H # R + 1
  <2>1. job' = [job EXCEPT !.height = H - 1, !.keys = manifest[H - 1]]
    BY <1>1, <1>6 DEF FastNextHeight
  <2>2. H - 1 \in Heights /\ H - 1 \in R + 1 .. H
    <3>1. MaxHeight \in Nat
      BY ListFacts
    <3> QED
      BY <1>2, <1>6, <3>1 DEF Heights
  <2>3. manifest[H - 1] \in SUBSET Keys
    BY <1>2, <2>2, ListFacts
  <2>4. /\ job'.pc = "fast" /\ job'.keys = manifest[H - 1] /\ job'.i = job.i
        /\ job'.target = R /\ job'.height = H - 1 /\ JobType'
    BY <1>1, <2>1, <2>2, <2>3 DEF ListInv, JobType, Jobs
  <2>5. TypeOK'
    BY <1>1, <1>3, <2>3, <2>4 DEF ListInv, TypeOK
  <2>6. Position'
    <3>1. \A x \in R + 1 .. H - 1 : manifest'[x] # None
      <4> TAKE x \in R + 1 .. H - 1
      <4>1. x \in R + 1 .. H /\ x \in Heights /\ x # H
        BY <1>2, ListFacts DEF Heights
      <4> QED
        BY <1>2, <1>3, <4>1
    <3>2. R < H - 1 /\ H - 1 <= indexed
      BY <1>2, <1>6, ListFacts
    <3> QED
      BY <1>1, <2>4, <3>1, <3>2 DEF Position
  <2>7. EntriesPlaced'
    <3> SUFFICES ASSUME NEW k \in Keys, NEW i \in Slots, entry[k][i] # None
                 PROVE  Named(k, entry[k][i].height)' /\ Placed(k, entry[k][i].height)'
      BY <1>1 DEF EntriesPlaced
    <3>1. entry[k][i].height > R => entry[k][i].height <= H - 1
      BY <1>2, <1>4
    <3>2. entry[k][i].height = H - 1 => k \in manifest[H - 1]
      BY <1>4 DEF Named
    <3> QED
      BY <1>1, <1>4, <2>4, <3>1, <3>2 DEF Placed
  <2>8. Sorted' /\ DenseOutside'
    BY <1>1, <2>4 DEF ListInv, Sorted, DenseOutside, DenseBelow, Inside
  <2>9. TrimInv' /\ ValidInv' /\ EraseInv' /\ RewriteInv'
    BY <2>4 DEF TrimInv, ValidInv, EraseInv, RewriteInv
  <2> QED
    BY <2>4, <2>5, <2>6, <2>7, <2>8, <2>9 DEF ListInv
<1> QED
  BY <1>5, <1>6

(* Full: the entries of the next list that stay are those below the cut at  *)
(* the target.                                                              *)
LEMMA FullKeyKeepsLists ==
  ASSUME ListInv, FullNextKey
  PROVE  ListInv'
<1>1. /\ job.pc = "full"
      /\ UNCHANGED <<chain, writes, length, entry, manifest, indexed, hashAt, current, faults>>
  BY DEF FullNextKey, db
<1>2. PICK k \in job.keys : job' = [job EXCEPT !.pc = "erase", !.key = k, !.keys = @ \ {k},
                                               !.valid = Kept(k)]
  BY DEF FullNextKey
<1>3. /\ k \in Keys /\ length[k] \in 0..MaxLength /\ length[k] \in Nat /\ MaxLength \in Nat
      /\ job.target \in Nat /\ entry[k] \in [Slots -> Entry \cup {None}]
  BY ListFacts DEF ListInv, TypeOK, JobType, Jobs, Heights
<1>4. \A q \in Keys : DenseBelow(q, length[q])
  BY <1>1 DEF ListInv, DenseOutside, Inside
<1>5. \A i \in 0..length[k] - 1 : i \in Slots /\ entry[k][i] # None /\ entry[k][i] \in Entry
  <2>1. \A i \in 0..length[k] - 1 : i \in Slots /\ i < length[k]
    BY <1>3 DEF Slots
  <2> QED
    BY <1>3, <1>4, <2>1, ListFacts DEF DenseBelow
<1>6. PICK c : Cut(entry[k], length[k], job.target, c)
  <2>1. \A i, j \in 0..length[k] - 1 : i < j => entry[k][i].height <= entry[k][j].height
    BY <1>3, <1>5 DEF ListInv, Sorted
  <2> QED
    BY <1>3, <1>5, <2>1, CutExists
<1>7. Kept(k) = Front(entry[k], c)
  BY <1>3, <1>6, KeptIsFront, ListFacts
<1>8. /\ c \in 0..length[k] /\ c \in Nat
      /\ \A i \in 0..c - 1 : i \in 0..length[k] - 1 /\ entry[k][i].height <= job.target
  BY <1>3, <1>6 DEF Cut
<1>9. Kept(k) \in Seq(Entry) /\ Len(Kept(k)) = c
  <2>1. \A i \in 0..c - 1 : entry[k][i] \in Entry
    BY <1>5, <1>8
  <2> QED
    BY <1>7, <1>8, <2>1, FrontIsSeq
<1>10. \A n \in 1..c : Kept(k)[n] = entry[k][n - 1] /\ n - 1 \in 0..c - 1 /\ n - 1 \in Slots
  <2>1. \A n \in 1..c : n - 1 \in 0..c - 1
    BY <1>8
  <2> QED
    BY <1>5, <1>7, <1>8, <2>1 DEF Front
<1>11. /\ job'.pc = "erase" /\ job'.key = k /\ job'.keys = job.keys \ {k} /\ job'.i = job.i
       /\ job'.valid = Kept(k) /\ job'.target = job.target /\ JobType'
  BY <1>2, <1>3, <1>9 DEF ListInv, JobType, Jobs, Points
<1>12. TypeOK'
  BY <1>1, <1>3, <1>11 DEF ListInv, TypeOK
<1>13. Position'
  BY <1>1, <1>3, <1>11 DEF ListInv, Position
<1>14. EntriesPlaced'
  <2> SUFFICES ASSUME NEW q \in Keys, NEW i \in Slots, entry[q][i] # None
               PROVE  Named(q, entry[q][i].height)' /\ Placed(q, entry[q][i].height)'
    BY <1>1 DEF EntriesPlaced
  <2>1. Named(q, entry[q][i].height) /\ Placed(q, entry[q][i].height)
    BY DEF ListInv, EntriesPlaced
  <2> QED
    BY <1>1, <1>11, <2>1 DEF Named, Placed, Writing
<1>15. Sorted' /\ DenseOutside'
  BY <1>1, <1>4 DEF ListInv, Sorted, DenseOutside, DenseBelow
<1>16. ValidInv'
  <2>1. ASSUME NEW n \in 1..c
        PROVE  LET h == Kept(k)[n].height
               IN h <= job.target /\ h <= indexed /\ Named(k, h)
    <3>1. Kept(k)[n] = entry[k][n - 1] /\ n - 1 \in Slots /\ entry[k][n - 1] # None
          /\ entry[k][n - 1].height <= job.target
      BY <1>5, <1>8, <1>10
    <3> QED
      BY <1>1, <1>3, <3>1 DEF ListInv, EntriesPlaced, Placed, Writing
  <2>2. ASSUME NEW m \in 1..c, NEW n \in 1..c, m < n
        PROVE  Kept(k)[m].height <= Kept(k)[n].height
    <3>1. m - 1 < n - 1
      BY <2>2
    <3> QED
      BY <1>3, <1>5, <1>8, <1>10, <3>1 DEF ListInv, Sorted
  <2> QED
    BY <1>1, <1>3, <1>8, <1>9, <1>11, <2>1, <2>2 DEF ValidInv, Named
<1>17. EraseInv'
  <2>1. job.i = 0
    BY <1>1 DEF ListInv, EraseInv
  <2>2. \A i \in Slots : i \in Nat
    BY <1>3 DEF Slots
  <2> QED
    BY <1>1, <1>3, <1>4, <1>11, <2>1, <2>2 DEF EraseInv, DenseBelow
<1>18. TrimInv' /\ RewriteInv'
  BY <1>11 DEF TrimInv, RewriteInv
<1> QED
  BY <1>11, <1>12, <1>13, <1>14, <1>15, <1>16, <1>17, <1>18 DEF ListInv

(* Its entries are deleted from the first to the last. *)
LEMMA EraseKeepsLists ==
  ASSUME ListInv, FullErase
  PROVE  ListInv'
<1> DEFINE k == job.key
<1>1. /\ job.pc = "erase"
      /\ UNCHANGED <<chain, writes, length, manifest, indexed, hashAt, current, faults>>
  BY DEF FullErase
<1>2. /\ k \in Keys /\ job.i \in 0..MaxLength /\ job.i \in Nat /\ MaxLength \in Nat
      /\ length[k] \in 0..MaxLength /\ length[k] \in Nat /\ job.i <= length[k]
      /\ \A i \in Slots : (i < job.i \/ i >= length[k]) => entry[k][i] = None
  BY <1>1, ListFacts DEF ListInv, Position, TypeOK, EraseInv
<1>3. CASE job.i < length[k]
  <2>1. /\ entry' = [entry EXCEPT ![k][job.i] = None]
        /\ job' = [job EXCEPT !.i = job.i + 1]
    BY <1>3 DEF FullErase
  <2>2. job.i \in Slots /\ job.i + 1 \in 0..MaxLength
    BY <1>2, <1>3 DEF Slots
  <2>3. /\ entry' \in [Keys -> [Slots -> Entry \cup {None}]]
        /\ \A q \in Keys, i \in Slots :
              entry'[q][i] = IF q = k /\ i = job.i THEN None ELSE entry[q][i]
    <3>1. PICK p \in Keys, n \in Slots : p = k /\ n = job.i
      BY <1>2, <2>2
    <3>2. entry' = [entry EXCEPT ![p][n] = None]
      BY <2>1, <3>1
    <3> HIDE DEF k
    <3>3. /\ entry' \in [Keys -> [Slots -> Entry \cup {None}]]
          /\ \A q \in Keys, i \in Slots :
                entry'[q][i] = IF q = p /\ i = n THEN None ELSE entry[q][i]
      BY <3>2, OneEntry
    <3> QED
      BY <3>1, <3>3
  <2>4. /\ job'.pc = "erase" /\ job'.key = k /\ job'.keys = job.keys /\ job'.i = job.i + 1
        /\ job'.valid = job.valid /\ job'.target = job.target /\ JobType'
    BY <1>1, <2>1, <2>2 DEF ListInv, JobType, Jobs
  <2>5. TypeOK'
    BY <1>1, <2>2, <2>3, <2>4 DEF ListInv, TypeOK
  <2>6. Position'
    BY <1>1, <1>2, <2>4 DEF ListInv, Position
  <2>7. EntriesPlaced'
    <3> SUFFICES ASSUME NEW q \in Keys, NEW i \in Slots, entry'[q][i] # None
                 PROVE  Named(q, entry[q][i].height)' /\ Placed(q, entry[q][i].height)'
      BY DEF EntriesPlaced
    <3>1. entry'[q][i] = entry[q][i] /\ entry[q][i] # None
      BY <2>3
    <3>2. Named(q, entry[q][i].height) /\ Placed(q, entry[q][i].height)
      BY <3>1 DEF ListInv, EntriesPlaced
    <3> QED
      BY <1>1, <2>4, <3>1, <3>2 DEF Named, Placed, Writing
  <2>8. Sorted'
    BY <2>3 DEF ListInv, Sorted
  <2>9. DenseOutside'
    BY <1>1, <2>3, <2>4 DEF ListInv, DenseOutside, DenseBelow, Inside
  <2>10. ValidInv' /\ TrimInv' /\ RewriteInv'
    BY <1>1, <2>4 DEF ListInv, ValidInv, Named, TrimInv, RewriteInv
  <2>11. EraseInv'
    <3>1. ASSUME NEW i \in Slots, i < job.i + 1 \/ i >= length[k] PROVE entry'[k][i] = None
      <4>1. i \in Nat
        BY <1>2 DEF Slots
      <4> QED
        BY <1>2, <2>3, <3>1, <4>1
    <3> QED
      BY <1>1, <1>2, <1>3, <2>4, <3>1 DEF EraseInv
  <2> QED
    BY <2>4, <2>5, <2>6, <2>7, <2>8, <2>9, <2>10, <2>11 DEF ListInv
<1>4. CASE ~ (job.i < length[k])
  <2>1. /\ entry' = entry /\ job' = [job EXCEPT !.pc = "rewrite", !.i = 0]
    BY <1>4 DEF FullErase
  <2>2. \A i \in Slots : entry[k][i] = None
    <3> TAKE i \in Slots
    <3>1. i \in Nat
      BY <1>2 DEF Slots
    <3> QED
      BY <1>2, <1>4, <3>1
  <2>3. /\ job'.pc = "rewrite" /\ job'.key = k /\ job'.keys = job.keys /\ job'.i = 0
        /\ job'.valid = job.valid /\ job'.target = job.target /\ JobType'
    <3>1. 0 \in 0..MaxLength /\ "rewrite" \in Points
      BY <1>2 DEF Points
    <3> QED
      BY <1>1, <2>1, <3>1 DEF ListInv, JobType, Jobs
  <2>4. TypeOK'
    BY <1>1, <1>2, <2>1, <2>3, ListFacts DEF ListInv, TypeOK
  <2>5. Position'
    BY <1>1, <1>2, <2>3 DEF ListInv, Position
  <2>6. EntriesPlaced'
    <3> SUFFICES ASSUME NEW q \in Keys, NEW i \in Slots, entry[q][i] # None
                 PROVE  Named(q, entry[q][i].height)' /\ Placed(q, entry[q][i].height)'
      BY <2>1 DEF EntriesPlaced
    <3>1. q # k
      BY <2>2
    <3>2. Named(q, entry[q][i].height) /\ Placed(q, entry[q][i].height)
      BY DEF ListInv, EntriesPlaced
    <3> QED
      BY <1>1, <2>1, <2>3, <3>1, <3>2 DEF Named, Placed, Writing
  <2>7. Sorted' /\ DenseOutside'
    BY <1>1, <2>1, <2>3 DEF ListInv, Sorted, DenseOutside, DenseBelow, Inside
  <2>8. ValidInv' /\ TrimInv' /\ EraseInv'
    BY <1>1, <2>3 DEF ListInv, ValidInv, Named, TrimInv, EraseInv
  <2>9. RewriteInv'
    <3>1. Len(job.valid) \in Nat
      BY DEF ListInv, JobType, Jobs
    <3>2. \A i \in Slots : ~ (i < 0)
      BY <1>2 DEF Slots
    <3> QED
      BY <2>1, <2>2, <2>3, <3>1, <3>2 DEF RewriteInv
  <2> QED
    BY <2>3, <2>4, <2>5, <2>6, <2>7, <2>8, <2>9 DEF ListInv
<1> QED
  BY <1>3, <1>4

(* The kept entries are put back from index 0, and the length last. *)
LEMMA RewriteKeepsLists ==
  ASSUME ListInv, FullRewrite
  PROVE  ListInv'
<1> DEFINE k == job.key
           v == job.valid
<1>1. /\ job.pc = "rewrite"
      /\ UNCHANGED <<chain, writes, manifest, indexed, hashAt, current, faults>>
  BY DEF FullRewrite
<1>2. /\ k \in Keys /\ job.i \in 0..MaxLength /\ job.i \in Nat /\ MaxLength \in Nat
      /\ v \in Seq(Entry) /\ Len(v) \in Nat /\ Len(v) <= MaxLength /\ job.i <= Len(v)
      /\ \A i \in Slots : entry[k][i] = IF i < job.i THEN v[i + 1] ELSE None
      /\ None \notin Entry
  BY <1>1, ListFacts DEF ListInv, Position, TypeOK, RewriteInv, ValidInv, JobType, Jobs
<1>3. /\ \A n \in 1..Len(v) :
            v[n] \in Entry /\ v[n].height <= job.target /\ v[n].height <= indexed
            /\ Named(k, v[n].height)
      /\ \A m, n \in 1..Len(v) : m < n => v[m].height <= v[n].height
  BY <1>1, <1>2 DEF ListInv, ValidInv
<1>4. CASE job.i < Len(v)
  <2> DEFINE e == v[job.i + 1]
  <2>1. /\ entry' = [entry EXCEPT ![k][job.i] = e] /\ length' = length
        /\ job' = [job EXCEPT !.i = job.i + 1]
    BY <1>4 DEF FullRewrite
  <2>2. job.i \in Slots /\ job.i + 1 \in 0..MaxLength /\ job.i + 1 \in 1..Len(v) /\ e \in Entry
    BY <1>2, <1>3, <1>4 DEF Slots
  <2>3. /\ entry' \in [Keys -> [Slots -> Entry \cup {None}]]
        /\ \A q \in Keys, i \in Slots :
              entry'[q][i] = IF q = k /\ i = job.i THEN e ELSE entry[q][i]
    <3>1. e \in Entry \cup {None}
      BY <2>2
    <3>2. k \in Keys /\ job.i \in Slots /\ entry' = [entry EXCEPT ![k][job.i] = e]
      BY <1>2, <2>1, <2>2
    <3> HIDE DEF e, k
    <3> QED
      BY <3>1, <3>2, OneEntry
  <2>4. /\ job'.pc = "rewrite" /\ job'.key = k /\ job'.keys = job.keys /\ job'.i = job.i + 1
        /\ job'.valid = v /\ job'.target = job.target /\ JobType'
    BY <1>1, <2>1, <2>2 DEF ListInv, JobType, Jobs
  <2>5. TypeOK'
    BY <1>1, <2>1, <2>2, <2>3, <2>4 DEF ListInv, TypeOK
  <2>6. Position'
    BY <1>1, <1>2, <2>4 DEF ListInv, Position
  <2>7. \A i \in Slots : entry'[k][i] = IF i < job.i + 1 THEN v[i + 1] ELSE None
    <3> TAKE i \in Slots
    <3>1. i \in Nat
      BY <1>2 DEF Slots
    <3> QED
      BY <1>2, <2>3, <3>1
  <2>8. EntriesPlaced'
    <3> SUFFICES ASSUME NEW q \in Keys, NEW i \in Slots, entry'[q][i] # None
                 PROVE  Named(q, entry[q][i].height)' /\ Placed(q, entry[q][i].height)'
      BY DEF EntriesPlaced
    <3>1. CASE q = k
      <4>1. i + 1 \in 1..Len(v) /\ entry'[k][i] = v[i + 1]
        BY <1>2, <1>4, <2>7, <3>1 DEF Slots
      <4>2. /\ v[i + 1] \in Entry
            /\ v[i + 1].height <= job.target /\ v[i + 1].height <= indexed
            /\ Named(k, v[i + 1].height)
        BY <1>3, <4>1
      <4>3. v[i + 1].height \in Nat /\ job.target \in Nat
        BY <4>2, StoreAssumption DEF Entry, Heights, ListInv, JobType, Jobs
      <4> QED
        BY <1>1, <2>4, <3>1, <4>1, <4>2, <4>3 DEF Named, Placed
    <3>2. CASE q # k
      <4>1. Named(q, entry[q][i].height) /\ Placed(q, entry[q][i].height)
            /\ entry'[q][i] = entry[q][i]
        BY <2>3, <3>2 DEF ListInv, EntriesPlaced
      <4> QED
        BY <1>1, <2>4, <4>1 DEF Named, Placed, Writing
    <3> QED
      BY <3>1, <3>2
  <2>9. Sorted'
    <3> SUFFICES ASSUME NEW q \in Keys, NEW i \in Slots, NEW j \in Slots,
                        i < j, entry'[q][i] # None, entry'[q][j] # None
                 PROVE  entry'[q][i].height <= entry'[q][j].height
      BY DEF Sorted
    <3>1. CASE q = k
      <4>1. /\ i + 1 \in 1..Len(v) /\ entry'[k][i] = v[i + 1] /\ i + 1 < j + 1
            /\ j + 1 \in 1..Len(v) /\ entry'[k][j] = v[j + 1]
        BY <1>2, <1>4, <2>7, <3>1 DEF Slots
      <4> QED
        BY <1>3, <3>1, <4>1
    <3>2. CASE q # k
      BY <2>3, <3>2 DEF ListInv, Sorted
    <3> QED
      BY <3>1, <3>2
  <2>10. DenseOutside'
    BY <1>1, <2>1, <2>3, <2>4 DEF ListInv, DenseOutside, DenseBelow, Inside
  <2>11. ValidInv' /\ TrimInv' /\ EraseInv'
    BY <1>1, <2>4 DEF ListInv, ValidInv, Named, TrimInv, EraseInv
  <2>12. RewriteInv'
    BY <1>2, <1>4, <2>4, <2>7 DEF RewriteInv
  <2> QED
    BY <2>4, <2>5, <2>6, <2>8, <2>9, <2>10, <2>11, <2>12 DEF ListInv
<1>5. CASE ~ (job.i < Len(v))
  <2>0. job.i = Len(v)
    BY <1>2, <1>5
  <2>1. /\ entry' = entry /\ length' = [length EXCEPT ![k] = Len(v)]
        /\ job' = [job EXCEPT !.pc = "full", !.key = None, !.i = 0, !.valid = <<>>]
    BY <1>5 DEF FullRewrite
  <2>2. /\ length' \in [Keys -> 0..MaxLength]
        /\ \A q \in Keys : length'[q] = IF q = k THEN Len(v) ELSE length[q]
    BY <1>2, <2>1, ListFacts
  <2>3. /\ job'.pc = "full" /\ job'.keys = job.keys /\ job'.i = 0
        /\ job'.target = job.target /\ JobType'
    <3>1. 0 \in 0..MaxLength /\ "full" \in Points /\ <<>> \in Seq(Entry)
      BY <1>2 DEF Points
    <3> QED
      BY <1>1, <2>1, <3>1 DEF ListInv, JobType, Jobs
  <2>4. TypeOK'
    BY <1>1, <1>2, <2>1, <2>2, <2>3, ListFacts DEF ListInv, TypeOK
  <2>5. Position'
    BY <1>1, <2>3 DEF ListInv, Position
  <2>6. \A i \in Slots : (entry[k][i] # None <=> i < Len(v))
                         /\ (i < Len(v) => i + 1 \in 1..Len(v) /\ entry[k][i] = v[i + 1])
    <3> TAKE i \in Slots
    <3>1. i \in Nat
      BY <1>2 DEF Slots
    <3>2. i < Len(v) => i + 1 \in 1..Len(v)
      BY <1>2, <3>1
    <3>3. i < Len(v) => v[i + 1] # None
      BY <1>2, <1>3, <3>2
    <3> QED
      BY <1>2, <2>0, <3>2, <3>3
  <2>7. EntriesPlaced'
    <3> SUFFICES ASSUME NEW q \in Keys, NEW i \in Slots, entry[q][i] # None
                 PROVE  Named(q, entry[q][i].height)' /\ Placed(q, entry[q][i].height)'
      BY <2>1 DEF EntriesPlaced
    <3>1. Named(q, entry[q][i].height) /\ Placed(q, entry[q][i].height)
      BY DEF ListInv, EntriesPlaced
    <3>2. CASE q = k
      <4>1. entry[q][i].height <= job.target /\ entry[q][i].height \in Nat /\ job.target \in Nat
        <5>1. i + 1 \in 1..Len(v) /\ entry[q][i] = v[i + 1]
          BY <2>6, <3>2
        <5>2. entry[q][i] \in Entry /\ entry[q][i].height <= job.target
          BY <1>3, <5>1
        <5> QED
          BY <5>2, StoreAssumption DEF Entry, Heights, ListInv, JobType, Jobs
      <4> QED
        BY <1>1, <2>1, <2>3, <3>1, <4>1 DEF Named, Placed, Writing
    <3>3. CASE q # k
      BY <1>1, <2>1, <2>3, <3>1, <3>3 DEF Named, Placed, Writing
    <3> QED
      BY <3>2, <3>3
  <2>8. Sorted'
    BY <2>1 DEF ListInv, Sorted
  <2>9. DenseOutside'
    BY <1>1, <2>1, <2>2, <2>6 DEF ListInv, DenseOutside, DenseBelow, Inside
  <2>10. ValidInv' /\ TrimInv' /\ EraseInv' /\ RewriteInv'
    BY <2>3 DEF ValidInv, TrimInv, EraseInv, RewriteInv
  <2> QED
    BY <2>3, <2>4, <2>5, <2>7, <2>8, <2>9, <2>10 DEF ListInv
<1> QED
  BY <1>4, <1>5

(* No list is left: the rollback is done but for the indexed height. *)
LEMMA FullDoneKeepsLists ==
  ASSUME ListInv, FullDone
  PROVE  ListInv'
<1>1. /\ job.pc = "full" /\ job.keys = {}
      /\ job' = [Idle EXCEPT !.pc = "lower", !.target = job.target]
      /\ UNCHANGED <<chain, writes, length, entry, manifest, indexed, hashAt, current, faults>>
  BY DEF FullDone, db
<1>2. job' = [pc |-> "lower", block |-> None, target |-> job.target, height |-> 0,
              keys |-> {}, key |-> None, i |-> 0, newLength |-> 0, valid |-> <<>>]
  BY <1>1 DEF Idle
<1>3. JobType'
  <2>1. "lower" \in Points /\ None \in BlockOrNone /\ 0 \in Heights /\ job.target \in Heights
    BY ListFacts DEF Points, BlockOrNone, Heights, ListInv, JobType, Jobs
  <2> QED
    BY <1>2, <2>1, IdleJob DEF JobType
<1>4. job'.pc = "lower" /\ job'.target = job.target /\ job'.keys = {} /\ job'.i = 0
  BY <1>2
<1>5. TypeOK'
  BY <1>1, <1>4, ListFacts DEF ListInv, TypeOK
<1>6. Position'
  BY <1>4 DEF Position
<1>7. EntriesPlaced'
  <2> SUFFICES ASSUME NEW k \in Keys, NEW i \in Slots, entry[k][i] # None
               PROVE  Named(k, entry[k][i].height)' /\ Placed(k, entry[k][i].height)'
    BY <1>1 DEF EntriesPlaced
  <2>1. Named(k, entry[k][i].height) /\ Placed(k, entry[k][i].height)
    BY DEF ListInv, EntriesPlaced
  <2>2. entry[k][i].height <= job.target
    BY <1>1, <2>1, ListFacts DEF Placed, ListInv, JobType, Jobs, Heights
  <2> QED
    BY <1>1, <1>4, <2>1, <2>2 DEF Named, Placed, Writing
<1>8. Sorted' /\ DenseOutside'
  BY <1>1, <1>4 DEF ListInv, Sorted, DenseOutside, DenseBelow, Inside
<1>9. TrimInv' /\ ValidInv' /\ EraseInv' /\ RewriteInv'
  BY <1>4 DEF TrimInv, ValidInv, EraseInv, RewriteInv
<1> QED
  BY <1>3, <1>5, <1>6, <1>7, <1>8, <1>9 DEF ListInv

(* Every step keeps the invariant. *)
LEMMA ListNext ==
  ASSUME CleanRestarts, ListInv, [Next]_vars
  PROVE  ListInv'
<1>1. CASE NodeStep \/ Accept \/ Flush \/ FlushAgain \/ PutHeight \/ PutHash
  BY <1>1, NodeKeepsLists, AcceptKeepsLists, FlushKeepsLists, FlushAgainKeepsLists,
     PutHeightKeepsLists, PutHashKeepsLists
<1>2. CASE Rollback
  BY <1>2, BeginKeepsLists, FastKeyKeepsLists, TrimKeepsLists, PutLengthKeepsLists,
     FastHeightKeepsLists, FullKeyKeepsLists, EraseKeepsLists, RewriteKeepsLists,
     FullDoneKeepsLists, LowerKeepsLists DEF Rollback
<1>3. CASE Crash
  BY <1>3, CrashKeepsLists
<1>4. CASE UNCHANGED vars
  <2>1. UNCHANGED <<chain, writes, length, entry, manifest, indexed, hashAt, current, job, faults>>
    BY <1>4 DEF vars, db
  <2>2. TypeOK' /\ JobType' /\ Position'
    BY <2>1 DEF ListInv, TypeOK, JobType, Position, Tip
  <2>3. EntriesPlaced' /\ Sorted' /\ DenseOutside'
    BY <2>1 DEF ListInv, EntriesPlaced, Placed, Named, Sorted, DenseOutside, DenseBelow, Inside,
                Writing
  <2>4. TrimInv' /\ ValidInv' /\ EraseInv' /\ RewriteInv'
    BY <2>1 DEF ListInv, TrimInv, ValidInv, EraseInv, RewriteInv, DenseBelow, Named
  <2> QED
    BY <2>2, <2>3, <2>4 DEF ListInv
<1> QED
  BY <1>1, <1>2, <1>3, <1>4 DEF Next

(* The invariant always holds. *)
LEMMA ListAlways == CleanRestarts => (Spec => []ListInv)
<1> SUFFICES ASSUME CleanRestarts PROVE Spec => []ListInv
  OBVIOUS
<1>1. ListInv /\ [Next]_vars => ListInv'
  BY ListNext
<1> QED
  BY <1>1, ListInit, PTL DEF Spec

(* Type correctness. *)
THEOREM TypeThroughRollbacks == CleanRestarts => (Spec => []TypeOK)
<1>1. ListInv => TypeOK
  BY DEF ListInv
<1> QED
  BY <1>1, ListAlways, PTL

(* A rollback from manifests and one by a full scan leave the heights of    *)
(* every list in order, as do the blocks of the new branch written after    *)
(* them (rollback.rs, "entries are ordered by height").                     *)
THEOREM OrderedThroughRollbacks == CleanRestarts => (Spec => []EntriesOrdered)
<1>1. ListInv => EntriesOrdered
  <2> SUFFICES ASSUME ListInv, NEW k \in Keys, NEW i \in 0..length[k] - 1,
                      NEW j \in 0..length[k] - 1, i < j, entry[k][i] # None, entry[k][j] # None
               PROVE  entry[k][i].height <= entry[k][j].height
    BY DEF EntriesOrdered
  <2>1. i \in Slots /\ j \in Slots
    BY ListFacts DEF Slots
  <2> QED
    BY <2>1 DEF ListInv, Sorted
<1> QED
  BY <1>1, ListAlways, PTL

(* Before and after any number of rollbacks every list is its indices up to *)
(* its length: no entry is left over, none is missing (rollback.rs).        *)
THEOREM DenseThroughRollbacks == CleanRestarts => (Spec => []ListsDense)
<1>1. ListInv => ListsDense
  BY DEF ListInv, DenseOutside, DenseBelow, Inside, RollingBack, ListsDense
<1> QED
  BY <1>1, ListAlways, PTL

(* The next rollback finds every entry in the manifest of its height, also  *)
(* after a full scan, which deletes no manifest (rollback.rs).              *)
THEOREM ManifestsThroughRollbacks == CleanRestarts => (Spec => []ManifestsComplete)
<1>1. ListInv => ManifestsComplete
  <2> SUFFICES ASSUME ListInv, ~RollingBack, NEW k \in Keys, NEW i \in 0..length[k] - 1
               PROVE  Named(k, entry[k][i].height)
    BY DEF ManifestsComplete, Named
  <2>1. i \in Slots /\ i < length[k]
    BY ListFacts DEF Slots
  <2>2. entry[k][i] # None
    BY <2>1 DEF ListInv, DenseOutside, DenseBelow, Inside, RollingBack
  <2> QED
    BY <2>1, <2>2 DEF ListInv, EntriesPlaced
<1> QED
  BY <1>1, ListAlways, PTL

=============================================================================
