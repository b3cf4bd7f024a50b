------------------------ MODULE AppendStoreReadProofs ------------------------
(***************************************************************************)
(* Theorems about what the append-only store's readers see: the binary     *)
(* search of get_at_height finds the latest write up to a height, in any   *)
(* state that flushes, crashes and rollbacks lead to, and the store        *)
(* implements the versioned map of VersionedKV.                            *)
(***************************************************************************)
EXTENDS AppendStoreProofs

(* The binary search, on the list and the length it reads. *)

(* The middle of a range, and the range above it or below it. *)
Middle(s) == (s.left + s.right) \div 2
UpperHalf(list, s) == [s EXCEPT !.left = Middle(s) + 1, !.best = list[Middle(s)].value]
LowerHalf(s) == [s EXCEPT !.right = Middle(s)]

Pass(list, h, f, s) ==
    IF s.left >= s.right THEN s.best
    ELSE IF list[Middle(s)] = None THEN "error"
    ELSE IF list[Middle(s)].height <= h THEN f[UpperHalf(list, s)]
    ELSE f[LowerHalf(s)]

Whole(n) == [left |-> 0, right |-> n, best |-> None]

Lookup(list, n, h) ==
    (CHOOSE f : f = [s \in Search |-> Pass(list, h, f, s)])[Whole(n)]

(* get_at_height is the search of the list and the length of the key, now ... *)
LEMMA GetIsLookup ==
  ASSUME NEW k, NEW h
  PROVE  GetAtHeight(k, h) = Lookup(entry[k], length[k], h)
BY DEF GetAtHeight, Lookup, Whole, Pass, Middle, UpperHalf, LowerHalf

(* ... and after a step. *)
LEMMA GetIsLookupNext ==
  ASSUME NEW k, NEW h
  PROVE  GetAtHeight(k, h)' = Lookup(entry'[k], length'[k], h)
BY DEF GetAtHeight, Lookup, Whole, Pass, Middle, UpperHalf, LowerHalf

(* A pass looks inside the range and narrows it. *)
LEMMA PassNarrows ==
  ASSUME NEW list \in [Slots -> Entry \cup {None}], NEW s \in Search, s.left < s.right
  PROVE  /\ Middle(s) \in Slots /\ s.left <= Middle(s) /\ Middle(s) < s.right
         /\ LowerHalf(s) \in Search /\ LowerHalf(s).left = s.left
         /\ LowerHalf(s).right = Middle(s) /\ LowerHalf(s).best = s.best
         /\ list[Middle(s)] # None =>
              /\ UpperHalf(list, s) \in Search /\ UpperHalf(list, s).left = Middle(s) + 1
              /\ UpperHalf(list, s).right = s.right
              /\ UpperHalf(list, s).best = list[Middle(s)].value
<1> DEFINE m == Middle(s)
<1>1. /\ MaxLength \in Nat /\ s.left \in 0..MaxLength /\ s.right \in 0..MaxLength
      /\ s.best \in BlockOrNone /\ s = [left |-> s.left, right |-> s.right, best |-> s.best]
  BY StoreAssumption DEF Search
<1>2. m \in Nat /\ s.left <= m /\ m < s.right
  BY <1>1 DEF Middle
<1>3. m \in Slots
  BY <1>1, <1>2 DEF Slots
<1>4. list[m] # None => list[m].value \in BlockOrNone
  BY <1>3 DEF Entry, BlockOrNone
<1> HIDE DEF m
<1>5. LowerHalf(s) = [left |-> s.left, right |-> m, best |-> s.best]
  BY <1>1 DEF LowerHalf, m
<1>6. UpperHalf(list, s) = [left |-> m + 1, right |-> s.right, best |-> list[m].value]
  <2>1. PICK l, r, b : s = [left |-> l, right |-> r, best |-> b]
    BY <1>1
  <2>2. \A x, v : [s EXCEPT !.left = x, !.best = v] = [left |-> x, right |-> s.right, best |-> v]
    <3>1. ASSUME NEW x, NEW v
          PROVE  [s EXCEPT !.left = x, !.best = v] = [[s EXCEPT !.left = x] EXCEPT !.best = v]
      OBVIOUS
    <3>2. \A x : [s EXCEPT !.left = x] = [left |-> x, right |-> r, best |-> b]
      BY <2>1
    <3>3. \A x, v : [[left |-> x, right |-> r, best |-> b] EXCEPT !.best = v]
                      = [left |-> x, right |-> r, best |-> v]
      OBVIOUS
    <3> QED
      BY <2>1, <3>1, <3>2, <3>3
  <2> QED
    BY <2>2 DEF UpperHalf, m
<1>7. /\ [left |-> s.left, right |-> m, best |-> s.best] \in Search
      /\ list[m] # None => [left |-> m + 1, right |-> s.right, best |-> list[m].value] \in Search
  BY <1>1, <1>2, <1>4 DEF Search
<1> QED
  BY <1>2, <1>3, <1>5, <1>6, <1>7 DEF m

(* The search is a total function: the range it is left with gets smaller. *)
LEMMA SearchExists ==
  ASSUME NEW list \in [Slots -> Entry \cup {None}], NEW h
  PROVE  \E f : f = [s \in Search |-> Pass(list, h, f, s)]
<1> DEFINE Upto(f, n) == \A s \in Search : s.right - s.left < n => f[s] = Pass(list, h, f, s)
           S == {n \in Nat : \E f : Upto(f, n)}
<1>0. MaxLength \in Nat /\ \A s \in Search : s.left \in 0..MaxLength /\ s.right \in 0..MaxLength
  BY StoreAssumption DEF Search
<1>1. 0 \in S
  <2> DEFINE f == [s \in Search |-> s.best]
  <2>1. Upto(f, 0)
    BY <1>0 DEF Pass
  <2> QED
    BY <2>1
<1>2. ASSUME NEW n \in S PROVE n + 1 \in S
  <2>1. PICK f : Upto(f, n)
    OBVIOUS
  <2> DEFINE g == [s \in Search |-> Pass(list, h, f, s)]
  <2>2. \A s \in Search : s.right - s.left < n => g[s] = f[s]
    BY <2>1
  <2>3. ASSUME NEW s \in Search, s.right - s.left < n + 1
        PROVE  Pass(list, h, g, s) = Pass(list, h, f, s)
    <3>1. CASE s.left >= s.right
      BY <3>1 DEF Pass
    <3>2. CASE s.left < s.right
      <4>1. /\ s.left <= Middle(s) /\ Middle(s) < s.right /\ Middle(s) \in Nat
            /\ LowerHalf(s) \in Search /\ LowerHalf(s).left = s.left
            /\ LowerHalf(s).right = Middle(s)
            /\ list[Middle(s)] # None =>
                 /\ UpperHalf(list, s) \in Search /\ UpperHalf(list, s).left = Middle(s) + 1
                 /\ UpperHalf(list, s).right = s.right
        BY <1>0, <3>2, PassNarrows DEF Slots
      <4>2. /\ LowerHalf(s).right - LowerHalf(s).left < n
            /\ list[Middle(s)] # None => UpperHalf(list, s).right - UpperHalf(list, s).left < n
        BY <1>0, <2>3, <4>1
      <4>3. /\ g[LowerHalf(s)] = f[LowerHalf(s)]
            /\ list[Middle(s)] # None => g[UpperHalf(list, s)] = f[UpperHalf(list, s)]
        BY <2>2, <4>1, <4>2
      <4> HIDE DEF g
      <4> QED
        BY <4>3 DEF Pass
    <3> QED
      BY <1>0, <3>1, <3>2
  <2>4. Upto(g, n + 1)
    <3> SUFFICES ASSUME NEW s \in Search, s.right - s.left < n + 1
                 PROVE  g[s] = Pass(list, h, g, s)
      OBVIOUS
    <3> QED
      BY <2>3
  <2> HIDE DEF g
  <2> QED
    BY <2>4
<1>3. MaxLength + 1 \in S
  <2> HIDE DEF S
  <2>1. S \in SUBSET Nat
    BY DEF S
  <2> QED
    BY <1>0, <1>1, <1>2, <2>1, Induction
<1>4. PICK f : Upto(f, MaxLength + 1)
  BY <1>3
<1> DEFINE g == [s \in Search |-> f[s]]
<1>5. \A s \in Search : f[s] = Pass(list, h, f, s)
  BY <1>0, <1>4
<1>6. ASSUME NEW s \in Search PROVE Pass(list, h, g, s) = Pass(list, h, f, s)
  <2>1. CASE s.left >= s.right
    BY <2>1 DEF Pass
  <2>2. CASE s.left < s.right
    <3>1. /\ g[LowerHalf(s)] = f[LowerHalf(s)]
          /\ list[Middle(s)] # None => g[UpperHalf(list, s)] = f[UpperHalf(list, s)]
      BY <2>2, PassNarrows
    <3> HIDE DEF g
    <3> QED
      BY <3>1 DEF Pass
  <2> QED
    BY <1>0, <2>1, <2>2
<1>7. g = [s \in Search |-> Pass(list, h, g, s)]
  BY <1>5, <1>6
<1> QED
  BY <1>7

(* So every search is a pass and the search of the half it leaves. *)
LEMMA SearchUnfolds ==
  ASSUME NEW list \in [Slots -> Entry \cup {None}], NEW h
  PROVE  \E f : /\ \A s \in Search : f[s] = Pass(list, h, f, s)
                /\ \A n : Lookup(list, n, h) = f[Whole(n)]
<1> DEFINE Eq(f) == f = [s \in Search |-> Pass(list, h, f, s)]
           f == CHOOSE f : Eq(f)
<1>1. Eq(f)
  <2>1. \E g : Eq(g)
    BY SearchExists
  <2>2. (\E g : Eq(g)) => Eq(f)
    <3> HIDE DEF Eq
    <3> QED
      OBVIOUS
  <2> QED
    BY <2>1, <2>2
<1>2. \A n : Lookup(list, n, h) = f[Whole(n)]
  BY DEF Lookup
<1> HIDE DEF f
<1>3. \A s \in Search : f[s] = Pass(list, h, f, s)
  BY <1>1
<1> QED
  BY <1>2, <1>3

(* The value of the last entry below the cut. *)
LastBelow(list, c) == IF c = 0 THEN None ELSE list[c - 1].value

(* The loop invariant of the search: the cut is within the range, and the   *)
(* best value is that of the entry below the range.                         *)
LEMMA SearchFinds ==
  ASSUME NEW list \in [Slots -> Entry \cup {None}], NEW n \in 0..MaxLength,
         NEW h \in Nat, NEW c, Cut(list, n, h, c)
  PROVE  Lookup(list, n, h) = LastBelow(list, c)
<1>0. MaxLength \in Nat /\ n \in Nat /\ c \in Nat /\ c <= n
      /\ \A s \in Search : s.left \in 0..MaxLength /\ s.right \in 0..MaxLength
  BY StoreAssumption DEF Search, Cut
<1>1. PICK f : /\ \A s \in Search : f[s] = Pass(list, h, f, s)
               /\ Lookup(list, n, h) = f[Whole(n)]
  BY SearchUnfolds
<1> DEFINE Loop(s) == /\ s.left <= c /\ c <= s.right /\ s.right <= n
                      /\ s.best = LastBelow(list, s.left)
           S == {d \in Nat : \A s \in Search :
                    Loop(s) /\ s.right - s.left <= d => f[s] = LastBelow(list, c)}
<1>2. ASSUME NEW s \in Search, Loop(s), s.left = s.right PROVE f[s] = LastBelow(list, c)
  <2>1. s.left = c
    BY <1>0, <1>2
  <2> QED
    BY <1>0, <1>1, <1>2, <2>1 DEF Pass
<1>3. 0 \in S
  BY <1>0, <1>2
<1>4. ASSUME NEW d \in S, NEW s \in Search, Loop(s), s.right - s.left <= d + 1
      PROVE  f[s] = LastBelow(list, c)
  <2>1. CASE s.left = s.right
    BY <1>2, <1>4, <2>1
  <2>2. CASE s.left < s.right
    <3> DEFINE m == Middle(s)
    <3>1. /\ m \in Slots /\ m \in Nat /\ s.left <= m /\ m < s.right
          /\ LowerHalf(s) \in Search /\ LowerHalf(s).left = s.left
          /\ LowerHalf(s).right = m /\ LowerHalf(s).best = s.best
          /\ list[m] # None =>
               /\ UpperHalf(list, s) \in Search /\ UpperHalf(list, s).left = m + 1
               /\ UpperHalf(list, s).right = s.right
               /\ UpperHalf(list, s).best = list[m].value
      BY <1>0, <2>2, PassNarrows DEF Slots
    <3> HIDE DEF m
    <3>2. /\ list[m] # None /\ list[m].height \in Int
          /\ list[m].height <= h <=> m < c
      <4>1. m \in 0..c - 1 \/ m \in c..n - 1
        BY <1>0, <1>4, <3>1
      <4>2. list[m] # None
        BY <4>1 DEF Cut
      <4>3. list[m].height \in Nat
        BY <3>1, <4>2, StoreAssumption DEF Entry, Heights
      <4> QED
        BY <1>0, <4>1, <4>2, <4>3 DEF Cut
    <3>3. CASE m < c
      <4>1. Loop(UpperHalf(list, s)) /\ UpperHalf(list, s).right - UpperHalf(list, s).left <= d
        BY <1>0, <1>4, <3>1, <3>2, <3>3 DEF LastBelow
      <4>2. f[UpperHalf(list, s)] = LastBelow(list, c)
        BY <3>1, <3>2, <4>1
      <4> QED
        BY <1>0, <1>1, <2>2, <3>2, <3>3, <4>2 DEF Pass, m
    <3>4. CASE ~ (m < c)
      <4>1. Loop(LowerHalf(s)) /\ LowerHalf(s).right - LowerHalf(s).left <= d
        BY <1>0, <1>4, <3>1, <3>4
      <4>2. f[LowerHalf(s)] = LastBelow(list, c)
        BY <3>1, <4>1
      <4> QED
        BY <1>0, <1>1, <2>2, <3>2, <3>4, <4>2 DEF Pass, m
    <3> QED
      BY <3>3, <3>4
  <2> QED
    BY <1>0, <1>4, <2>1, <2>2
<1>5. \A d \in Nat : d \in S
  <2>1. \A d \in S : d + 1 \in S
    BY <1>4
  <2>2. S \in SUBSET Nat
    OBVIOUS
  <2> HIDE DEF S
  <2> QED
    BY <1>3, <2>1, <2>2, Induction
<1>6. Whole(n) \in Search /\ Loop(Whole(n)) /\ Whole(n).right - Whole(n).left <= n
  BY <1>0 DEF Whole, Search, BlockOrNone, LastBelow
<1> QED
  BY <1>0, <1>1, <1>5, <1>6

-----------------------------------------------------------------------------
(* The reads through rollbacks. *)

(* All chains have the same first indexed block, unless it is block 1. *)
FirstStays == StartBlock = 1 \/ \A c, d \in Chains : c[StartBlock + 1] = d[StartBlock + 1]

(* Nor does a restart find a height without its hash, or half rolled back.  *)
WholeRestarts == CleanRestarts /\ FirstStays /\ CrashAt \subseteq {"idle", "flush"}

(* A block is being written; the block that a height belongs to. *)
Busy == job.pc \in {"flush", "height", "hash"}
Owner(h) == IF Busy /\ h = current THEN job.block ELSE hashAt[h]

(* Nothing, or at least the first height, is indexed. *)
Started(h) == h = 0 \/ h >= StartBlock

(* The engine goes on where a restart would, and writes a block that        *)
(* extends the stored hash below it.                                        *)
Standing ==
    /\ Started(indexed)
    /\ job.pc = "hash" => indexed >= StartBlock
    /\ job.pc # "hash" => current = ResumeHeight(indexed)
    /\ RollingBack => job.target < indexed /\ Started(job.target)
             /\ (job.target = 0 => StartBlock = 1)
    /\ Busy => \E c \in Chains : current < Len(c) /\ job.block = c[current + 1]
    /\ (Busy /\ current > StartBlock) => Parent[job.block] = hashAt[current - 1]

(* Every visible height has a hash, and every hash is of some chain. *)
Hashed ==
    /\ \A h \in Heights : hashAt[h] # None =>
          h >= StartBlock /\ \E c \in Chains : h < Len(c) /\ hashAt[h] = c[h + 1]
    /\ \A h \in StartBlock..Visible : hashAt[h] # None

(* An entry is the write of the block its height belongs to. *)
Owned(k, e) ==
    e.height >= StartBlock /\ e.value = Owner(e.height) /\ k \in writes[e.value]

EntriesOwned ==
    /\ \A k \in Keys, i \in Slots : entry[k][i] # None => Owned(k, entry[k][i])
    /\ job.pc \in {"erase", "rewrite"} =>
          \A n \in 1..Len(job.valid) : Owned(job.key, job.valid[n])

(* The list has an entry of the height, in the database or in hand. *)
Has(k, h) ==
    IF k = job.key /\ job.pc \in {"erase", "rewrite"}
    THEN \E n \in 1..Len(job.valid) : job.valid[n].height = h
    ELSE \E i \in Slots : entry[k][i] # None /\ entry[k][i].height = h

(* The heights whose writes are all stored and will stay. *)
Settled(h) ==
    \/ h <= indexed /\ (RollingBack => h <= job.target)
    \/ job.pc = "height" /\ h = current

Stored ==
    \A k \in Keys, h \in Heights :
        h >= StartBlock /\ Settled(h) /\ k \in writes[Owner(h)] => Has(k, h)

(* The invariant of the reads. *)
ReadInv == ListInv /\ Standing /\ Hashed /\ EntriesOwned /\ Stored

-----------------------------------------------------------------------------

(* It holds in the initial states, *)
LEMMA ReadInit == Init => ReadInv
<1> SUFFICES ASSUME Init PROVE ReadInv
  OBVIOUS
<1>1. ListInv
  BY ListInit
<1>2. StartBlock \in Nat \ {0} /\ MaxHeight \in Nat
  BY StoreAssumption
<1>3. job.pc = "idle" /\ indexed = 0 /\ ~Busy /\ ~RollingBack /\ current = ResumeHeight(indexed)
  BY DEF Init, Idle, Busy, RollingBack
<1>4. Standing
  BY <1>2, <1>3 DEF Standing, Started
<1>5. Hashed
  BY <1>2, <1>3 DEF Init, Hashed, Visible
<1>6. EntriesOwned
  BY <1>3 DEF Init, EntriesOwned
<1>7. ASSUME NEW h \in Heights, h >= StartBlock PROVE ~Settled(h)
  <2>1. h \in Nat /\ h > indexed
    BY <1>2, <1>3, <1>7 DEF Heights
  <2> QED
    BY <1>3, <2>1 DEF Settled
<1>8. Stored
  BY <1>7 DEF Stored
<1> QED
  BY <1>1, <1>4, <1>5, <1>6, <1>8 DEF ReadInv

(* The heights an idle or writing engine works at. *)
LEMMA ReadFacts ==
  ASSUME ReadInv
  PROVE  /\ ListInv
         /\ ~RollingBack <=> job.pc \in {"idle", "flush", "height", "hash"}
         /\ job.pc \in {"flush", "height"} => current >= StartBlock /\ Visible = indexed
         /\ job.pc = "hash" => current >= StartBlock /\ indexed = current
                               /\ Visible = IF current = StartBlock THEN 0 ELSE current - 1
         /\ job.pc # "hash" => Visible = indexed
         /\ Visible \in Nat /\ Visible <= indexed /\ (Busy => Visible < current)
         /\ \A h \in StartBlock..indexed : h \in Heights
<1>1. ListInv
  BY DEF ReadInv
<1>2. ~RollingBack <=> job.pc \in {"idle", "flush", "height", "hash"}
  BY DEF RollingBack
<1>3. job.pc # "hash" => current = ResumeHeight(indexed)
  BY DEF ReadInv, Standing
<1>4. job.pc = "hash" => indexed = current /\ indexed >= StartBlock
  BY <1>1 DEF ReadInv, Standing, ListInv, Position
<1>5. job.pc \in {"flush", "height"} => indexed < current
  BY <1>1 DEF ListInv, Position
<1>6. /\ StartBlock \in Nat \ {0} /\ MaxHeight \in Nat /\ indexed \in Nat /\ current \in Nat
      /\ indexed <= MaxHeight
  BY <1>1, ListFacts DEF Heights
<1>7. job.pc # "hash" => current >= StartBlock
  BY <1>3, <1>6 DEF ResumeHeight
<1>8. \A h \in StartBlock..indexed : h \in Heights
  BY <1>6 DEF Heights
<1> QED
  BY <1>1, <1>2, <1>4, <1>5, <1>6, <1>7, <1>8 DEF Visible, Busy

(* when the node moves, *)
LEMMA NodeKeepsReads ==
  ASSUME ReadInv, ListInv', NodeStep
  PROVE  ReadInv'
BY DEF NodeStep, db, ReadInv, Standing, Started, Busy, RollingBack, Hashed, Visible, EntriesOwned,
       Owned, Owner, Stored, Settled, Has

(* when a block is accepted: it extends the hash of the height below, *)
LEMMA AcceptKeepsReads ==
  ASSUME ReadInv, ListInv', Accept
  PROVE  ReadInv'
<1>1. /\ job.pc = "idle" /\ current <= Tip
      /\ hashAt[current - 1] \in {None, Parent[BlockAt(current)]}
      /\ job' = [Idle EXCEPT !.pc = "flush", !.block = BlockAt(current)]
      /\ UNCHANGED <<chain, writes, length, entry, manifest, indexed, hashAt, current, faults>>
  BY DEF Accept, db
<1>2. /\ job'.pc = "flush" /\ job'.block = BlockAt(current)
      /\ ~Busy /\ ~RollingBack /\ Busy' /\ ~RollingBack'
  BY <1>1 DEF Idle, Busy, RollingBack
<1>3. /\ StartBlock \in Nat /\ indexed \in Nat /\ current \in Nat
      /\ current = ResumeHeight(indexed) /\ Started(indexed) /\ Visible = indexed
      /\ indexed < current /\ chain \in Chains
  BY <1>1, ReadFacts, ListFacts DEF ReadInv, Standing, ListInv, Position, TypeOK
<1>4. \E c \in Chains : current < Len(c) /\ job'.block = c[current + 1]
  BY <1>1, <1>2, <1>3, ChainShape DEF Tip, BlockAt
<1>5. current > StartBlock => Parent[job'.block] = hashAt[current - 1]
  <2> SUFFICES ASSUME current > StartBlock PROVE Parent[job'.block] = hashAt[current - 1]
    OBVIOUS
  <2>1. current - 1 = indexed /\ indexed \in StartBlock..Visible
    BY <1>3 DEF ResumeHeight
  <2>2. hashAt[current - 1] # None
    BY <2>1 DEF ReadInv, Hashed
  <2> QED
    BY <1>1, <1>2, <2>2
<1>6. Standing'
  BY <1>1, <1>2, <1>3, <1>4, <1>5 DEF ReadInv, Standing, Started, ResumeHeight
<1>7. Hashed'
  BY <1>1, <1>2 DEF ReadInv, Hashed, Visible
<1>8. ASSUME NEW h \in Nat, h <= indexed PROVE Owner(h)' = Owner(h)
  BY <1>1, <1>2, <1>3, <1>8 DEF Owner
<1>9. EntriesOwned'
  <2> SUFFICES ASSUME NEW k \in Keys, NEW i \in Slots, entry[k][i] # None
               PROVE  Owned(k, entry[k][i])'
    BY <1>1, <1>2 DEF EntriesOwned
  <2>1. Owned(k, entry[k][i])
    BY DEF ReadInv, EntriesOwned
  <2>2. entry[k][i].height \in Nat /\ entry[k][i].height <= indexed
    BY <1>1, ListFacts DEF ReadInv, ListInv, EntriesPlaced, Placed, Writing
  <2>3. (IF Busy' /\ entry[k][i].height = current' THEN job'.block ELSE hashAt'[entry[k][i].height])
          = Owner(entry[k][i].height)
    BY <1>1, <1>2, <1>3, <2>2 DEF Owner
  <2> QED
    BY <1>1, <2>1, <2>3 DEF Owned, Owner
<1>10. Stored'
  <2> SUFFICES ASSUME NEW k \in Keys, NEW h \in Heights, h >= StartBlock, Settled(h)',
                      k \in writes[Owner(h)']
               PROVE  Has(k, h)'
    BY <1>1 DEF Stored
  <2>1. h <= indexed /\ h \in Nat
    BY <1>1, <1>2, ListFacts DEF Settled, Heights, ReadInv
  <2>2. Has(k, h)
    BY <1>2, <1>8, <2>1 DEF ReadInv, Stored, Settled
  <2> QED
    BY <1>1, <1>2, <2>2 DEF Has
<1> QED
  BY <1>6, <1>7, <1>9, <1>10 DEF ReadInv

(* What a batch does to the entries. *)
LEMMA BatchEntries ==
  ASSUME ListInv, job.pc = "flush", HasRoom(job.block), FlushBatch(job.block, current)
  PROVE  LET b == job.block
             e == [height |-> current, value |-> b]
         IN /\ e # None
            /\ \A k \in Keys, i \in Slots :
                  \/ entry'[k][i] = entry[k][i]
                  \/ k \in writes[b] /\ i = length[k] /\ entry[k][i] = None /\ entry'[k][i] = e
            /\ \A k \in writes[b] : length[k] \in Slots /\ entry'[k][length[k]] = e
            /\ \A k \in Keys : length'[k] = IF k \in writes[b] THEN length[k] + 1 ELSE length[k]
<1> DEFINE b == job.block
           e == [height |-> current, value |-> b]
<1>1. current \in Heights /\ b \in Blocks /\ writes[b] \in SUBSET Keys
  BY ListFacts DEF ListInv, Position, Heights
<1>2. e \in Entry /\ e # None
  BY <1>1, ListFacts DEF Entry
<1>3. /\ MaxLength \in Nat /\ length \in [Keys -> 0..MaxLength]
      /\ entry \in [Keys -> [Slots -> Entry \cup {None}]]
  BY ListFacts
<1>4. \A k \in writes[b] : k \in Keys /\ length[k] \in Slots
  BY <1>1, <1>3 DEF HasRoom, Slots
<1>5. ASSUME NEW k \in Keys, k \in writes[b]
      PROVE  \A i \in Slots : entry'[k][i] = IF i = length[k] THEN e ELSE entry[k][i]
  <2>1. entry[k] \in [Slots -> Entry \cup {None}]
    BY <1>3
  <2>2. entry'[k] = [entry[k] EXCEPT ![length[k]] = e]
    BY <1>5 DEF FlushBatch
  <2> QED
    BY <2>1, <2>2
<1>6. \A k \in Keys : k \notin writes[b] => entry'[k] = entry[k]
  BY DEF FlushBatch
<1>7. \A k \in writes[b] : entry[k][length[k]] = None
  <2> TAKE k \in writes[b]
  <2>1. k \in Keys /\ length[k] \in Slots /\ length[k] \in Nat
    BY <1>3, <1>4
  <2>2. DenseBelow(k, length[k])
    BY <2>1 DEF ListInv, DenseOutside, Inside
  <2> QED
    BY <2>1, <2>2 DEF DenseBelow
<1>8. \A k \in Keys, i \in Slots :
         \/ entry'[k][i] = entry[k][i]
         \/ k \in writes[b] /\ i = length[k] /\ entry[k][i] = None /\ entry'[k][i] = e
  <2> HIDE DEF e, b
  <2> QED
    BY <1>5, <1>6, <1>7
<1>9. \A k \in writes[b] : length[k] \in Slots /\ entry'[k][length[k]] = e
  <2> HIDE DEF e, b
  <2> QED
    BY <1>4, <1>5
<1>10. \A k \in Keys : length'[k] = IF k \in writes[b] THEN length[k] + 1 ELSE length[k]
  BY DEF FlushBatch
<1> QED
  BY <1>2, <1>8, <1>9, <1>10

(* The batch adds entries of the block at its height. *)
LEMMA BatchKeepsReads ==
  ASSUME ReadInv, ListInv', job.pc = "flush", HasRoom(job.block), FlushBatch(job.block, current),
         UNCHANGED <<chain, writes, indexed, hashAt, current>>,
         job'.pc \in {"flush", "height"}, job'.block = job.block
  PROVE  ReadInv'
<1> DEFINE b == job.block
           e == [height |-> current, value |-> b]
<1>1. /\ e # None
      /\ \A k \in Keys, i \in Slots :
            \/ entry'[k][i] = entry[k][i]
            \/ k \in writes[b] /\ i = length[k] /\ entry[k][i] = None /\ entry'[k][i] = e
      /\ \A k \in writes[b] : length[k] \in Slots /\ entry'[k][length[k]] = e
  BY BatchEntries, ReadFacts
<1>2. e.height = current /\ e.value = b
  OBVIOUS
<1>3. /\ Busy /\ Busy' /\ ~RollingBack /\ ~RollingBack'
      /\ current >= StartBlock /\ current \in Nat
  BY ReadFacts, ListFacts DEF Busy, RollingBack
<1>4. Standing'
  BY <1>3 DEF ReadInv, Standing, Started, ResumeHeight
<1>5. Hashed'
  BY DEF ReadInv, Hashed, Visible
<1>6. \A h : Owner(h)' = Owner(h)
  BY <1>3 DEF Owner
<1>7. Owner(current) = b
  BY <1>3 DEF Owner
<1> HIDE DEF e
<1>8. EntriesOwned'
  <2> SUFFICES ASSUME NEW k \in Keys, NEW i \in Slots, entry'[k][i] # None
               PROVE  Owned(k, entry[k][i])'
    BY <1>3 DEF EntriesOwned, Busy, RollingBack
  <2>1. CASE entry'[k][i] = entry[k][i]
    <3>1. Owned(k, entry[k][i])
      BY <2>1 DEF ReadInv, EntriesOwned
    <3>2. \A h : IF Busy' /\ h = current' THEN job'.block = Owner(h) ELSE hashAt'[h] = Owner(h)
      BY <1>6 DEF Owner
    <3> QED
      BY <2>1, <3>1, <3>2 DEF Owned, Owner
  <2>2. CASE k \in writes[b] /\ entry'[k][i] = e
    BY <1>2, <1>3, <2>2 DEF Owned, Owner
  <2> QED
    BY <1>1, <2>1, <2>2
<1>9. Stored'
  <2> SUFFICES ASSUME NEW k \in Keys, NEW h \in Heights, h >= StartBlock, Settled(h)',
                      k \in writes[Owner(h)']
               PROVE  Has(k, h)'
    BY DEF Stored
  <2>1. CASE h <= indexed
    <3>1. Has(k, h)
      BY <1>3, <1>6, <2>1 DEF ReadInv, Stored, Settled
    <3>2. PICK i \in Slots : entry[k][i] # None /\ entry[k][i].height = h
      BY <3>1 DEF Has
    <3>3. entry'[k][i] = entry[k][i]
      BY <1>1, <3>2
    <3> QED
      BY <3>2, <3>3 DEF Has
  <2>2. CASE h = current
    BY <1>1, <1>2, <1>6, <1>7, <2>2 DEF Has
  <2> QED
    BY <2>1, <2>2 DEF Settled
<1> QED
  BY <1>4, <1>5, <1>8, <1>9 DEF ReadInv

(* The first flush and a repeated one. *)
LEMMA FlushKeepsReads ==
  ASSUME ReadInv, ListInv', Flush \/ FlushAgain
  PROVE  ReadInv'
<1>1. job.pc = "flush" /\ JobType
  BY DEF Flush, FlushAgain, ReadInv, ListInv
<1>2. job'.pc \in {"flush", "height"} /\ job'.block = job.block
  BY <1>1 DEF Flush, FlushAgain, JobType, Jobs
<1> QED
  BY <1>1, <1>2, BatchKeepsReads DEF Flush, FlushAgain

(* The height is stored: readers do not see it yet. *)
LEMMA PutHeightKeepsReads ==
  ASSUME ReadInv, ListInv', PutHeight
  PROVE  ReadInv' /\ Visible' = Visible
<1>1. /\ job.pc = "height" /\ job' = [job EXCEPT !.pc = "hash"] /\ indexed' = current
      /\ UNCHANGED <<chain, writes, length, entry, manifest, hashAt, current, faults>>
  BY DEF PutHeight
<1>2. job'.pc = "hash" /\ job'.block = job.block
  BY <1>1 DEF ReadInv, ListInv, JobType, Jobs
<1>3. /\ Busy /\ Busy' /\ ~RollingBack /\ ~RollingBack'
      /\ current >= StartBlock /\ current \in Nat /\ indexed \in Nat /\ StartBlock \in Nat \ {0}
      /\ current = ResumeHeight(indexed) /\ Started(indexed)
  BY <1>1, <1>2, ReadFacts, ListFacts DEF Busy, RollingBack, ReadInv, Standing
<1>4. Visible' = Visible
  BY <1>1, <1>2, <1>3 DEF Visible, ResumeHeight, Started
<1>5. Standing'
  BY <1>1, <1>2, <1>3 DEF ReadInv, Standing, Started
<1>6. Hashed'
  BY <1>1, <1>4 DEF ReadInv, Hashed
<1>7. \A h : Owner(h)' = Owner(h)
  BY <1>1, <1>2, <1>3 DEF Owner
<1>8. EntriesOwned'
  BY <1>1, <1>2, <1>3 DEF ReadInv, EntriesOwned, Owned, Owner
<1>9. Stored'
  <2> SUFFICES ASSUME NEW k \in Keys, NEW h \in Heights, h >= StartBlock, Settled(h)',
                      k \in writes[Owner(h)']
               PROVE  Has(k, h)'
    BY <1>1 DEF Stored
  <2>1. h <= current /\ h \in Nat
    BY <1>1, <1>2, <1>3, ListFacts DEF Settled, Heights, ReadInv
  <2>2. h <= indexed \/ h = current
    BY <1>3, <2>1 DEF ResumeHeight
  <2>3. Has(k, h)
    BY <1>1, <1>3, <1>7, <2>2 DEF ReadInv, Stored, Settled
  <2> QED
    BY <1>1, <1>2, <2>3 DEF Has
<1> QED
  BY <1>4, <1>5, <1>6, <1>8, <1>9 DEF ReadInv

(* The hash is stored: the block owns its height for good. *)
LEMMA PutHashKeepsReads ==
  ASSUME ReadInv, ListInv', PutHash
  PROVE  ReadInv'
<1>1. /\ job.pc = "hash" /\ hashAt' = [hashAt EXCEPT ![current] = job.block]
      /\ current' = current + 1 /\ job' = Idle
      /\ UNCHANGED <<chain, writes, length, entry, manifest, indexed, faults>>
  BY DEF PutHash
<1>2. /\ job'.pc = "idle" /\ Busy /\ ~Busy' /\ ~RollingBack /\ ~RollingBack'
  BY <1>1 DEF Idle, Busy, RollingBack
<1>3. /\ current >= StartBlock /\ current \in Nat /\ indexed = current /\ StartBlock \in Nat \ {0}
      /\ Visible = IF current = StartBlock THEN 0 ELSE current - 1
      /\ current \in Heights /\ job.block \in Blocks /\ job.block # None
  BY <1>1, ReadFacts, ListFacts, ChainAssumption DEF ReadInv, ListInv, Position
<1>4. \A h \in Heights : hashAt'[h] = IF h = current THEN job.block ELSE hashAt[h]
  BY <1>1, <1>3 DEF ReadInv, ListInv, TypeOK
<1>5. Visible' = current
  BY <1>1, <1>2, <1>3 DEF Visible
<1>6. Standing'
  BY <1>1, <1>2, <1>3 DEF ReadInv, Standing, Started, ResumeHeight
<1>7. \E c \in Chains : current < Len(c) /\ job.block = c[current + 1]
  BY <1>2 DEF ReadInv, Standing
<1>8. Hashed'
  <2>1. ASSUME NEW h \in Heights, hashAt'[h] # None
        PROVE  h >= StartBlock /\ \E c \in Chains : h < Len(c) /\ hashAt'[h] = c[h + 1]
    BY <1>3, <1>4, <1>7, <2>1 DEF ReadInv, Hashed
  <2>2. ASSUME NEW h \in StartBlock..current PROVE hashAt'[h] # None
    <3>1. h \in Heights
      BY <1>3, ReadFacts
    <3>2. h # current => h \in StartBlock..Visible
      BY <1>3
    <3> QED
      BY <1>3, <1>4, <3>1, <3>2 DEF ReadInv, Hashed
  <2> QED
    BY <1>5, <2>1, <2>2 DEF Hashed
<1>9. \A h \in Heights : Owner(h)' = Owner(h)
  BY <1>2, <1>4 DEF Owner
<1>10. EntriesOwned'
  <2> SUFFICES ASSUME NEW k \in Keys, NEW i \in Slots, entry[k][i] # None
               PROVE  Owned(k, entry[k][i])'
    BY <1>1, <1>2 DEF EntriesOwned
  <2>1. Owned(k, entry[k][i]) /\ entry[k][i].height \in Heights
    BY ListFacts DEF ReadInv, EntriesOwned
  <2>2. hashAt'[entry[k][i].height] = Owner(entry[k][i].height)
    BY <1>2, <1>4, <2>1 DEF Owner
  <2> QED
    BY <1>1, <1>2, <2>1, <2>2 DEF Owned, Owner
<1>11. Stored'
  <2> SUFFICES ASSUME NEW k \in Keys, NEW h \in Heights, h >= StartBlock, Settled(h)',
                      k \in writes[Owner(h)']
               PROVE  Has(k, h)'
    BY <1>1 DEF Stored
  <2>1. Has(k, h)
    BY <1>1, <1>2, <1>9 DEF ReadInv, Stored, Settled
  <2> QED
    BY <1>1, <1>2, <2>1 DEF Has
<1> QED
  BY <1>6, <1>8, <1>10, <1>11 DEF ReadInv

(* A step of a rollback: whatever it deletes or moves, no entry at or below *)
(* the target is lost.                                                      *)
LEMMA RollKeepsReads ==
  ASSUME ReadInv, ListInv', RollingBack, RollingBack', job'.target = job.target,
         UNCHANGED <<chain, writes, indexed, hashAt, current>>,
         EntriesOwned',
         \A k \in Keys, h \in Heights : h <= job.target /\ Has(k, h) => Has(k, h)'
  PROVE  ReadInv'
<1>1. job.pc # "hash" /\ job'.pc # "hash" /\ job.pc # "height" /\ job'.pc # "height" /\ ~Busy /\ ~Busy'
  BY DEF RollingBack, Busy
<1>2. Standing'
  BY <1>1 DEF ReadInv, Standing, Started, ResumeHeight
<1>3. Hashed'
  BY <1>1 DEF ReadInv, Hashed, Visible
<1>4. Stored'
  <2> SUFFICES ASSUME NEW k \in Keys, NEW h \in Heights, h >= StartBlock, Settled(h)',
                      k \in writes[Owner(h)']
               PROVE  Has(k, h)'
    BY DEF Stored
  <2>1. Owner(h)' = Owner(h)
    BY <1>1 DEF Owner
  <2>2. Settled(h) /\ h <= job.target
    BY <1>1 DEF Settled
  <2> QED
    BY <2>1, <2>2 DEF ReadInv, Stored
<1> QED
  BY <1>2, <1>3, <1>4 DEF ReadInv

(* Entries that stay where they are still belong to their heights. *)
LEMMA OwnedAside ==
  ASSUME ReadInv, ~Busy, ~Busy', UNCHANGED <<writes, hashAt>>,
         NEW k, NEW e, Owned(k, e)
  PROVE  /\ e.height >= StartBlock /\ e.value = hashAt[e.height] /\ k \in writes[e.value]
BY DEF Owned, Owner

(* The rollback from manifests takes a key, *)
LEMMA FastKeyKeepsReads ==
  ASSUME ReadInv, ListInv', FastNextKey
  PROVE  ReadInv'
<1>1. /\ job.pc = "fast"
      /\ UNCHANGED <<chain, writes, length, entry, manifest, indexed, hashAt, current, faults>>
  BY DEF FastNextKey, db
<1>2. PICK k \in job.keys :
        job' = [job EXCEPT !.pc = "trim", !.key = k, !.keys = @ \ {k},
                           !.i = length[k], !.newLength = length[k]]
  BY DEF FastNextKey
<1>3. job'.pc = "trim" /\ job'.target = job.target
  BY <1>2 DEF ReadInv, ListInv, JobType, Jobs
<1>4. RollingBack /\ RollingBack' /\ ~Busy /\ ~Busy'
  BY <1>1, <1>3 DEF RollingBack, Busy
<1>5. EntriesOwned'
  BY <1>1, <1>3, <1>4 DEF ReadInv, EntriesOwned, Owned, Owner
<1>6. \A q \in Keys, h \in Heights : Has(q, h) => Has(q, h)'
  BY <1>1, <1>3 DEF Has
<1> QED
  BY <1>1, <1>3, <1>4, <1>5, <1>6, RollKeepsReads

(* deletes entries above the target only, *)
LEMMA TrimKeepsReads ==
  ASSUME ReadInv, ListInv', FastTrim
  PROVE  ReadInv'
<1> DEFINE k == job.key
           i == job.i - 1
<1>1. /\ job.pc = "trim" /\ job.i > 0 /\ (entry[k][i] = None \/ Above(k, i))
      /\ entry' = [entry EXCEPT ![k][i] = None]
      /\ job' = [job EXCEPT !.i = i, !.newLength = IF Above(k, i) THEN i ELSE @]
      /\ UNCHANGED <<chain, writes, length, manifest, indexed, hashAt, current, faults>>
  BY DEF FastTrim
<1>2. job'.pc = "trim" /\ job'.target = job.target
  BY <1>1 DEF ReadInv, ListInv, JobType, Jobs
<1>3. RollingBack /\ RollingBack' /\ ~Busy /\ ~Busy'
  BY <1>1, <1>2 DEF RollingBack, Busy
<1>4. k \in Keys /\ i \in Slots /\ entry \in [Keys -> [Slots -> Entry \cup {None}]]
  <2>1. k \in Keys /\ job.i \in 0..MaxLength /\ MaxLength \in Nat
    BY <1>1, ListFacts DEF ReadInv, ListInv, Position, JobType, Jobs
  <2>2. entry \in [Keys -> [Slots -> Entry \cup {None}]]
    BY ListFacts DEF ReadInv
  <2> QED
    BY <1>1, <2>1, <2>2 DEF Slots
<1> HIDE DEF i, k
<1>5. \A q \in Keys, j \in Slots : entry'[q][j] = entry[q][j] \/ (entry'[q][j] = None /\ q = k /\ j = i)
  BY <1>1, <1>4
<1>6. EntriesOwned'
  <2> SUFFICES ASSUME NEW q \in Keys, NEW j \in Slots, entry'[q][j] # None
               PROVE  Owned(q, entry[q][j])'
    BY <1>2 DEF EntriesOwned
  <2>1. entry'[q][j] = entry[q][j] /\ Owned(q, entry[q][j])
    BY <1>5 DEF ReadInv, EntriesOwned
  <2> QED
    BY <1>1, <1>3, <2>1 DEF Owned, Owner
<1>7. ASSUME NEW q \in Keys, NEW h \in Heights, h <= job.target, Has(q, h)
      PROVE  Has(q, h)'
  <2>1. PICK j \in Slots : entry[q][j] # None /\ entry[q][j].height = h
    BY <1>1, <1>7 DEF Has
  <2>2. job.target \in Nat /\ h \in Nat
    BY ListFacts DEF ReadInv, ListInv, JobType, Jobs, Heights
  <2>3. ~(q = k /\ j = i)
    BY <1>1, <1>7, <2>1, <2>2 DEF Above
  <2>4. entry'[q][j] = entry[q][j]
    BY <1>5, <2>3
  <2> QED
    BY <1>2, <2>1, <2>4 DEF Has
<1> QED
  BY <1>1, <1>2, <1>3, <1>6, <1>7, RollKeepsReads

(* writes the length, *)
LEMMA PutLengthKeepsReads ==
  ASSUME ReadInv, ListInv', FastPutLength
  PROVE  ReadInv'
<1>1. /\ job.pc = "trim"
      /\ job' = [job EXCEPT !.pc = "fast", !.key = None, !.i = 0, !.newLength = 0]
      /\ UNCHANGED <<chain, writes, entry, manifest, indexed, hashAt, current, faults>>
  BY DEF FastPutLength
<1>2. job'.pc = "fast" /\ job'.target = job.target
  BY <1>1 DEF ReadInv, ListInv, JobType, Jobs
<1>3. RollingBack /\ RollingBack' /\ ~Busy /\ ~Busy'
  BY <1>1, <1>2 DEF RollingBack, Busy
<1>4. EntriesOwned'
  BY <1>1, <1>2, <1>3 DEF ReadInv, EntriesOwned, Owned, Owner
<1>5. \A q \in Keys, h \in Heights : Has(q, h) => Has(q, h)'
  BY <1>1, <1>2 DEF Has
<1> QED
  BY <1>1, <1>2, <1>3, <1>4, <1>5, RollKeepsReads

(* and goes down a height. *)
LEMMA FastHeightKeepsReads ==
  ASSUME ReadInv, ListInv', FastNextHeight
  PROVE  ReadInv'
<1>1. /\ job.pc = "fast"
      /\ job' = IF job.height = job.target + 1
                THEN [Idle EXCEPT !.pc = "lower", !.target = job.target]
                ELSE [job EXCEPT !.height = @ - 1, !.keys = manifest[job.height - 1]]
      /\ UNCHANGED <<chain, writes, length, entry, indexed, hashAt, current, faults>>
  BY DEF FastNextHeight
<1>2. job'.pc \in {"fast", "lower"} /\ job'.target = job.target
  <2>1. CASE job.height = job.target + 1
    BY <1>1, <2>1 DEF Idle
  <2>2. CASE job.height # job.target + 1
    <3>1. job' = [job EXCEPT !.height = @ - 1, !.keys = manifest[job.height - 1]]
      BY <1>1, <2>2
    <3> QED
      BY <1>1, <3>1 DEF ReadInv, ListInv, JobType, Jobs
  <2> QED
    BY <2>1, <2>2
<1>3. RollingBack /\ RollingBack' /\ ~Busy /\ ~Busy'
  BY <1>1, <1>2 DEF RollingBack, Busy
<1>4. EntriesOwned'
  BY <1>1, <1>2, <1>3 DEF ReadInv, EntriesOwned, Owned, Owner
<1>5. \A q \in Keys, h \in Heights : Has(q, h) => Has(q, h)'
  BY <1>1, <1>2 DEF Has
<1> QED
  BY <1>1, <1>2, <1>3, <1>4, <1>5, RollKeepsReads

(* The full rollback is through. *)
LEMMA FullDoneKeepsReads ==
  ASSUME ReadInv, ListInv', FullDone
  PROVE  ReadInv'
<1>1. /\ job.pc = "full" /\ job' = [Idle EXCEPT !.pc = "lower", !.target = job.target]
      /\ UNCHANGED <<chain, writes, length, entry, manifest, indexed, hashAt, current, faults>>
  BY DEF FullDone, db
<1>2. job'.pc = "lower" /\ job'.target = job.target
  BY <1>1 DEF Idle
<1>3. RollingBack /\ RollingBack' /\ ~Busy /\ ~Busy'
  BY <1>1, <1>2 DEF RollingBack, Busy
<1>4. EntriesOwned'
  BY <1>1, <1>2, <1>3 DEF ReadInv, EntriesOwned, Owned, Owner
<1>5. \A q \in Keys, h \in Heights : Has(q, h) => Has(q, h)'
  BY <1>1, <1>2 DEF Has
<1> QED
  BY <1>1, <1>2, <1>3, <1>4, <1>5, RollKeepsReads

(* What the full rollback keeps of a list: its entries up to the target. *)
LEMMA KeptEntries ==
  ASSUME ListInv, job.pc = "full", NEW k \in Keys
  PROVE  /\ Kept(k) \in Seq(Entry)
         /\ \A n \in 1..Len(Kept(k)) :
               /\ n - 1 \in Slots /\ Kept(k)[n] = entry[k][n - 1] /\ entry[k][n - 1] # None
               /\ entry[k][n - 1].height <= job.target
         /\ \A i \in Slots : (entry[k][i] # None /\ entry[k][i].height <= job.target)
               => i + 1 \in 1..Len(Kept(k)) /\ Kept(k)[i + 1] = entry[k][i]
<1>3. /\ length[k] \in 0..MaxLength /\ length[k] \in Nat /\ MaxLength \in Nat
      /\ job.target \in Nat /\ entry[k] \in [Slots -> Entry \cup {None}]
  BY ListFacts DEF ListInv, TypeOK, JobType, Jobs, Heights
<1>4. DenseBelow(k, length[k])
  BY DEF ListInv, DenseOutside, Inside
<1>5. \A i \in 0..length[k] - 1 : i \in Slots /\ entry[k][i] # None /\ entry[k][i] \in Entry
  <2>1. \A i \in 0..length[k] - 1 : i \in Slots /\ i < length[k]
    BY <1>3 DEF Slots
  <2> QED
    BY <1>3, <1>4, <2>1, ListFacts DEF DenseBelow
<1>6. PICK c : Cut(entry[k], length[k], job.target, c)
  <2>1. \A i, j \in 0..length[k] - 1 : i < j => entry[k][i].height <= entry[k][j].height
    BY <1>3, <1>5 DEF ListInv, Sorted
  <2> QED
    BY <1>3, <1>5, <2>1, CutExists
<1>7. Kept(k) = Front(entry[k], c)
  BY <1>3, <1>6, KeptIsFront, ListFacts
<1>8. /\ c \in 0..length[k] /\ c \in Nat
      /\ \A i \in 0..c - 1 : i \in 0..length[k] - 1 /\ entry[k][i].height <= job.target
      /\ \A i \in c..length[k] - 1 : entry[k][i].height > job.target
  BY <1>3, <1>6 DEF Cut
<1>9. Kept(k) \in Seq(Entry) /\ Len(Kept(k)) = c
  <2>1. \A i \in 0..c - 1 : entry[k][i] \in Entry
    BY <1>5, <1>8
  <2> QED
    BY <1>7, <1>8, <2>1, FrontIsSeq
<1>10. \A n \in 1..c : Kept(k)[n] = entry[k][n - 1] /\ n - 1 \in 0..c - 1 /\ n - 1 \in Slots
  <2>1. \A n \in 1..c : n - 1 \in 0..c - 1
    BY <1>8
  <2> QED
    BY <1>5, <1>7, <1>8, <2>1 DEF Front
<1>11. ASSUME NEW i \in Slots, entry[k][i] # None, entry[k][i].height <= job.target
       PROVE  i + 1 \in 1..c /\ Kept(k)[i + 1] = entry[k][i]
  <2>1. i \in Nat /\ i < length[k] /\ entry[k][i].height \in Nat
    <3>1. i < length[k] /\ entry[k][i].height \in Nat
      BY <1>4, <1>11, ListFacts DEF DenseBelow
    <3> QED
      BY <1>3, <3>1 DEF Slots
  <2>2. i < c
    BY <1>3, <1>8, <1>11, <2>1
  <2>3. i + 1 \in 1..c /\ (i + 1) - 1 = i
    BY <1>8, <2>1, <2>2
  <2> QED
    BY <1>10, <2>3
<1> QED
  BY <1>5, <1>8, <1>9, <1>10, <1>11

(* It takes a list: from here on its entries are in hand. *)
LEMMA FullKeyKeepsReads ==
  ASSUME ReadInv, ListInv', FullNextKey
  PROVE  ReadInv'
<1>1. /\ job.pc = "full"
      /\ UNCHANGED <<chain, writes, length, entry, manifest, indexed, hashAt, current, faults>>
  BY DEF FullNextKey, db
<1>2. PICK k \in job.keys : job' = [job EXCEPT !.pc = "erase", !.key = k, !.keys = @ \ {k},
                                               !.valid = Kept(k)]
  BY DEF FullNextKey
<1>3. job'.pc = "erase" /\ job'.target = job.target /\ job'.key = k /\ job'.valid = Kept(k)
      /\ k \in Keys
  BY <1>2 DEF ReadInv, ListInv, JobType, Jobs
<1>4. RollingBack /\ RollingBack' /\ ~Busy /\ ~Busy'
  BY <1>1, <1>3 DEF RollingBack, Busy
<1>5. /\ \A n \in 1..Len(Kept(k)) :
            n - 1 \in Slots /\ Kept(k)[n] = entry[k][n - 1] /\ entry[k][n - 1] # None
      /\ \A i \in Slots : (entry[k][i] # None /\ entry[k][i].height <= job.target)
               => i + 1 \in 1..Len(Kept(k)) /\ Kept(k)[i + 1] = entry[k][i]
  BY <1>1, <1>3, KeptEntries DEF ReadInv
<1>6. EntriesOwned'
  <2>1. \A q \in Keys, i \in Slots : entry[q][i] # None => Owned(q, entry[q][i])
    BY DEF ReadInv, EntriesOwned
  <2>2. \A n \in 1..Len(Kept(k)) : Owned(k, Kept(k)[n])
    BY <1>3, <1>5, <2>1
  <2> QED
    BY <1>1, <1>3, <1>4, <2>1, <2>2 DEF EntriesOwned, Owned, Owner
<1>7. ASSUME NEW q \in Keys, NEW h \in Heights, h <= job.target, Has(q, h)
      PROVE  Has(q, h)'
  <2>1. PICK i \in Slots : entry[q][i] # None /\ entry[q][i].height = h
    BY <1>1, <1>7 DEF Has
  <2>2. CASE q = k
    BY <1>3, <1>5, <1>7, <2>1, <2>2 DEF Has
  <2>3. CASE q # k
    BY <1>1, <1>3, <2>1, <2>3 DEF Has
  <2> QED
    BY <2>2, <2>3
<1> QED
  BY <1>1, <1>3, <1>4, <1>6, <1>7, RollKeepsReads

(* It deletes the list in the database, *)
LEMMA EraseKeepsReads ==
  ASSUME ReadInv, ListInv', FullErase
  PROVE  ReadInv'
<1>1. /\ job.pc = "erase"
      /\ UNCHANGED <<chain, writes, length, manifest, indexed, hashAt, current, faults>>
      /\ \/ job' = [job EXCEPT !.i = @ + 1] /\ job.i < length[job.key]
            /\ entry' = [entry EXCEPT ![job.key][job.i] = None]
         \/ job' = [job EXCEPT !.pc = "rewrite", !.i = 0] /\ entry' = entry
  BY DEF FullErase
<1>2. /\ job'.pc \in {"erase", "rewrite"} /\ job'.target = job.target /\ job'.key = job.key
      /\ job'.valid = job.valid
  BY <1>1 DEF ReadInv, ListInv, JobType, Jobs
<1>3. RollingBack /\ RollingBack' /\ ~Busy /\ ~Busy'
  BY <1>1, <1>2 DEF RollingBack, Busy
<1>4. job.key \in Keys /\ entry \in [Keys -> [Slots -> Entry \cup {None}]]
      /\ job.i \in Nat /\ length[job.key] \in 0..MaxLength /\ MaxLength \in Nat
  BY <1>1, ListFacts DEF ReadInv, ListInv, Position, JobType, Jobs
<1>5. \A q \in Keys, j \in Slots :
         \/ entry'[q][j] = entry[q][j]
         \/ entry'[q][j] = None /\ q = job.key
  <2>1. CASE entry' = [entry EXCEPT ![job.key][job.i] = None] /\ job.i < length[job.key]
    <3>1. job.i \in Slots
      BY <1>4, <2>1 DEF Slots
    <3> QED
      BY <1>4, <2>1, <3>1
  <2> QED
    BY <1>1, <2>1
<1>6. EntriesOwned'
  <2>1. ASSUME NEW q \in Keys, NEW j \in Slots, entry'[q][j] # None
        PROVE  Owned(q, entry[q][j])'
    <3>1. entry'[q][j] = entry[q][j] /\ Owned(q, entry[q][j])
      BY <1>5, <2>1 DEF ReadInv, EntriesOwned
    <3> QED
      BY <1>1, <1>3, <3>1 DEF Owned, Owner
  <2>2. \A n \in 1..Len(job.valid) : Owned(job.key, job.valid[n])
    BY <1>1 DEF ReadInv, EntriesOwned
  <2>3. \A n \in 1..Len(job.valid) : Owned(job.key, job.valid[n])'
    BY <1>1, <1>2, <1>3, <2>2 DEF Owned, Owner
  <2> QED
    BY <1>2, <2>1, <2>3 DEF EntriesOwned
<1>7. ASSUME NEW q \in Keys, NEW h \in Heights, Has(q, h)
      PROVE  Has(q, h)'
  <2>1. CASE q = job.key
    BY <1>1, <1>2, <1>7, <2>1 DEF Has
  <2>2. CASE q # job.key
    BY <1>1, <1>2, <1>5, <1>7, <2>2 DEF Has
  <2> QED
    BY <2>1, <2>2
<1> QED
  BY <1>1, <1>2, <1>3, <1>6, <1>7, RollKeepsReads

(* and puts back what it had in hand. *)
LEMMA RewriteKeepsReads ==
  ASSUME ReadInv, ListInv', FullRewrite
  PROVE  ReadInv'
<1>1. /\ job.pc = "rewrite"
      /\ UNCHANGED <<chain, writes, manifest, indexed, hashAt, current, faults>>
      /\ \/ /\ job' = [job EXCEPT !.i = @ + 1] /\ job.i < Len(job.valid)
            /\ entry' = [entry EXCEPT ![job.key][job.i] = job.valid[job.i + 1]]
         \/ /\ job' = [job EXCEPT !.pc = "full", !.key = None, !.i = 0, !.valid = <<>>]
            /\ ~(job.i < Len(job.valid)) /\ entry' = entry
  BY DEF FullRewrite
<1>2. /\ job.key \in Keys /\ entry \in [Keys -> [Slots -> Entry \cup {None}]]
      /\ job.i \in Nat /\ Len(job.valid) \in Nat /\ Len(job.valid) <= MaxLength /\ MaxLength \in Nat
      /\ job.i <= Len(job.valid)
  <2>1. job.key \in Keys /\ job.i \in Nat /\ job.valid \in Seq(Entry) /\ MaxLength \in Nat
    BY <1>1, ListFacts DEF ReadInv, ListInv, Position, JobType, Jobs
  <2>2. Len(job.valid) <= MaxLength /\ job.i <= Len(job.valid)
    BY <1>1 DEF ReadInv, ListInv, ValidInv, RewriteInv
  <2>3. entry \in [Keys -> [Slots -> Entry \cup {None}]]
    BY ListFacts DEF ReadInv
  <2> QED
    BY <2>1, <2>2, <2>3
<1>3. job'.target = job.target /\ job'.pc \in {"rewrite", "full"}
  BY <1>1 DEF ReadInv, ListInv, JobType, Jobs
<1>4. RollingBack /\ RollingBack' /\ ~Busy /\ ~Busy'
  BY <1>1, <1>3 DEF RollingBack, Busy
<1>5. \A q \in Keys, j \in Slots : entry[q][j] # None => Owned(q, entry[q][j])
  BY DEF ReadInv, EntriesOwned
<1>6. \A n \in 1..Len(job.valid) : Owned(job.key, job.valid[n])
  BY <1>1 DEF ReadInv, EntriesOwned
<1>7. \A q, e : Owned(q, e) => /\ e.height >= StartBlock
                               /\ e.value = hashAt'[e.height]
                               /\ q \in writes'[e.value]
  BY <1>1, <1>4 DEF Owned, Owner
<1>8. CASE job' = [job EXCEPT !.i = @ + 1] /\ job.i < Len(job.valid)
           /\ entry' = [entry EXCEPT ![job.key][job.i] = job.valid[job.i + 1]]
  <2>1. job'.pc = "rewrite" /\ job'.key = job.key /\ job'.valid = job.valid
    BY <1>1, <1>8 DEF ReadInv, ListInv, JobType, Jobs
  <2>2. job.i \in Slots /\ job.i + 1 \in 1..Len(job.valid)
    BY <1>2, <1>8 DEF Slots
  <2>3. \A q \in Keys, j \in Slots :
           \/ entry'[q][j] = entry[q][j]
           \/ entry'[q][j] = job.valid[job.i + 1] /\ q = job.key
    BY <1>2, <1>8, <2>2
  <2>4. EntriesOwned'
    <3>1. ASSUME NEW q \in Keys, NEW j \in Slots, entry'[q][j] # None
          PROVE  Owned(q, entry[q][j])'
      <4>1. Owned(q, entry'[q][j])
        BY <1>5, <1>6, <2>2, <2>3, <3>1
      <4> QED
        BY <1>4, <1>7, <4>1 DEF Owned, Owner
    <3>2. \A n \in 1..Len(job.valid) : Owned(job.key, job.valid[n])'
      BY <1>4, <1>6, <1>7, <2>1 DEF Owned, Owner
    <3> QED
      BY <2>1, <3>1, <3>2 DEF EntriesOwned
  <2>5. ASSUME NEW q \in Keys, NEW h \in Heights, Has(q, h)
        PROVE  Has(q, h)'
    <3>1. CASE q = job.key
      BY <1>1, <2>1, <2>5, <3>1 DEF Has
    <3>2. CASE q # job.key
      BY <1>1, <2>1, <2>3, <2>5, <3>2 DEF Has
    <3> QED
      BY <3>1, <3>2
  <2> QED
    BY <1>1, <1>3, <1>4, <2>4, <2>5, RollKeepsReads
<1>9. CASE /\ job' = [job EXCEPT !.pc = "full", !.key = None, !.i = 0, !.valid = <<>>]
           /\ ~(job.i < Len(job.valid)) /\ entry' = entry
  <2>1. job'.pc = "full"
    BY <1>9 DEF ReadInv, ListInv, JobType, Jobs
  <2>2. EntriesOwned'
    BY <1>1, <1>4, <1>5, <1>7, <1>9, <2>1 DEF EntriesOwned, Owned, Owner
  <2>3. ASSUME NEW q \in Keys, NEW h \in Heights, Has(q, h)
        PROVE  Has(q, h)'
    <3>1. CASE q = job.key
      <4>1. PICK n \in 1..Len(job.valid) : job.valid[n].height = h
        BY <1>1, <2>3, <3>1 DEF Has
      <4>2. job.valid[n] \in Entry
        BY <4>1 DEF ReadInv, ListInv, JobType, Jobs
      <4>3. n - 1 \in Slots /\ n - 1 < job.i /\ (n - 1) + 1 = n
        BY <1>2, <1>9 DEF Slots
      <4>4. entry[q][n - 1] = job.valid[n]
        BY <1>1, <3>1, <4>3 DEF ReadInv, ListInv, RewriteInv
      <4>5. entry[q][n - 1] # None
        BY <4>2, <4>4, ListFacts DEF ReadInv
      <4> QED
        BY <1>9, <2>1, <4>1, <4>3, <4>4, <4>5 DEF Has
    <3>2. CASE q # job.key
      BY <1>1, <1>9, <2>1, <2>3, <3>2 DEF Has
    <3> QED
      BY <3>1, <3>2
  <2> QED
    BY <1>1, <1>3, <1>4, <2>2, <2>3, RollKeepsReads
<1> QED
  BY <1>1, <1>8, <1>9

(* handle_reorg returns to a height that is stored, or to 0 when the first  *)
(* height is to be replaced.                                                *)
LEMMA TargetStands ==
  ASSUME FirstStays, ReadInv, job.pc = "idle", ReorgDetected
  PROVE  /\ CommonAncestor \in Heights /\ CommonAncestor < indexed
         /\ Started(CommonAncestor) /\ (CommonAncestor = 0 => StartBlock = 1)
<1> DEFINE R == CommonAncestor
           below == {h \in 1..current - 1 : Agrees(h)}
<1>1. /\ StartBlock \in Nat \ {0} /\ indexed \in Nat /\ current \in Nat /\ MaxHeight \in Nat
      /\ current \in 1..MaxHeight + 1 /\ Started(indexed) /\ current = ResumeHeight(indexed)
      /\ Tip \in Nat /\ Visible = indexed /\ chain \in Chains
  BY ListFacts, ReadFacts DEF ReadInv, Standing, ListInv, TypeOK
<1>2. R \in 0..current - 1 /\ R \in Heights
  BY AncestorBelow, <1>1 DEF ReadInv, Heights
<1>3. PICK d \in R + 1 .. current - 1 : Differs(d)
  BY DEF ReorgDetected
<1>4. /\ d \in Heights /\ hashAt[d] # None /\ d >= StartBlock /\ d <= indexed
  <2>1. d \in Heights /\ d \in Nat
    BY <1>1, <1>2, <1>3 DEF Heights
  <2>2. d >= StartBlock
    BY <1>3, <2>1 DEF Differs, ReadInv, Hashed
  <2> QED
    BY <1>1, <1>2, <1>3, <2>1, <2>2 DEF Differs, ResumeHeight
<1>5. R < indexed
  BY <1>1, <1>2, <1>3, <1>4
<1>8. current - 1 \in Nat
  BY <1>1
<1>6. ASSUME R # 0 PROVE R >= StartBlock
  <2>1. R \in below
    <3>1. below # {}
      BY <1>6 DEF CommonAncestor
    <3>2. below \in SUBSET (0..current - 1)
      BY <1>1
    <3>3. \E x \in below : \A y \in below : y <= x
      <4> HIDE DEF below
      <4> QED
        BY <1>8, <3>1, <3>2, Greatest
    <3> QED
      BY <3>1, <3>3 DEF CommonAncestor
  <2> QED
    BY <1>2, <2>1 DEF Agrees, ReadInv, Hashed
<1>7. ASSUME R = 0, StartBlock # 1 PROVE FALSE
  <2>1. StartBlock \in Heights /\ StartBlock \in StartBlock..Visible
    BY <1>1, <1>4, ListFacts DEF Heights, ReadInv
  <2>2. hashAt[StartBlock] # None
    BY <2>1 DEF ReadInv, Hashed
  <2>3. PICK c \in Chains : StartBlock < Len(c) /\ hashAt[StartBlock] = c[StartBlock + 1]
    BY <2>1, <2>2 DEF ReadInv, Hashed
  <2>4. c[StartBlock + 1] = chain[StartBlock + 1]
    BY <1>1, <1>7 DEF FirstStays
  <2>5. StartBlock \in below
    <3>1. StartBlock \in 1..current - 1
      BY <1>1, <1>4 DEF ResumeHeight
    <3> QED
      BY <2>2, <2>3, <2>4, <3>1 DEF Agrees, BlockAt
  <2>6. R \in below
    <3>1. below \in SUBSET (0..current - 1)
      BY <1>1
    <3>2. \E x \in below : \A y \in below : y <= x
      <4> HIDE DEF below
      <4> QED
        BY <1>8, <2>5, <3>1, Greatest
    <3> QED
      BY <2>5, <3>2 DEF CommonAncestor
  <2> QED
    BY <1>7, <2>6
<1> QED
  BY <1>2, <1>5, <1>6, <1>7 DEF Started

(* A rollback begins: something is indexed, and it is to be shortened. *)
LEMMA BeginKeepsReads ==
  ASSUME FirstStays, ReadInv, ListInv', BeginRollback
  PROVE  ReadInv' /\ StartBlock <= indexed
<1>1. /\ job.pc = "idle" /\ ReorgDetected
      /\ UNCHANGED <<chain, writes, length, entry, manifest, indexed, hashAt, current, faults>>
  BY DEF BeginRollback, db
<1>2. job'.pc \in {"fast", "lower", "full"} /\ job'.target = CommonAncestor
  BY DEF BeginRollback, Idle
<1>3. ~RollingBack /\ RollingBack' /\ ~Busy /\ ~Busy'
  BY <1>1, <1>2 DEF RollingBack, Busy
<1>4. /\ CommonAncestor \in Heights /\ CommonAncestor < indexed
      /\ Started(CommonAncestor) /\ (CommonAncestor = 0 => StartBlock = 1)
  BY <1>1, TargetStands
<1>5. Standing'
  BY <1>1, <1>2, <1>3, <1>4 DEF ReadInv, Standing, Started
<1>6. Hashed'
  BY <1>1, <1>2 DEF ReadInv, Hashed, Visible
<1>7. EntriesOwned'
  BY <1>1, <1>2, <1>3 DEF ReadInv, EntriesOwned, Owned, Owner
<1>8. Stored'
  <2> SUFFICES ASSUME NEW k \in Keys, NEW h \in Heights, h >= StartBlock, Settled(h)',
                      k \in writes[Owner(h)']
               PROVE  Has(k, h)'
    BY <1>1 DEF Stored
  <2>1. Owner(h)' = Owner(h)
    BY <1>1, <1>3 DEF Owner
  <2>2. Settled(h)
    BY <1>1, <1>2, <1>3 DEF Settled
  <2>3. Has(k, h)
    BY <2>1, <2>2 DEF ReadInv, Stored
  <2> QED
    BY <1>1, <1>2, <2>3 DEF Has
<1>9. StartBlock <= indexed
  <2>1. Started(indexed) /\ indexed \in Nat /\ CommonAncestor \in Nat
    BY <1>4, ListFacts DEF ReadInv, Standing, Heights
  <2> QED
    BY <1>4, <2>1 DEF Started
<1> QED
  BY <1>5, <1>6, <1>7, <1>8, <1>9 DEF ReadInv

(* The indexed height is lowered to the target. *)
LEMMA LowerKeepsReads ==
  ASSUME ReadInv, ListInv', LowerHeight
  PROVE  ReadInv'
<1>1. /\ job.pc = "lower" /\ indexed' = job.target /\ current' = job.target + 1 /\ job' = Idle
      /\ UNCHANGED <<chain, writes, length, entry, manifest, hashAt, faults>>
  BY DEF LowerHeight
<1>2. job'.pc = "idle" /\ RollingBack /\ ~RollingBack' /\ ~Busy /\ ~Busy'
  BY <1>1 DEF Idle, RollingBack, Busy
<1>3. /\ job.target \in Heights /\ job.target \in Nat /\ job.target < indexed
      /\ Started(job.target) /\ (job.target = 0 => StartBlock = 1)
      /\ StartBlock \in Nat \ {0} /\ indexed \in Nat /\ Visible = indexed
  BY <1>1, <1>2, ListFacts, ReadFacts DEF ReadInv, Standing, ListInv, JobType, Jobs, Heights
<1>4. Standing'
  BY <1>1, <1>2, <1>3 DEF Standing, Started, ResumeHeight
<1>5. Hashed'
  BY <1>1, <1>2, <1>3 DEF ReadInv, Hashed, Visible
<1>6. EntriesOwned'
  BY <1>1, <1>2 DEF ReadInv, EntriesOwned, Owned, Owner
<1>7. Stored'
  <2> SUFFICES ASSUME NEW k \in Keys, NEW h \in Heights, h >= StartBlock, Settled(h)',
                      k \in writes[Owner(h)']
               PROVE  Has(k, h)'
    BY <1>1 DEF Stored
  <2>1. Owner(h)' = Owner(h)
    BY <1>1, <1>2 DEF Owner
  <2>2. h <= job.target /\ h \in Nat
    BY <1>1, <1>2, <1>3 DEF Settled, Heights
  <2>3. Settled(h)
    BY <1>3, <2>2 DEF Settled
  <2>4. Has(k, h)
    BY <2>1, <2>3 DEF ReadInv, Stored
  <2> QED
    BY <1>1, <1>2, <2>4 DEF Has
<1> QED
  BY <1>4, <1>5, <1>6, <1>7 DEF ReadInv

(* A restart goes on at the same height: a batch was never left behind. *)
LEMMA CrashKeepsReads ==
  ASSUME WholeRestarts, ReadInv, ListInv', Crash
  PROVE  ReadInv'
<1>1. /\ job.pc \in {"idle", "flush"} /\ faults < MaxFaults
      /\ current' = ResumeHeight(indexed) /\ job' = Idle
      /\ (job.pc = "flush" => MaxFaults <= 1)
      /\ UNCHANGED <<chain, writes, length, entry, manifest, indexed, hashAt>>
  BY DEF Crash, db, WholeRestarts, CleanRestarts
<1>2. job'.pc = "idle" /\ ~RollingBack /\ ~RollingBack' /\ ~Busy'
  BY <1>1 DEF Idle, RollingBack, Busy
<1>3. current' = current /\ indexed < current /\ indexed \in Nat /\ current \in Nat
  BY <1>1, ListFacts DEF ReadInv, Standing, ListInv, Position
<1>4. Standing'
  BY <1>1, <1>2 DEF ReadInv, Standing, Started
<1>5. Hashed'
  BY <1>1, <1>2 DEF ReadInv, Hashed, Visible
<1>6. \A h \in Nat : h <= indexed => Owner(h) = hashAt[h] /\ Owner(h)' = hashAt[h]
  BY <1>1, <1>2, <1>3 DEF Owner
<1>7. EntriesOwned'
  <2> SUFFICES ASSUME NEW k \in Keys, NEW i \in Slots, entry[k][i] # None
               PROVE  Owned(k, entry[k][i])'
    BY <1>1, <1>2 DEF EntriesOwned
  <2>1. Owned(k, entry[k][i]) /\ entry[k][i].height \in Nat
    BY ListFacts DEF ReadInv, EntriesOwned
  <2>2. Placed(k, entry[k][i].height)
    BY DEF ReadInv, ListInv, EntriesPlaced
  <2>3. job.pc = "flush" => ~(faults > 0)
    BY <1>1, ListFacts DEF ReadInv
  <2>4. entry[k][i].height <= indexed
    BY <1>1, <2>2, <2>3 DEF Placed, Writing
  <2> QED
    BY <1>1, <1>2, <1>6, <2>1, <2>4 DEF Owned, Owner
<1>8. Stored'
  <2> SUFFICES ASSUME NEW k \in Keys, NEW h \in Heights, h >= StartBlock, Settled(h)',
                      k \in writes[Owner(h)']
               PROVE  Has(k, h)'
    BY <1>1 DEF Stored
  <2>1. h <= indexed /\ h \in Nat
    BY <1>1, <1>2, ListFacts DEF Settled, Heights, ReadInv
  <2>2. Has(k, h)
    BY <1>2, <1>6, <2>1 DEF ReadInv, Stored, Settled
  <2> QED
    BY <1>1, <1>2, <2>2 DEF Has
<1> QED
  BY <1>4, <1>5, <1>7, <1>8 DEF ReadInv

(* Every step keeps the invariant; *)
LEMMA ReadNext ==
  ASSUME WholeRestarts, ReadInv, ListInv', [Next]_vars
  PROVE  ReadInv'
<1>1. CASE UNCHANGED vars
  BY <1>1 DEF vars, db, ReadInv, Standing, Started, Busy, RollingBack, Hashed, Visible,
       EntriesOwned, Owned, Owner, Stored, Settled, Has
<1>2. CASE NodeStep
  BY <1>2, NodeKeepsReads
<1>3. CASE Accept
  BY <1>3, AcceptKeepsReads
<1>4. CASE Flush \/ FlushAgain
  BY <1>4, FlushKeepsReads
<1>5. CASE PutHeight
  BY <1>5, PutHeightKeepsReads
<1>6. CASE PutHash
  BY <1>6, PutHashKeepsReads
<1>7. CASE BeginRollback
  BY <1>7, BeginKeepsReads DEF WholeRestarts
<1>8. CASE FastNextKey \/ FastTrim \/ FastPutLength \/ FastNextHeight
  BY <1>8, FastKeyKeepsReads, TrimKeepsReads, PutLengthKeepsReads, FastHeightKeepsReads
<1>9. CASE FullNextKey \/ FullErase \/ FullRewrite \/ FullDone
  BY <1>9, FullKeyKeepsReads, EraseKeepsReads, RewriteKeepsReads, FullDoneKeepsReads
<1>10. CASE LowerHeight
  BY <1>10, LowerKeepsReads
<1>11. CASE Crash
  BY <1>11, CrashKeepsReads
<1> QED
  BY <1>1, <1>2, <1>3, <1>4, <1>5, <1>6, <1>7, <1>8, <1>9, <1>10, <1>11 DEF Next, Rollback

(* ... so it holds in every state. *)
LEMMA ReadAlways == WholeRestarts => (Spec => []ReadInv)
<1> SUFFICES ASSUME WholeRestarts PROVE Spec => []ReadInv
  OBVIOUS
<1>1. Init => ReadInv
  BY ReadInit
<1>2. CleanRestarts
  BY DEF WholeRestarts
<1>3. ListInv /\ [Next]_vars => ListInv'
  BY <1>2, ListNext
<1>4. ReadInv /\ [Next]_vars => ReadInv'
  BY <1>3, ReadNext DEF ReadInv
<1> QED
  BY <1>1, <1>4, PTL DEF Spec

-----------------------------------------------------------------------------
(* The latest write. *)

Ledger == [h \in StartBlock..Visible |-> hashAt[h]]

(* Outside a rollback every read is the latest write on the stored hashes. *)
TableTrue ==
    ~RollingBack => \A k \in Keys, h \in StartBlock..Visible :
        GetAtHeight(k, h) = Promise!LatestWrite(Ledger, k, h)

(* The latest write, when nothing was written and when something was. *)
LEMMA LatestNone ==
  ASSUME NEW l, NEW k, NEW h, \A x \in DOMAIN l : ~(x <= h /\ k \in writes[l[x]])
  PROVE  Promise!LatestWrite(l, k, h) = None
BY DEF Promise!LatestWrite

(* ... and when something was: the write of the highest writer. *)
LEMMA LatestSome ==
  ASSUME NEW l, \A x \in DOMAIN l : x \in Nat, NEW k, NEW h, NEW m \in DOMAIN l,
         m <= h, k \in writes[l[m]],
         \A x \in DOMAIN l : x <= h /\ k \in writes[l[x]] => x <= m
  PROVE  Promise!LatestWrite(l, k, h) = l[m]
<1> DEFINE writers == {x \in DOMAIN l : x <= h /\ k \in writes[l[x]]}
           top == CHOOSE x \in writers : \A y \in writers : y <= x
<1>1. m \in writers /\ \A y \in writers : y <= m
  OBVIOUS
<1>2. top \in writers /\ \A y \in writers : y <= top
  <2> HIDE DEF writers
  <2> QED
    BY <1>1
<1>3. top = m
  <2>1. top <= m /\ m <= top /\ top \in Nat /\ m \in Nat
    BY <1>1, <1>2
  <2> HIDE DEF top
  <2> QED
    BY <2>1
<1>4. Promise!LatestWrite(l, k, h) = l[top]
  BY <1>1 DEF Promise!LatestWrite
<1> QED
  BY <1>3, <1>4

(* The entries of a list up to a height are the writes of a ledger to a key. *)
Records(list, l, k, h) ==
    /\ \A i \in Slots : (list[i] # None /\ list[i].height <= h) =>
          /\ list[i].height >= StartBlock /\ list[i].value = l[list[i].height]
          /\ k \in writes[list[i].value]
    /\ \A x \in DOMAIN l : (x <= h /\ k \in writes[l[x]]) =>
          \E i \in Slots : list[i] # None /\ list[i].height = x

(* In a dense and ordered list that has an entry for each writer up to a    *)
(* height, and no other, the search finds the latest write.                 *)
LEMMA LookupIsLatest ==
  ASSUME NEW list \in [Slots -> Entry \cup {None}], NEW n \in 0..MaxLength,
         \A i \in Slots : (list[i] # None) <=> (i < n),
         \A i, j \in Slots : (i < j /\ list[i] # None /\ list[j] # None)
                             => list[i].height <= list[j].height,
         NEW top \in Nat, NEW l, DOMAIN l = StartBlock..top,
         NEW k, NEW h \in StartBlock..top, Records(list, l, k, h)
  PROVE  Lookup(list, n, h) = Promise!LatestWrite(l, k, h)
<1>1. /\ MaxLength \in Nat /\ n \in Nat /\ StartBlock \in Nat /\ h \in Nat /\ h <= top
      /\ \A i \in 0..n - 1 : i \in Slots
  BY StoreAssumption DEF Slots
<1>2. /\ \A i \in 0..n - 1 : list[i] # None
      /\ \A i, j \in 0..n - 1 : i < j => list[i].height <= list[j].height
  BY <1>1
<1>3. \A i \in Slots : i \in Nat /\ (list[i] # None => list[i].height \in Nat)
  BY StoreAssumption DEF Slots, Entry, Heights
<1>4. PICK c : Cut(list, n, h, c)
  BY <1>1, <1>2, CutExists
<1>5. Lookup(list, n, h) = LastBelow(list, c)
  BY <1>1, <1>4, SearchFinds
<1>6. /\ c \in Nat /\ c <= n
      /\ \A i \in 0..c - 1 : list[i] # None /\ list[i].height <= h
      /\ \A i \in c..n - 1 : list[i].height > h
  BY <1>1, <1>4 DEF Cut
<1>7. ASSUME NEW x \in StartBlock..top, x <= h, k \in writes[l[x]]
      PROVE  \E i \in 0..c - 1 : list[i].height = x
  <2>1. PICK i \in Slots : list[i] # None /\ list[i].height = x
    BY <1>7 DEF Records
  <2>2. i \in Nat /\ i < n /\ x \in Nat
    BY <1>1, <1>3, <2>1
  <2>3. i < c
    BY <1>1, <1>6, <1>7, <2>1, <2>2
  <2> QED
    BY <1>6, <2>1, <2>2, <2>3
<1>8. CASE c = 0
  <2>1. \A x \in DOMAIN l : ~(x <= h /\ k \in writes[l[x]])
    BY <1>7, <1>8
  <2> QED
    BY <1>5, <1>8, <2>1, LatestNone DEF LastBelow
<1>9. CASE c # 0
  <2> DEFINE e == list[c - 1]
  <2>1. /\ c - 1 \in 0..c - 1 /\ c - 1 \in Slots /\ e # None /\ e.height <= h /\ e.height \in Nat
    BY <1>1, <1>3, <1>6, <1>9
  <2>2. e.height \in DOMAIN l /\ e.value = l[e.height] /\ k \in writes[l[e.height]]
    BY <1>1, <2>1 DEF Records
  <2>3. ASSUME NEW x \in DOMAIN l, x <= h, k \in writes[l[x]] PROVE x <= e.height
    <3>1. PICK i \in 0..c - 1 : list[i].height = x
      BY <1>7, <2>3
    <3>2. i = c - 1 \/ (i < c - 1 /\ i \in Slots /\ list[i] # None)
      BY <1>1, <1>6, <3>1
    <3> QED
      BY <2>1, <3>1, <3>2
  <2>4. \A x \in DOMAIN l : x \in Nat
    BY <1>1
  <2> HIDE DEF e
  <2>5. Promise!LatestWrite(l, k, h) = l[e.height]
    <3>1. PICK m : m = e.height
      OBVIOUS
    <3>2. m \in DOMAIN l /\ m <= h /\ k \in writes[l[m]]
          /\ \A x \in DOMAIN l : x <= h /\ k \in writes[l[x]] => x <= m
      BY <2>1, <2>2, <2>3, <3>1
    <3>3. Promise!LatestWrite(l, k, h) = l[m]
      BY ONLY <2>4, <3>2, LatestSome
    <3> QED
      BY <3>1, <3>3
  <2> QED
    BY <1>5, <1>9, <2>2, <2>5 DEF LastBelow, e
<1> QED
  BY <1>8, <1>9

(* One block more. *)
LEMMA LatestExtends ==
  ASSUME StartBlock \in Nat \ {0}, NEW n \in Nat, n >= StartBlock, NEW b, NEW l, NEW m, NEW k,
         DOMAIN l = StartBlock..n, l[n] = b,
         DOMAIN m = StartBlock..n - 1, \A x \in DOMAIN m : l[x] = m[x]
  PROVE  Promise!LatestWrite(l, k, n) =
            IF k \in writes[b] THEN b
            ELSE IF n = StartBlock THEN None ELSE Promise!LatestWrite(m, k, n - 1)
<1>1. CASE k \in writes[b]
  <2>1. n \in DOMAIN l /\ \A x \in DOMAIN l : x \in Nat /\ x <= n
    OBVIOUS
  <2> QED
    BY <1>1, <2>1, LatestSome
<1>2. CASE k \notin writes[b] /\ n = StartBlock
  <2>1. \A x \in DOMAIN l : x = n
    BY <1>2
  <2> QED
    BY <1>2, <2>1, LatestNone
<1>3. CASE k \notin writes[b] /\ n # StartBlock
  <2> DEFINE wl == {x \in DOMAIN l : x <= n /\ k \in writes[l[x]]}
             wm == {x \in DOMAIN m : x <= n - 1 /\ k \in writes[m[x]]}
  <2>1. \A x : x \in wl <=> x \in wm
    <3> TAKE x
    <3>1. CASE x \in StartBlock..n - 1
      BY <1>3, <3>1
    <3>2. CASE x \notin StartBlock..n - 1
      <4>1. x \in StartBlock..n => x = n
        BY <3>2
      <4> QED
        BY <1>3, <3>2, <4>1
    <3> QED
      BY <3>1, <3>2
  <2>2. wl = wm
    BY <2>1
  <2>3. CASE wm = {}
    BY <1>3, <2>2, <2>3 DEF Promise!LatestWrite
  <2>4. CASE wm # {}
    <3> DEFINE t == CHOOSE x \in wm : \A y \in wm : y <= x
    <3>1. wm \in SUBSET (0..n)
      OBVIOUS
    <3>2. t \in wm
      <4>1. \E x \in wm : \A y \in wm : y <= x
        <5> HIDE DEF wm
        <5> QED
          BY <2>4, <3>1, Greatest
      <4> HIDE DEF wm
      <4> QED
        BY <4>1
    <3>3. l[t] = m[t]
      BY <3>2
    <3>4. Promise!LatestWrite(l, k, n) = l[t]
      BY <2>2, <2>4 DEF Promise!LatestWrite
    <3>5. Promise!LatestWrite(m, k, n - 1) = m[t]
      BY <2>4 DEF Promise!LatestWrite
    <3> HIDE DEF t
    <3> QED
      BY <1>3, <3>3, <3>4, <3>5
  <2> QED
    BY <2>3, <2>4
<1> QED
  BY <1>1, <1>2, <1>3

(* The lists of the store are such lists, for the ledger of stored hashes. *)
LEMMA ReadsAreTrue ==
  ASSUME ReadInv
  PROVE  TableTrue
<1> SUFFICES ASSUME ~RollingBack, NEW k \in Keys, NEW h \in StartBlock..Visible
             PROVE  GetAtHeight(k, h) = Promise!LatestWrite(Ledger, k, h)
  BY DEF TableTrue
<1>1. /\ StartBlock \in Nat /\ Visible \in Nat /\ Visible <= indexed /\ indexed \in Nat
      /\ indexed <= MaxHeight /\ MaxHeight \in Nat /\ (Busy => Visible < current) /\ current \in Nat
      /\ job.pc \in {"idle", "flush", "height", "hash"}
      /\ length[k] \in 0..MaxLength /\ entry[k] \in [Slots -> Entry \cup {None}]
  BY ReadFacts, ListFacts DEF Heights
<1>2. DenseBelow(k, length[k])
  BY <1>1 DEF ReadInv, ListInv, DenseOutside, Inside
<1>3. \A i, j \in Slots : (i < j /\ entry[k][i] # None /\ entry[k][j] # None)
                          => entry[k][i].height <= entry[k][j].height
  BY DEF ReadInv, ListInv, Sorted
<1>4. \A x \in Nat : x <= h => Owner(x) = hashAt[x]
  BY <1>1 DEF Owner
<1>5. DOMAIN Ledger = StartBlock..Visible /\ \A x \in StartBlock..Visible : Ledger[x] = hashAt[x]
  BY DEF Ledger
<1>6. ASSUME NEW i \in Slots, entry[k][i] # None, entry[k][i].height <= h
      PROVE  /\ entry[k][i].height >= StartBlock
             /\ entry[k][i].value = Ledger[entry[k][i].height]
             /\ k \in writes[entry[k][i].value]
  <2>1. Owned(k, entry[k][i]) /\ entry[k][i].height \in Nat
    BY <1>6, ListFacts DEF ReadInv, EntriesOwned
  <2>2. entry[k][i].height \in StartBlock..Visible
    BY <1>1, <1>6, <2>1 DEF Owned
  <2> QED
    BY <1>4, <1>5, <1>6, <2>1, <2>2 DEF Owned
<1>7. ASSUME NEW x \in StartBlock..Visible, x <= h, k \in writes[Ledger[x]]
      PROVE  \E i \in Slots : entry[k][i] # None /\ entry[k][i].height = x
  <2>1. x \in Heights /\ x \in Nat /\ x <= indexed /\ x >= StartBlock
    BY <1>1 DEF Heights
  <2>2. Owner(x) = Ledger[x] /\ Settled(x)
    BY <1>4, <1>5, <1>7, <2>1 DEF Settled
  <2>3. Has(k, x)
    BY <1>7, <2>1, <2>2 DEF ReadInv, Stored
  <2> QED
    BY <1>1, <2>3 DEF Has
<1>8. Records(entry[k], Ledger, k, h)
  BY <1>5, <1>6, <1>7 DEF Records
<1>9. Lookup(entry[k], length[k], h) = Promise!LatestWrite(Ledger, k, h)
  BY <1>1, <1>2, <1>3, <1>5, <1>8, LookupIsLatest DEF DenseBelow
<1> QED
  BY <1>9, GetIsLookup

(***************************************************************************)
(* For any program, any tree of blocks and any number of reorgs: once no   *)
(* stored hash disagrees with the node, every read of every indexed height *)
(* is the latest write on the node's chain (get_at_height after            *)
(* handle_reorg and rollback_to_height).                                   *)
(***************************************************************************)
THEOREM ReadsThroughRollbacks == WholeRestarts => (Spec => []ReadsMatchNode)
<1> SUFFICES ASSUME WholeRestarts PROVE Spec => []ReadsMatchNode
  OBVIOUS
<1>1. ReadInv => ReadsMatchNode
  <2> SUFFICES ASSUME ReadInv, job.pc = "idle",
                      \A h \in StartBlock..indexed : hashAt[h] \in {None, BlockAt(h)},
                      NEW k \in Keys, NEW h \in StartBlock..indexed
               PROVE  GetAtHeight(k, h) =
                        Promise!LatestWrite([x \in StartBlock..indexed |-> BlockAt(x)], k, h)
    BY DEF ReadsMatchNode
  <2>1. Visible = indexed /\ ~RollingBack
    BY DEF Visible, RollingBack
  <2>2. \A x \in StartBlock..indexed : hashAt[x] = BlockAt(x)
    BY <2>1 DEF ReadInv, Hashed
  <2>3. Ledger = [x \in StartBlock..indexed |-> BlockAt(x)]
    BY <2>1, <2>2 DEF Ledger
  <2> QED
    BY <2>1, <2>3, ReadsAreTrue DEF TableTrue
<1> QED
  BY <1>1, ReadAlways, PTL

-----------------------------------------------------------------------------
(* Blocks that are being written. *)

(* Neither the lists nor the reads change where nothing is written to them. *)
LEMMA ReadsAside ==
  ASSUME UNCHANGED <<entry, length>>, NEW k, NEW h
  PROVE  GetAtHeight(k, h)' = GetAtHeight(k, h)
<1>1. GetAtHeight(k, h)' = Lookup(entry'[k], length'[k], h)
  BY GetIsLookupNext
<1>2. GetAtHeight(k, h) = Lookup(entry[k], length[k], h)
  BY GetIsLookup
<1> QED
  BY <1>1, <1>2

(* A batch leaves the cut of every list at every indexed height where it is. *)
LEMMA BatchKeepsCuts ==
  ASSUME ListInv, job.pc = "flush", HasRoom(job.block), FlushBatch(job.block, current),
         length' \in [Keys -> 0..MaxLength], entry' \in [Keys -> [Slots -> Entry \cup {None}]],
         NEW k \in Keys, NEW h \in Nat, h <= indexed
  PROVE  GetAtHeight(k, h)' = GetAtHeight(k, h)
<1> DEFINE b == job.block
           e == [height |-> current, value |-> b]
<1>1. /\ indexed \in Nat /\ current \in Nat /\ indexed < current /\ MaxLength \in Nat
      /\ length[k] \in 0..MaxLength /\ entry[k] \in [Slots -> Entry \cup {None}]
      /\ length'[k] \in 0..MaxLength /\ entry'[k] \in [Slots -> Entry \cup {None}]
  BY ListFacts DEF ListInv, Position
<1>2. /\ \A i \in Slots : \/ entry'[k][i] = entry[k][i]
                          \/ i = length[k] /\ entry[k][i] = None
      /\ k \in writes[b] => length[k] \in Slots /\ entry'[k][length[k]] = e
                            /\ length'[k] = length[k] + 1
      /\ k \notin writes[b] => length'[k] = length[k]
      /\ e # None
  BY BatchEntries
<1>3. e.height = current
  OBVIOUS
<1> HIDE DEF e
<1>4. DenseBelow(k, length[k])
  BY DEF ListInv, DenseOutside, Inside
<1>5. \A i \in 0..length[k] - 1 : i \in Slots /\ entry[k][i] # None
  <2>1. \A i \in 0..length[k] - 1 : i \in Slots /\ i < length[k]
    BY <1>1 DEF Slots
  <2> QED
    BY <1>4, <2>1 DEF DenseBelow
<1>6. PICK c : Cut(entry[k], length[k], h, c)
  <2>1. \A i, j \in 0..length[k] - 1 : i < j => entry[k][i].height <= entry[k][j].height
    BY <1>1, <1>5 DEF ListInv, Sorted
  <2> QED
    BY <1>1, <1>5, <2>1, CutExists
<1>7. \A i \in 0..length[k] - 1 : entry'[k][i] = entry[k][i]
  BY <1>2, <1>5
<1>8. Cut(entry'[k], length'[k], h, c)
  <2>1. /\ c \in 0..length[k] /\ length[k] \in Nat
        /\ \A i \in 0..c - 1 : entry[k][i] # None /\ entry[k][i].height <= h
        /\ \A i \in c..length[k] - 1 : entry[k][i] # None /\ entry[k][i].height > h
    BY <1>1, <1>6 DEF Cut
  <2>2. /\ \A i \in 0..c - 1 : entry'[k][i] # None /\ entry'[k][i].height <= h
        /\ \A i \in c..length[k] - 1 : entry'[k][i] # None /\ entry'[k][i].height > h
    BY <1>7, <2>1
  <2>3. CASE k \notin writes[b]
    BY <1>2, <2>1, <2>2, <2>3 DEF Cut
  <2>4. CASE k \in writes[b]
    <3>1. length'[k] = length[k] + 1 /\ entry'[k][length[k]] # None
          /\ entry'[k][length[k]].height > h
      BY <1>1, <1>2, <1>3, <2>4
    <3>2. \A i \in c..length'[k] - 1 : i = length[k] \/ i \in c..length[k] - 1
      <4>1. PICK n \in Nat : n = length[k]
        BY <2>1
      <4>2. c \in Nat /\ length'[k] = n + 1
        BY <2>1, <3>1, <4>1
      <4>3. \A i \in c..(n + 1) - 1 : i = n \/ i \in c..n - 1
        BY <4>2
      <4> QED
        BY <4>1, <4>2, <4>3
    <3> QED
      BY <2>1, <2>2, <3>1, <3>2 DEF Cut
  <2> QED
    BY <2>3, <2>4
<1>9. LastBelow(entry'[k], c) = LastBelow(entry[k], c)
  <2>1. c # 0 => c - 1 \in 0..length[k] - 1
    BY <1>1, <1>6 DEF Cut
  <2> QED
    BY <1>7, <2>1 DEF LastBelow
<1>10. /\ Lookup(entry[k], length[k], h) = LastBelow(entry[k], c)
       /\ Lookup(entry'[k], length'[k], h) = LastBelow(entry'[k], c)
  BY <1>1, <1>6, <1>8, SearchFinds
<1> QED
  BY <1>9, <1>10, GetIsLookup, GetIsLookupNext

(* Outside a rollback only a batch changes the lists. *)
LEMMA WritesOnlyInBatch ==
  ASSUME [Next]_vars, ~RollingBack
  PROVE  \/ UNCHANGED <<entry, length>>
         \/ job.pc = "flush" /\ HasRoom(job.block) /\ FlushBatch(job.block, current)
<1>1. CASE UNCHANGED vars \/ NodeStep \/ Accept \/ PutHeight \/ PutHash \/ Crash
  BY <1>1 DEF vars, db, NodeStep, Accept, PutHeight, PutHash, Crash
<1>2. CASE Flush \/ FlushAgain
  BY <1>2 DEF Flush, FlushAgain
<1>3. CASE Rollback
  BY <1>3 DEF Rollback, RollingBack, BeginRollback, db, FastNextKey, FastTrim, FastPutLength,
              FastNextHeight, FullNextKey, FullErase, FullRewrite, FullDone, LowerHeight
<1> QED
  BY <1>1, <1>2, <1>3 DEF Next

(***************************************************************************)
(* FlushInvisible, for any chains, programs and restarts at a clean point. *)
(***************************************************************************)
THEOREM FlushesInvisible == CleanRestarts => (Spec => FlushInvisible)
<1> SUFFICES ASSUME CleanRestarts PROVE Spec => FlushInvisible
  OBVIOUS
<1> DEFINE Same == ~RollingBack => \A k \in Keys, h \in StartBlock..indexed :
                      GetAtHeight(k, h)' = GetAtHeight(k, h)
<1>1. ASSUME ListInv, ListInv', [Next]_vars PROVE Same
  <2> SUFFICES ASSUME ~RollingBack, NEW k \in Keys, NEW h \in StartBlock..indexed
               PROVE  GetAtHeight(k, h)' = GetAtHeight(k, h)
    OBVIOUS
  <2>1. CASE UNCHANGED <<entry, length>>
    BY <2>1, ReadsAside
  <2>2. CASE job.pc = "flush" /\ HasRoom(job.block) /\ FlushBatch(job.block, current)
    <3>1. h \in Nat /\ h <= indexed
      BY <1>1, ListFacts
    <3>2. /\ length' \in [Keys -> 0..MaxLength]
          /\ entry' \in [Keys -> [Slots -> Entry \cup {None}]]
      BY <1>1 DEF ListInv, TypeOK
    <3> QED
      BY <1>1, <2>2, <3>1, <3>2, BatchKeepsCuts
  <2> QED
    BY <1>1, <2>1, <2>2, WritesOnlyInBatch
<1>2. ListInv /\ ListInv' /\ [Next]_vars => [Same]_vars
  BY <1>1
<1>3. Spec => []ListInv
  BY ListAlways
<1> QED
  BY <1>2, <1>3, PTL DEF Spec, FlushInvisible

-----------------------------------------------------------------------------
(* The promise. *)

(* The variables of the promise. *)
ReaderVars == <<writes, Visible, Ledger, ~RollingBack,
                [k \in Keys |-> [h \in StartBlock..IF RollingBack THEN 0 ELSE Visible |->
                    GetAtHeight(k, h)]]>>

(* A step that writes no hash, and moves neither what is visible nor whether *)
(* it is, is no step of the promise: every read is what the hashes say.      *)
LEMMA ReadersStutter ==
  ASSUME TableTrue, TableTrue', StartBlock \in Nat \ {0},
         UNCHANGED <<writes, hashAt>>, Visible' = Visible, RollingBack' = RollingBack
  PROVE  UNCHANGED ReaderVars
<1>1. Ledger' = Ledger
  BY DEF Ledger
<1> DEFINE T == [k \in Keys |-> [h \in StartBlock..IF RollingBack THEN 0 ELSE Visible |->
                    GetAtHeight(k, h)]]
<1>2. T' = T
  <2>1. CASE RollingBack
    BY <2>1
  <2>2. CASE ~RollingBack
    <3>1. \A k \in Keys, h \in StartBlock..Visible :
             GetAtHeight(k, h) = Promise!LatestWrite(Ledger, k, h)
      BY <2>2 DEF TableTrue
    <3>2. \A k \in Keys, h \in StartBlock..Visible :
             GetAtHeight(k, h)' = Promise!LatestWrite(Ledger, k, h)'
      BY <2>2 DEF TableTrue
    <3>3. \A k, h : Promise!LatestWrite(Ledger, k, h)' = Promise!LatestWrite(Ledger, k, h)
      BY <1>1 DEF Promise!LatestWrite
    <3>4. \A k \in Keys, h \in StartBlock..Visible : GetAtHeight(k, h)' = GetAtHeight(k, h)
      BY <3>1, <3>2, <3>3
    <3> QED
      BY <2>2, <3>4
  <2> QED
    BY <2>1, <2>2
<1> QED
  BY <1>1, <1>2 DEF ReaderVars

(* Nothing is promised at first. *)
LEMMA PromiseInit ==
  ASSUME Init
  PROVE  Promise!Init
<1>1. StartBlock \in Nat \ {0}
  BY StoreAssumption
<1>2. Visible = 0 /\ ~RollingBack
  BY DEF Init, Idle, Visible, RollingBack
<1>3. StartBlock..0 = {}
  BY <1>1
<1> QED
  BY <1>2, <1>3 DEF Promise!Init, Promise!Span, Promise!TableOf
(* store_block_hash makes the block readable. *)
LEMMA PutHashApplies ==
  ASSUME ReadInv, TableTrue, TableTrue', PutHash
  PROVE  Promise!ApplyBlock
<1> DEFINE h == IF Visible < StartBlock THEN StartBlock ELSE Visible + 1
           b == job.block
           table == [k \in Keys |-> [x \in StartBlock..IF RollingBack THEN 0 ELSE Visible |->
                        GetAtHeight(k, x)]]
<1>1. /\ job.pc = "hash" /\ hashAt' = [hashAt EXCEPT ![current] = job.block]
      /\ current' = current + 1 /\ job' = Idle
      /\ UNCHANGED <<chain, writes, length, entry, manifest, indexed, faults>>
  BY DEF PutHash
<1>2. job'.pc = "idle" /\ ~RollingBack /\ ~RollingBack' /\ Busy
  BY <1>1 DEF Idle, RollingBack, Busy
<1>3. /\ current >= StartBlock /\ current \in Nat /\ indexed = current /\ StartBlock \in Nat \ {0}
      /\ Visible = IF current = StartBlock THEN 0 ELSE current - 1
      /\ current \in Heights /\ b \in Blocks
  BY <1>1, ReadFacts, ListFacts DEF ReadInv, ListInv, Position
<1>4. Visible' = current /\ h = current
  BY <1>1, <1>2, <1>3 DEF Visible
<1>5. \A x \in Heights : hashAt'[x] = IF x = current THEN b ELSE hashAt[x]
  BY <1>1, <1>3 DEF ReadInv, ListInv, TypeOK
<1>6. \A x \in StartBlock..current : x \in Heights
  BY <1>3, ReadFacts
<1> HIDE DEF b
<1>7. Visible >= StartBlock => Parent[b] = Ledger[Visible]
  <2> SUFFICES ASSUME Visible >= StartBlock PROVE Parent[b] = Ledger[Visible]
    OBVIOUS
  <2>1. Visible = current - 1 /\ current > StartBlock /\ Visible \in StartBlock..Visible
    BY <1>3
  <2> QED
    BY <1>2, <2>1 DEF ReadInv, Standing, Ledger, b
<1>8. Ledger' = [x \in StartBlock..h |-> IF x = h THEN b ELSE Ledger[x]]
  <2>1. Ledger' = [x \in StartBlock..current |-> hashAt'[x]]
    BY <1>1, <1>4 DEF Ledger
  <2>2. ASSUME NEW x \in StartBlock..current
        PROVE  hashAt'[x] = IF x = current THEN b ELSE Ledger[x]
    <3>1. x # current => x \in StartBlock..Visible
      BY <1>3
    <3> QED
      BY <1>5, <1>6, <3>1 DEF Ledger
  <2> HIDE DEF h
  <2> QED
    BY <1>4, <2>1, <2>2
<1>9. ASSUME NEW k \in Keys, NEW x \in StartBlock..h
      PROVE  GetAtHeight(k, x)' =
                IF x < h THEN table[k][x]
                ELSE IF k \in writes[b] THEN b
                ELSE IF Visible < StartBlock THEN None ELSE table[k][Visible]
  <2>1. CASE x < h
    <3>1. x \in StartBlock..Visible
      BY <1>3, <1>4, <2>1
    <3>2. table[k][x] = GetAtHeight(k, x)
      BY <1>2, <3>1
    <3> HIDE DEF table, h
    <3> QED
      BY <1>1, <2>1, <3>2, ReadsAside
  <2>2. CASE ~(x < h)
    <3>1. x = current /\ current \in StartBlock..current
      BY <1>3, <1>4, <2>2
    <3>2. GetAtHeight(k, x)' = Promise!LatestWrite(Ledger', k, x)
      <4>2. \A q \in Keys, y \in StartBlock..current :
               GetAtHeight(q, y)' = Promise!LatestWrite(Ledger, q, y)'
        BY <1>2, <1>4 DEF TableTrue
      <4>3. \A q, y : Promise!LatestWrite(Ledger, q, y)' = Promise!LatestWrite(Ledger', q, y)
        BY <1>1 DEF Promise!LatestWrite
      <4>4. GetAtHeight(k, x)' = Promise!LatestWrite(Ledger, k, x)'
        BY <3>1, <4>2
      <4> QED
        BY <4>3, <4>4
    <3>3. Promise!LatestWrite(Ledger', k, x) =
            IF k \in writes[b] THEN b
            ELSE IF current = StartBlock THEN None ELSE Promise!LatestWrite(Ledger, k, current - 1)
      <4>1. DOMAIN Ledger' = StartBlock..current /\ Ledger'[current] = b
        BY <1>4, <1>8, <3>1
      <4>2. DOMAIN Ledger = StartBlock..current - 1
        BY <1>3 DEF Ledger
      <4>3. \A y \in DOMAIN Ledger : Ledger'[y] = Ledger[y]
        <5>1. \A y \in StartBlock..current - 1 : y \in StartBlock..current /\ y # current
          BY <1>3
        <5> QED
          BY <1>4, <1>8, <4>2, <5>1
      <4>4. PICK l, m, n : l = Ledger' /\ m = Ledger /\ n = current
        OBVIOUS
      <4>5. /\ StartBlock \in Nat \ {0} /\ n \in Nat /\ n >= StartBlock
            /\ DOMAIN l = StartBlock..n /\ l[n] = b /\ DOMAIN m = StartBlock..n - 1
            /\ \A y \in DOMAIN m : l[y] = m[y]
        BY <1>3, <4>1, <4>2, <4>3, <4>4
      <4>6. Promise!LatestWrite(l, k, n) =
              IF k \in writes[b] THEN b
              ELSE IF n = StartBlock THEN None ELSE Promise!LatestWrite(m, k, n - 1)
        BY ONLY <4>5, LatestExtends
      <4> QED
        BY <3>1, <4>4, <4>6
    <3>4. current # StartBlock =>
            Promise!LatestWrite(Ledger, k, current - 1) = table[k][Visible]
      <4> SUFFICES ASSUME current # StartBlock
                   PROVE Promise!LatestWrite(Ledger, k, current - 1) = table[k][Visible]
        OBVIOUS
      <4>1. Visible = current - 1 /\ Visible \in StartBlock..Visible
        BY <1>3
      <4>2. GetAtHeight(k, Visible) = Promise!LatestWrite(Ledger, k, Visible)
        BY <1>2, <4>1 DEF TableTrue
      <4>3. table[k][Visible] = GetAtHeight(k, Visible)
        BY <1>2, <4>1
      <4> QED
        BY <4>1, <4>2, <4>3
    <3>5. Visible < StartBlock <=> current = StartBlock
      BY <1>3
    <3> HIDE DEF table, h
    <3> QED
      BY <2>2, <3>2, <3>3, <3>4, <3>5
  <2> QED
    BY <2>1, <2>2
<1>10. table' = [k \in Keys |-> [x \in StartBlock..h |->
                   IF x < h THEN table[k][x]
                   ELSE IF k \in writes[b] THEN b
                   ELSE IF Visible < StartBlock THEN None ELSE table[k][Visible]]]
  <2>1. table' = [k \in Keys |-> [x \in StartBlock..h |-> GetAtHeight(k, x)']]
    BY <1>1, <1>2, <1>4
  <2> HIDE DEF h
  <2> QED
    BY <1>9, <2>1
<1> QED
  BY <1>1, <1>2, <1>3, <1>4, <1>7, <1>8, <1>10 DEF Promise!ApplyBlock, Promise!Span, Ledger, b

(* The start of a rollback withdraws the table, *)
LEMMA BeginWithdraws ==
  ASSUME FirstStays, ReadInv, ListInv', BeginRollback
  PROVE  Promise!Withdraw
<1>1. /\ job.pc = "idle"
      /\ UNCHANGED <<chain, writes, length, entry, manifest, indexed, hashAt, current, faults>>
  BY DEF BeginRollback, db
<1>2. job'.pc \in {"fast", "lower", "full"}
  BY DEF BeginRollback, Idle
<1>3. ~RollingBack /\ RollingBack' /\ Visible = indexed /\ Visible' = indexed
  BY <1>1, <1>2 DEF RollingBack, Visible
<1>4. StartBlock <= indexed /\ StartBlock \in Nat \ {0} /\ indexed \in Nat
  BY BeginKeepsReads, ListFacts DEF ReadInv
<1>5. StartBlock..0 = {}
  BY <1>4
<1>6. DOMAIN <<>> = {}
  OBVIOUS
<1> QED
  BY <1>1, <1>3, <1>4, <1>5, <1>6 DEF Promise!Withdraw, Promise!TableOf

(* ... and its end truncates the ledger and puts the table back. *)
LEMMA LowerTruncates ==
  ASSUME ReadInv, TableTrue', LowerHeight
  PROVE  Promise!Truncate
<1>1. /\ job.pc = "lower" /\ indexed' = job.target /\ job' = Idle
      /\ UNCHANGED <<chain, writes, length, entry, manifest, hashAt, faults>>
  BY DEF LowerHeight
<1>2. job'.pc = "idle" /\ RollingBack /\ ~RollingBack'
  BY <1>1 DEF Idle, RollingBack
<1>3. /\ job.target \in Nat /\ job.target < indexed /\ indexed \in Nat
      /\ StartBlock \in Nat \ {0} /\ Visible = indexed /\ Visible' = job.target
  BY <1>1, <1>2, ListFacts DEF ReadInv, Standing, ListInv, JobType, Jobs, Heights, Visible
<1>4. job.target \in 0..Visible - 1
  BY <1>3
<1>5. Ledger' = [h \in StartBlock..job.target |-> Ledger[h]]
  <2>1. \A h \in StartBlock..job.target : h \in StartBlock..Visible
    BY <1>3
  <2> QED
    BY <1>1, <1>3, <2>1 DEF Ledger
<1>7. \A k \in Keys, h \in StartBlock..job.target :
         GetAtHeight(k, h)' = Promise!LatestWrite(Ledger, k, h)'
  BY <1>2, <1>3 DEF TableTrue
<1>8. \A k, h : Promise!LatestWrite(Ledger, k, h)' = Promise!LatestWrite(Ledger', k, h)
  BY <1>1 DEF Promise!LatestWrite
<1>9. [k \in Keys |-> [h \in StartBlock..IF RollingBack THEN 0 ELSE Visible |->
          GetAtHeight(k, h)]]' = Promise!TableOf(Ledger')
  <2>1. [k \in Keys |-> [h \in StartBlock..IF RollingBack THEN 0 ELSE Visible |->
           GetAtHeight(k, h)]]' = [k \in Keys |-> [h \in StartBlock..job.target |-> GetAtHeight(k, h)']]
    BY <1>2, <1>3
  <2>2. DOMAIN Ledger' = StartBlock..job.target
    BY <1>5
  <2>3. \A k \in Keys, h \in StartBlock..job.target :
           GetAtHeight(k, h)' = Promise!LatestWrite(Ledger', k, h)
    BY <1>7, <1>8
  <2>4. Promise!TableOf(Ledger') =
          [k \in Keys |-> [h \in StartBlock..job.target |-> Promise!LatestWrite(Ledger', k, h)]]
    BY <2>2 DEF Promise!TableOf
  <2> QED
    BY <2>1, <2>3, <2>4
<1>10. \E n \in 0..Visible - 1 :
          /\ Visible' = n
          /\ Ledger' = [h \in StartBlock..n |-> Ledger[h]]
          /\ [k \in Keys |-> [h \in StartBlock..IF RollingBack THEN 0 ELSE Visible |->
                GetAtHeight(k, h)]]' = Promise!TableOf(Ledger')
  BY <1>3, <1>4, <1>5, <1>9
<1>11. /\ ~(~RollingBack) /\ (~RollingBack)' = TRUE /\ UNCHANGED writes
  BY <1>1, <1>2
<1> QED
  BY <1>10, <1>11 DEF Promise!Truncate, Promise!Span, Ledger

(* Every step is a step of the promise or none. *)
LEMMA PromiseStep ==
  ASSUME WholeRestarts, ReadInv, ReadInv', TableTrue, TableTrue', [Next]_vars
  PROVE  Promise!Next \/ UNCHANGED ReaderVars
<1>0. StartBlock \in Nat \ {0} /\ ListInv /\ ListInv' /\ FirstStays
  BY StoreAssumption DEF ReadInv, WholeRestarts
<1>1. CASE PutHash
  BY <1>1, PutHashApplies DEF Promise!Next
<1>2. CASE BeginRollback
  BY <1>0, <1>2, BeginWithdraws DEF Promise!Next
<1>3. CASE LowerHeight
  BY <1>3, LowerTruncates DEF Promise!Next
<1>4. CASE UNCHANGED vars \/ NodeStep
  <2>1. UNCHANGED <<writes, hashAt>> /\ Visible' = Visible /\ RollingBack' = RollingBack
    BY <1>4 DEF vars, db, NodeStep, Visible, RollingBack
  <2> QED
    BY <1>0, <2>1, ReadersStutter
<1>5. CASE Accept \/ Crash
  <2>1. /\ job.pc \in {"idle", "flush"} /\ job'.pc \in {"idle", "flush"}
        /\ UNCHANGED <<writes, hashAt, indexed>>
    <3>1. CASE Accept
      BY <3>1 DEF Accept, Idle, db
    <3>2. CASE Crash
      <4>1. job.pc \in CrashAt /\ job' = Idle /\ UNCHANGED <<writes, hashAt, indexed>>
        BY <3>2 DEF Crash, db
      <4> QED
        BY <4>1 DEF Idle, WholeRestarts
    <3> QED
      BY <1>5, <3>1, <3>2
  <2>2. Visible' = Visible /\ RollingBack' = RollingBack
    BY <2>1 DEF Visible, RollingBack
  <2> QED
    BY <1>0, <2>1, <2>2, ReadersStutter
<1>6. CASE Flush \/ FlushAgain
  <2>1. /\ job.pc = "flush" /\ job'.pc \in {"flush", "height"}
        /\ UNCHANGED <<writes, hashAt, indexed>>
    BY <1>0, <1>6 DEF Flush, FlushAgain, ListInv, JobType, Jobs
  <2>2. Visible' = Visible /\ RollingBack' = RollingBack
    BY <2>1 DEF Visible, RollingBack
  <2> QED
    BY <1>0, <2>1, <2>2, ReadersStutter
<1>7. CASE PutHeight
  <2>1. /\ job.pc = "height" /\ job'.pc = "hash" /\ UNCHANGED <<writes, hashAt>>
    BY <1>0, <1>7 DEF PutHeight, ListInv, JobType, Jobs
  <2>2. Visible' = Visible
    BY <1>0, <1>7, PutHeightKeepsReads
  <2>3. RollingBack' = RollingBack
    BY <2>1 DEF RollingBack
  <2> QED
    BY <1>0, <2>1, <2>2, <2>3, ReadersStutter
<1>8. CASE FastNextKey \/ FastTrim \/ FastPutLength \/ FastNextHeight
           \/ FullNextKey \/ FullErase \/ FullRewrite \/ FullDone
  <2>1. /\ job.pc \in {"fast", "trim", "full", "erase", "rewrite"}
        /\ UNCHANGED <<writes, hashAt, indexed>>
    BY <1>8 DEF FastNextKey, FastTrim, FastPutLength, FastNextHeight, FullNextKey, FullErase,
                FullRewrite, FullDone, db
  <2>2. job'.pc \in {"fast", "trim", "full", "erase", "rewrite", "lower"}
    <3>1. JobType
      BY <1>0 DEF ListInv
    <3> QED
      BY <1>8, <3>1 DEF FastNextKey, FastTrim, FastPutLength, FastNextHeight, FullNextKey,
                FullErase, FullRewrite, FullDone, JobType, Jobs, Idle
  <2>3. Visible' = Visible /\ RollingBack' = RollingBack
    BY <2>1, <2>2 DEF Visible, RollingBack
  <2> QED
    BY <1>0, <2>1, <2>3, ReadersStutter
<1> QED
  BY <1>1, <1>2, <1>3, <1>4, <1>5, <1>6, <1>7, <1>8 DEF Next, Rollback

(***************************************************************************)
(* The batches, the single puts and both rollbacks implement the versioned *)
(* map: a block becomes readable at once, a rollback withdraws the table   *)
(* and gives back exactly that of the blocks below it (smt.rs, rollback.rs *)
(* and snapshot_sync.rs together).                                         *)
(***************************************************************************)
THEOREM StoreImplementsPromise == WholeRestarts => (Spec => ImplementsPromise)
<1> SUFFICES ASSUME WholeRestarts PROVE Spec => ImplementsPromise
  OBVIOUS
<1>1. Init => Promise!Init
  BY PromiseInit
<1>2. Spec => []ReadInv
  BY ReadAlways
<1>3. ReadInv => TableTrue
  BY ReadsAreTrue
<1>4. /\ ReadInv /\ ReadInv' /\ TableTrue /\ TableTrue' /\ [Next]_vars
      => [Promise!Next]_ReaderVars
  BY PromiseStep
<1> QED
  BY <1>1, <1>2, <1>3, <1>4, PTL DEF Spec, ImplementsPromise, Promise!Spec, ReaderVars, Ledger

-----------------------------------------------------------------------------
(* The reads while the node only extends its chain. *)

(* The heights whose batch is written. *)
Written(h) == h >= StartBlock /\ (h <= indexed \/ (job.pc = "height" /\ h = current))

(* Every block of the chain that is written has an entry in each list it    *)
(* changes, and there are no entries below the first height.                *)
LineStored ==
    /\ indexed <= Tip
    /\ \A k \in Keys, i \in Slots : entry[k][i] # None => entry[k][i].height >= StartBlock
    /\ \A k \in Keys, h \in Heights :
          Written(h) /\ k \in writes[BlockAt(h)] =>
              \E i \in Slots : entry[k][i] # None /\ entry[k][i].height = h

(* It holds in the initial states, *)
LEMMA StoredInit == Init => LineStored
<1> SUFFICES ASSUME Init PROVE LineStored
  OBVIOUS
<1>1. StartBlock \in Nat \ {0} /\ MaxHeight \in Nat /\ indexed = 0 /\ job.pc = "idle" /\ LineInv
  BY LineInit, StoreAssumption DEF Init, Idle
<1>2. \A h \in Heights : ~Written(h)
  BY <1>1 DEF Written, Heights
<1>3. indexed <= Tip
  BY <1>1, LineFacts
<1>4. \A k \in Keys, i \in Slots : entry[k][i] = None
  BY DEF Init
<1> QED
  BY <1>2, <1>3, <1>4 DEF LineStored

(* A step that writes no entry and makes no height written. *)
LEMMA StoredAside ==
  ASSUME LineStored, UNCHANGED <<chain, writes, entry>>, indexed' <= Tip,
         \A h \in Heights : Written(h)' => Written(h)
  PROVE  LineStored'
<1>1. Tip' = Tip /\ \A h : BlockAt(h)' = BlockAt(h)
  BY DEF Tip, BlockAt
<1> QED
  BY <1>1 DEF LineStored

(* when the node extends its chain, *)
LEMMA NodeKeepsStored ==
  ASSUME OneBranch, LineInv, LineStored, NodeStep
  PROVE  LineStored'
<1>1. /\ chain' \in Chains /\ chain \in Chains /\ Len(chain') > Len(chain)
      /\ UNCHANGED <<writes, length, entry, manifest, indexed, hashAt, current, job, faults>>
  BY DEF NodeStep, NodeAdvance, LineInv, TypeOK, db
<1>2. /\ Tip \in Nat /\ Tip' \in Nat /\ Tip' >= Tip
      /\ \A h \in 0..Tip : BlockAt(h)' = BlockAt(h)
  <2>1. Len(chain) \in Nat /\ Len(chain') \in Nat /\ Len(chain) > 0
    BY <1>1, ChainShape, StoreAssumption
  <2>2. \A i \in 1..Len(chain) : chain[i] = chain'[i]
    BY <1>1, <2>1 DEF OneBranch
  <2> QED
    BY <1>1, <2>1, <2>2 DEF Tip, BlockAt
<1>3. indexed \in Nat /\ current \in Nat /\ (job.pc = "height" => current <= Tip)
  BY LineFacts DEF LineInv, JobLine
<1>4. indexed' <= Tip'
  BY <1>1, <1>2, <1>3 DEF LineStored
<1>5. \A k \in Keys, i \in Slots : entry'[k][i] # None => entry'[k][i].height >= StartBlock
  BY <1>1 DEF LineStored
<1>6. ASSUME NEW k \in Keys, NEW h \in Heights, Written(h)', k \in writes[BlockAt(h)']
      PROVE  \E i \in Slots : entry[k][i] # None /\ entry[k][i].height = h
  <2>1. Written(h) /\ h \in 0..Tip
    BY <1>1, <1>2, <1>3, <1>6, LineFacts DEF Written, LineStored, Heights
  <2> QED
    BY <1>2, <1>6, <2>1 DEF LineStored
<1> QED
  BY <1>1, <1>4, <1>5, <1>6 DEF LineStored

(* and when a batch writes the block of the height in progress. *)
LEMMA BatchKeepsStored ==
  ASSUME LineInv, LineStored, job.pc = "flush", HasRoom(job.block),
         FlushBatch(job.block, current), UNCHANGED <<chain, writes, indexed, current>>
  PROVE  LineStored'
<1> DEFINE b == job.block
           e == [height |-> current, value |-> b]
<1>1. /\ current \in Nat /\ current >= StartBlock /\ b = BlockAt(current) /\ b \in Blocks
      /\ current \in Heights /\ writes[b] \in SUBSET Keys /\ indexed \in Nat
      /\ current = ResumeHeight(indexed) /\ StartBlock \in Nat /\ MaxLength \in Nat
  BY LineFacts DEF LineInv, JobLine, Resumable, Heights
<1>2. e # None /\ e.height = current
  BY <1>1, StoreAssumption DEF Heights
<1> HIDE DEF e
<1>3. ASSUME NEW k \in Keys
      PROVE  /\ k \in writes[b] => length[k] \in Slots
             /\ \A i \in Slots : entry'[k][i] =
                   IF k \in writes[b] /\ i = length[k] THEN e ELSE entry[k][i]
  <2>1. entry[k] \in [Slots -> Entry \cup {None}] /\ length[k] \in 0..MaxLength
    BY DEF LineInv, TypeOK
  <2>2. CASE k \in writes[b]
    <3>1. entry'[k] = [entry[k] EXCEPT ![length[k]] = e]
      BY <2>2 DEF FlushBatch, e
    <3>2. length[k] \in Slots
      BY <1>1, <2>1, <2>2 DEF HasRoom, Slots
    <3> QED
      BY <2>1, <2>2, <3>1, <3>2
  <2>3. CASE k \notin writes[b]
    BY <2>3 DEF FlushBatch
  <2> QED
    BY <2>2, <2>3
<1>4. \A k \in Keys, i \in Slots : entry[k][i] # None => i # length[k]
  <2>1. \A k \in Keys, i \in Slots : length[k] \in Nat /\ i \in Nat
    BY <1>1 DEF LineInv, TypeOK, Slots
  <2> QED
    BY <2>1 DEF LineInv, Dense
<1>5. \A k \in Keys, i \in Slots : entry'[k][i] # None => entry'[k][i].height >= StartBlock
  BY <1>1, <1>2, <1>3 DEF LineStored
<1>6. ASSUME NEW k \in Keys, NEW h \in Heights, Written(h)', k \in writes[BlockAt(h)]
      PROVE  \E i \in Slots : entry'[k][i] # None /\ entry'[k][i].height = h
  <2>1. h >= StartBlock /\ (h <= indexed \/ h = current)
    BY <1>6 DEF Written
  <2>2. CASE h <= indexed
    <3>1. PICK i \in Slots : entry[k][i] # None /\ entry[k][i].height = h
      BY <1>6, <2>1, <2>2 DEF LineStored, Written
    <3>2. entry'[k][i] = entry[k][i]
      BY <1>3, <1>4, <3>1
    <3> QED
      BY <3>1, <3>2
  <2>3. CASE h = current
    <3>1. k \in writes[b]
      BY <1>1, <1>6, <2>3
    <3>2. length[k] \in Slots /\ entry'[k][length[k]] = e
      BY <1>3, <3>1
    <3> QED
      BY <1>2, <2>3, <3>2
  <2> QED
    BY <2>1, <2>2, <2>3
<1>7. Tip' = Tip /\ \A h : BlockAt(h)' = BlockAt(h)
  BY DEF Tip, BlockAt
<1> QED
  BY <1>5, <1>6, <1>7 DEF LineStored

(* Every step keeps it. *)
LEMMA StoredNext ==
  ASSUME OneBranch, LineInv, LineStored, [Next]_vars
  PROVE  LineStored'
<1>1. /\ indexed \in Nat /\ current \in Nat /\ StartBlock \in Nat \ {0} /\ Tip \in Nat
      /\ (job.pc # "hash" => current = ResumeHeight(indexed))
      /\ (job.pc # "idle" => current <= Tip) /\ indexed <= Tip
      /\ \A h \in Heights : h \in Nat
  BY LineFacts DEF LineInv, Resumable, JobLine, LineStored, Heights
<1>2. CASE NodeStep
  BY <1>2, NodeKeepsStored
<1>3. CASE Flush \/ FlushAgain
  BY <1>3, BatchKeepsStored DEF Flush, FlushAgain
<1>4. CASE Accept \/ Crash \/ UNCHANGED vars
  <2>1. /\ UNCHANGED <<chain, writes, entry, indexed>>
        /\ job'.pc = "height" => job.pc = "height" /\ current' = current
    <3>1. CASE Accept
      BY <3>1 DEF Accept, db, Idle
    <3>2. CASE Crash
      BY <3>2 DEF Crash, db, Idle
    <3>3. CASE UNCHANGED vars
      BY <3>3 DEF vars, db
    <3> QED
      BY <1>4, <3>1, <3>2, <3>3
  <2>2. \A h \in Heights : Written(h)' => Written(h)
    BY <2>1 DEF Written
  <2> QED
    BY <1>1, <2>1, <2>2, StoredAside
<1>5. CASE PutHeight
  <2>1. /\ job.pc = "height" /\ job' = [job EXCEPT !.pc = "hash"] /\ indexed' = current
        /\ UNCHANGED <<chain, writes, entry, current>>
    BY <1>5 DEF PutHeight
  <2>2. job'.pc = "hash"
    BY <2>1 DEF LineInv, JobLine, Idle
  <2>3. \A h \in Heights : Written(h)' => Written(h)
    <3> SUFFICES ASSUME NEW h \in Heights, Written(h)' PROVE Written(h)
      OBVIOUS
    <3>1. h >= StartBlock /\ h <= current /\ h \in Nat
      BY <1>1, <2>1, <2>2 DEF Written
    <3> QED
      BY <1>1, <2>1, <3>1 DEF Written, ResumeHeight
  <2> QED
    BY <1>1, <2>1, <2>3, StoredAside
<1>6. CASE PutHash
  <2>1. /\ UNCHANGED <<chain, writes, entry, indexed>> /\ job'.pc = "idle"
    BY <1>6 DEF PutHash, Idle
  <2>2. \A h \in Heights : Written(h)' => Written(h)
    BY <2>1 DEF Written
  <2> QED
    BY <1>1, <2>1, <2>2, StoredAside
<1>7. CASE Rollback
  <2>1. job.pc \in {"idle", "flush", "height", "hash"}
    BY DEF LineInv, JobLine
  <2>2. ~BeginRollback
    BY NoReorgOnLine DEF BeginRollback
  <2>3. ~ (FastNextKey \/ FastTrim \/ FastPutLength \/ FastNextHeight)
    BY <2>1 DEF FastNextKey, FastTrim, FastPutLength, FastNextHeight
  <2>4. ~ (FullNextKey \/ FullErase \/ FullRewrite \/ FullDone \/ LowerHeight)
    BY <2>1 DEF FullNextKey, FullErase, FullRewrite, FullDone, LowerHeight
  <2> QED
    BY <1>7, <2>2, <2>3, <2>4 DEF Rollback
<1> QED
  BY <1>2, <1>3, <1>4, <1>5, <1>6, <1>7 DEF Next

(***************************************************************************)
(* While the node only extends its chain, no crash between any two writes  *)
(* and no block flushed twice changes what is read: every key reads at     *)
(* every indexed height the latest block of the chain that wrote it.       *)
(***************************************************************************)
THEOREM ReadsOnLine == OneBranch => (Spec => []ReadsMatchNode)
<1> SUFFICES ASSUME OneBranch PROVE Spec => []ReadsMatchNode
  OBVIOUS
<1>1. LineInv /\ LineStored => ReadsMatchNode
  <2> SUFFICES ASSUME LineInv, LineStored, job.pc = "idle",
                      NEW k \in Keys, NEW h \in StartBlock..indexed
               PROVE  GetAtHeight(k, h) =
                        Promise!LatestWrite([x \in StartBlock..indexed |-> BlockAt(x)], k, h)
    BY DEF ReadsMatchNode
  <2> DEFINE l == [x \in StartBlock..indexed |-> BlockAt(x)]
  <2>1. /\ StartBlock \in Nat /\ indexed \in Nat /\ indexed \in Heights /\ MaxLength \in Nat
        /\ MaxHeight \in Nat
        /\ length[k] \in 0..MaxLength /\ entry[k] \in [Slots -> Entry \cup {None}]
    BY LineFacts DEF LineInv, TypeOK
  <2>2. \A i \in Slots : (entry[k][i] # None) <=> (i < length[k])
    BY DEF LineInv, Dense
  <2>3. \A i, j \in Slots : (i < j /\ entry[k][i] # None /\ entry[k][j] # None)
                            => entry[k][i].height <= entry[k][j].height
    <3> SUFFICES ASSUME NEW i \in Slots, NEW j \in Slots,
                        i < j, entry[k][i] # None, entry[k][j] # None
                 PROVE  entry[k][i].height <= entry[k][j].height
      OBVIOUS
    <3>1. i < length[k] /\ j < length[k]
      BY <2>2
    <3>2. i \in 0..length[k] - 1 /\ j \in 0..length[k] - 1
      BY <2>1, <3>1 DEF Slots
    <3> QED
      BY <3>2 DEF LineInv, EntriesOrdered
  <2>4. ASSUME NEW i \in Slots, entry[k][i] # None, entry[k][i].height <= h
        PROVE  /\ entry[k][i].height >= StartBlock /\ entry[k][i].value = l[entry[k][i].height]
               /\ k \in writes[entry[k][i].value]
    <3>1. entry[k][i].height >= StartBlock /\ TrueEntry(k, entry[k][i])
          /\ entry[k][i].height \in Nat
      BY <2>1, <2>4 DEF LineStored, LineInv, TrueEntries, Entry, Heights
    <3>2. entry[k][i].height \in StartBlock..indexed
      BY <2>1, <2>4, <3>1
    <3> QED
      BY <3>1, <3>2 DEF TrueEntry
  <2>5. ASSUME NEW x \in DOMAIN l, x <= h, k \in writes[l[x]]
        PROVE  \E i \in Slots : entry[k][i] # None /\ entry[k][i].height = x
    <3>1. x \in Heights /\ Written(x) /\ l[x] = BlockAt(x)
      BY <2>1 DEF Heights, Written
    <3> QED
      BY <2>5, <3>1 DEF LineStored
  <2>6. Records(entry[k], l, k, h)
    BY <2>4, <2>5 DEF Records
  <2>7. DOMAIN l = StartBlock..indexed
    OBVIOUS
  <2> HIDE DEF l
  <2>8. Lookup(entry[k], length[k], h) = Promise!LatestWrite(l, k, h)
    BY <2>1, <2>2, <2>3, <2>6, <2>7, LookupIsLatest
  <2> QED
    BY <2>8, GetIsLookup DEF l
<1>2. LineInv /\ LineStored /\ [Next]_vars => LineStored'
  BY StoredNext
<1>3. Spec => []LineInv
  BY LineAlways
<1> QED
  BY <1>1, <1>2, <1>3, StoredInit, PTL DEF Spec

=============================================================================
