------------------------ MODULE AlkanesMessageProofs ------------------------
(***************************************************************************)
(* Messages to alkanes, for any contracts, any depth of calls and any      *)
(* order of failures: the checkpoints always match the calls, every call   *)
(* has all of its effects or none, a contract's storage is its own, every  *)
(* balance is a u128, a contract that does not exist yet holds nothing,    *)
(* and of a token that nobody mints there is always as much as before.     *)
(***************************************************************************)
EXTENDS AlkanesMessage, WellFoundedInduction, SequenceTheorems, TLAPS

\* Numbers that are smaller than others: a relation without infinite descent.
Smaller == {p \in Nat \X Nat : p[1] < p[2]}

\* A set of positive numbers up to a bound has a greatest one.
LEMMA HasGreatest ==
  ASSUME NEW n \in Nat, NEW S \in SUBSET (1..n), S # {}
  PROVE  Greatest(S) \in S /\ \A j \in S : j <= Greatest(S)
<1> DEFINE T == {n - y : y \in S}
<1>1. T \in SUBSET Nat /\ T # {}
  <2>1. \A y \in S : n - y \in Nat
    OBVIOUS
  <2>2. T # {}
    OBVIOUS
  <2> QED
    BY <2>1, <2>2
<1>2. IsWellFoundedOn(Smaller, Nat)
  BY NatLessThanWellFounded DEF OpToRel, Smaller
<1>3. PICK t \in T : \A u \in T : ~ (<<u, t>> \in Smaller)
  BY <1>1, <1>2, WFMin
<1>4. PICK x \in S : t = n - x
  BY <1>3
<1>5. ASSUME NEW y \in S PROVE y <= x
  <2>1. n - y \in T /\ n - y \in Nat /\ n - x \in Nat
    OBVIOUS
  <2>2. <<n - y, n - x>> \notin Smaller
    BY <1>3, <1>4, <2>1
  <2>3. ~ (n - y < n - x)
    BY <2>1, <2>2 DEF Smaller
  <2> QED
    BY <2>3
<1>6. \E i \in S : \A j \in S : j <= i
  BY <1>5
<1> QED
  BY <1>6 DEF Greatest

-----------------------------------------------------------------------------
(* What is seen through a stack of layers. *)

Holders(L, n, k) == {i \in 1..n : k \in DOMAIN L[i]}

\* Without layers the cells are seen.
LEMMA SeenBottom ==
  ASSUME NEW c, NEW L, NEW k
  PROVE  Seen(c, L, 0, k) = c[k]
BY DEF Seen

\* The top layer first, and then what is below it.
LEMMA SeenStep ==
  ASSUME NEW c, NEW L, NEW n \in Nat, n > 0, NEW k
  PROVE  Seen(c, L, n, k) =
           IF k \in DOMAIN L[n] THEN L[n][k] ELSE Seen(c, L, n - 1, k)
<1>1. CASE k \in DOMAIN L[n]
  <2> DEFINE H == Holders(L, n, k)
  <2>1. H \in SUBSET (1..n) /\ n \in H
    BY <1>1 DEF Holders
  <2>2. Greatest(H) \in H /\ n <= Greatest(H)
    BY <2>1, HasGreatest
  <2>3. Greatest(H) = n
    BY <2>1, <2>2
  <2> QED
    BY <1>1, <2>1, <2>3 DEF Seen, Holders
<1>2. CASE k \notin DOMAIN L[n]
  <2>1. Holders(L, n, k) = Holders(L, n - 1, k)
    BY <1>2 DEF Holders
  <2> QED
    BY <1>2, <2>1 DEF Seen, Holders
<1> QED
  BY <1>1, <1>2

\* Two stacks that agree below n show the same there.
LEMMA SeenAgrees ==
  ASSUME NEW c, NEW L, NEW M, NEW n \in Nat, NEW k,
         \A i \in 1..n : L[i] = M[i]
  PROVE  Seen(c, L, n, k) = Seen(c, M, n, k)
<1> DEFINE H == Holders(L, n, k)
<1>1. H = Holders(M, n, k)
  BY DEF Holders
<1>2. CASE H = {}
  BY <1>1, <1>2 DEF Seen, Holders
<1>3. CASE H # {}
  <2>1. H \in SUBSET (1..n)
    BY DEF Holders
  <2>2. Greatest(H) \in 1..n
    BY <1>3, <2>1, HasGreatest
  <2> QED
    BY <1>1, <1>3, <2>2 DEF Seen, Holders
<1> QED
  BY <1>2, <1>3

-----------------------------------------------------------------------------
(* The operations on a stack, and what is seen through it afterwards. *)

\* The writes a layer can hold.
Layer == UNION {[D -> Nat] : D \in SUBSET Keys}

Shows(c, L, n) == [k \in Keys |-> Seen(c, L, n, k)]

LEMMA LayerShape ==
  /\ NoWrites \in Layer
  /\ \A w \in Layer : DOMAIN w \subseteq Keys /\ \A k \in DOMAIN w : w[k] \in Nat
  /\ \A w, f \in Layer : Over(w, f) \in Layer
<1>1. NoWrites \in [{} -> Nat]
  BY DEF NoWrites
<1>2. ASSUME NEW w \in Layer
      PROVE  DOMAIN w \subseteq Keys /\ \A k \in DOMAIN w : w[k] \in Nat
  BY DEF Layer
<1>3. ASSUME NEW w \in Layer, NEW f \in Layer
      PROVE  Over(w, f) \in Layer
  <2>1. Over(w, f) \in [DOMAIN w \cup DOMAIN f -> Nat]
    BY <1>2, <1>3 DEF Over
  <2>2. DOMAIN w \cup DOMAIN f \in SUBSET Keys
    BY <1>2, <1>3
  <2> QED
    BY <2>1, <2>2 DEF Layer
<1> QED
  BY <1>1, <1>2, <1>3 DEF Layer

\* A layer over cells shows as the cells.
LEMMA ShowsTyped ==
  ASSUME NEW c \in [Keys -> Nat], NEW L \in Seq(Layer), NEW n \in 0..Len(L)
  PROVE  Shows(c, L, n) \in [Keys -> Nat]
<1> SUFFICES ASSUME NEW k \in Keys PROVE Seen(c, L, n, k) \in Nat
  BY DEF Shows
<1> DEFINE H == Holders(L, n, k)
<1>1. CASE H = {}
  BY <1>1 DEF Seen, Holders
<1>2. CASE H # {}
  <2>1. H \in SUBSET (1..n) /\ n \in Nat
    BY DEF Holders
  <2>2. Greatest(H) \in H
    BY <1>2, <2>1, HasGreatest
  <2>3. Greatest(H) \in 1..Len(L) /\ k \in DOMAIN L[Greatest(H)]
    BY <2>1, <2>2 DEF Holders
  <2>4. L[Greatest(H)] \in Layer
    BY <2>3
  <2>5. L[Greatest(H)][k] \in Nat
    BY <2>3, <2>4, LayerShape
  <2> QED
    BY <1>2, <2>5 DEF Seen, Holders
<1> QED
  BY <1>1, <1>2

LEMMA ShowsAgrees ==
  ASSUME NEW c, NEW L, NEW M, NEW n \in Nat,
         \A i \in 1..n : L[i] = M[i]
  PROVE  Shows(c, L, n) = Shows(c, M, n)
BY SeenAgrees DEF Shows

\* set() changes what is seen where it writes, and nothing below the top.
LEMMA PutShows ==
  ASSUME NEW c, NEW L \in Seq(Layer), Len(L) > 0, NEW w \in Layer
  PROVE  /\ Put(L, w) \in Seq(Layer) /\ Len(Put(L, w)) = Len(L)
         /\ \A i \in 1..(Len(L) - 1) : Put(L, w)[i] = L[i]
         /\ Put(L, w)[Len(L)] = Over(w, L[Len(L)])
         /\ Shows(c, Put(L, w), Len(L)) = Over(w, Shows(c, L, Len(L)))
<1> DEFINE n == Len(L)
           P == Put(L, w)
<1>0. n \in Nat /\ n > 0 /\ L[n] \in Layer
  OBVIOUS
<1>1. Over(w, L[n]) \in Layer
  BY <1>0, LayerShape
<1>2. P \in Seq(Layer) /\ Len(P) = n /\ P[n] = Over(w, L[n])
  BY <1>0, <1>1 DEF Put
<1>3. \A i \in 1..(n - 1) : P[i] = L[i]
  BY <1>0 DEF Put
<1>4. ASSUME NEW k \in Keys
      PROVE  Seen(c, P, n, k) = IF k \in DOMAIN w THEN w[k] ELSE Seen(c, L, n, k)
  <2>1. Seen(c, P, n, k) =
          IF k \in DOMAIN P[n] THEN P[n][k] ELSE Seen(c, P, n - 1, k)
    BY <1>0, SeenStep
  <2>2. Seen(c, L, n, k) =
          IF k \in DOMAIN L[n] THEN L[n][k] ELSE Seen(c, L, n - 1, k)
    BY <1>0, SeenStep
  <2>3. Seen(c, P, n - 1, k) = Seen(c, L, n - 1, k)
    BY <1>0, <1>3, SeenAgrees
  <2> QED
    BY <1>2, <2>1, <2>2, <2>3 DEF Over
<1>5. DOMAIN w \cup Keys = Keys
  BY LayerShape
<1>6. Shows(c, P, n) = Over(w, Shows(c, L, n))
  BY <1>4, <1>5 DEF Shows, Over
<1> QED
  BY <1>2, <1>3, <1>6

\* checkpoint() changes nothing that is seen.
LEMMA CheckpointShows ==
  ASSUME NEW c, NEW L \in Seq(Layer)
  PROVE  /\ Checkpoint(L) \in Seq(Layer) /\ Len(Checkpoint(L)) = Len(L) + 1
         /\ \A i \in 1..Len(L) : Checkpoint(L)[i] = L[i]
         /\ Shows(c, Checkpoint(L), Len(L) + 1) = Shows(c, L, Len(L))
<1> DEFINE n == Len(L)
           P == Checkpoint(L)
<1>1. P \in Seq(Layer) /\ Len(P) = n + 1 /\ P[n + 1] = NoWrites
  BY LayerShape DEF Checkpoint
<1>2. \A i \in 1..n : P[i] = L[i]
  BY DEF Checkpoint
<1>3. ASSUME NEW k PROVE Seen(c, P, n + 1, k) = Seen(c, L, n, k)
  <2>0. n \in Nat /\ n + 1 \in Nat /\ n + 1 > 0 /\ (n + 1) - 1 = n
    OBVIOUS
  <2>1. Seen(c, P, n + 1, k) =
          IF k \in DOMAIN P[n + 1] THEN P[n + 1][k] ELSE Seen(c, P, n, k)
    <3> HIDE DEF P, n
    <3>1. \A m \in Nat : m > 0 =>
            Seen(c, P, m, k) =
              IF k \in DOMAIN P[m] THEN P[m][k] ELSE Seen(c, P, m - 1, k)
      BY SeenStep
    <3> QED
      BY <2>0, <3>1
  <2>2. Seen(c, P, n, k) = Seen(c, L, n, k)
    BY <1>2, SeenAgrees
  <2> QED
    BY <1>1, <2>1, <2>2 DEF NoWrites
<1> QED
  BY <1>1, <1>2, <1>3 DEF Shows

\* rollback() leaves what was below.
LEMMA RollbackShape ==
  ASSUME NEW L \in Seq(Layer), Len(L) > 0
  PROVE  /\ Rollback(L) \in Seq(Layer) /\ Len(Rollback(L)) = Len(L) - 1
         /\ \A i \in 1..(Len(L) - 1) : Rollback(L)[i] = L[i]
<1> DEFINE n == Len(L) - 1
<1>1. n \in Nat /\ \A i \in 1..n : L[i] \in Layer /\ 1 + i - 1 = i
  OBVIOUS
<1>2. (IF 1 <= n THEN n - 1 + 1 ELSE 0) = n /\ n - 1 + 1 = n
  <2> HIDE DEF n
  <2> QED
    BY <1>1
<1>3. /\ SubSeq(L, 1, n) \in Seq(Layer) /\ Len(SubSeq(L, 1, n)) = n
      /\ \A i \in 1..n : SubSeq(L, 1, n)[i] = L[i]
  <2> HIDE DEF n
  <2>1. /\ SubSeq(L, 1, n) \in Seq(Layer)
        /\ Len(SubSeq(L, 1, n)) = IF 1 <= n THEN n - 1 + 1 ELSE 0
        /\ \A i \in 1..(n - 1 + 1) : SubSeq(L, 1, n)[i] = L[1 + i - 1]
    BY <1>1, SubSeqProperties
  <2> QED
    BY <1>1, <1>2, <2>1
<1> QED
  BY <1>3 DEF Rollback

\* commit() changes nothing that is seen: the newer write wins.
LEMMA CommitShows ==
  ASSUME NEW c, NEW L \in Seq(Layer), Len(L) > 1
  PROVE  /\ Commit(L) \in Seq(Layer) /\ Len(Commit(L)) = Len(L) - 1
         /\ \A i \in 1..(Len(L) - 2) : Commit(L)[i] = L[i]
         /\ Shows(c, Commit(L), Len(L) - 1) = Shows(c, L, Len(L))
<1> DEFINE n == Len(L)
           w == L[n]
           R == Rollback(L)
<1>0. n \in Nat /\ n > 1 /\ w \in Layer
  OBVIOUS
<1>1. R \in Seq(Layer) /\ Len(R) = n - 1 /\ \A i \in 1..(n - 1) : R[i] = L[i]
  BY RollbackShape
<1>2. Commit(L) = Put(R, w)
  BY DEF Commit
<1>3. /\ Put(R, w) \in Seq(Layer) /\ Len(Put(R, w)) = n - 1
      /\ \A i \in 1..(n - 2) : Put(R, w)[i] = R[i]
      /\ Shows(c, Put(R, w), n - 1) = Over(w, Shows(c, R, n - 1))
  <2>1. Len(R) > 0 /\ (n - 1) - 1 = n - 2
    BY <1>0, <1>1
  <2> HIDE DEF R, w
  <2>2. /\ Put(R, w) \in Seq(Layer) /\ Len(Put(R, w)) = Len(R)
        /\ \A i \in 1..(Len(R) - 1) : Put(R, w)[i] = R[i]
        /\ Shows(c, Put(R, w), Len(R)) = Over(w, Shows(c, R, Len(R)))
    BY <1>0, <1>1, <2>1, PutShows
  <2> QED
    BY <1>1, <2>1, <2>2
<1>4. Shows(c, R, n - 1) = Shows(c, L, n - 1)
  BY <1>0, <1>1, ShowsAgrees
<1>5. Shows(c, L, n) = Over(w, Shows(c, L, n - 1))
  <2>1. DOMAIN w \cup Keys = Keys
    BY <1>0, LayerShape
  <2>2. \A k \in Keys : Seen(c, L, n, k) =
          IF k \in DOMAIN w THEN w[k] ELSE Seen(c, L, n - 1, k)
    BY <1>0, SeenStep
  <2> HIDE DEF w
  <2> QED
    BY <2>1, <2>2 DEF Shows, Over
<1>6. Shows(c, Put(R, w), n - 1) = Shows(c, L, n)
  BY <1>3, <1>4, <1>5
<1>7. \A i \in 1..(n - 2) : Put(R, w)[i] = L[i]
  BY <1>0, <1>1, <1>3
<1> QED
  BY <1>2, <1>3, <1>6, <1>7
-----------------------------------------------------------------------------
(* What the actions do to the stack. *)

\* A message begins: a checkpoint, its writes, and a checkpoint for the run.
LEMMA EnterShows ==
  ASSUME NEW c, NEW L \in Seq(Layer), NEW w \in Layer,
         NEW M, M = Checkpoint(Put(Checkpoint(L), w))
  PROVE  /\ M \in Seq(Layer) /\ Len(M) = Len(L) + 2
         /\ \A i \in 1..Len(L) : M[i] = L[i]
         /\ Shows(c, M, Len(M)) = Over(w, Shows(c, L, Len(L)))
<1> DEFINE A == Checkpoint(L)
           B == Put(A, w)
<1>1. /\ A \in Seq(Layer) /\ Len(A) = Len(L) + 1
      /\ \A i \in 1..Len(L) : A[i] = L[i]
      /\ Shows(c, A, Len(A)) = Shows(c, L, Len(L))
  BY CheckpointShows
<1>2. Len(L) \in Nat /\ Len(A) > 0 /\ Len(A) - 1 = Len(L)
  BY <1>1
<1>3. M = Checkpoint(B)
  OBVIOUS
<1> HIDE DEF A
<1>4. /\ B \in Seq(Layer) /\ Len(B) = Len(A)
      /\ \A i \in 1..(Len(A) - 1) : B[i] = A[i]
      /\ Shows(c, B, Len(A)) = Over(w, Shows(c, A, Len(A)))
  BY <1>1, <1>2, PutShows
<1> HIDE DEF B
<1>5. /\ M \in Seq(Layer) /\ Len(M) = Len(B) + 1
      /\ \A i \in 1..Len(B) : M[i] = B[i]
      /\ Shows(c, M, Len(B) + 1) = Shows(c, B, Len(B))
  BY <1>3, <1>4, CheckpointShows
<1> QED
  BY <1>1, <1>2, <1>4, <1>5

\* A call begins: the same behind the checkpoint of the wrapper.
LEMMA EnterCallShows ==
  ASSUME NEW c, NEW L \in Seq(Layer), NEW w \in Layer,
         NEW M, M = Checkpoint(Put(Checkpoint(Checkpoint(L)), w))
  PROVE  /\ M \in Seq(Layer) /\ Len(M) = Len(L) + 3
         /\ \A i \in 1..Len(L) : M[i] = L[i]
         /\ Shows(c, M, Len(L) + 1) = Shows(c, L, Len(L))
         /\ Shows(c, M, Len(M)) = Over(w, Shows(c, L, Len(L)))
<1> DEFINE A == Checkpoint(L)
<1>1. /\ A \in Seq(Layer) /\ Len(A) = Len(L) + 1
      /\ \A i \in 1..Len(L) : A[i] = L[i]
      /\ Shows(c, A, Len(L) + 1) = Shows(c, L, Len(L))
  BY CheckpointShows
<1>2. M = Checkpoint(Put(Checkpoint(A), w))
  OBVIOUS
<1> HIDE DEF A
<1>3. /\ M \in Seq(Layer) /\ Len(M) = Len(A) + 2
      /\ \A i \in 1..Len(A) : M[i] = A[i]
      /\ Shows(c, M, Len(M)) = Over(w, Shows(c, A, Len(A)))
  <2>1. A \in Seq(Layer) /\ w \in Layer
    BY <1>1
  <2> QED
    BY ONLY <2>1, <1>2, EnterShows
<1>4. Shows(c, M, Len(A)) = Shows(c, A, Len(A))
  BY <1>1, <1>3, ShowsAgrees
<1>5. Len(L) \in Nat /\ Len(A) = Len(L) + 1 /\ Len(M) = Len(L) + 3
  BY <1>1, <1>3
<1>6. \A i \in 1..Len(L) : M[i] = L[i]
  <2> SUFFICES ASSUME NEW i \in 1..Len(L) PROVE M[i] = L[i]
    OBVIOUS
  <2>1. i \in 1..Len(A)
    BY ONLY <1>5, i \in 1..Len(L)
  <2> QED
    BY ONLY <2>1, <1>1, <1>3, i \in 1..Len(L)
<1>7. Shows(c, M, Len(L) + 1) = Shows(c, L, Len(L))
  BY ONLY <1>1, <1>4, <1>5
<1>8. Shows(c, M, Len(M)) = Over(w, Shows(c, L, Len(L)))
  BY ONLY <1>1, <1>3, <1>5
<1> QED
  BY ONLY <1>3, <1>5, <1>6, <1>7, <1>8

\* A run ends well: its layer is committed, and what it returns is written.
LEMMA LeaveShows ==
  ASSUME NEW c, NEW L \in Seq(Layer), Len(L) > 2, NEW w \in Layer,
         NEW M, M = Put(Commit(L), w)
  PROVE  /\ M \in Seq(Layer) /\ Len(M) = Len(L) - 1
         /\ \A i \in 1..(Len(L) - 2) : M[i] = L[i]
         /\ Shows(c, M, Len(M)) = Over(w, Shows(c, L, Len(L)))
<1> DEFINE A == Commit(L)
<1>1. /\ A \in Seq(Layer) /\ Len(A) = Len(L) - 1
      /\ \A i \in 1..(Len(L) - 2) : A[i] = L[i]
      /\ Shows(c, A, Len(L) - 1) = Shows(c, L, Len(L))
  BY CommitShows
<1>2. Len(L) \in Nat /\ Len(A) > 0 /\ Len(A) - 1 = Len(L) - 2
  BY <1>1
<1> HIDE DEF A
<1>3. /\ M \in Seq(Layer) /\ Len(M) = Len(A)
      /\ \A i \in 1..(Len(A) - 1) : M[i] = A[i]
      /\ Shows(c, M, Len(A)) = Over(w, Shows(c, A, Len(A)))
  BY <1>1, <1>2, PutShows DEF A
<1> QED
  BY <1>1, <1>2, <1>3

\* The layer of a call is undone, and the empty one of the wrapper committed.
LEMMA UndoShows ==
  ASSUME NEW c, NEW L \in Seq(Layer), Len(L) > 2,
         NEW M, M = Commit(Rollback(L))
  PROVE  /\ M \in Seq(Layer) /\ Len(M) = Len(L) - 2
         /\ \A i \in 1..(Len(L) - 3) : M[i] = L[i]
         /\ Shows(c, M, Len(M)) = Shows(c, L, Len(L) - 1)
<1> DEFINE A == Rollback(L)
<1>1. /\ A \in Seq(Layer) /\ Len(A) = Len(L) - 1
      /\ \A i \in 1..(Len(L) - 1) : A[i] = L[i]
  BY RollbackShape
<1>2. Len(L) \in Nat /\ Len(A) > 1 /\ Len(A) - 2 = Len(L) - 3 /\ Len(A) - 1 = Len(L) - 2
  BY <1>1
<1>3. M = Commit(A)
  OBVIOUS
<1> HIDE DEF A
<1>4. /\ M \in Seq(Layer) /\ Len(M) = Len(A) - 1
      /\ \A i \in 1..(Len(A) - 2) : M[i] = A[i]
      /\ Shows(c, M, Len(A) - 1) = Shows(c, A, Len(A))
  BY <1>1, <1>2, <1>3, CommitShows
<1>5. Shows(c, A, Len(L) - 1) = Shows(c, L, Len(L) - 1)
  BY <1>1, <1>2, ShowsAgrees
<1> QED
  BY <1>1, <1>2, <1>4, <1>5
-----------------------------------------------------------------------------
(* What the actions write is a layer. *)

FrameSet == [kind : Kinds \cup {"message"}, myself : Contracts, failed : BOOLEAN]

Typed ==
  /\ cells \in [Keys -> Nat]
  /\ layers \in Seq(Layer)
  /\ frames \in Seq(FrameSet)

IInv == Typed /\ DepthMatches

LEMMA ViewTyped ==
  ASSUME Typed
  PROVE  /\ View \in [Keys -> Nat] /\ View = Shows(cells, layers, Len(layers))
         /\ \A n \in 0..Len(layers) : ViewAt(n) \in [Keys -> Nat]
         /\ \A n : ViewAt(n) = Shows(cells, layers, n)
<1>1. \A n : ViewAt(n) = Shows(cells, layers, n)
  BY DEF ViewAt, Shows
<1>2. \A n \in 0..Len(layers) : Shows(cells, layers, n) \in [Keys -> Nat]
  BY ShowsTyped DEF Typed
<1>3. Len(layers) \in 0..Len(layers)
  BY DEF Typed
<1> QED
  BY <1>1, <1>2, <1>3 DEF View

LEMMA KeysOf ==
  /\ \A c \in Contracts : Storage(c) \in Keys /\ Binary(c) \in Keys
  /\ Sequence \in Keys
  /\ \A c \in Contracts : {Balance(c, t) : t \in Tokens} \in SUBSET Keys
  /\ \A c \in Contracts, t \in Tokens : Balance(c, t)[3] = t /\ Balance(c, t) \in Keys
BY DEF Keys, BalanceKeys, Balance, Storage, Binary, Sequence

LEMMA InLayer ==
  ASSUME NEW D \in SUBSET Keys, NEW f \in [D -> Nat]
  PROVE  f \in Layer
BY DEF Layer

LEMMA StoreTyped ==
  ASSUME NEW c \in Contracts, NEW v \in Values
  PROVE  Store(c, v) \in Layer
<1>1. CASE v = Nothing
  BY <1>1, LayerShape DEF Store
<1>2. CASE v # Nothing
  <2>1. v \in Nat
    BY <1>2, MessageAssumption DEF Values
  <2>2. Store(c, v) \in [{Storage(c)} -> Nat] /\ {Storage(c)} \in SUBSET Keys
    BY <1>2, <2>1, KeysOf DEF Store
  <2> QED
    BY <2>2, InLayer
<1> QED
  BY <1>1, <1>2

LEMMA SpecialTyped ==
  ASSUME View \in [Keys -> Nat], NEW c \in Targets, Exists(c)
  PROVE  Resolved(c) \in Contracts /\ Special(c) \in Layer
<1>1. CASE c = Create
  <2>1. View[Sequence] \in Contracts
    BY <1>1, KeysOf, MessageAssumption DEF Exists, Contracts
  <2>2. /\ Special(c) \in [{Sequence, Binary(View[Sequence])} -> Nat]
        /\ {Sequence, Binary(View[Sequence])} \in SUBSET Keys
    BY <1>1, <2>1, KeysOf DEF Special, Contracts
  <2> QED
    BY <1>1, <2>1, <2>2, InLayer DEF Resolved
<1>2. CASE c # Create
  BY <1>2, MessageAssumption, LayerShape DEF Targets, Resolved, Special
<1> QED
  BY <1>1, <1>2

LEMMA DebitTyped ==
  ASSUME View \in [Keys -> Nat], NEW from \in Contracts, NEW p \in Parcels
  PROVE  /\ \A t \in Tokens : p[t] \in Nat /\ Debited(from, t, p[t]) \in Nat
         /\ Debit(from, p) \in Layer
<1>1. \A t \in Tokens : p[t] \in Nat /\ Debited(from, t, p[t]) \in Nat
  <2> TAKE t \in Tokens
  <2>1. p[t] \in Nat
    BY MessageAssumption DEF Parcels
  <2>2. View[Balance(from, t)] \in Nat
    BY KeysOf
  <2> QED
    BY <2>1, <2>2 DEF Debited
<1> DEFINE D == {Balance(from, t) : t \in Tokens}
<1>2. \A k \in D : Debited(from, k[3], p[k[3]]) \in Nat
  BY <1>1, KeysOf
<1>3. Debit(from, p) \in [D -> Nat] /\ D \in SUBSET Keys
  BY <1>2, KeysOf DEF Debit
<1> QED
  BY <1>1, <1>3, InLayer

LEMMA TransferTyped ==
  ASSUME View \in [Keys -> Nat], NEW from \in Contracts, NEW to \in Contracts,
         NEW p \in Parcels
  PROVE  Transfer(p, from, to) \in Layer
<1> DEFINE D == {Balance(to, t) : t \in Tokens}
           f == [k \in D |->
                  (p[k[3]] + (IF from = to THEN Debited(from, k[3], p[k[3]])
                                           ELSE View[k])) % Width]
<1>1. D \in SUBSET Keys
  BY KeysOf
<1>2. ASSUME NEW k \in D PROVE f[k] \in Nat
  <2>1. PICK t \in Tokens : k = Balance(to, t)
    OBVIOUS
  <2>2. k[3] = t /\ View[k] \in Nat
    BY <2>1, KeysOf
  <2>3. p[t] \in Nat /\ Debited(from, t, p[t]) \in Nat
    BY DebitTyped
  <2>4. \A n \in Nat : n % Width \in Nat
    BY MessageAssumption
  <2> QED
    BY <2>2, <2>3, <2>4
<1>3. f \in [D -> Nat]
  BY <1>2
<1>4. f \in Layer /\ Debit(from, p) \in Layer
  BY <1>1, <1>3, InLayer, DebitTyped
<1> QED
  BY <1>4, LayerShape DEF Transfer

LEMMA CreditTyped ==
  ASSUME View \in [Keys -> Nat], NEW to \in Contracts, NEW p \in Parcels
  PROVE  Credit(to, p) \in Layer
<1> DEFINE D == {Balance(to, t) : t \in Tokens}
<1>1. \A k \in D : View[k] \in Nat /\ p[k[3]] \in Nat
  <2> TAKE k \in D
  <2>1. PICK t \in Tokens : k = Balance(to, t)
    OBVIOUS
  <2>2. p[t] \in Nat
    BY MessageAssumption DEF Parcels
  <2> QED
    BY <2>1, <2>2, KeysOf
<1>2. Credit(to, p) \in [D -> Nat] /\ D \in SUBSET Keys
  BY <1>1, KeysOf DEF Credit
<1> QED
  BY <1>2, InLayer
-----------------------------------------------------------------------------
(* One lemma per action: the invariant is kept, the levels below are as    *)
(* they were, and what is seen.                                            *)

Stays(m) == \A n \in 0..m : ViewAt(n)' = ViewAt(n)

LEMMA StaysBelow ==
  ASSUME cells' = cells, NEW m \in Nat,
         \A i \in 1..m : layers'[i] = layers[i]
  PROVE  Stays(m)
<1> SUFFICES ASSUME NEW n \in 0..m
             PROVE  ViewAt(n)' = ViewAt(n)
  BY DEF Stays
<1>1. \A i \in 1..n : layers'[i] = layers[i]
  OBVIOUS
<1>2. Shows(cells, layers', n) = Shows(cells, layers, n)
  BY <1>1, ShowsAgrees
<1> QED
  BY <1>2 DEF ViewAt, Shows

LEMMA BeginTransactionShape ==
  ASSUME IInv, NEW p \in Parcels, BeginTransaction(p)
  PROVE  /\ IInv' /\ layers = <<>> /\ frames = <<>> /\ frames' = <<>>
         /\ cells' = cells /\ Len(layers') = 1 /\ View' = View /\ Stays(0)
<1>1. layers = <<>> /\ layers' = Checkpoint(layers) /\ cells' = cells /\ frames' = frames
  BY DEF BeginTransaction
<1>2. layers \in Seq(Layer) /\ Len(layers) = 0
  BY <1>1 DEF IInv, Typed
<1>3. frames = <<>>
  <2>1. frames \in Seq(FrameSet)
    BY DEF IInv, Typed
  <2>2. frames # <<>> => Len(frames) > 0
    BY <2>1
  <2> QED
    BY <1>2, <2>1, <2>2 DEF IInv, DepthMatches
<1>4. /\ layers' \in Seq(Layer) /\ Len(layers') = 1
      /\ Shows(cells, layers', 1) = Shows(cells, layers, 0)
  <2>1. /\ Checkpoint(layers) \in Seq(Layer) /\ Len(Checkpoint(layers)) = Len(layers) + 1
        /\ Shows(cells, Checkpoint(layers), Len(layers) + 1)
             = Shows(cells, layers, Len(layers))
    BY <1>2, CheckpointShows
  <2> QED
    BY <1>1, <1>2, <2>1
<1>5. View' = View
  BY <1>1, <1>2, <1>4 DEF View, ViewAt, Shows
<1>6. IInv'
  <2>1. Typed'
    BY <1>1, <1>4 DEF IInv, Typed
  <2>2. frames' = <<>>
    BY <1>1, <1>3
  <2>3. DepthMatches'
    BY <1>4, <2>2 DEF DepthMatches
  <2> QED
    BY <2>1, <2>3 DEF IInv
<1>7. Stays(0)
  BY <1>1, StaysBelow
<1> QED
  BY <1>1, <1>3, <1>4, <1>5, <1>6, <1>7

MessageWrites(c, p) == Over(Credit(Resolved(c), p), Special(c))

LEMMA StartMessageShape ==
  ASSUME IInv, NEW c \in Targets, NEW p \in Parcels, StartMessage(c, p)
  PROVE  /\ IInv' /\ Len(layers) = 1 /\ frames = <<>>
         /\ frames' = <<Frame("message", Resolved(c))>>
         /\ cells' = cells /\ Stays(1)
         /\ View' = Over(MessageWrites(c, p), View)
<1> DEFINE w == MessageWrites(c, p)
<1>1. /\ Len(layers) = 1 /\ frames = <<>> /\ cells' = cells /\ Exists(c)
      /\ layers' = Checkpoint(Put(Checkpoint(layers), w))
      /\ frames' = <<Frame("message", Resolved(c))>>
  BY DEF StartMessage, Between, MessageWrites
<1>2. Typed /\ layers \in Seq(Layer) /\ View \in [Keys -> Nat]
  BY ViewTyped DEF IInv, Typed
<1>3. Resolved(c) \in Contracts /\ w \in Layer
  BY <1>1, <1>2, SpecialTyped, CreditTyped, LayerShape DEF MessageWrites
<1> HIDE DEF w
<1>4. /\ layers' \in Seq(Layer) /\ Len(layers') = Len(layers) + 2
      /\ \A i \in 1..Len(layers) : layers'[i] = layers[i]
      /\ Shows(cells, layers', Len(layers')) = Over(w, Shows(cells, layers, Len(layers)))
  BY <1>1, <1>2, <1>3, EnterShows
<1>5. View' = Over(w, View)
  BY <1>1, <1>4 DEF View, ViewAt, Shows
<1>6. Frame("message", Resolved(c)) \in FrameSet
  BY <1>3 DEF Frame, FrameSet
<1>7. frames' \in Seq(FrameSet) /\ Len(frames') = 1 /\ frames' # <<>>
  BY <1>1, <1>6
<1>8. IInv'
  BY <1>1, <1>2, <1>4, <1>7 DEF IInv, Typed, DepthMatches
<1>9. Stays(1)
  BY <1>1, <1>4, StaysBelow
<1> QED
  BY <1>1, <1>5, <1>8, <1>9 DEF w

\* With frames on the stack there are three layers for each.
LEMMA Running ==
  ASSUME IInv, frames # <<>>
  PROVE  /\ Typed /\ layers \in Seq(Layer) /\ View \in [Keys -> Nat]
         /\ Len(frames) \in Nat /\ Len(frames) > 0 /\ Len(layers) = 3 * Len(frames)
         /\ Top \in FrameSet /\ Top.myself \in Contracts
         /\ frames \in Seq(FrameSet)
<1>1. Typed /\ frames \in Seq(FrameSet) /\ Len(layers) = 3 * Len(frames)
  BY DEF IInv, Typed, DepthMatches
<1>2. Len(frames) \in Nat /\ Len(frames) > 0
  BY <1>1
<1>3. Top \in FrameSet
  BY <1>1, <1>2 DEF Top
<1> QED
  BY <1>1, <1>2, <1>3, ViewTyped DEF FrameSet, Typed

ReturnWrites(v, p) == Over(Debit(Top.myself, p), Store(Top.myself, v))

LEMMA MessageReturnsShape ==
  ASSUME IInv, NEW v \in Values, NEW p \in Parcels, MessageReturns(v, p)
  PROVE  /\ IInv' /\ Len(frames) = 1 /\ frames' = <<>> /\ ~Top.failed
         /\ Len(layers) = 3 /\ Len(layers') = 1 /\ cells' = cells /\ Stays(0)
         /\ View' = Over(ReturnWrites(v, p), View)
<1> DEFINE w == ReturnWrites(v, p)
           M == Put(Commit(layers), w)
<1>1. /\ Len(frames) = 1 /\ frames' = <<>> /\ cells' = cells /\ ~Top.failed
      /\ layers' = Commit(M)
  BY DEF MessageReturns, ReturnWrites
<1>2. frames # <<>>
  BY <1>1
<1>3. /\ Typed /\ layers \in Seq(Layer) /\ View \in [Keys -> Nat]
      /\ Len(layers) = 3 /\ Top.myself \in Contracts
  BY <1>1, <1>2, Running
<1>4. w \in Layer
  BY <1>3, DebitTyped, StoreTyped, LayerShape DEF ReturnWrites
<1> HIDE DEF w
<1>5. /\ M \in Seq(Layer) /\ Len(M) = 2
      /\ Shows(cells, M, 2) = Over(w, Shows(cells, layers, 3))
  <2>1. /\ M \in Seq(Layer) /\ Len(M) = Len(layers) - 1
        /\ Shows(cells, M, Len(M)) = Over(w, Shows(cells, layers, Len(layers)))
    <3>1. layers \in Seq(Layer) /\ Len(layers) > 2 /\ w \in Layer
      BY <1>3, <1>4
    <3>2. \A P : P = Put(Commit(layers), w) =>
            /\ P \in Seq(Layer) /\ Len(P) = Len(layers) - 1
            /\ Shows(cells, P, Len(P)) = Over(w, Shows(cells, layers, Len(layers)))
      BY ONLY <3>1, LeaveShows
    <3> QED
      BY ONLY <3>2
  <2> QED
    BY ONLY <1>3, <2>1
<1> HIDE DEF M
<1>6. /\ layers' \in Seq(Layer) /\ Len(layers') = 1
      /\ Shows(cells, layers', 1) = Shows(cells, M, 2)
  <2>1. /\ Commit(M) \in Seq(Layer) /\ Len(Commit(M)) = Len(M) - 1
        /\ Shows(cells, Commit(M), Len(M) - 1) = Shows(cells, M, Len(M))
    BY <1>5, CommitShows, Len(M) > 1
  <2> QED
    BY <1>1, <1>5, <2>1
<1>7. View' = Over(w, View)
  BY <1>1, <1>3, <1>5, <1>6 DEF View, ViewAt, Shows
<1>8. IInv'
  BY <1>1, <1>3, <1>6 DEF IInv, Typed, DepthMatches
<1>9. Stays(0)
  BY <1>1, StaysBelow
<1> QED
  BY <1>1, <1>3, <1>6, <1>7, <1>8, <1>9 DEF w

LEMMA MessageRevertsShape ==
  ASSUME IInv, MessageReverts
  PROVE  /\ IInv' /\ Len(frames) = 1 /\ frames' = <<>>
         /\ Len(layers) = 3 /\ Len(layers') = 1 /\ cells' = cells /\ Stays(1)
         /\ View' = ViewAt(1)
<1> DEFINE A == Rollback(layers)
<1>1. /\ Len(frames) = 1 /\ frames' = <<>> /\ cells' = cells
      /\ layers' = Rollback(A)
  BY DEF MessageReverts
<1>2. frames # <<>>
  BY <1>1
<1>3. Typed /\ layers \in Seq(Layer) /\ Len(layers) = 3
  BY <1>1, <1>2, Running
<1>4. A \in Seq(Layer) /\ Len(A) = 2 /\ \A i \in 1..2 : A[i] = layers[i]
  <2>1. /\ A \in Seq(Layer) /\ Len(A) = Len(layers) - 1
        /\ \A i \in 1..(Len(layers) - 1) : A[i] = layers[i]
    BY <1>3, RollbackShape, Len(layers) > 0
  <2> QED
    BY <1>3, <2>1
<1> HIDE DEF A
<1>5. layers' \in Seq(Layer) /\ Len(layers') = 1 /\ layers'[1] = A[1]
  <2>1. /\ Rollback(A) \in Seq(Layer) /\ Len(Rollback(A)) = Len(A) - 1
        /\ \A i \in 1..(Len(A) - 1) : Rollback(A)[i] = A[i]
    BY <1>4, RollbackShape, Len(A) > 0
  <2> QED
    BY <1>1, <1>4, <2>1
<1>6. Stays(1)
  BY <1>1, <1>4, <1>5, StaysBelow
<1>7. View' = ViewAt(1)
  <2>1. View' = ViewAt(1)'
    BY <1>5 DEF View, ViewAt
  <2> QED
    BY <1>6, <2>1 DEF Stays
<1>8. IInv'
  BY <1>1, <1>3, <1>5 DEF IInv, Typed, DepthMatches
<1> QED
  BY <1>1, <1>3, <1>5, <1>6, <1>7, <1>8

\* Between its messages a transaction has one layer and no frames.
LEMMA BetweenShape ==
  ASSUME IInv, Between
  PROVE  /\ Typed /\ layers \in Seq(Layer) /\ Len(layers) = 1 /\ frames = <<>>
         /\ layers[1] \in Layer
         /\ View = Over(layers[1], cells)
<1>1. Typed /\ layers \in Seq(Layer) /\ Len(layers) = 1 /\ frames = <<>>
  BY DEF IInv, Typed, Between
<1>2. layers[1] \in Layer /\ cells \in [Keys -> Nat]
  <2>1. \A i \in 1..Len(layers) : layers[i] \in Layer
    BY <1>1
  <2> QED
    BY <1>1, <2>1, 1 \in 1..1 DEF Typed
<1>3. \A k \in Keys : Seen(cells, layers, 1, k) =
        IF k \in DOMAIN layers[1] THEN layers[1][k] ELSE cells[k]
  <2> TAKE k \in Keys
  <2>1. Seen(cells, layers, 1, k) =
          IF k \in DOMAIN layers[1] THEN layers[1][k] ELSE Seen(cells, layers, 1 - 1, k)
    BY SeenStep, 1 \in Nat, 1 > 0
  <2>2. Seen(cells, layers, 0, k) = cells[k]
    BY SeenBottom
  <2> QED
    BY <2>1, <2>2
<1>4. DOMAIN layers[1] \cup Keys = Keys /\ DOMAIN cells = Keys
  BY <1>2, LayerShape
<1> QED
  BY <1>1, <1>2, <1>3, <1>4 DEF View, ViewAt, Over

LEMMA CommitTransactionShape ==
  ASSUME IInv, CommitTransaction
  PROVE  /\ IInv' /\ frames = <<>> /\ frames' = <<>>
         /\ Len(layers) = 1 /\ layers' = <<>> /\ View' = View
<1>1. /\ Between /\ cells' = Over(layers[1], cells) /\ layers' = <<>>
      /\ frames' = frames
  BY DEF CommitTransaction
<1>2. /\ Typed /\ Len(layers) = 1 /\ frames = <<>> /\ layers[1] \in Layer
      /\ View = Over(layers[1], cells)
  BY <1>1, BetweenShape
<1>3. cells' \in [Keys -> Nat]
  BY <1>1, <1>2, ViewTyped
<1>4. View' = cells'
  <2>1. \A k \in Keys : Seen(cells', layers', 0, k) = cells'[k]
    BY SeenBottom
  <2>2. Len(layers') = 0
    BY <1>1
  <2> QED
    BY <1>3, <2>1, <2>2 DEF View, ViewAt
<1>5. IInv'
  <2>1. frames' = <<>> /\ layers' \in Seq(Layer)
    BY <1>1, <1>2
  <2>2. Typed'
    BY <1>1, <1>2, <1>3, <2>1 DEF Typed
  <2>3. DepthMatches'
    BY <1>1, <2>1 DEF DepthMatches
  <2> QED
    BY <2>2, <2>3 DEF IInv
<1> QED
  BY <1>1, <1>2, <1>4, <1>5

LEMMA RollbackTransactionShape ==
  ASSUME IInv, RollbackTransaction
  PROVE  /\ IInv' /\ frames = <<>> /\ frames' = <<>>
         /\ Len(layers) = 1 /\ layers' = <<>> /\ View' = ViewAt(0)
<1>1. /\ Between /\ cells' = cells /\ layers' = Rollback(layers) /\ frames' = frames
  BY DEF RollbackTransaction
<1>2. Typed /\ layers \in Seq(Layer) /\ Len(layers) = 1 /\ frames = <<>>
  BY <1>1, BetweenShape
<1>3. layers' \in Seq(Layer) /\ Len(layers') = 0
  <2>1. Rollback(layers) \in Seq(Layer) /\ Len(Rollback(layers)) = Len(layers) - 1
    BY <1>2, RollbackShape, Len(layers) > 0
  <2> QED
    BY <1>1, <1>2, <2>1
<1>4. layers' = <<>>
  BY <1>3
<1>5. Stays(0)
  BY <1>1, StaysBelow
<1>6. View' = ViewAt(0)
  <2>1. View' = ViewAt(0)'
    BY <1>3 DEF View, ViewAt
  <2> QED
    BY <1>5, <2>1 DEF Stays
<1>7. IInv'
  <2>1. frames' = <<>>
    BY <1>1, <1>2
  <2>2. Typed'
    BY <1>1, <1>2, <1>3, <2>1 DEF Typed
  <2>3. DepthMatches'
    BY <1>3, <2>1 DEF DepthMatches
  <2> QED
    BY <2>2, <2>3 DEF IInv
<1> QED
  BY <1>1, <1>2, <1>4, <1>6, <1>7

CallWrites(kind, c, v, p) ==
  Over(IF kind = "delegate" THEN NoWrites ELSE Transfer(p, Top.myself, Resolved(c)),
       Over(Special(c), Store(Top.myself, v)))

LEMMA CallContractShape ==
  ASSUME IInv, NEW kind \in Kinds, NEW c \in Targets, NEW v \in Values,
         NEW p \in Parcels, CallContract(kind, c, v, p)
  PROVE  /\ IInv' /\ frames # <<>> /\ frames' = Append(frames, Frame(kind, Myself(kind, c)))
         /\ Frame(kind, Myself(kind, c)) \in FrameSet
         /\ Len(layers) = 3 * Len(frames) /\ cells' = cells /\ Stays(3 * Len(frames))
         /\ \A n : n = 3 * Len(frames) + 1 => ViewAt(n)' = View
         /\ View' = Over(CallWrites(kind, c, v, p), View)
<1> DEFINE w == CallWrites(kind, c, v, p)
<1>1. /\ frames # <<>> /\ cells' = cells /\ Exists(c)
      /\ layers' = Checkpoint(Put(Checkpoint(Checkpoint(layers)), w))
      /\ frames' = Append(frames, Frame(kind, Myself(kind, c)))
  BY DEF CallContract, CallWrites
<1>2. /\ Typed /\ layers \in Seq(Layer) /\ View \in [Keys -> Nat]
      /\ Len(frames) \in Nat /\ Len(layers) = 3 * Len(frames)
      /\ Top.myself \in Contracts /\ frames \in Seq(FrameSet)
  BY <1>1, Running
<1>3. Resolved(c) \in Contracts /\ Special(c) \in Layer
  BY <1>1, <1>2, SpecialTyped
<1>4. w \in Layer
  <2>1. Transfer(p, Top.myself, Resolved(c)) \in Layer /\ Store(Top.myself, v) \in Layer
    BY <1>2, <1>3, TransferTyped, StoreTyped
  <2> QED
    BY <1>3, <2>1, LayerShape DEF CallWrites
<1>5. Frame(kind, Myself(kind, c)) \in FrameSet
  BY <1>2, <1>3 DEF Frame, FrameSet, Myself
<1> HIDE DEF w
<1>6. /\ layers' \in Seq(Layer) /\ Len(layers') = Len(layers) + 3
      /\ \A i \in 1..Len(layers) : layers'[i] = layers[i]
      /\ Shows(cells, layers', Len(layers) + 1) = Shows(cells, layers, Len(layers))
      /\ Shows(cells, layers', Len(layers')) = Over(w, Shows(cells, layers, Len(layers)))
  BY <1>1, <1>2, <1>4, EnterCallShows
<1>7. View' = Over(w, View) /\ \A n : n = 3 * Len(frames) + 1 => ViewAt(n)' = View
  <2>1. View = Shows(cells, layers, Len(layers))
    BY DEF View, ViewAt, Shows
  <2>2. View' = Shows(cells, layers', Len(layers'))
    BY <1>1 DEF View, ViewAt, Shows
  <2>3. \A n : ViewAt(n)' = Shows(cells, layers', n)
    BY <1>1 DEF ViewAt, Shows
  <2> QED
    BY <1>2, <1>6, <2>1, <2>2, <2>3
<1>8. /\ frames' \in Seq(FrameSet) /\ Len(frames') = Len(frames) + 1
      /\ frames' # <<>>
  BY <1>1, <1>2, <1>5
<1>9. IInv'
  <2>1. Typed'
    BY <1>1, <1>2, <1>6, <1>8 DEF Typed
  <2>2. Len(layers') = 3 * Len(frames')
    BY <1>2, <1>6, <1>8
  <2>3. DepthMatches'
    BY <1>8, <2>2 DEF DepthMatches
  <2> QED
    BY <2>1, <2>3 DEF IInv
<1>10. Stays(3 * Len(frames))
  BY <1>1, <1>2, <1>6, StaysBelow
<1> QED
  BY <1>1, <1>2, <1>5, <1>7, <1>9, <1>10 DEF w

LEMMA CallRefusedShape ==
  ASSUME IInv, CallRefused
  PROVE  /\ IInv' /\ frames # <<>> /\ Len(frames') = Len(frames)
         /\ \A i \in 1..(Len(frames) - 1) : frames'[i] = frames[i]
         /\ frames'[Len(frames)] = Abort(Top)
         /\ layers' = layers /\ cells' = cells /\ View' = View
         /\ Stays(Len(layers))
<1>1. /\ frames # <<>> /\ layers' = layers /\ cells' = cells
      /\ frames' = [frames EXCEPT ![Len(frames)] = Abort(@)]
  BY DEF CallRefused
<1>2. /\ Typed /\ layers \in Seq(Layer) /\ Top \in FrameSet
      /\ Len(frames) \in Nat /\ Len(frames) > 0 /\ Len(layers) = 3 * Len(frames)
      /\ frames \in Seq(FrameSet)
  BY <1>1, Running
<1>3. Abort(Top) \in FrameSet
  BY <1>2 DEF FrameSet, Abort
<1>4. /\ frames' \in Seq(FrameSet) /\ Len(frames') = Len(frames)
      /\ \A i \in 1..(Len(frames) - 1) : frames'[i] = frames[i]
      /\ frames'[Len(frames)] = Abort(Top)
  BY <1>1, <1>2, <1>3 DEF Top
<1>5. IInv'
  <2>1. Typed'
    BY <1>1, <1>2, <1>4 DEF Typed
  <2>0. frames' # <<>>
    BY <1>2, <1>4
  <2>2. frames' # <<>> /\ Len(layers') = 3 * Len(frames')
    BY <1>1, <1>2, <1>4, <2>0
  <2>3. DepthMatches'
    BY <2>2 DEF DepthMatches
  <2> QED
    BY <2>1, <2>3 DEF IInv
<1>6. View' = View /\ Stays(Len(layers))
  <2>1. Stays(Len(layers))
    BY <1>1, <1>2, StaysBelow, Len(layers) \in Nat
  <2> QED
    BY <1>1, <2>1 DEF View, ViewAt
<1> QED
  BY <1>1, <1>4, <1>5, <1>6

\* A call is over: three layers less for one frame less.
LEMMA Popped ==
  ASSUME Typed, Len(frames) > 1, cells' = cells,
         layers' \in Seq(Layer), Len(layers') = 3 * Len(frames) - 3,
         frames' \in Seq(FrameSet), Len(frames') = Len(frames) - 1
  PROVE  IInv'
<1>1. Len(frames) \in Nat
  BY DEF Typed
<1>2. Typed'
  BY DEF Typed
<1>3. frames' # <<>> /\ Len(layers') = 3 * Len(frames')
  BY <1>1
<1>4. DepthMatches'
  BY <1>3 DEF DepthMatches
<1> QED
  BY <1>2, <1>4 DEF IInv

\* The frames below the top.
LEMMA FramesBelow ==
  ASSUME IInv, Len(frames) > 1
  PROVE  /\ SubSeq(frames, 1, Len(frames) - 1) \in Seq(FrameSet)
         /\ Len(SubSeq(frames, 1, Len(frames) - 1)) = Len(frames) - 1
         /\ \A i \in 1..(Len(frames) - 1) :
              SubSeq(frames, 1, Len(frames) - 1)[i] = frames[i]
         /\ Caller \in FrameSet /\ Len(frames) \in Nat
<1> DEFINE n == Len(frames) - 1
<1>1. frames \in Seq(FrameSet) /\ Len(frames) \in Nat
  BY DEF IInv, Typed
<1>2. n \in Nat /\ n > 0 /\ \A i \in 1..n : frames[i] \in FrameSet /\ 1 + i - 1 = i
  BY <1>1
<1>3. (IF 1 <= n THEN n - 1 + 1 ELSE 0) = n /\ n - 1 + 1 = n
  <2> HIDE DEF n
  <2> QED
    BY <1>2
<1>4. /\ SubSeq(frames, 1, n) \in Seq(FrameSet) /\ Len(SubSeq(frames, 1, n)) = n
      /\ \A i \in 1..n : SubSeq(frames, 1, n)[i] = frames[i]
  <2> HIDE DEF n
  <2>1. /\ SubSeq(frames, 1, n) \in Seq(FrameSet)
        /\ Len(SubSeq(frames, 1, n)) = IF 1 <= n THEN n - 1 + 1 ELSE 0
        /\ \A i \in 1..(n - 1 + 1) : SubSeq(frames, 1, n)[i] = frames[1 + i - 1]
    BY <1>2, SubSeqProperties
  <2> QED
    BY <1>2, <1>3, <2>1
<1>5. Caller \in FrameSet
  BY <1>1, <1>2 DEF Caller
<1> QED
  BY <1>1, <1>4, <1>5

LEMMA CallRevertsShape ==
  ASSUME IInv, CallReverts
  PROVE  /\ IInv' /\ Len(frames) > 1 /\ Len(frames') = Len(frames) - 1
         /\ \A i \in 1..(Len(frames) - 2) : frames'[i] = frames[i]
         /\ frames'[Len(frames) - 1] = Abort(Caller)
         /\ Len(layers) = 3 * Len(frames) /\ cells' = cells
         /\ Stays(3 * Len(frames) - 4)
         /\ View' = ViewAt(3 * Len(frames) - 2)
<1> DEFINE A == Rollback(layers)
           B == SubSeq(frames, 1, Len(frames) - 1)
<1>1. /\ Len(frames) > 1 /\ cells' = cells /\ layers' = Commit(Rollback(A))
      /\ frames' = [B EXCEPT ![Len(frames) - 1] = Abort(@)]
  BY DEF CallReverts
<1>2. /\ Typed /\ layers \in Seq(Layer) /\ Len(layers) = 3 * Len(frames)
      /\ Len(frames) \in Nat
  BY <1>1, Running
<1>3. /\ B \in Seq(FrameSet) /\ Len(B) = Len(frames) - 1
      /\ \A i \in 1..(Len(frames) - 1) : B[i] = frames[i]
      /\ Caller \in FrameSet
  BY <1>1, FramesBelow
<1>4. /\ A \in Seq(Layer) /\ Len(A) = Len(layers) - 1
      /\ \A i \in 1..(Len(layers) - 1) : A[i] = layers[i]
  BY <1>1, <1>2, RollbackShape, Len(layers) > 0
<1> HIDE DEF A, B
<1>5. /\ layers' \in Seq(Layer) /\ Len(layers') = Len(A) - 2
      /\ \A i \in 1..(Len(A) - 3) : layers'[i] = A[i]
      /\ Shows(cells, layers', Len(layers')) = Shows(cells, A, Len(A) - 1)
  BY <1>1, <1>2, <1>4, UndoShows, Len(A) > 2
<1>6. Shows(cells, A, Len(A) - 1) = Shows(cells, layers, Len(A) - 1)
  <2>1. Len(A) - 1 \in Nat /\ \A i \in 1..(Len(A) - 1) : A[i] = layers[i]
    BY <1>1, <1>2, <1>4
  <2> QED
    BY <2>1, ShowsAgrees
<1>7. Len(A) - 1 = 3 * Len(frames) - 2 /\ Len(layers') = 3 * Len(frames) - 3
  BY <1>1, <1>2, <1>4, <1>5
<1>8. View' = ViewAt(3 * Len(frames) - 2)
  <2>1. View' = Shows(cells, layers', Len(layers'))
    BY <1>1 DEF View, ViewAt, Shows
  <2>2. ViewAt(3 * Len(frames) - 2) = Shows(cells, layers, 3 * Len(frames) - 2)
    BY DEF ViewAt, Shows
  <2> QED
    BY <1>5, <1>6, <1>7, <2>1, <2>2
<1>9. Stays(3 * Len(frames) - 4)
  <2>1. /\ 3 * Len(frames) - 4 \in Nat
        /\ \A i \in 1..(3 * Len(frames) - 4) : layers'[i] = layers[i]
    BY <1>1, <1>2, <1>4, <1>5
  <2> QED
    BY <1>1, <2>1, StaysBelow
<1>10. Abort(Caller) \in FrameSet /\ Caller = B[Len(frames) - 1]
  BY <1>1, <1>2, <1>3 DEF FrameSet, Caller, Abort
<1>11. /\ frames' \in Seq(FrameSet) /\ Len(frames') = Len(frames) - 1
       /\ \A i \in 1..(Len(frames) - 2) : frames'[i] = frames[i]
       /\ frames'[Len(frames) - 1] = Abort(Caller)
  BY <1>1, <1>2, <1>3, <1>10
<1>12. IInv'
  BY <1>1, <1>2, <1>5, <1>7, <1>11, Popped
<1> QED
  BY <1>1, <1>2, <1>8, <1>9, <1>11, <1>12

SaveWrites(v, p) ==
  Over(IF Top.kind = "delegate" THEN NoWrites
         ELSE Transfer(p, Top.myself, Caller.myself),
       Store(Top.myself, v))

LEMMA CallReturnsShape ==
  ASSUME IInv, NEW v \in Values, NEW p \in Parcels, CallReturns(v, p)
  PROVE  /\ IInv' /\ Len(frames) > 1 /\ ~Top.failed
         /\ Len(frames') = Len(frames) - 1
         /\ \A i \in 1..(Len(frames) - 1) : frames'[i] = frames[i]
         /\ Len(layers) = 3 * Len(frames) /\ cells' = cells
         /\ Stays(3 * Len(frames) - 4)
         /\ Top.kind = "static" => View' = ViewAt(3 * Len(frames) - 2)
         /\ Top.kind # "static" => View' = Over(SaveWrites(v, p), View)
<1> DEFINE w == SaveWrites(v, p)
           S == Put(Commit(layers), w)
<1>1. /\ Len(frames) > 1 /\ cells' = cells /\ ~Top.failed
      /\ layers' = Commit(HandleAtomic(S))
      /\ frames' = SubSeq(frames, 1, Len(frames) - 1)
  BY DEF CallReturns, Saved, SaveWrites
<1>2. /\ Typed /\ layers \in Seq(Layer) /\ Len(layers) = 3 * Len(frames)
      /\ Len(frames) \in Nat /\ View \in [Keys -> Nat] /\ Top.myself \in Contracts
  BY <1>1, Running
<1>3. /\ frames' \in Seq(FrameSet) /\ Len(frames') = Len(frames) - 1
      /\ \A i \in 1..(Len(frames) - 1) : frames'[i] = frames[i]
      /\ Caller.myself \in Contracts
  BY <1>1, FramesBelow DEF FrameSet
<1>4. w \in Layer
  <2>1. Transfer(p, Top.myself, Caller.myself) \in Layer /\ Store(Top.myself, v) \in Layer
    BY <1>2, <1>3, TransferTyped, StoreTyped
  <2> QED
    BY <2>1, LayerShape DEF SaveWrites
<1> HIDE DEF w
<1>5. /\ S \in Seq(Layer) /\ Len(S) = Len(layers) - 1
      /\ \A i \in 1..(Len(layers) - 2) : S[i] = layers[i]
      /\ Shows(cells, S, Len(S)) = Over(w, Shows(cells, layers, Len(layers)))
  BY <1>1, <1>2, <1>4, LeaveShows, Len(layers) > 2
<1> HIDE DEF S
<1>6. View = Shows(cells, layers, Len(layers)) /\ View' = Shows(cells, layers', Len(layers'))
  BY <1>1 DEF View, ViewAt, Shows
<1>7. CASE Top.kind = "static"
  <2>1. layers' = Commit(Rollback(S))
    BY <1>1, <1>7 DEF HandleAtomic
  <2>2. /\ layers' \in Seq(Layer) /\ Len(layers') = Len(S) - 2
        /\ \A i \in 1..(Len(S) - 3) : layers'[i] = S[i]
        /\ Shows(cells, layers', Len(layers')) = Shows(cells, S, Len(S) - 1)
    BY <1>1, <1>2, <1>5, <2>1, UndoShows, Len(S) > 2
  <2>3. Shows(cells, S, Len(S) - 1) = Shows(cells, layers, Len(S) - 1)
    <3>1. Len(S) - 1 \in Nat /\ \A i \in 1..(Len(S) - 1) : S[i] = layers[i]
      BY <1>1, <1>2, <1>5
    <3> QED
      BY <3>1, ShowsAgrees
  <2>4. Len(S) - 1 = 3 * Len(frames) - 2 /\ Len(layers') = 3 * Len(frames) - 3
    BY <1>1, <1>2, <1>5, <2>2
  <2>5. View' = ViewAt(3 * Len(frames) - 2)
    <3>1. ViewAt(3 * Len(frames) - 2) = Shows(cells, layers, 3 * Len(frames) - 2)
      BY DEF ViewAt, Shows
    <3> QED
      BY <1>6, <2>2, <2>3, <2>4, <3>1
  <2>6. Stays(3 * Len(frames) - 4)
    <3>1. /\ 3 * Len(frames) - 4 \in Nat
          /\ \A i \in 1..(3 * Len(frames) - 4) : layers'[i] = layers[i]
      BY <1>1, <1>2, <1>5, <2>2
    <3> QED
      BY <1>1, <3>1, StaysBelow
  <2>7. IInv'
    BY <1>1, <1>2, <1>3, <2>2, <2>4, Popped
  <2> QED
    BY <1>1, <1>2, <1>3, <1>7, <2>5, <2>6, <2>7
<1>8. CASE Top.kind # "static"
  <2> DEFINE B == Commit(S)
  <2>1. layers' = Commit(B)
    BY <1>1, <1>8 DEF HandleAtomic
  <2>2. /\ B \in Seq(Layer) /\ Len(B) = Len(S) - 1
        /\ \A i \in 1..(Len(S) - 2) : B[i] = S[i]
        /\ Shows(cells, B, Len(S) - 1) = Shows(cells, S, Len(S))
    BY <1>1, <1>2, <1>5, CommitShows, Len(S) > 1
  <2> HIDE DEF B
  <2>3. /\ layers' \in Seq(Layer) /\ Len(layers') = Len(B) - 1
        /\ \A i \in 1..(Len(B) - 2) : layers'[i] = B[i]
        /\ Shows(cells, layers', Len(B) - 1) = Shows(cells, B, Len(B))
    <3>1. Len(B) > 1
      BY <1>1, <1>2, <1>5, <2>2
    <3> QED
      BY <2>1, <2>2, <3>1, CommitShows
  <2>4. Len(layers') = 3 * Len(frames) - 3 /\ Len(B) = Len(S) - 1
    BY <1>1, <1>2, <1>5, <2>2, <2>3
  <2>5. View' = Over(SaveWrites(v, p), View)
    BY <1>5, <1>6, <2>2, <2>3 DEF w
  <2>6. Stays(3 * Len(frames) - 4)
    <3>1. /\ 3 * Len(frames) - 4 \in Nat
          /\ \A i \in 1..(3 * Len(frames) - 4) : layers'[i] = layers[i]
      <4>1. /\ 3 * Len(frames) - 4 \in Nat
            /\ Len(B) - 2 = 3 * Len(frames) - 4 /\ Len(S) - 2 = 3 * Len(frames) - 3
            /\ Len(layers) - 2 = 3 * Len(frames) - 2
        BY <1>1, <1>2, <1>5, <2>2
      <4> SUFFICES ASSUME NEW i \in 1..(3 * Len(frames) - 4)
                   PROVE  layers'[i] = layers[i]
        BY <4>1
      <4>2. /\ i \in 1..(Len(B) - 2) /\ i \in 1..(Len(S) - 2)
            /\ i \in 1..(Len(layers) - 2)
        BY <1>2, <4>1
      <4> QED
        BY <1>5, <2>2, <2>3, <4>2
    <3> QED
      BY <1>1, <3>1, StaysBelow
  <2>7. IInv'
    BY <1>1, <1>2, <1>3, <2>3, <2>4, Popped
  <2> QED
    BY <1>1, <1>2, <1>3, <1>8, <2>5, <2>6, <2>7
<1> QED
  BY <1>7, <1>8
-----------------------------------------------------------------------------
(* The invariant. *)

LEMMA InitInv == Init => IInv
<1> SUFFICES ASSUME Init PROVE IInv
  OBVIOUS
<1>1. layers = <<>> /\ frames = <<>>
  BY DEF Init
<1>2. cells \in [Keys -> Nat]
  BY MessageAssumption DEF Init
<1> QED
  BY <1>1, <1>2 DEF IInv, Typed, DepthMatches

LEMMA StutterInv ==
  ASSUME IInv, UNCHANGED vars
  PROVE  IInv' /\ View' = View
BY DEF IInv, Typed, DepthMatches, vars, View, ViewAt

LEMMA StepInv ==
  ASSUME IInv, Next
  PROVE  IInv'
<1>1. CASE \E p \in Parcels : BeginTransaction(p)
  BY <1>1, BeginTransactionShape
<1>2. CASE \E c \in Targets, p \in Parcels : StartMessage(c, p)
  BY <1>2, StartMessageShape
<1>3. CASE \E v \in Values, p \in Parcels : MessageReturns(v, p)
  BY <1>3, MessageReturnsShape
<1>4. CASE MessageReverts
  BY <1>4, MessageRevertsShape
<1>5. CASE CommitTransaction
  BY <1>5, CommitTransactionShape
<1>6. CASE RollbackTransaction
  BY <1>6, RollbackTransactionShape
<1>7. CASE \E kind \in Kinds, c \in Targets, v \in Values, p \in Parcels :
             CallContract(kind, c, v, p)
  BY <1>7, CallContractShape
<1>8. CASE CallRefused
  BY <1>8, CallRefusedShape
<1>9. CASE \E v \in Values, p \in Parcels : CallReturns(v, p)
  BY <1>9, CallReturnsShape
<1>10. CASE CallReverts
  BY <1>10, CallRevertsShape
<1> QED
  BY <1>1, <1>2, <1>3, <1>4, <1>5, <1>6, <1>7, <1>8, <1>9, <1>10 DEF Next

LEMMA Invariant == Spec => []IInv
<1>1. IInv /\ [Next]_vars => IInv'
  BY StepInv, StutterInv
<1> QED
  BY <1>1, InitInv, PTL DEF Spec

\* Every level of the call stack has its own checkpoints and no other, for
\* any depth of calls and however they end: the assertion of
\* with_context_safety never fails.
THEOREM DepthAlwaysMatches == Spec => []DepthMatches
<1>1. IInv => DepthMatches
  BY DEF IInv
<1> QED
  BY <1>1, Invariant, PTL

-----------------------------------------------------------------------------
(* A contract's storage. *)

\* Only what a contract stores of its own goes to a storage cell.
LEMMA StorageWrites ==
  ASSUME NEW c \in Contracts
  PROVE  /\ \A to, p : Storage(c) \notin DOMAIN Credit(to, p)
         /\ \A from, p : Storage(c) \notin DOMAIN Debit(from, p)
         /\ \A from, to, p : Storage(c) \notin DOMAIN Transfer(p, from, to)
         /\ \A target : Storage(c) \notin DOMAIN Special(target)
         /\ \A d, v : Storage(c) \in DOMAIN Store(d, v) => c = d
<1>1. \A d, t : Storage(c) # Balance(d, t)
  BY DEF Storage, Balance
<1>2. \A d : Storage(c) # Binary(d)
  BY DEF Storage, Binary
<1>3. Storage(c) # Sequence
  BY DEF Storage, Sequence
<1>4. \A d : Storage(c) = Storage(d) => c = d
  BY DEF Storage
<1>5. \A to, p : Storage(c) \notin DOMAIN Credit(to, p)
  BY <1>1 DEF Credit
<1>6. \A from, p : Storage(c) \notin DOMAIN Debit(from, p)
  BY <1>1 DEF Debit
<1>7. \A from, to, p : Storage(c) \notin DOMAIN Transfer(p, from, to)
  BY <1>1, <1>6 DEF Transfer, Over
<1>8. \A target : Storage(c) \notin DOMAIN Special(target)
  BY <1>2, <1>3 DEF Special, NoWrites
<1>9. \A d, v : Storage(c) \in DOMAIN Store(d, v) => c = d
  BY <1>4 DEF Store, NoWrites
<1> QED
  BY <1>5, <1>6, <1>7, <1>8, <1>9

LEMMA Untouched ==
  ASSUME NEW w, NEW f, NEW k \in DOMAIN f, k \notin DOMAIN w
  PROVE  Over(w, f)[k] = f[k]
BY DEF Over

Owned(c) ==
  View'[Storage(c)] # View[Storage(c)] =>
    \/ frames # <<>> /\ Top.myself = c
    \/ \E n \in 0..(Len(layers) - 1) : View' = ViewAt(n)

LEMMA StepOwned ==
  ASSUME IInv, Next, NEW c \in Contracts
  PROVE  Owned(c)
<1>0. /\ View \in [Keys -> Nat] /\ Storage(c) \in DOMAIN View /\ Storage(c) \in Keys
      /\ Len(layers) \in Nat
  BY ViewTyped, KeysOf DEF IInv, Typed
<1>1. ASSUME NEW p \in Parcels, BeginTransaction(p) PROVE Owned(c)
  BY <1>1, BeginTransactionShape DEF Owned
<1>2. ASSUME NEW d \in Targets, NEW p \in Parcels, StartMessage(d, p) PROVE Owned(c)
  <2>1. View' = Over(MessageWrites(d, p), View)
    BY <1>2, StartMessageShape
  <2>2. Storage(c) \notin DOMAIN MessageWrites(d, p)
    BY StorageWrites DEF MessageWrites, Over
  <2> QED
    BY <1>0, <2>1, <2>2, Untouched DEF Owned
<1>3. ASSUME NEW v \in Values, NEW p \in Parcels, MessageReturns(v, p) PROVE Owned(c)
  <2>0. View' = Over(ReturnWrites(v, p), View) /\ Len(frames) = 1
    BY <1>3, MessageReturnsShape
  <2>1. View' = Over(ReturnWrites(v, p), View) /\ frames # <<>>
    BY <2>0
  <2>2. Storage(c) \in DOMAIN ReturnWrites(v, p) => Top.myself = c
    BY StorageWrites DEF ReturnWrites, Over
  <2> QED
    BY <1>0, <2>1, <2>2, Untouched DEF Owned
<1>4. ASSUME MessageReverts PROVE Owned(c)
  <2>1. View' = ViewAt(1) /\ Len(layers) = 3
    BY <1>4, MessageRevertsShape
  <2>2. 1 \in 0..(Len(layers) - 1)
    BY <2>1
  <2> QED
    BY <2>1, <2>2 DEF Owned
<1>5. ASSUME CommitTransaction PROVE Owned(c)
  BY <1>5, CommitTransactionShape DEF Owned
<1>6. ASSUME RollbackTransaction PROVE Owned(c)
  BY <1>6, RollbackTransactionShape DEF Owned
<1>7. ASSUME NEW kind \in Kinds, NEW d \in Targets, NEW v \in Values, NEW p \in Parcels,
             CallContract(kind, d, v, p)
      PROVE  Owned(c)
  <2>1. View' = Over(CallWrites(kind, d, v, p), View) /\ frames # <<>>
    BY <1>7, CallContractShape
  <2>2. Storage(c) \in DOMAIN CallWrites(kind, d, v, p) => Top.myself = c
    BY StorageWrites DEF CallWrites, Over, NoWrites
  <2> QED
    BY <1>0, <2>1, <2>2, Untouched DEF Owned
<1>8. ASSUME CallRefused PROVE Owned(c)
  BY <1>8, CallRefusedShape DEF Owned
<1>9. ASSUME NEW v \in Values, NEW p \in Parcels, CallReturns(v, p) PROVE Owned(c)
  <2>1. /\ Len(frames) > 1 /\ Len(layers) = 3 * Len(frames) /\ frames # <<>>
        /\ Top.kind = "static" => View' = ViewAt(3 * Len(frames) - 2)
        /\ Top.kind # "static" => View' = Over(SaveWrites(v, p), View)
    BY <1>9, CallReturnsShape
  <2>2. Storage(c) \in DOMAIN SaveWrites(v, p) => Top.myself = c
    BY StorageWrites DEF SaveWrites, Over, NoWrites
  <2>3. Len(frames) \in Nat
    BY DEF IInv, Typed
  <2>4. 3 * Len(frames) - 2 \in 0..(Len(layers) - 1)
    BY <2>1, <2>3
  <2> QED
    BY <1>0, <2>1, <2>2, <2>4, Untouched DEF Owned
<1>10. ASSUME CallReverts PROVE Owned(c)
  <2>1. /\ Len(frames) > 1 /\ Len(layers) = 3 * Len(frames)
        /\ View' = ViewAt(3 * Len(frames) - 2)
    BY <1>10, CallRevertsShape
  <2>2. Len(frames) \in Nat
    BY DEF IInv, Typed
  <2>3. 3 * Len(frames) - 2 \in 0..(Len(layers) - 1)
    BY <2>1, <2>2
  <2> QED
    BY <2>1, <2>3 DEF Owned
<1> QED
  BY <1>1, <1>2, <1>3, <1>4, <1>5, <1>6, <1>7, <1>8, <1>9, <1>10 DEF Next

\* The storage of a contract is written only while it runs under its own
\* name, whoever calls it and whatever the others do; otherwise it changes
\* only with all that is undone.
THEOREM StorageIsOwned == Spec => SlotOwned
<1>1. IInv /\ [Next]_vars => [\A c \in Contracts : Owned(c)]_vars
  BY StepOwned
<1>2. [\A c \in Contracts : Owned(c)]_vars
        => [\A c \in Contracts : View'[Storage(c)] # View[Storage(c)] =>
              \/ frames # <<>> /\ Top.myself = c
              \/ \E n \in 0..(Len(layers) - 1) : View' = ViewAt(n)]_vars
  BY DEF Owned
<1> QED
  BY <1>1, <1>2, Invariant, PTL DEF Spec, SlotOwned
-----------------------------------------------------------------------------
(* The levels of the call stack, as NestedCalls has them. *)

LevelSet == [view : [Keys -> Nat], static : BOOLEAN, doomed : BOOLEAN]

Count == IF layers = <<>> THEN 0 ELSE Len(frames) + 1
At(i) == IF i = 1 THEN 0 ELSE 3 * (i - 1) - 2

LEMMA CountShape ==
  ASSUME IInv
  PROVE  /\ Count \in Nat /\ Len(layers) \in Nat /\ Len(frames) \in Nat
         /\ frames # <<>> => Len(layers) = 3 * Len(frames) /\ Len(frames) > 0
         /\ layers = <<>> <=> Len(layers) = 0
         /\ \A i \in 1..Count : At(i) \in 0..Len(layers)
         /\ \A i \in 1..Count : i > 1 => i - 1 \in 1..Len(frames) /\ frames[i - 1] \in FrameSet
<1>1. /\ layers \in Seq(Layer) /\ frames \in Seq(FrameSet)
      /\ Len(layers) \in Nat /\ Len(frames) \in Nat
  BY DEF IInv, Typed
<1>2. frames # <<>> => Len(layers) = 3 * Len(frames) /\ Len(frames) > 0
  BY <1>1 DEF IInv, DepthMatches
<1>3. layers = <<>> <=> Len(layers) = 0
  BY <1>1
<1>4. Count \in Nat
  BY <1>1 DEF Count
<1>5. ASSUME NEW i \in 1..Count, i > 1
      PROVE  i - 1 \in 1..Len(frames) /\ frames[i - 1] \in FrameSet
  <2>1. i <= Len(frames) + 1
    BY <1>1, <1>5 DEF Count
  <2>2. i - 1 \in 1..Len(frames)
    BY <1>1, <1>4, <1>5, <2>1
  <2> QED
    BY <1>1, <2>2
<1>6. ASSUME NEW i \in 1..Count PROVE At(i) \in 0..Len(layers)
  <2>1. CASE i = 1
    BY <1>1, <2>1 DEF At
  <2>2. CASE i # 1
    <3>1. i \in Nat /\ i > 1
      BY <1>4, <2>2
    <3>2. i - 1 \in 1..Len(frames)
      BY <1>5, <3>1
    <3>3. frames # <<>> /\ Len(layers) = 3 * Len(frames)
      BY <1>1, <1>2, <3>2
    <3> QED
      BY <1>1, <2>2, <3>1, <3>2, <3>3 DEF At
  <2> QED
    BY <2>1, <2>2
<1> QED
  BY <1>1, <1>2, <1>3, <1>4, <1>5, <1>6

LEMMA LevelsTyped ==
  ASSUME IInv
  PROVE  /\ Levels \in Seq(LevelSet) /\ Len(Levels) = Count
         /\ \A i \in 1..Count : Levels[i] = Level(i)
         /\ View \in [Keys -> Nat]
<1>1. Levels = [i \in 1..Count |-> Level(i)]
  BY DEF Levels, Count
<1>2. ASSUME NEW i \in 1..Count PROVE Level(i) \in LevelSet
  <2>1. ViewAt(At(i)) \in [Keys -> Nat] /\ i \in Nat
    BY CountShape, ViewTyped DEF IInv
  <2>2. CASE i = 1
    BY <2>1, <2>2 DEF Level, At, LevelSet
  <2>3. CASE i # 1
    <3>1. frames[i - 1] \in FrameSet
      BY <2>1, <2>3, CountShape
    <3>2. frames[i - 1].failed \in BOOLEAN
      BY <3>1 DEF FrameSet
    <3> QED
      BY <2>1, <2>3, <3>2 DEF Level, At, LevelSet
  <2> QED
    BY <2>2, <2>3
<1>3. Levels \in [1..Count -> LevelSet] /\ Count \in Nat
  BY <1>1, <1>2, CountShape
<1>4. Levels \in Seq(LevelSet) /\ Len(Levels) = Count
  BY <1>3
<1> QED
  BY <1>1, <1>4, ViewTyped DEF IInv

LevelsFact ==
  /\ Count \in Nat
  /\ Levels \in Seq(LevelSet) /\ Len(Levels) = Count
  /\ \A i \in 1..Count : Levels[i] = Level(i)
  /\ View \in [Keys -> Nat]

LEMMA LevelsNow == IInv => LevelsFact
BY LevelsTyped, CountShape DEF LevelsFact

LEMMA LevelsNext == IInv' => LevelsFact'
<1>1. (IInv => LevelsFact)'
  BY LevelsNow, PTL
<1> QED
  BY <1>1

\* What a step leaves of the levels below.
LEMMA LevelsStay ==
  ASSUME IInv, IInv', NEW m \in Nat, m <= Count, m <= Count',
         \A j \in 1..(m - 1) : frames'[j] = frames[j],
         \A i \in 1..m : Stays(At(i))
  PROVE  \A i \in 1..m : Levels'[i] = Levels[i]
<1> SUFFICES ASSUME NEW i \in 1..m PROVE Levels'[i] = Levels[i]
  OBVIOUS
<1>1. Count \in Nat /\ Count' \in Nat /\ i \in 1..Count /\ i \in 1..Count'
  BY LevelsNow, LevelsNext DEF LevelsFact
<1>2. Levels[i] = Level(i)
  BY <1>1, LevelsTyped
<1>3. Levels'[i] = Level(i)'
  BY <1>1, LevelsNext DEF LevelsFact
<1>4. At(i) \in 0..At(i)
  BY <1>1, CountShape
<1>5. ViewAt(At(i))' = ViewAt(At(i))
  BY <1>4 DEF Stays
<1>6. i # 1 => frames'[i - 1] = frames[i - 1]
  BY <1>1
<1>7. Level(i)' = Level(i)
  BY <1>5, <1>6 DEF Level, At
<1> QED
  BY <1>2, <1>3, <1>7

LEMMA LevelsPushed ==
  ASSUME IInv, IInv', NEW n \in Nat, Count = n, Count' = n + 1,
         \A i \in 1..n : Levels'[i] = Levels[i],
         NEW x, Level(n + 1)' = x
  PROVE  Levels' = Append(Levels, x)
<1>1. /\ Levels \in Seq(LevelSet) /\ Len(Levels) = n
      /\ Levels' \in Seq(LevelSet) /\ Len(Levels') = n + 1
  BY LevelsNow, LevelsNext DEF LevelsFact
<1>2. n + 1 \in 1..(n + 1)
  OBVIOUS
<1>3. Levels'[n + 1] = x
  BY <1>2, LevelsNext DEF LevelsFact
<1>4. x \in LevelSet
  BY <1>1, <1>2, <1>3
<1>5. /\ Append(Levels, x) \in Seq(LevelSet) /\ Len(Append(Levels, x)) = n + 1
      /\ \A i \in 1..(n + 1) : Levels'[i] = Append(Levels, x)[i]
  BY <1>1, <1>3, <1>4
<1> QED
  BY <1>1, <1>5, SeqEqual

Under == SubSeq(Levels, 1, Len(Levels) - 1)

LEMMA UnderShape ==
  ASSUME IInv, NEW n \in Nat, Count = n + 1
  PROVE  /\ Levels \in Seq(LevelSet) /\ Len(Levels) = n + 1
         /\ Under \in Seq(LevelSet) /\ Len(Under) = n
         /\ \A i \in 1..n : Under[i] = Levels[i]
<1>1. /\ Levels \in Seq(LevelSet) /\ Len(Levels) = n + 1
  BY LevelsNow DEF LevelsFact
<1>2. \A i \in 1..n : Levels[i] \in LevelSet /\ 1 + i - 1 = i
  BY <1>1
<1>3. (IF 1 <= n THEN n - 1 + 1 ELSE 0) = n /\ n - 1 + 1 = n /\ Len(Levels) - 1 = n
  BY <1>1
<1>4. /\ SubSeq(Levels, 1, n) \in Seq(LevelSet)
      /\ Len(SubSeq(Levels, 1, n)) = IF 1 <= n THEN n - 1 + 1 ELSE 0
      /\ \A i \in 1..(n - 1 + 1) : SubSeq(Levels, 1, n)[i] = Levels[1 + i - 1]
  BY <1>2, SubSeqProperties
<1> QED
  BY <1>1, <1>2, <1>3, <1>4 DEF Under

LEMMA LevelsPopped ==
  ASSUME IInv, IInv', NEW n \in Nat, Count = n + 1, Count' = n,
         \A i \in 1..n : Levels'[i] = Levels[i]
  PROVE  Levels' = Under
<1>1. /\ Under \in Seq(LevelSet) /\ Len(Under) = n
      /\ \A i \in 1..n : Under[i] = Levels[i]
  BY UnderShape
<1>2. Levels' \in Seq(LevelSet) /\ Len(Levels') = n
  BY LevelsNext DEF LevelsFact
<1> QED
  BY <1>1, <1>2, SeqEqual

\* The level on top is marked, in a stack that is otherwise s.
LEMMA LevelsMarked ==
  ASSUME IInv, IInv', NEW n \in Nat, n > 0, Count' = n,
         NEW s \in Seq(LevelSet), Len(s) = n,
         \A i \in 1..(n - 1) : Levels'[i] = s[i],
         Levels'[n] = Nested!Doomed(s[n])
  PROVE  Levels' = [s EXCEPT ![n] = Nested!Doomed(@)]
<1>1. Levels' \in Seq(LevelSet) /\ Len(Levels') = n
  BY LevelsNext DEF LevelsFact
<1>2. Levels'[n] \in LevelSet
  BY <1>1
<1> DEFINE t == [s EXCEPT ![n] = Nested!Doomed(@)]
<1>3. /\ t \in Seq(LevelSet) /\ Len(t) = n
      /\ \A i \in 1..n : t[i] = IF i = n THEN Nested!Doomed(s[n]) ELSE s[i]
  BY <1>2
<1>4. \A i \in 1..n : Levels'[i] = t[i]
  BY <1>3
<1> HIDE DEF t
<1>5. Levels' = t
  BY <1>1, <1>3, <1>4, SeqEqual
<1> QED
  BY <1>5 DEF t
-----------------------------------------------------------------------------
(* Every step is a step of NestedCalls. *)

\* The bottom frame is of the message.
MessageFirst == frames # <<>> => frames[1].kind = "message"

LEMMA StepFirst ==
  ASSUME IInv, MessageFirst, Next
  PROVE  MessageFirst'
<1>0. Len(frames) \in Nat /\ frames \in Seq(FrameSet)
  BY DEF IInv, Typed
<1>1. ASSUME NEW p \in Parcels, BeginTransaction(p) PROVE MessageFirst'
  BY <1>1, BeginTransactionShape DEF MessageFirst
<1>2. ASSUME NEW d \in Targets, NEW p \in Parcels, StartMessage(d, p) PROVE MessageFirst'
  <2>1. frames' = <<Frame("message", Resolved(d))>>
    BY <1>2, StartMessageShape
  <2>2. frames'[1] = Frame("message", Resolved(d))
    BY <2>1
  <2> QED
    BY <2>2 DEF MessageFirst, Frame
<1>3. ASSUME NEW v \in Values, NEW p \in Parcels, MessageReturns(v, p) PROVE MessageFirst'
  BY <1>3, MessageReturnsShape DEF MessageFirst
<1>4. ASSUME MessageReverts PROVE MessageFirst'
  BY <1>4, MessageRevertsShape DEF MessageFirst
<1>5. ASSUME CommitTransaction PROVE MessageFirst'
  BY <1>5, CommitTransactionShape DEF MessageFirst
<1>6. ASSUME RollbackTransaction PROVE MessageFirst'
  BY <1>6, RollbackTransactionShape DEF MessageFirst
<1>7. ASSUME NEW kind \in Kinds, NEW d \in Targets, NEW v \in Values, NEW p \in Parcels,
             CallContract(kind, d, v, p)
      PROVE  MessageFirst'
  <2>1. /\ frames # <<>> /\ frames' = Append(frames, Frame(kind, Myself(kind, d)))
        /\ Frame(kind, Myself(kind, d)) \in FrameSet
    BY <1>7, CallContractShape
  <2>2. Len(frames) > 0
    BY <1>0, <2>1
  <2>3. frames'[1] = frames[1]
    BY <1>0, <2>1, <2>2
  <2> QED
    BY <2>1, <2>3 DEF MessageFirst
<1>8. ASSUME CallRefused PROVE MessageFirst'
  <2>1. /\ frames # <<>> /\ \A i \in 1..(Len(frames) - 1) : frames'[i] = frames[i]
        /\ frames'[Len(frames)] = Abort(frames[Len(frames)])
    BY <1>8, CallRefusedShape DEF Top
  <2>2. Len(frames) > 0
    BY <1>0, <2>1
  <2>3. frames'[1].kind = frames[1].kind
    <3>1. CASE Len(frames) = 1
      BY <2>1, <3>1 DEF Abort
    <3>2. CASE Len(frames) # 1
      <4>0. 1 \in 1..(Len(frames) - 1)
        <5>1. \A n \in Nat : n > 0 /\ n # 1 => 1 \in 1..(n - 1)
          OBVIOUS
        <5> QED
          BY <1>0, <2>2, <3>2, <5>1
      <4>1. frames'[1] = frames[1]
        BY <2>1, <4>0
      <4> QED
        BY <4>1
    <3> QED
      BY <3>1, <3>2
  <2> QED
    BY <2>1, <2>3 DEF MessageFirst
<1>9. ASSUME NEW v \in Values, NEW p \in Parcels, CallReturns(v, p) PROVE MessageFirst'
  <2>1. Len(frames) > 1 /\ \A i \in 1..(Len(frames) - 1) : frames'[i] = frames[i]
    BY <1>9, CallReturnsShape
  <2>2. frames'[1] = frames[1] /\ frames # <<>>
    BY <1>0, <2>1
  <2> QED
    BY <2>2 DEF MessageFirst
<1>10. ASSUME CallReverts PROVE MessageFirst'
  <2>1. /\ Len(frames) > 1 /\ \A i \in 1..(Len(frames) - 2) : frames'[i] = frames[i]
        /\ frames'[Len(frames) - 1] = Abort(frames[Len(frames) - 1])
    BY <1>10, CallRevertsShape DEF Caller
  <2>2. frames # <<>>
    BY <1>0, <2>1
  <2>3. frames'[1].kind = frames[1].kind
    <3>1. CASE Len(frames) = 2
      BY <2>1, <3>1 DEF Abort
    <3>2. CASE Len(frames) # 2
      <4>0. 1 \in 1..(Len(frames) - 2)
        <5>1. \A n \in Nat : n > 1 /\ n # 2 => 1 \in 1..(n - 2)
          OBVIOUS
        <5> QED
          BY <1>0, <2>1, <3>2, <5>1
      <4>1. frames'[1] = frames[1]
        BY <2>1, <4>0
      <4> QED
        BY <4>1
    <3> QED
      BY <3>1, <3>2
  <2> QED
    BY <2>2, <2>3 DEF MessageFirst
<1> QED
  BY <1>1, <1>2, <1>3, <1>4, <1>5, <1>6, <1>7, <1>8, <1>9, <1>10 DEF Next

LEMMA StaysUnder ==
  ASSUME NEW m \in Nat, NEW n \in Nat, n <= m, Stays(m)
  PROVE  Stays(n)
BY DEF Stays

\* The level of the transaction, and those of the frames.
LEMMA LevelOne ==
  Level(1) = [view |-> ViewAt(0), static |-> FALSE, doomed |-> FALSE]
BY DEF Level

LEMMA LevelOf ==
  ASSUME NEW n \in Nat, n > 0
  PROVE  Level(n + 1) = [view   |-> ViewAt(3 * n - 2),
                         static |-> frames[n].kind = "static",
                         doomed |-> frames[n].failed]
<1>1. n + 1 # 1 /\ (n + 1) - 1 = n
  OBVIOUS
<1> QED
  BY <1>1 DEF Level

\* A step from n levels to n + 1 that sees no level below changed begins one.
LEMMA Begins ==
  ASSUME IInv, IInv', NEW n \in Nat, Count = n, Count' = n + 1,
         \A j \in 1..(n - 1) : frames'[j] = frames[j],
         \A i \in 1..n : Stays(At(i)),
         NEW static \in BOOLEAN,
         Level(n + 1)' = [view |-> View, static |-> static, doomed |-> FALSE]
  PROVE  Nested!Begin(static)
<1>1. \A i \in 1..n : Levels'[i] = Levels[i]
  BY LevelsStay
<1>2. Levels' = Append(Levels, [view |-> View, static |-> static, doomed |-> FALSE])
  BY <1>1, LevelsPushed
<1>3. View' \in [Keys -> Nat]
  BY LevelsNext DEF LevelsFact
<1> QED
  BY <1>2, <1>3 DEF Nested!Begin, Nested!Views

\* A step from n + 1 levels to n ends one.
LEMMA Ends ==
  ASSUME IInv, IInv', NEW n \in Nat, Count = n + 1, Count' = n,
         \A j \in 1..(n - 1) : frames'[j] = frames[j],
         \A i \in 1..n : Stays(At(i))
  PROVE  /\ Levels # <<>> /\ Nested!Last = Level(n + 1) /\ Len(Levels) = n + 1
         /\ Levels' = Nested!Below
         /\ View' \in Nested!Views
<1>1. \A i \in 1..n : Levels'[i] = Levels[i]
  BY LevelsStay
<1>2. Levels' = Under
  BY <1>1, LevelsPopped
<1>3. Len(Levels) = n + 1 /\ n + 1 \in 1..Count
  BY LevelsNow DEF LevelsFact
<1>4. Levels # <<>>
  BY <1>3
<1>5. Nested!Last = Level(n + 1)
  BY <1>3, LevelsNow DEF LevelsFact, Nested!Last
<1>6. View' \in [Keys -> Nat]
  BY LevelsNext DEF LevelsFact
<1> QED
  BY <1>2, <1>3, <1>4, <1>5, <1>6 DEF Under, Nested!Below, Nested!Views

LEMMA BeginTransactionNested ==
  ASSUME IInv, NEW p \in Parcels, BeginTransaction(p)
  PROVE  Nested!Begin(FALSE)
<1>1. /\ IInv' /\ layers = <<>> /\ frames = <<>> /\ frames' = <<>>
      /\ Len(layers') = 1 /\ View' = View /\ Stays(0)
  BY BeginTransactionShape
<1>2. Count = 0 /\ Count' = 1
  <2>1. layers' # <<>> /\ Len(frames') = 0
    BY <1>1
  <2> QED
    BY <1>1, <2>1 DEF Count
<1>3. ViewAt(0)' = View
  <2>1. View = ViewAt(0)
    BY <1>1 DEF View
  <2> QED
    BY <1>1, <2>1 DEF Stays
<1> SUFFICES ASSUME NEW n \in Nat, n = 0 PROVE Nested!Begin(FALSE)
  OBVIOUS
<1>4. Level(n + 1)' = [view |-> View, static |-> FALSE, doomed |-> FALSE]
  <2>1. n + 1 = 1
    OBVIOUS
  <2>2. Level(n + 1)' = [view |-> ViewAt(0)', static |-> FALSE, doomed |-> FALSE]
    BY <2>1 DEF Level
  <2> QED
    BY <1>3, <2>2
<1>5. /\ \A j \in 1..(n - 1) : frames'[j] = frames[j]
      /\ \A i \in 1..n : Stays(At(i))
  OBVIOUS
<1>6. Count = n /\ Count' = n + 1
  BY <1>2
<1> QED
  BY <1>1, <1>4, <1>5, <1>6, Begins

LEMMA StartMessageNested ==
  ASSUME IInv, NEW c \in Targets, NEW p \in Parcels, StartMessage(c, p)
  PROVE  Nested!Begin(FALSE)
<1>1. /\ IInv' /\ Len(layers) = 1 /\ frames = <<>> /\ Stays(1)
      /\ frames' = <<Frame("message", Resolved(c))>>
  BY StartMessageShape
<1>2. Count = 1 /\ Count' = 1 + 1
  <2>1. layers # <<>> /\ Len(frames) = 0 /\ Len(frames') = 1 /\ frames' # <<>>
    BY <1>1
  <2>2. layers' # <<>>
    <3>1. DepthMatches' /\ layers' \in Seq(Layer)
      BY <1>1 DEF IInv, Typed
    <3>2. Len(layers') = 3
      BY <2>1, <3>1 DEF DepthMatches
    <3> QED
      BY <3>2
  <2> QED
    BY <2>1, <2>2 DEF Count
<1>3. ViewAt(1)' = View
  <2>1. View = ViewAt(1)
    BY <1>1 DEF View
  <2> QED
    BY <1>1, <2>1 DEF Stays
<1>4. Level(1 + 1)' = [view |-> View, static |-> FALSE, doomed |-> FALSE]
  <2>1. frames'[1] = Frame("message", Resolved(c))
    BY <1>1
  <2>2. Level(1 + 1)' = [view |-> ViewAt(1)', static |-> frames'[1].kind = "static",
                         doomed |-> frames'[1].failed]
    BY DEF Level
  <2>3. (frames'[1].kind = "static") = FALSE /\ frames'[1].failed = FALSE
    BY <2>1 DEF Frame
  <2> QED
    BY <1>3, <2>2, <2>3
<1>5. \A i \in 1..1 : Stays(At(i))
  BY <1>1, StaysUnder DEF At
<1>6. \A j \in 1..(1 - 1) : frames'[j] = frames[j]
  OBVIOUS
<1> QED
  BY <1>1, <1>2, <1>4, <1>5, <1>6, Begins

\* Between messages, and while a message runs.
LEMMA Counts ==
  ASSUME IInv
  PROVE  /\ frames = <<>> /\ Len(layers) = 1 => Count = 1
         /\ frames # <<>> => Count = Len(frames) + 1
<1>1. frames # <<>> => layers # <<>>
  BY CountShape
<1>2. frames = <<>> => Len(frames) = 0
  OBVIOUS
<1>3. Len(layers) = 1 => layers # <<>>
  BY CountShape
<1> QED
  BY <1>1, <1>2, <1>3 DEF Count

CountsFact ==
  /\ frames = <<>> /\ Len(layers) = 1 => Count = 1
  /\ frames # <<>> => Count = Len(frames) + 1

LEMMA CountsNext == IInv' => CountsFact'
<1>1. IInv => CountsFact
  BY Counts DEF CountsFact
<1>2. (IInv => CountsFact)'
  BY <1>1, PTL
<1> QED
  BY <1>2

LEMMA CallContractNested ==
  ASSUME IInv, NEW kind \in Kinds, NEW c \in Targets, NEW v \in Values,
         NEW p \in Parcels, CallContract(kind, c, v, p)
  PROVE  Nested!Begin(kind = "static")
<1> DEFINE f == Frame(kind, Myself(kind, c))
<1>1. /\ IInv' /\ frames # <<>> /\ frames' = Append(frames, f) /\ f \in FrameSet
      /\ Stays(3 * Len(frames))
      /\ \A n : n = 3 * Len(frames) + 1 => ViewAt(n)' = View
  BY CallContractShape
<1>2. frames \in Seq(FrameSet) /\ Len(frames) \in Nat /\ Len(frames) > 0
  BY <1>1, Running
<1> SUFFICES ASSUME NEW m \in Nat, m = Len(frames) + 1
             PROVE  Nested!Begin(kind = "static")
  BY <1>2
<1>3. /\ Len(frames') = m /\ frames' # <<>> /\ frames'[m] = f
      /\ \A j \in 1..(m - 1) : frames'[j] = frames[j]
  BY <1>1, <1>2
<1>4. Count = m /\ Count' = m + 1
  BY <1>1, <1>3, Counts, CountsNext DEF CountsFact
<1>5. ViewAt(3 * m - 2)' = View
  <2>1. 3 * m - 2 = 3 * Len(frames) + 1
    BY <1>2
  <2>2. ASSUME NEW n, n = 3 * m - 2 PROVE ViewAt(n)' = View
    BY <1>1, <2>1, <2>2
  <2> QED
    BY <2>2
<1>6. Level(m + 1)' = [view |-> View, static |-> kind = "static", doomed |-> FALSE]
  <2>1. (m + 1) # 1 /\ (m + 1) - 1 = m
    OBVIOUS
  <2>2. Level(m + 1)' = [view |-> ViewAt(3 * m - 2)', static |-> frames'[m].kind = "static",
                         doomed |-> frames'[m].failed]
    BY <2>1 DEF Level
  <2>3. (frames'[m].kind = "static") = (kind = "static") /\ frames'[m].failed = FALSE
    BY <1>3 DEF Frame
  <2> QED
    BY <1>5, <2>2, <2>3
<1>7. ASSUME NEW i \in 1..m PROVE Stays(At(i))
  <2>1. At(i) \in Nat /\ At(i) <= 3 * Len(frames) /\ 3 * Len(frames) \in Nat
    BY <1>2 DEF At
  <2> QED
    BY <1>1, <2>1, StaysUnder
<1> QED
  BY <1>1, <1>3, <1>4, <1>6, <1>7, Begins

\* The last level ends, and it was neither static nor doomed.
LEMMA Keeps ==
  ASSUME IInv, IInv', NEW n \in Nat, Count = n + 1, Count' = n,
         \A j \in 1..(n - 1) : frames'[j] = frames[j],
         \A i \in 1..n : Stays(At(i)),
         ~Level(n + 1).static, ~Level(n + 1).doomed
  PROVE  Nested!Keep
BY Ends DEF Nested!Keep

LEMMA MessageReturnsNested ==
  ASSUME IInv, MessageFirst, NEW v \in Values, NEW p \in Parcels, MessageReturns(v, p)
  PROVE  Nested!Keep
<1>1. /\ IInv' /\ Len(frames) = 1 /\ frames' = <<>> /\ ~Top.failed
      /\ Len(layers) = 3 /\ Len(layers') = 1 /\ Stays(0)
  BY MessageReturnsShape
<1>2. frames # <<>>
  BY <1>1
<1> SUFFICES ASSUME NEW n \in Nat, n = 1 PROVE Nested!Keep
  OBVIOUS
<1>3. Count = n + 1 /\ Count' = n
  BY <1>1, <1>2, Counts, CountsNext DEF CountsFact
<1>4. /\ \A j \in 1..(n - 1) : frames'[j] = frames[j]
      /\ \A i \in 1..n : Stays(At(i))
  BY <1>1 DEF At
<1>5. ~Level(n + 1).static /\ ~Level(n + 1).doomed
  <2>0. Level(n + 1) = [view |-> ViewAt(3 * n - 2), static |-> frames[n].kind = "static",
                        doomed |-> frames[n].failed]
    BY LevelOf, n > 0
  <2>1. Level(n + 1).static = (frames[n].kind = "static") /\ Level(n + 1).doomed = frames[n].failed
    BY <2>0
  <2>2. frames[n].kind = "message" /\ ~frames[n].failed
    BY <1>1, <1>2 DEF MessageFirst, Top
  <2> QED
    BY <2>1, <2>2
<1> QED
  BY <1>1, <1>3, <1>4, <1>5, Keeps

LEMMA CommitTransactionNested ==
  ASSUME IInv, CommitTransaction
  PROVE  Nested!Keep
<1>1. /\ IInv' /\ frames = <<>> /\ frames' = <<>> /\ Len(layers) = 1 /\ layers' = <<>>
      /\ View' = View
  BY CommitTransactionShape
<1> SUFFICES ASSUME NEW n \in Nat, n = 0 PROVE Nested!Keep
  OBVIOUS
<1>2. Count = n + 1 /\ Count' = n
  BY <1>1, Counts DEF Count
<1>3. /\ \A j \in 1..(n - 1) : frames'[j] = frames[j]
      /\ \A i \in 1..n : Stays(At(i))
  OBVIOUS
<1>4. ~Level(n + 1).static /\ ~Level(n + 1).doomed
  BY LevelOne
<1> QED
  BY <1>1, <1>2, <1>3, <1>4, Keeps

LEMMA RollbackTransactionNested ==
  ASSUME IInv, RollbackTransaction
  PROVE  Nested!Fail
<1>1. /\ IInv' /\ frames = <<>> /\ frames' = <<>> /\ Len(layers) = 1 /\ layers' = <<>>
      /\ View' = ViewAt(0)
  BY RollbackTransactionShape
<1> SUFFICES ASSUME NEW n \in Nat, n = 0 PROVE Nested!Fail
  OBVIOUS
<1>2. Count = n + 1 /\ Count' = n
  BY <1>1, Counts DEF Count
<1>3. /\ \A j \in 1..(n - 1) : frames'[j] = frames[j]
      /\ \A i \in 1..n : Stays(At(i))
  OBVIOUS
<1>4. /\ Levels # <<>> /\ Nested!Last = Level(n + 1) /\ Len(Levels) = n + 1
      /\ Levels' = Nested!Below
  BY <1>1, <1>2, <1>3, Ends
<1>5. Nested!Last.view = ViewAt(0) /\ Len(Levels) < 3
  BY <1>4, LevelOne
<1> QED
  BY <1>1, <1>4, <1>5 DEF Nested!Fail, Nested!Calls

LEMMA MessageRevertsNested ==
  ASSUME IInv, MessageReverts
  PROVE  Nested!Fail
<1>1. /\ IInv' /\ Len(frames) = 1 /\ frames' = <<>>
      /\ Len(layers) = 3 /\ Len(layers') = 1 /\ Stays(1) /\ View' = ViewAt(1)
  BY MessageRevertsShape
<1>2. frames # <<>>
  BY <1>1
<1> SUFFICES ASSUME NEW n \in Nat, n = 1 PROVE Nested!Fail
  OBVIOUS
<1>3. Count = n + 1 /\ Count' = n
  BY <1>1, <1>2, Counts, CountsNext DEF CountsFact
<1>4. /\ \A j \in 1..(n - 1) : frames'[j] = frames[j]
      /\ \A i \in 1..n : Stays(At(i))
  BY <1>1, StaysUnder DEF At
<1>5. /\ Levels # <<>> /\ Nested!Last = Level(n + 1) /\ Len(Levels) = n + 1
      /\ Levels' = Nested!Below
  BY <1>1, <1>3, <1>4, Ends
<1>6. Nested!Last.view = ViewAt(1) /\ Len(Levels) < 3
  <2>0. Level(n + 1) = [view |-> ViewAt(3 * n - 2), static |-> frames[n].kind = "static",
                        doomed |-> frames[n].failed]
    BY LevelOf, n > 0
  <2>1. Level(n + 1).view = ViewAt(3 * n - 2)
    BY <2>0
  <2>2. 3 * n - 2 = 1
    OBVIOUS
  <2> QED
    BY <1>5, <2>1, <2>2
<1> QED
  BY <1>1, <1>5, <1>6 DEF Nested!Fail, Nested!Calls

LEMMA CallRefusedNested ==
  ASSUME IInv, CallRefused
  PROVE  Nested!Refuse
<1>1. /\ IInv' /\ frames # <<>> /\ Len(frames') = Len(frames)
      /\ \A i \in 1..(Len(frames) - 1) : frames'[i] = frames[i]
      /\ frames'[Len(frames)] = Abort(Top)
      /\ View' = View /\ Stays(Len(layers))
  BY CallRefusedShape
<1>2. /\ Len(frames) \in Nat /\ Len(frames) > 0 /\ Len(layers) = 3 * Len(frames)
      /\ Len(layers) \in Nat
  BY <1>1, Running DEF IInv, Typed
<1> SUFFICES ASSUME NEW m \in Nat, m = Len(frames) PROVE Nested!Refuse
  BY <1>2
<1>3. frames' # <<>>
  BY <1>1, <1>2
<1>4. Count = m + 1 /\ Count' = m + 1
  BY <1>1, <1>3, Counts, CountsNext DEF CountsFact
<1>5. ASSUME NEW i \in 1..(m + 1) PROVE Stays(At(i))
  <2>1. At(i) \in Nat /\ At(i) <= Len(layers)
    BY <1>2 DEF At
  <2> QED
    BY <1>1, <1>2, <2>1, StaysUnder
<1>6. \A i \in 1..m : Levels'[i] = Levels[i]
  <2>1. \A i \in 1..m : Stays(At(i))
    BY <1>5
  <2> QED
    BY <1>1, <1>4, <2>1, LevelsStay
<1>7. Levels \in Seq(LevelSet) /\ Len(Levels) = m + 1
  BY <1>4, LevelsNow DEF LevelsFact
<1>8. Levels'[m + 1] = Nested!Doomed(Levels[m + 1])
  <2>1. Levels[m + 1] = Level(m + 1)
    BY <1>4, LevelsNow DEF LevelsFact
  <2>2. Levels'[m + 1] = Level(m + 1)'
    BY <1>1, <1>4, LevelsNext DEF LevelsFact
  <2>3. Level(m + 1) = [view |-> ViewAt(3 * m - 2), static |-> frames[m].kind = "static",
                        doomed |-> frames[m].failed]
    BY <1>2, LevelOf
  <2>4. Level(m + 1)' = [view |-> ViewAt(3 * m - 2)', static |-> frames'[m].kind = "static",
                         doomed |-> frames'[m].failed]
    <3>1. m + 1 # 1 /\ (m + 1) - 1 = m
      BY <1>2
    <3> QED
      BY <3>1 DEF Level
  <2>5. ViewAt(3 * m - 2)' = ViewAt(3 * m - 2)
    <3>1. 3 * m - 2 \in 0..Len(layers)
      BY <1>2
    <3> QED
      BY <1>1, <3>1 DEF Stays
  <2>6. /\ (frames'[m].kind = "static") = (frames[m].kind = "static")
        /\ frames'[m].failed = TRUE
    BY <1>1 DEF Abort, Top
  <2>7. /\ Levels[m + 1].view = ViewAt(3 * m - 2)
        /\ Levels[m + 1].static = (frames[m].kind = "static")
    BY <2>1, <2>3
  <2>8. Levels'[m + 1] = [view |-> ViewAt(3 * m - 2), static |-> frames[m].kind = "static",
                          doomed |-> TRUE]
    BY <2>2, <2>4, <2>5, <2>6
  <2> QED
    BY <2>7, <2>8 DEF Nested!Doomed
<1>9. Levels' = [Levels EXCEPT ![m + 1] = Nested!Doomed(@)]
  <2> DEFINE n == m + 1
  <2>1. n \in Nat /\ n > 0 /\ n - 1 = m /\ Count' = n
    BY <1>4
  <2> HIDE DEF n
  <2>2. \A i \in 1..(n - 1) : Levels'[i] = Levels[i]
    BY <1>6, <2>1
  <2>3. Len(Levels) = n /\ Levels'[n] = Nested!Doomed(Levels[n])
    BY <1>7, <1>8 DEF n
  <2>4. Levels' = [Levels EXCEPT ![n] = Nested!Doomed(@)]
    BY <1>1, <1>7, <2>1, <2>2, <2>3, LevelsMarked
  <2> QED
    BY <2>4 DEF n
<1>10. Len(Levels) >= 3 - 1
  BY <1>2, <1>7
<1> QED
  BY <1>1, <1>7, <1>9, <1>10 DEF Nested!Refuse, Nested!Calls

\* The level of the call on top.
LEMMA TopLevel ==
  ASSUME IInv, NEW m \in Nat, m = Len(frames), m > 1
  PROVE  /\ Level(m + 1).view = ViewAt(3 * Len(frames) - 2)
         /\ Level(m + 1).static = (Top.kind = "static")
         /\ Level(m + 1).doomed = Top.failed
<1>1. Level(m + 1) = [view |-> ViewAt(3 * m - 2), static |-> frames[m].kind = "static",
                      doomed |-> frames[m].failed]
  BY LevelOf
<1> QED
  BY <1>1 DEF Top

\* The numbers of a call that ends.
LEMMA CallEnds ==
  ASSUME IInv, IInv', NEW m \in Nat, m = Len(frames), m > 1, Len(frames') = Len(frames) - 1,
         Stays(3 * Len(frames) - 4)
  PROVE  /\ Count = m + 1 /\ Count' = m
         /\ \A i \in 1..m : Stays(At(i))
<1>1. frames # <<>> /\ frames' # <<>>
  OBVIOUS
<1>2. Count = m + 1 /\ Count' = m
  BY <1>1, Counts, CountsNext DEF CountsFact
<1>3. ASSUME NEW i \in 1..m PROVE Stays(At(i))
  <2>1. /\ At(i) \in Nat /\ At(i) <= 3 * Len(frames) - 4
        /\ 3 * Len(frames) - 4 \in Nat
    BY DEF At
  <2> QED
    BY <2>1, StaysUnder
<1> QED
  BY <1>2, <1>3

LEMMA CallReturnsNested ==
  ASSUME IInv, NEW v \in Values, NEW p \in Parcels, CallReturns(v, p)
  PROVE  Nested!Keep \/ Nested!UndoStatic
<1>1. /\ IInv' /\ Len(frames) > 1 /\ ~Top.failed /\ Len(frames') = Len(frames) - 1
      /\ \A i \in 1..(Len(frames) - 1) : frames'[i] = frames[i]
      /\ Stays(3 * Len(frames) - 4)
      /\ Top.kind = "static" => View' = ViewAt(3 * Len(frames) - 2)
  BY CallReturnsShape
<1>2. Len(frames) \in Nat
  BY DEF IInv, Typed
<1> SUFFICES ASSUME NEW m \in Nat, m = Len(frames)
             PROVE  Nested!Keep \/ Nested!UndoStatic
  BY <1>2
<1>3. Count = m + 1 /\ Count' = m /\ \A i \in 1..m : Stays(At(i))
  BY <1>1, CallEnds
<1>4. /\ Level(m + 1).view = ViewAt(3 * Len(frames) - 2)
      /\ Level(m + 1).static = (Top.kind = "static")
      /\ Level(m + 1).doomed = Top.failed
  BY <1>1, TopLevel
<1>5. \A j \in 1..(m - 1) : frames'[j] = frames[j]
  BY <1>1
<1>6. CASE Top.kind = "static"
  <2>1. /\ Levels # <<>> /\ Nested!Last = Level(m + 1) /\ Levels' = Nested!Below
    BY <1>1, <1>3, <1>5, Ends
  <2> QED
    BY <1>1, <1>4, <1>6, <2>1 DEF Nested!UndoStatic
<1>7. CASE Top.kind # "static"
  BY <1>1, <1>3, <1>4, <1>5, <1>7, Keeps
<1> QED
  BY <1>6, <1>7

LEMMA CallRevertsNested ==
  ASSUME IInv, CallReverts
  PROVE  Nested!Fail
<1>1. /\ IInv' /\ Len(frames) > 1 /\ Len(frames') = Len(frames) - 1
      /\ \A i \in 1..(Len(frames) - 2) : frames'[i] = frames[i]
      /\ frames'[Len(frames) - 1] = Abort(Caller)
      /\ Stays(3 * Len(frames) - 4)
      /\ View' = ViewAt(3 * Len(frames) - 2)
  BY CallRevertsShape
<1>2. Len(frames) \in Nat
  BY DEF IInv, Typed
<1> SUFFICES ASSUME NEW m \in Nat, m = Len(frames), NEW q \in Nat, q = m - 1
             PROVE  Nested!Fail
  BY <1>1, <1>2
<1>3. Count = m + 1 /\ Count' = m /\ \A i \in 1..m : Stays(At(i))
  BY <1>1, CallEnds
<1>4. Level(m + 1).view = ViewAt(3 * Len(frames) - 2)
  BY <1>1, TopLevel
<1>5. /\ Levels \in Seq(LevelSet) /\ Len(Levels) = m + 1
      /\ Under \in Seq(LevelSet) /\ Len(Under) = m
      /\ \A i \in 1..m : Under[i] = Levels[i]
  BY <1>3, UnderShape
<1>6. Nested!Last = Level(m + 1) /\ Levels # <<>>
  BY <1>3, <1>5, LevelsNow DEF LevelsFact, Nested!Last
<1>7. \A i \in 1..q : Levels'[i] = Under[i]
  <2>1. \A i \in 1..q : Levels'[i] = Levels[i]
    <3>1. q <= Count /\ q <= Count'
      BY <1>3
    <3>2. /\ \A j \in 1..(q - 1) : frames'[j] = frames[j]
          /\ \A i \in 1..q : Stays(At(i))
      BY <1>1, <1>3
    <3> QED
      BY <1>1, <3>1, <3>2, LevelsStay
  <2> QED
    BY <1>5, <2>1
<1>8. Levels'[m] = Nested!Doomed(Under[m])
  <2>1. m \in 1..Count /\ m \in 1..Count' /\ q > 0 /\ q + 1 = m
    BY <1>1, <1>3
  <2>2. Under[m] = Level(m)
    BY <1>5, <2>1, LevelsNow DEF LevelsFact
  <2>3. Levels'[m] = Level(m)'
    BY <1>1, <2>1, LevelsNext DEF LevelsFact
  <2>4. Level(m) = [view |-> ViewAt(3 * q - 2), static |-> frames[q].kind = "static",
                    doomed |-> frames[q].failed]
    BY <2>1 DEF Level
  <2>5. Level(m)' = [view |-> ViewAt(3 * q - 2)', static |-> frames'[q].kind = "static",
                     doomed |-> frames'[q].failed]
    BY <2>1 DEF Level
  <2>6. ViewAt(3 * q - 2)' = ViewAt(3 * q - 2)
    <3>1. 3 * q - 2 \in 0..(3 * Len(frames) - 4)
      BY <1>1, <2>1
    <3> QED
      BY <1>1, <3>1 DEF Stays
  <2>7. /\ (frames'[q].kind = "static") = (frames[q].kind = "static")
        /\ frames'[q].failed = TRUE
    BY <1>1 DEF Abort, Caller
  <2>8. /\ Under[m].view = ViewAt(3 * q - 2)
        /\ Under[m].static = (frames[q].kind = "static")
    BY <2>2, <2>4
  <2>9. Levels'[m] = [view |-> ViewAt(3 * q - 2), static |-> frames[q].kind = "static",
                      doomed |-> TRUE]
    BY <2>3, <2>5, <2>6, <2>7
  <2> QED
    BY <2>8, <2>9 DEF Nested!Doomed
<1>9. Levels' = [Under EXCEPT ![m] = Nested!Doomed(@)]
  <2>1. \A i \in 1..(m - 1) : Levels'[i] = Under[i]
    BY <1>7
  <2> QED
    BY <1>1, <1>3, <1>5, <1>8, <2>1, LevelsMarked
<1>10. ~(Len(Levels) < 3) /\ Len(Levels) - 1 = m
  BY <1>1, <1>5
<1>11. Under = Nested!Below
  BY DEF Under, Nested!Below
<1> QED
  BY <1>1, <1>4, <1>6, <1>9, <1>10, <1>11 DEF Nested!Fail, Nested!Calls

LEMMA InitNested == Init => Nested!Init
<1> SUFFICES ASSUME Init PROVE Nested!Init
  OBVIOUS
<1>1. IInv /\ layers = <<>>
  BY InitInv DEF Init
<1>2. View \in [Keys -> Nat] /\ Levels \in Seq(LevelSet) /\ Len(Levels) = 0
  BY <1>1, LevelsNow DEF LevelsFact, Count
<1> QED
  BY <1>2 DEF Nested!Init, Nested!Views

LEMMA StutterNested ==
  ASSUME UNCHANGED vars
  PROVE  UNCHANGED <<View, Levels>>
<1>1. UNCHANGED <<cells, layers, frames>>
  BY DEF vars
<1>2. \A n : ViewAt(n)' = ViewAt(n)
  BY <1>1 DEF ViewAt
<1>3. View' = View
  BY <1>1 DEF View, ViewAt
<1>4. \A i : Level(i)' = Level(i)
  BY <1>1, <1>2 DEF Level
<1>5. Levels' = Levels
  BY <1>1, <1>4 DEF Levels
<1> QED
  BY <1>3, <1>5

LEMMA StepNested ==
  ASSUME IInv, MessageFirst, Next
  PROVE  Nested!Next
<1>1. CASE \E p \in Parcels : BeginTransaction(p)
  BY <1>1, BeginTransactionNested DEF Nested!Next
<1>2. CASE \E c \in Targets, p \in Parcels : StartMessage(c, p)
  BY <1>2, StartMessageNested DEF Nested!Next
<1>3. CASE \E v \in Values, p \in Parcels : MessageReturns(v, p)
  BY <1>3, MessageReturnsNested DEF Nested!Next
<1>4. CASE MessageReverts
  BY <1>4, MessageRevertsNested DEF Nested!Next
<1>5. CASE CommitTransaction
  BY <1>5, CommitTransactionNested DEF Nested!Next
<1>6. CASE RollbackTransaction
  BY <1>6, RollbackTransactionNested DEF Nested!Next
<1>7. CASE \E kind \in Kinds, c \in Targets, v \in Values, p \in Parcels :
             CallContract(kind, c, v, p)
  BY <1>7, CallContractNested DEF Nested!Next
<1>8. CASE CallRefused
  BY <1>8, CallRefusedNested DEF Nested!Next
<1>9. CASE \E v \in Values, p \in Parcels : CallReturns(v, p)
  BY <1>9, CallReturnsNested DEF Nested!Next
<1>10. CASE CallReverts
  BY <1>10, CallRevertsNested DEF Nested!Next
<1> QED
  BY <1>1, <1>2, <1>3, <1>4, <1>5, <1>6, <1>7, <1>8, <1>9, <1>10 DEF Next

\* A transaction, its message and every call inside have all of their
\* effects on what contracts see, or none: a static call leaves no trace,
\* a call that fails takes its caller with it, and a message that fails
\* leaves the state it began with (process_message, extcall, execute).
THEOREM CallsAreNested == Spec => ImplementsNested
<1>1. Init => MessageFirst
  BY DEF Init, MessageFirst
<1>2. IInv /\ MessageFirst /\ [Next]_vars => MessageFirst'
  <2>1. ASSUME MessageFirst, UNCHANGED vars PROVE MessageFirst'
    BY <2>1 DEF MessageFirst, vars
  <2> QED
    BY <2>1, StepFirst
<1>3. IInv /\ MessageFirst /\ [Next]_vars => [Nested!Next]_<<View, Levels>>
  BY StepNested, StutterNested
<1> QED
  BY <1>1, <1>2, <1>3, InitNested, Invariant, PTL
  DEF Spec, ImplementsNested, Nested!Spec

-----------------------------------------------------------------------------
(* Sums over the contracts. *)

\* What contains 0 and with each number the next contains all.
LEMMA Induction ==
  ASSUME NEW S \in SUBSET Nat, 0 \in S, \A n \in S : n + 1 \in S
  PROVE  \A n \in Nat : n \in S
<1> DEFINE T == Nat \ S
<1> SUFFICES ASSUME T # {} PROVE FALSE
  OBVIOUS
<1>1. IsWellFoundedOn(Smaller, Nat)
  BY NatLessThanWellFounded DEF OpToRel, Smaller
<1>2. PICK t \in T : \A u \in T : ~ (<<u, t>> \in Smaller)
  BY <1>1, WFMin
<1>3. t \in Nat /\ t # 0
  OBVIOUS
<1>4. t - 1 \in Nat /\ t - 1 < t
  BY <1>3
<1>5. <<t - 1, t>> \in Smaller
  BY <1>3, <1>4 DEF Smaller
<1>6. t - 1 \in S
  BY <1>2, <1>4, <1>5
<1>7. (t - 1) + 1 = t
  BY <1>3
<1> QED
  BY <1>6, <1>7

\* The sums of what stands before each place.
SumsUpTo(f, g) ==
  g = [n \in 0..(MaxId + 1) |-> IF n = 0 THEN 0 ELSE g[n - 1] + f[n - 1]]

LEMMA SumsExist ==
  ASSUME NEW f \in [Contracts -> Nat]
  PROVE  \E g : SumsUpTo(f, g)
<1> DEFINE Upto(g, m) == g[0] = 0 /\ \A n \in 1..m : g[n] = g[n - 1] + f[n - 1]
           S == {m \in Nat : \E g : Upto(g, m)}
<1>0. MaxId \in Nat
  BY MessageAssumption
<1>1. 0 \in S
  <2> DEFINE g == [n \in {0} |-> 0]
  <2>1. Upto(g, 0)
    OBVIOUS
  <2> QED
    BY <2>1
<1>2. ASSUME NEW m \in S PROVE m + 1 \in S
  <2>1. PICK g : Upto(g, m)
    OBVIOUS
  <2> DEFINE h == [n \in 0..(m + 1) |-> IF n = m + 1 THEN g[m] + f[m] ELSE g[n]]
  <2>2. h[0] = 0
    BY <2>1
  <2>3. ASSUME NEW n \in 1..(m + 1) PROVE h[n] = h[n - 1] + f[n - 1]
    <3>1. CASE n = m + 1
      <4>1. h[n] = g[m] + f[m] /\ n - 1 = m /\ m \in 0..(m + 1) /\ m # m + 1
        BY <3>1
      <4>2. h[m] = g[m]
        BY <4>1
      <4> QED
        BY <4>1, <4>2
    <3>2. CASE n # m + 1
      <4>1. n \in 1..m /\ n - 1 \in 0..(m + 1) /\ n - 1 # m + 1
        BY <3>2
      <4>2. h[n] = g[n] /\ h[n - 1] = g[n - 1]
        BY <3>2, <4>1
      <4> QED
        BY <2>1, <4>1, <4>2
    <3> QED
      BY <3>1, <3>2
  <2> HIDE DEF h
  <2>4. Upto(h, m + 1)
    BY <2>2, <2>3
  <2> QED
    BY <2>4
<1>3. MaxId + 1 \in S
  <2> HIDE DEF S
  <2>1. S \in SUBSET Nat
    BY DEF S
  <2> QED
    BY <1>0, <1>1, <1>2, <2>1, Induction
<1>4. PICK g : Upto(g, MaxId + 1)
  BY <1>3
<1> DEFINE h == [n \in 0..(MaxId + 1) |-> g[n]]
<1>5. ASSUME NEW n \in 0..(MaxId + 1)
      PROVE  h[n] = IF n = 0 THEN 0 ELSE h[n - 1] + f[n - 1]
  <2>1. CASE n = 0
    BY <1>4, <2>1
  <2>2. CASE n # 0
    <3>1. n \in 1..(MaxId + 1) /\ n - 1 \in 0..(MaxId + 1)
      BY <1>0, <2>2
    <3> QED
      BY <1>4, <2>2, <3>1
  <2> QED
    BY <2>1, <2>2
<1>6. h = [n \in 0..(MaxId + 1) |-> h[n]]
  OBVIOUS
<1> HIDE DEF h
<1>7. SumsUpTo(f, h)
  BY <1>5, <1>6 DEF SumsUpTo
<1> QED
  BY <1>7

\* The sum is the last of these.
LEMMA SumUnfolds ==
  ASSUME NEW f \in [Contracts -> Nat]
  PROVE  \E g : /\ g[0] = 0 /\ \A n \in Contracts : g[n + 1] = g[n] + f[n]
                /\ Sum(f) = g[MaxId + 1]
<1> DEFINE g == CHOOSE g : SumsUpTo(f, g)
<1>0. MaxId \in Nat
  BY MessageAssumption
<1>1. SumsUpTo(f, g)
  BY SumsExist
<1>2. Sum(f) = g[MaxId + 1]
  BY DEF Sum, SumsUpTo
<1> HIDE DEF g
<1>3. g[0] = 0
  BY <1>0, <1>1 DEF SumsUpTo
<1>4. ASSUME NEW n \in Contracts PROVE g[n + 1] = g[n] + f[n]
  <2>1. n + 1 \in 0..(MaxId + 1) /\ n + 1 # 0 /\ (n + 1) - 1 = n
    BY <1>0 DEF Contracts
  <2>2. g[n + 1] = IF n + 1 = 0 THEN 0 ELSE g[(n + 1) - 1] + f[(n + 1) - 1]
    BY <1>1, <2>1 DEF SumsUpTo
  <2> QED
    BY <2>1, <2>2
<1> QED
  BY <1>2, <1>3, <1>4

\* A sum of nothing is nothing.
LEMMA SumOfNone ==
  ASSUME NEW f \in [Contracts -> Nat], \A c \in Contracts : f[c] = 0
  PROVE  Sum(f) = 0
<1>0. MaxId \in Nat
  BY MessageAssumption
<1>1. PICK g : /\ g[0] = 0 /\ \A n \in Contracts : g[n + 1] = g[n] + f[n]
               /\ Sum(f) = g[MaxId + 1]
  BY SumUnfolds
<1> DEFINE S == {n \in Nat : n <= MaxId + 1 => g[n] = 0}
<1>2. 0 \in S
  BY <1>1
<1>3. ASSUME NEW n \in S PROVE n + 1 \in S
  <2> SUFFICES ASSUME n + 1 <= MaxId + 1 PROVE g[n + 1] = 0
    OBVIOUS
  <2>1. n \in Contracts /\ n <= MaxId + 1
    BY <1>0 DEF Contracts
  <2> QED
    BY <1>1, <2>1
<1>4. MaxId + 1 \in S
  <2> HIDE DEF S
  <2>1. S \in SUBSET Nat
    BY DEF S
  <2> QED
    BY <1>0, <1>2, <1>3, <2>1, Induction
<1> QED
  BY <1>0, <1>1, <1>4

\* A sum is a number.
LEMMA SumTyped ==
  ASSUME NEW f \in [Contracts -> Nat]
  PROVE  Sum(f) \in Nat
<1>0. MaxId \in Nat
  BY MessageAssumption
<1>1. PICK g : /\ g[0] = 0 /\ \A n \in Contracts : g[n + 1] = g[n] + f[n]
               /\ Sum(f) = g[MaxId + 1]
  BY SumUnfolds
<1> DEFINE S == {n \in Nat : n <= MaxId + 1 => g[n] \in Nat}
<1>2. 0 \in S
  BY <1>1
<1>3. ASSUME NEW n \in S PROVE n + 1 \in S
  <2> SUFFICES ASSUME n + 1 <= MaxId + 1 PROVE g[n + 1] \in Nat
    OBVIOUS
  <2>1. n \in Contracts /\ n <= MaxId + 1
    BY <1>0 DEF Contracts
  <2> QED
    BY <1>1, <2>1
<1>4. MaxId + 1 \in S
  <2> HIDE DEF S
  <2>1. S \in SUBSET Nat
    BY DEF S
  <2> QED
    BY <1>0, <1>2, <1>3, <2>1, Induction
<1> QED
  BY <1>0, <1>1, <1>4

\* A sum changes by what one of its terms changes.
LEMMA SumShifts ==
  ASSUME NEW f \in [Contracts -> Nat], NEW h \in [Contracts -> Nat], NEW a \in Contracts,
         \A c \in Contracts : c # a => h[c] = f[c]
  PROVE  Sum(h) + f[a] = Sum(f) + h[a]
<1>0. MaxId \in Nat /\ a \in Nat /\ a <= MaxId /\ f[a] \in Nat /\ h[a] \in Nat
  BY MessageAssumption DEF Contracts
<1>1. PICK g : /\ g[0] = 0 /\ \A n \in Contracts : g[n + 1] = g[n] + f[n]
               /\ Sum(f) = g[MaxId + 1]
  BY SumUnfolds
<1>2. PICK e : /\ e[0] = 0 /\ \A n \in Contracts : e[n + 1] = e[n] + h[n]
               /\ Sum(h) = e[MaxId + 1]
  BY SumUnfolds
<1> DEFINE Same(n) == IF n <= a THEN e[n] = g[n] ELSE e[n] + f[a] = g[n] + h[a]
           S == {n \in Nat : n <= MaxId + 1 => e[n] \in Nat /\ g[n] \in Nat /\ Same(n)}
<1>3. 0 \in S
  BY <1>0, <1>1, <1>2
<1>4. ASSUME NEW n \in S PROVE n + 1 \in S
  <2> SUFFICES ASSUME n + 1 <= MaxId + 1
               PROVE  e[n + 1] \in Nat /\ g[n + 1] \in Nat /\ Same(n + 1)
    OBVIOUS
  <2>1. n \in Nat /\ n \in Contracts /\ n <= MaxId + 1 /\ f[n] \in Nat /\ h[n] \in Nat
    BY <1>0 DEF Contracts
  <2>2. e[n] \in Nat /\ g[n] \in Nat /\ Same(n)
    BY <2>1
  <2>3. e[n + 1] = e[n] + h[n] /\ g[n + 1] = g[n] + f[n]
    BY <1>1, <1>2, <2>1
  <2>4. n # a => h[n] = f[n]
    BY <2>1
  <2> QED
    BY <1>0, <2>1, <2>2, <2>3, <2>4
<1>5. MaxId + 1 \in S
  <2> HIDE DEF S
  <2>1. S \in SUBSET Nat
    BY DEF S
  <2> QED
    BY <1>0, <1>3, <1>4, <2>1, Induction
<1>6. Same(MaxId + 1)
  BY <1>0, <1>5
<1> QED
  BY <1>0, <1>1, <1>2, <1>6

\* Two of the terms are no more than the sum.
LEMMA SumCovers ==
  ASSUME NEW f \in [Contracts -> Nat], NEW a \in Contracts, NEW b \in Contracts, a # b
  PROVE  f[a] + f[b] <= Sum(f)
<1> DEFINE g == [c \in Contracts |-> IF c = a THEN 0 ELSE f[c]]
           h == [c \in Contracts |-> IF c = b THEN 0 ELSE g[c]]
<1>1. /\ g \in [Contracts -> Nat] /\ g[a] = 0 /\ g[b] = f[b]
      /\ \A c \in Contracts : c # a => g[c] = f[c]
  OBVIOUS
<1>2. /\ h \in [Contracts -> Nat] /\ h[b] = 0
      /\ \A c \in Contracts : c # b => h[c] = g[c]
  BY <1>1
<1> HIDE DEF g, h
<1>3. Sum(g) + f[a] = Sum(f) + g[a]
  BY <1>1, SumShifts
<1>4. Sum(h) + g[b] = Sum(g) + h[b]
  BY <1>1, <1>2, SumShifts
<1>5. Sum(f) \in Nat /\ Sum(g) \in Nat /\ Sum(h) \in Nat /\ f[a] \in Nat /\ f[b] \in Nat
  BY <1>1, <1>2, SumTyped
<1> QED
  BY <1>1, <1>2, <1>3, <1>4, <1>5

-----------------------------------------------------------------------------
(* What the levels began with, and what each action does to that. *)

Began(i) == ViewAt(At(i))

\* Levels n + 1 and up are new; level n + 1 is gone.
Pushes(n) ==
  /\ Count = n /\ Count' = n + 1
  /\ \A i \in 1..n : Began(i)' = Began(i)
  /\ \A i : i = n + 1 => Began(i)' = View

Pops(n) ==
  /\ Count = n + 1 /\ Count' = n
  /\ \A i \in 1..n : Began(i)' = Began(i)

Rests ==
  /\ Count' = Count /\ View' = View
  /\ \A i \in 1..Count : Began(i)' = Began(i)

LEMMA BeganStays ==
  ASSUME NEW n \in Nat, \A i \in 1..n : Stays(At(i))
  PROVE  \A i \in 1..n : Began(i)' = Began(i)
<1> SUFFICES ASSUME NEW i \in 1..n PROVE Began(i)' = Began(i)
  OBVIOUS
<1>1. At(i) \in 0..At(i)
  BY DEF At
<1> QED
  BY <1>1 DEF Stays, Began, At

LEMMA BeginTransactionViews ==
  ASSUME IInv, NEW p \in Parcels, BeginTransaction(p)
  PROVE  IInv' /\ frames = <<>> /\ frames' = <<>> /\ View' = View /\ Pushes(0)
<1>1. /\ IInv' /\ layers = <<>> /\ frames = <<>> /\ frames' = <<>>
      /\ Len(layers') = 1 /\ View' = View /\ Stays(0)
  BY BeginTransactionShape
<1>2. Count = 0 /\ Count' = 1
  <2>1. layers' # <<>> /\ Len(frames') = 0
    BY <1>1
  <2> QED
    BY <1>1, <2>1 DEF Count
<1>3. ViewAt(0)' = View
  <2>1. View = ViewAt(0)
    BY <1>1 DEF View
  <2> QED
    BY <1>1, <2>1 DEF Stays
<1>4. \A i : i = 0 + 1 => Began(i)' = View
  BY <1>3 DEF Began, At
<1> QED
  BY <1>1, <1>2, <1>4 DEF Pushes

LEMMA StartMessageViews ==
  ASSUME IInv, NEW c \in Targets, NEW p \in Parcels, StartMessage(c, p)
  PROVE  /\ IInv' /\ frames = <<>> /\ frames' = <<Frame("message", Resolved(c))>>
         /\ View' = Over(MessageWrites(c, p), View) /\ Pushes(1)
<1>1. /\ IInv' /\ Len(layers) = 1 /\ frames = <<>> /\ Stays(1)
      /\ frames' = <<Frame("message", Resolved(c))>>
      /\ View' = Over(MessageWrites(c, p), View)
  BY StartMessageShape
<1>2. frames' # <<>> /\ Len(frames') = 1
  BY <1>1
<1>3. Count = 1 /\ Count' = 1 + 1
  BY <1>1, <1>2, Counts, CountsNext DEF CountsFact
<1>4. ViewAt(1)' = View
  <2>1. View = ViewAt(1)
    BY <1>1 DEF View
  <2> QED
    BY <1>1, <2>1 DEF Stays
<1>5. \A i : i = 1 + 1 => Began(i)' = View
  BY <1>4 DEF Began, At
<1>6. \A i \in 1..1 : Stays(At(i))
  BY <1>1, StaysUnder DEF At
<1>7. \A i \in 1..1 : Began(i)' = Began(i)
  BY <1>6, BeganStays
<1> QED
  BY <1>1, <1>3, <1>5, <1>7 DEF Pushes

LEMMA CallContractViews ==
  ASSUME IInv, NEW kind \in Kinds, NEW c \in Targets, NEW v \in Values,
         NEW p \in Parcels, CallContract(kind, c, v, p), NEW m \in Nat, m = Len(frames) + 1
  PROVE  /\ IInv' /\ m > 1 /\ frames # <<>>
         /\ frames' = Append(frames, Frame(kind, Myself(kind, c)))
         /\ Len(frames') = m /\ frames'[m] = Frame(kind, Myself(kind, c))
         /\ \A j \in 1..(m - 1) : frames'[j] = frames[j]
         /\ View' = Over(CallWrites(kind, c, v, p), View) /\ Pushes(m)
<1> DEFINE f == Frame(kind, Myself(kind, c))
<1>1. /\ IInv' /\ frames # <<>> /\ frames' = Append(frames, f) /\ f \in FrameSet
      /\ Stays(3 * Len(frames))
      /\ \A n : n = 3 * Len(frames) + 1 => ViewAt(n)' = View
      /\ View' = Over(CallWrites(kind, c, v, p), View)
  BY CallContractShape
<1>2. frames \in Seq(FrameSet) /\ Len(frames) \in Nat /\ Len(frames) > 0
  BY <1>1, Running
<1>3. /\ Len(frames') = m /\ frames' # <<>> /\ frames'[m] = f
      /\ \A j \in 1..(m - 1) : frames'[j] = frames[j]
  BY <1>1, <1>2
<1>4. Count = m /\ Count' = m + 1
  BY <1>1, <1>3, Counts, CountsNext DEF CountsFact
<1>5. ASSUME NEW i, i = m + 1 PROVE Began(i)' = View
  <2>1. At(i) = 3 * Len(frames) + 1
    BY <1>2, <1>5 DEF At
  <2>2. ASSUME NEW n, n = At(i) PROVE ViewAt(n)' = View
    BY <1>1, <2>1, <2>2
  <2> QED
    BY <2>2 DEF Began, At
<1>6. ASSUME NEW i \in 1..m PROVE Stays(At(i))
  <2>1. At(i) \in Nat /\ At(i) <= 3 * Len(frames) /\ 3 * Len(frames) \in Nat
    BY <1>2 DEF At
  <2> QED
    BY <1>1, <2>1, StaysUnder
<1>7. \A i \in 1..m : Began(i)' = Began(i)
  BY <1>6, BeganStays
<1> QED
  BY <1>1, <1>2, <1>3, <1>4, <1>5, <1>7 DEF Pushes

LEMMA MessageReturnsViews ==
  ASSUME IInv, NEW v \in Values, NEW p \in Parcels, MessageReturns(v, p)
  PROVE  /\ IInv' /\ Len(frames) = 1 /\ frames' = <<>>
         /\ View' = Over(ReturnWrites(v, p), View) /\ Pops(1)
<1>1. /\ IInv' /\ Len(frames) = 1 /\ frames' = <<>> /\ Len(layers') = 1 /\ Stays(0)
      /\ View' = Over(ReturnWrites(v, p), View)
  BY MessageReturnsShape
<1>2. frames # <<>>
  BY <1>1
<1>3. Count = 1 + 1 /\ Count' = 1
  BY <1>1, <1>2, Counts, CountsNext DEF CountsFact
<1>4. \A i \in 1..1 : Stays(At(i))
  BY <1>1 DEF At
<1>5. \A i \in 1..1 : Began(i)' = Began(i)
  BY <1>4, BeganStays
<1> QED
  BY <1>1, <1>3, <1>5 DEF Pops

LEMMA MessageRevertsViews ==
  ASSUME IInv, MessageReverts
  PROVE  /\ IInv' /\ Len(frames) = 1 /\ frames' = <<>>
         /\ View' = Began(2) /\ Pops(1)
<1>1. /\ IInv' /\ Len(frames) = 1 /\ frames' = <<>> /\ Len(layers') = 1 /\ Stays(1)
      /\ View' = ViewAt(1)
  BY MessageRevertsShape
<1>2. frames # <<>>
  BY <1>1
<1>3. Count = 1 + 1 /\ Count' = 1
  BY <1>1, <1>2, Counts, CountsNext DEF CountsFact
<1>4. \A i \in 1..1 : Stays(At(i))
  BY <1>1, StaysUnder DEF At
<1>5. \A i \in 1..1 : Began(i)' = Began(i)
  BY <1>4, BeganStays
<1> QED
  BY <1>1, <1>3, <1>5 DEF Pops, Began, At

LEMMA CommitTransactionViews ==
  ASSUME IInv, CommitTransaction
  PROVE  IInv' /\ frames = <<>> /\ frames' = <<>> /\ View' = View /\ Pops(0)
<1>1. /\ IInv' /\ frames = <<>> /\ frames' = <<>> /\ Len(layers) = 1 /\ layers' = <<>>
      /\ View' = View
  BY CommitTransactionShape
<1>2. Count = 0 + 1 /\ Count' = 0
  BY <1>1, Counts DEF Count
<1> QED
  BY <1>1, <1>2 DEF Pops

LEMMA RollbackTransactionViews ==
  ASSUME IInv, RollbackTransaction
  PROVE  IInv' /\ frames = <<>> /\ frames' = <<>> /\ View' = Began(1) /\ Pops(0)
<1>1. /\ IInv' /\ frames = <<>> /\ frames' = <<>> /\ Len(layers) = 1 /\ layers' = <<>>
      /\ View' = ViewAt(0)
  BY RollbackTransactionShape
<1>2. Count = 0 + 1 /\ Count' = 0
  BY <1>1, Counts DEF Count
<1> QED
  BY <1>1, <1>2 DEF Pops, Began, At

LEMMA CallRefusedViews ==
  ASSUME IInv, CallRefused, NEW m \in Nat, m = Len(frames)
  PROVE  /\ IInv' /\ m > 0 /\ frames # <<>> /\ frames' # <<>> /\ Len(frames') = m
         /\ \A j \in 1..(m - 1) : frames'[j] = frames[j]
         /\ frames'[m] = Abort(frames[m])
         /\ Rests
<1>1. /\ IInv' /\ frames # <<>> /\ Len(frames') = Len(frames)
      /\ \A i \in 1..(Len(frames) - 1) : frames'[i] = frames[i]
      /\ frames'[Len(frames)] = Abort(Top)
      /\ View' = View /\ Stays(Len(layers))
  BY CallRefusedShape
<1>2. /\ Len(frames) > 0 /\ Len(layers) = 3 * m /\ Len(layers) \in Nat
  BY <1>1, Running DEF IInv, Typed
<1>3. frames' # <<>>
  BY <1>1, <1>2
<1>4. Count = m + 1 /\ Count' = m + 1
  BY <1>1, <1>3, Counts, CountsNext DEF CountsFact
<1>5. ASSUME NEW i \in 1..(m + 1) PROVE Stays(At(i))
  <2>1. At(i) \in Nat /\ At(i) <= Len(layers)
    BY <1>2 DEF At
  <2> QED
    BY <1>1, <1>2, <2>1, StaysUnder
<1>6. \A i \in 1..(m + 1) : Began(i)' = Began(i)
  BY <1>5, BeganStays
<1> QED
  BY <1>1, <1>2, <1>3, <1>4, <1>6 DEF Rests, Top

LEMMA CallReturnsViews ==
  ASSUME IInv, NEW v \in Values, NEW p \in Parcels, CallReturns(v, p),
         NEW m \in Nat, m = Len(frames)
  PROVE  /\ IInv' /\ m > 1 /\ Len(frames') = m - 1 /\ frames' # <<>>
         /\ \A j \in 1..(m - 1) : frames'[j] = frames[j]
         /\ Pops(m)
         /\ \/ View' = Began(m + 1)
            \/ View' = Over(SaveWrites(v, p), View)
<1>1. /\ IInv' /\ Len(frames) > 1 /\ Len(frames') = Len(frames) - 1
      /\ \A i \in 1..(Len(frames) - 1) : frames'[i] = frames[i]
      /\ Stays(3 * Len(frames) - 4)
      /\ Top.kind = "static" => View' = ViewAt(3 * Len(frames) - 2)
      /\ Top.kind # "static" => View' = Over(SaveWrites(v, p), View)
  BY CallReturnsShape
<1>2. Count = m + 1 /\ Count' = m /\ \A i \in 1..m : Stays(At(i))
  BY <1>1, CallEnds
<1>3. \A i \in 1..m : Began(i)' = Began(i)
  BY <1>2, BeganStays
<1>4. Began(m + 1) = ViewAt(3 * m - 2)
  <2>1. At(m + 1) = 3 * m - 2
    BY <1>1 DEF At
  <2> QED
    BY <2>1 DEF Began
<1>5. frames' # <<>>
  BY <1>1
<1> QED
  BY <1>1, <1>2, <1>3, <1>4, <1>5 DEF Pops

LEMMA CallRevertsViews ==
  ASSUME IInv, CallReverts, NEW m \in Nat, m = Len(frames)
  PROVE  /\ IInv' /\ m > 1 /\ Len(frames') = m - 1 /\ frames' # <<>>
         /\ \A j \in 1..(m - 2) : frames'[j] = frames[j]
         /\ \A j : j = m - 1 => frames'[j] = Abort(frames[j])
         /\ Pops(m) /\ View' = Began(m + 1)
<1>1. /\ IInv' /\ Len(frames) > 1 /\ Len(frames') = Len(frames) - 1
      /\ \A i \in 1..(Len(frames) - 2) : frames'[i] = frames[i]
      /\ frames'[Len(frames) - 1] = Abort(Caller)
      /\ Stays(3 * Len(frames) - 4)
      /\ View' = ViewAt(3 * Len(frames) - 2)
  BY CallRevertsShape
<1>2. Count = m + 1 /\ Count' = m /\ \A i \in 1..m : Stays(At(i))
  BY <1>1, CallEnds
<1>3. \A i \in 1..m : Began(i)' = Began(i)
  BY <1>2, BeganStays
<1>4. Began(m + 1) = ViewAt(3 * m - 2)
  <2>1. At(m + 1) = 3 * m - 2
    BY <1>1 DEF At
  <2> QED
    BY <2>1 DEF Began
<1>5. frames' # <<>>
  BY <1>1
<1>6. \A j : j = m - 1 => frames'[j] = Abort(frames[j])
  BY <1>1 DEF Caller
<1> QED
  BY <1>1, <1>2, <1>3, <1>4, <1>5, <1>6 DEF Pops

\* What is seen, and what the levels began with, is all in S.
AllIn(S) == View \in S /\ \A i \in 1..Count : Began(i) \in S

LEMMA AllInPushes ==
  ASSUME NEW S, NEW n \in Nat, AllIn(S), Pushes(n), View' \in S
  PROVE  AllIn(S)'
<1> SUFFICES ASSUME NEW i \in 1..(n + 1) PROVE Began(i)' \in S
  BY DEF AllIn, Pushes
<1>1. CASE i \in 1..n
  BY <1>1 DEF AllIn, Pushes
<1>2. CASE i = n + 1
  BY <1>2 DEF AllIn, Pushes
<1> QED
  BY <1>1, <1>2

LEMMA AllInPops ==
  ASSUME NEW S, NEW n \in Nat, AllIn(S), Pops(n),
         View' = View \/ View' = Began(n + 1) \/ View' \in S
  PROVE  AllIn(S)'
<1>1. n + 1 \in 1..Count
  BY DEF Pops
<1>2. View' \in S
  BY <1>1 DEF AllIn
<1>3. \A i \in 1..n : i \in 1..(n + 1)
  OBVIOUS
<1> QED
  BY <1>2, <1>3 DEF AllIn, Pops

LEMMA AllInRests ==
  ASSUME NEW S, AllIn(S), Rests
  PROVE  AllIn(S)'
BY DEF AllIn, Rests

LEMMA AllInStutters ==
  ASSUME NEW S, AllIn(S), UNCHANGED vars
  PROVE  AllIn(S)'
BY DEF AllIn, vars, View, ViewAt, Began, Count

-----------------------------------------------------------------------------
(* What is seen at every level: balances within their width, and nothing    *)
(* under a number that is not yet taken.                                    *)

Whole ==
  {v \in [Keys -> Nat] :
     /\ v[Sequence] \in FirstFree..(MaxId + 1)
     /\ \A k \in BalanceKeys : v[k] < Width
     /\ \A k \in Keys : (k # Sequence /\ k[2] >= v[Sequence]) => v[k] = 0}

\* Writes that leave it so, when they leave the next number at s.
Fits(w, s) ==
  /\ w \in Layer
  /\ Sequence \in DOMAIN w => w[Sequence] = s
  /\ \A k \in DOMAIN w : k # Sequence => k[2] < s
  /\ \A k \in DOMAIN w : k \in BalanceKeys => w[k] < Width

LEMMA KeyShape ==
  /\ \A k \in Keys : k # Sequence => k[2] \in Contracts
  /\ \A c, t : Balance(c, t) # Sequence /\ Balance(c, t)[2] = c /\ Balance(c, t)[3] = t
  /\ \A c : Storage(c) # Sequence /\ Storage(c)[2] = c /\ Storage(c) \notin BalanceKeys
  /\ \A c : Binary(c) # Sequence /\ Binary(c)[2] = c /\ Binary(c) \notin BalanceKeys
  /\ Sequence \notin BalanceKeys /\ BalanceKeys \subseteq Keys
<1>1. /\ \A c, t : Balance(c, t) # Sequence /\ Balance(c, t)[2] = c /\ Balance(c, t)[3] = t
      /\ \A c : Storage(c) # Sequence /\ Storage(c)[2] = c
      /\ \A c : Binary(c) # Sequence /\ Binary(c)[2] = c
  BY DEF Balance, Storage, Binary, Sequence
<1>2. \A c, d, t : Storage(c) # Balance(d, t) /\ Binary(c) # Balance(d, t)
  BY DEF Balance, Storage, Binary
<1> QED
  BY <1>1, <1>2 DEF Keys, BalanceKeys

LEMMA OverFits ==
  ASSUME NEW s, NEW w, NEW f, Fits(w, s), Fits(f, s)
  PROVE  Fits(Over(w, f), s)
<1>1. Over(w, f) \in Layer
  BY LayerShape DEF Fits
<1>2. \A k \in DOMAIN Over(w, f) :
        \/ k \in DOMAIN w /\ Over(w, f)[k] = w[k]
        \/ k \in DOMAIN f /\ Over(w, f)[k] = f[k]
  BY DEF Over
<1> QED
  BY <1>1, <1>2 DEF Fits

LEMMA OverIsWhole ==
  ASSUME NEW v \in Whole, NEW s \in v[Sequence]..(MaxId + 1), NEW w, Fits(w, s),
         Sequence \notin DOMAIN w => s = v[Sequence]
  PROVE  Over(w, v) \in Whole /\ Over(w, v)[Sequence] = s
<1> DEFINE o == Over(w, v)
<1>0. /\ v \in [Keys -> Nat] /\ v[Sequence] \in FirstFree..(MaxId + 1)
      /\ \A k \in BalanceKeys : v[k] < Width
      /\ \A k \in Keys : (k # Sequence /\ k[2] >= v[Sequence]) => v[k] = 0
  BY DEF Whole
<1>1. /\ w \in Layer /\ DOMAIN w \subseteq Keys /\ \A k \in DOMAIN w : w[k] \in Nat
  BY LayerShape DEF Fits
<1>2. /\ o \in [Keys -> Nat]
      /\ \A k \in Keys : o[k] = IF k \in DOMAIN w THEN w[k] ELSE v[k]
  BY <1>0, <1>1 DEF Over
<1> HIDE DEF o
<1>3. o[Sequence] = s
  BY <1>2, KeysOf DEF Fits
<1>4. /\ MaxId \in Nat /\ FirstFree \in Nat
  BY MessageAssumption
<1>5. s \in FirstFree..(MaxId + 1)
  BY <1>0, <1>4
<1>6. \A k \in BalanceKeys : o[k] < Width
  BY <1>0, <1>2, KeyShape DEF Fits
<1>7. ASSUME NEW k \in Keys, k # Sequence, k[2] >= s PROVE o[k] = 0
  <2>1. k[2] \in Nat
    BY <1>7, KeyShape DEF Contracts
  <2>2. k \notin DOMAIN w
    BY <1>4, <1>5, <1>7, <2>1 DEF Fits
  <2>3. k[2] >= v[Sequence]
    BY <1>0, <1>4, <1>7, <2>1
  <2> QED
    BY <1>0, <1>2, <1>7, <2>2, <2>3
<1>8. o \in Whole
  BY <1>2, <1>3, <1>5, <1>6, <1>7 DEF Whole
<1> QED
  BY <1>3, <1>8 DEF o

\* Each of the writes fits.
LEMMA NoWritesFit == \A s : Fits(NoWrites, s)
BY LayerShape DEF Fits, NoWrites

LEMMA StoreFits ==
  ASSUME NEW s, NEW c \in Contracts, c < s, NEW v \in Values
  PROVE  Fits(Store(c, v), s) /\ Sequence \notin DOMAIN Store(c, v)
<1>1. Store(c, v) \in Layer
  BY StoreTyped
<1>2. DOMAIN Store(c, v) \subseteq {Storage(c)}
  BY DEF Store, NoWrites
<1> QED
  BY <1>1, <1>2, KeyShape DEF Fits

LEMMA CreditFits ==
  ASSUME View \in Whole, NEW s, NEW to \in Contracts, to < s, NEW p \in Parcels,
         CanCredit(to, p)
  PROVE  Fits(Credit(to, p), s) /\ Sequence \notin DOMAIN Credit(to, p)
<1>1. Credit(to, p) \in Layer
  BY CreditTyped DEF Whole
<1>2. /\ DOMAIN Credit(to, p) = {Balance(to, t) : t \in Tokens}
      /\ \A k \in DOMAIN Credit(to, p) : Credit(to, p)[k] = View[k] + p[k[3]]
  BY DEF Credit
<1>3. ASSUME NEW k \in DOMAIN Credit(to, p)
      PROVE  k # Sequence /\ k[2] = to /\ Credit(to, p)[k] < Width
  <2>1. PICK t \in Tokens : k = Balance(to, t)
    BY <1>2
  <2>2. k[3] = t
    BY <2>1, KeyShape
  <2> QED
    BY <1>2, <2>1, <2>2, KeyShape DEF CanCredit
<1> QED
  BY <1>1, <1>3 DEF Fits

LEMMA DebitFits ==
  ASSUME View \in Whole, NEW s, NEW from \in Contracts, from < s, NEW p \in Parcels
  PROVE  Fits(Debit(from, p), s) /\ Sequence \notin DOMAIN Debit(from, p)
<1>1. Debit(from, p) \in Layer
  BY DebitTyped DEF Whole
<1>2. /\ DOMAIN Debit(from, p) = {Balance(from, t) : t \in Tokens}
      /\ \A k \in DOMAIN Debit(from, p) : Debit(from, p)[k] = Debited(from, k[3], p[k[3]])
  BY DEF Debit
<1>3. ASSUME NEW k \in DOMAIN Debit(from, p)
      PROVE  k # Sequence /\ k[2] = from /\ Debit(from, p)[k] < Width
  <2>1. PICK t \in Tokens : k = Balance(from, t)
    BY <1>2
  <2>2. k[3] = t /\ k[2] = from /\ k # Sequence
    BY <2>1, KeyShape
  <2>3. /\ View[Balance(from, t)] \in Nat /\ View[Balance(from, t)] < Width
        /\ p[t] \in Nat /\ Width \in Nat
    <3>1. Balance(from, t) \in Keys /\ Balance(from, t) \in BalanceKeys
      BY KeysOf DEF BalanceKeys
    <3>2. p[t] \in Nat /\ Width \in Nat
      BY MessageAssumption DEF Parcels
    <3> QED
      BY <3>1, <3>2 DEF Whole
  <2>4. Debited(from, t, p[t]) < Width
    BY <2>3 DEF Debited
  <2> QED
    BY <1>2, <2>2, <2>4
<1> QED
  BY <1>1, <1>3 DEF Fits

LEMMA TransferFits ==
  ASSUME View \in Whole, NEW s, NEW from \in Contracts, from < s,
         NEW to \in Contracts, to < s, NEW p \in Parcels
  PROVE  Fits(Transfer(p, from, to), s) /\ Sequence \notin DOMAIN Transfer(p, from, to)
<1> DEFINE D == {Balance(to, t) : t \in Tokens}
           f == [k \in D |->
                  (p[k[3]] + (IF from = to THEN Debited(from, k[3], p[k[3]])
                                           ELSE View[k])) % Width]
<1>1. D \in SUBSET Keys
  BY KeysOf
<1>2. ASSUME NEW k \in D PROVE f[k] \in Nat /\ f[k] < Width /\ k # Sequence /\ k[2] = to
  <2>1. PICK t \in Tokens : k = Balance(to, t)
    OBVIOUS
  <2>2. k[3] = t /\ View[k] \in Nat /\ k # Sequence /\ k[2] = to
    BY <2>1, KeysOf, KeyShape DEF Whole
  <2>3. p[t] \in Nat /\ Debited(from, t, p[t]) \in Nat
    BY DebitTyped DEF Whole
  <2>4. \A n \in Nat : n % Width \in Nat /\ n % Width < Width
    BY MessageAssumption
  <2> QED
    BY <2>2, <2>3, <2>4
<1>3. f \in [D -> Nat] /\ DOMAIN f = D
  BY <1>2
<1>4. f \in Layer
  BY <1>1, <1>3, InLayer
<1>5. Fits(f, s) /\ Sequence \notin DOMAIN f
  BY <1>2, <1>3, <1>4 DEF Fits
<1>6. Transfer(p, from, to) = Over(f, Debit(from, p))
  BY DEF Transfer
<1>7. DOMAIN Transfer(p, from, to) = DOMAIN f \cup DOMAIN Debit(from, p)
  BY <1>6 DEF Over
<1> QED
  BY <1>5, <1>6, <1>7, DebitFits, OverFits

\* The next number after a message or a call to the target.
After(c) == IF c = Create THEN View[Sequence] + 1 ELSE View[Sequence]

LEMMA SpecialFits ==
  ASSUME View \in Whole, NEW c \in Targets, Exists(c)
  PROVE  /\ Fits(Special(c), After(c))
         /\ Sequence \notin DOMAIN Special(c) => After(c) = View[Sequence]
         /\ After(c) \in View[Sequence]..(MaxId + 1) /\ After(c) \in Nat
         /\ Resolved(c) \in Contracts /\ Resolved(c) < After(c)
         /\ Resolved(c) \in Called \cup FirstFree..MaxId
<1>0. /\ View[Sequence] \in Nat /\ MaxId \in Nat /\ FirstFree \in Nat
      /\ View[Sequence] <= MaxId + 1 /\ View[Sequence] >= FirstFree
  BY MessageAssumption DEF Whole
<1>1. Special(c) \in Layer /\ Resolved(c) \in Contracts
  BY SpecialTyped DEF Whole
<1>2. CASE c = Create
  <2>1. DOMAIN Special(c) = {Sequence, Binary(View[Sequence])}
    BY <1>2 DEF Special
  <2>2. Special(c)[Sequence] = View[Sequence] + 1
    BY <1>2 DEF Special
  <2>3. /\ View[Sequence] <= MaxId /\ Resolved(c) = View[Sequence]
        /\ After(c) = View[Sequence] + 1
    BY <1>2 DEF Exists, Resolved, After
  <2>4. Fits(Special(c), After(c))
    BY <1>0, <1>1, <2>1, <2>2, <2>3, KeyShape DEF Fits
  <2> QED
    BY <1>0, <1>1, <2>1, <2>3, <2>4
<1>3. CASE c # Create
  <2>1. /\ Special(c) = NoWrites /\ Resolved(c) = c /\ c < View[Sequence]
        /\ After(c) = View[Sequence] /\ c \in Called
    BY <1>3 DEF Special, Resolved, Exists, After, Targets
  <2> QED
    BY <1>0, <1>1, <2>1, NoWritesFit
<1> QED
  BY <1>2, <1>3

LEMMA FitsAbove ==
  ASSUME NEW w, NEW s \in Nat, NEW r \in Nat, s <= r, Fits(w, s), Sequence \notin DOMAIN w
  PROVE  Fits(w, r)
<1>1. \A k \in DOMAIN w : k # Sequence => k[2] < r
  <2> SUFFICES ASSUME NEW k \in DOMAIN w, k # Sequence PROVE k[2] < r
    OBVIOUS
  <2>1. k[2] \in Nat
    BY LayerShape, KeyShape DEF Fits, Contracts
  <2>2. k[2] < s
    BY DEF Fits
  <2> QED
    BY <2>1, <2>2
<1> QED
  BY <1>1 DEF Fits

-----------------------------------------------------------------------------
(* The invariant of what is seen. *)

\* The contracts that can run.
Runners == Called \cup (FirstFree..MaxId)

\* Every contract on the stack has its number, at its own level and above.
FramesBorn ==
  \A j \in 1..Len(frames) :
    /\ frames[j].myself \in Runners
    /\ frames[j].myself < View[Sequence]
    /\ \A i \in (j + 2)..Count : frames[j].myself < Began(i)[Sequence]

\* What is sent is part of the sheet, and there is a sheet only in a transaction.
SheetsCover ==
  /\ incoming \in Parcels
  /\ inputs \in [Tokens -> Nat] /\ sheet \in [Tokens -> Nat]
  /\ outside \in [Tokens -> Nat] /\ spent \in [Tokens -> Nat]
  /\ Within(incoming, sheet)
  /\ frames = <<>> => incoming = NoAlkanes
  /\ Count = 0 => inputs = NoAlkanes /\ sheet = NoAlkanes

ViewInv == IInv /\ AllIn(Whole) /\ FramesBorn /\ SheetsCover

LEMMA ParcelShape ==
  /\ NoAlkanes \in Parcels
  /\ \A p \in Parcels : p \in [Tokens -> Nat]
  /\ \A p \in Parcels, q \in [Tokens -> Nat] : Within(p, q) => Minus(q, p) \in [Tokens -> Nat]
  /\ \A p, q \in [Tokens -> Nat] : Plus(p, q) \in [Tokens -> Nat]
  /\ \A q \in [Tokens -> Nat] : Within(NoAlkanes, q)
<1>1. \A p \in Parcels : p \in [Tokens -> Nat]
  BY MessageAssumption DEF Parcels
<1>2. \A p \in Parcels, q \in [Tokens -> Nat] : Within(p, q) => Minus(q, p) \in [Tokens -> Nat]
  <2> SUFFICES ASSUME NEW p \in Parcels, NEW q \in [Tokens -> Nat], Within(p, q),
                      NEW t \in Tokens
               PROVE  q[t] - p[t] \in Nat
    BY DEF Minus
  <2>1. p[t] \in Nat /\ q[t] \in Nat /\ p[t] <= q[t]
    BY <1>1 DEF Within
  <2> QED
    BY <2>1
<1>3. \A p, q \in [Tokens -> Nat] : Plus(p, q) \in [Tokens -> Nat]
  BY DEF Plus
<1> QED
  BY <1>1, <1>2, <1>3, MessageAssumption DEF Parcels, NoAlkanes, Within

LEMMA InitViews == Init => ViewInv
<1> SUFFICES ASSUME Init PROVE ViewInv
  OBVIOUS
<1>1. IInv /\ layers = <<>> /\ frames = <<>> /\ Count = 0 /\ Len(frames) = 0
  BY InitInv DEF Init, Count
<1>2. View = cells
  <2>1. \A k \in Keys : Seen(cells, layers, 0, k) = cells[k]
    BY SeenBottom
  <2>2. cells \in [Keys -> Nat] /\ Len(layers) = 0
    BY <1>1 DEF IInv, Typed
  <2> QED
    BY <2>1, <2>2 DEF View, ViewAt
<1>3. cells \in Whole
  <2>0. /\ MaxId \in Nat /\ FirstFree \in Nat /\ FirstFree <= MaxId + 1 /\ Width \in Nat \ {0}
    BY MessageAssumption
  <2>1. cells \in [Keys -> Nat] /\ cells[Sequence] = FirstFree
    BY <1>1, KeysOf DEF Init, IInv, Typed
  <2>2. \A k \in BalanceKeys : cells[k] = 0
    BY KeyShape DEF Init, BalanceKeys
  <2>3. ASSUME NEW k \in Keys, k # Sequence, k[2] >= FirstFree PROVE cells[k] = 0
    <3>1. k \notin {Binary(c) : c \in 0..(FirstFree - 1)}
      BY <2>0, <2>3, KeyShape
    <3> QED
      BY <2>3, <3>1 DEF Init
  <2>4. \A k \in BalanceKeys : cells[k] < Width
    BY <2>0, <2>2
  <2>5. cells[Sequence] \in FirstFree..(MaxId + 1)
    BY <2>0, <2>1
  <2> QED
    BY <2>1, <2>3, <2>4, <2>5 DEF Whole
<1>4. AllIn(Whole)
  BY <1>1, <1>2, <1>3 DEF AllIn
<1>5. FramesBorn
  BY <1>1 DEF FramesBorn
<1>6. SheetsCover
  BY MessageAssumption, ParcelShape DEF Init, SheetsCover
<1> QED
  BY <1>1, <1>4, <1>5, <1>6 DEF ViewInv

\* The next number at a level, and what the contract on top is.
LEMMA NextNumber ==
  ASSUME ViewInv
  PROVE  /\ View \in Whole /\ View[Sequence] \in Nat /\ View[Sequence] \in FirstFree..(MaxId + 1)
         /\ MaxId \in Nat /\ FirstFree \in Nat
         /\ \A c \in Runners : c \in Contracts /\ c \in Nat
<1>1. /\ MaxId \in Nat /\ FirstFree \in Nat /\ Called \subseteq Contracts
  BY MessageAssumption
<1>2. View \in Whole
  BY DEF ViewInv, AllIn
<1>3. \A c \in Runners : c \in Contracts /\ c \in Nat
  BY <1>1 DEF Runners, Contracts
<1>4. View[Sequence] \in FirstFree..(MaxId + 1)
  BY <1>2 DEF Whole
<1> QED
  BY <1>1, <1>2, <1>3, <1>4

LEMMA TopRuns ==
  ASSUME ViewInv, frames # <<>>
  PROVE  /\ Top.myself \in Runners /\ Top.myself \in Contracts /\ Top.myself \in Nat
         /\ Top.myself < View[Sequence]
         /\ Len(frames) > 1 => /\ Caller.myself \in Runners /\ Caller.myself \in Contracts
                               /\ Caller.myself < View[Sequence]
<1>1. frames \in Seq(FrameSet) /\ Len(frames) \in Nat /\ Len(frames) > 0
  BY Running DEF ViewInv, IInv
<1>2. \A j \in 1..Len(frames) : frames[j].myself \in Runners /\ frames[j].myself < View[Sequence]
  BY DEF ViewInv, FramesBorn
<1>3. Len(frames) \in 1..Len(frames)
  BY <1>1
<1>4. Len(frames) > 1 => Len(frames) - 1 \in 1..Len(frames)
  BY <1>1
<1> QED
  BY <1>2, <1>3, <1>4, NextNumber DEF Top, Caller

\* A frame of a call or message that begins.
LEMMA BornPushed ==
  ASSUME ViewInv, NEW n \in Nat, n > 0, Len(frames) = n - 1, Len(frames') = n, Pushes(n),
         \A j \in 1..(n - 1) : frames'[j] = frames[j],
         frames'[n].myself \in Runners, frames'[n].myself < View'[Sequence],
         View'[Sequence] \in Nat, View[Sequence] <= View'[Sequence]
  PROVE  FramesBorn'
<1> SUFFICES ASSUME NEW j \in 1..n
             PROVE  /\ frames'[j].myself \in Runners
                    /\ frames'[j].myself < View'[Sequence]
                    /\ \A i \in (j + 2)..(n + 1) : frames'[j].myself < Began(i)'[Sequence]
  BY DEF FramesBorn, Pushes
<1>1. CASE j = n
  BY <1>1
<1>2. CASE j # n
  <2>1. j \in 1..(n - 1) /\ frames'[j] = frames[j]
    BY <1>2
  <2>2. frames[j].myself \in Runners /\ frames[j].myself < View[Sequence]
    BY <2>1 DEF ViewInv, FramesBorn
  <2>3. frames[j].myself \in Nat /\ View[Sequence] \in Nat
    BY <2>2, NextNumber
  <2>4. ASSUME NEW i \in (j + 2)..(n + 1) PROVE frames[j].myself < Began(i)'[Sequence]
    <3>1. CASE i = n + 1
      BY <2>2, <3>1 DEF Pushes
    <3>2. CASE i # n + 1
      <4>1. i \in 1..n /\ i \in (j + 2)..n
        BY <3>2
      <4>2. frames[j].myself < Began(i)[Sequence]
        BY <2>1, <4>1 DEF ViewInv, FramesBorn, Pushes
      <4> QED
        BY <4>1, <4>2 DEF Pushes
    <3> QED
      BY <3>1, <3>2
  <2> QED
    BY <2>1, <2>2, <2>3, <2>4
<1> QED
  BY <1>1, <1>2

\* The frame on top goes, and its caller may be marked.
LEMMA BornPopped ==
  ASSUME ViewInv, NEW n \in Nat, n > 0, Len(frames) = n, Len(frames') = n - 1, Pops(n),
         \A j \in 1..(n - 1) : frames'[j].myself = frames[j].myself,
         View'[Sequence] = View[Sequence] \/ View' = Began(n + 1)
  PROVE  FramesBorn'
<1> SUFFICES ASSUME NEW j \in 1..(n - 1)
             PROVE  /\ frames[j].myself \in Runners
                    /\ frames[j].myself < View'[Sequence]
                    /\ \A i \in (j + 2)..n : frames[j].myself < Began(i)'[Sequence]
  BY DEF FramesBorn, Pops
<1>1. /\ frames[j].myself \in Runners /\ frames[j].myself < View[Sequence]
      /\ \A i \in (j + 2)..(n + 1) : frames[j].myself < Began(i)[Sequence]
  BY DEF ViewInv, FramesBorn, Pops
<1>2. n + 1 \in (j + 2)..(n + 1)
  OBVIOUS
<1>3. frames[j].myself < View'[Sequence]
  BY <1>1, <1>2
<1>4. ASSUME NEW i \in (j + 2)..n PROVE frames[j].myself < Began(i)'[Sequence]
  <2>1. i \in (j + 2)..(n + 1) /\ i \in 1..n
    OBVIOUS
  <2> QED
    BY <1>1, <2>1 DEF Pops
<1> QED
  BY <1>1, <1>3, <1>4

-----------------------------------------------------------------------------
(* Every step keeps it. *)

\* What a message, a call and a return write leaves what is seen whole.
LEMMA MessageIsWhole ==
  ASSUME ViewInv, NEW c \in Targets, NEW p \in Parcels, Exists(c), CanCredit(Resolved(c), p)
  PROVE  /\ Over(MessageWrites(c, p), View) \in Whole
         /\ Over(MessageWrites(c, p), View)[Sequence] = After(c)
         /\ Resolved(c) \in Runners /\ Resolved(c) < After(c)
         /\ After(c) \in Nat /\ View[Sequence] <= After(c)
<1>1. /\ View \in Whole /\ View[Sequence] \in Nat /\ MaxId \in Nat
  BY NextNumber
<1>2. /\ Fits(Special(c), After(c))
      /\ Sequence \notin DOMAIN Special(c) => After(c) = View[Sequence]
      /\ After(c) \in View[Sequence]..(MaxId + 1) /\ After(c) \in Nat
      /\ Resolved(c) \in Contracts /\ Resolved(c) < After(c)
      /\ Resolved(c) \in Runners
  BY <1>1, SpecialFits DEF Runners
<1>3. Fits(Credit(Resolved(c), p), After(c))
  BY <1>1, <1>2, CreditFits
<1>4. Fits(MessageWrites(c, p), After(c))
  BY <1>2, <1>3, OverFits DEF MessageWrites
<1>5. Sequence \notin DOMAIN MessageWrites(c, p) => Sequence \notin DOMAIN Special(c)
  BY DEF MessageWrites, Over
<1>6. /\ Over(MessageWrites(c, p), View) \in Whole
      /\ Over(MessageWrites(c, p), View)[Sequence] = After(c)
  BY <1>1, <1>2, <1>4, <1>5, OverIsWhole
<1>7. View[Sequence] <= After(c)
  BY <1>1, <1>2
<1> QED
  BY <1>2, <1>6, <1>7

LEMMA CallIsWhole ==
  ASSUME ViewInv, NEW kind \in Kinds, NEW c \in Targets, NEW v \in Values, NEW p \in Parcels,
         frames # <<>>, Exists(c)
  PROVE  /\ Over(CallWrites(kind, c, v, p), View) \in Whole
         /\ Over(CallWrites(kind, c, v, p), View)[Sequence] = After(c)
         /\ Myself(kind, c) \in Runners /\ Myself(kind, c) < After(c)
         /\ After(c) \in Nat /\ View[Sequence] <= After(c)
<1> DEFINE T == IF kind = "delegate" THEN NoWrites ELSE Transfer(p, Top.myself, Resolved(c))
           S == Store(Top.myself, v)
<1>1. /\ View \in Whole /\ View[Sequence] \in Nat /\ MaxId \in Nat
  BY NextNumber
<1>2. /\ Fits(Special(c), After(c))
      /\ Sequence \notin DOMAIN Special(c) => After(c) = View[Sequence]
      /\ After(c) \in View[Sequence]..(MaxId + 1) /\ After(c) \in Nat
      /\ Resolved(c) \in Contracts /\ Resolved(c) < After(c)
      /\ Resolved(c) \in Runners
  BY <1>1, SpecialFits DEF Runners
<1>3. /\ Top.myself \in Runners /\ Top.myself \in Contracts /\ Top.myself \in Nat
      /\ Top.myself < View[Sequence] /\ View[Sequence] <= After(c)
  BY <1>1, <1>2, TopRuns
<1>4. Top.myself < After(c)
  BY <1>1, <1>2, <1>3
<1>5. Fits(S, After(c))
  BY <1>3, <1>4, StoreFits
<1>6. Fits(T, After(c))
  BY <1>1, <1>2, <1>3, <1>4, TransferFits, NoWritesFit
<1>7. CallWrites(kind, c, v, p) = Over(T, Over(Special(c), S))
  BY DEF CallWrites
<1> HIDE DEF T, S
<1>8. Fits(CallWrites(kind, c, v, p), After(c))
  BY <1>2, <1>5, <1>6, <1>7, OverFits
<1>9. Sequence \notin DOMAIN CallWrites(kind, c, v, p) => Sequence \notin DOMAIN Special(c)
  BY <1>7 DEF Over
<1>10. /\ Over(CallWrites(kind, c, v, p), View) \in Whole
       /\ Over(CallWrites(kind, c, v, p), View)[Sequence] = After(c)
  BY <1>1, <1>2, <1>8, <1>9, OverIsWhole
<1>11. Myself(kind, c) \in Runners /\ Myself(kind, c) < After(c)
  BY <1>2, <1>3, <1>4 DEF Myself
<1> QED
  BY <1>2, <1>3, <1>10, <1>11

LEMMA ReturnIsWhole ==
  ASSUME ViewInv, frames # <<>>, NEW v \in Values, NEW p \in Parcels
  PROVE  /\ Over(ReturnWrites(v, p), View) \in Whole
         /\ Over(ReturnWrites(v, p), View)[Sequence] = View[Sequence]
<1> DEFINE s == View[Sequence]
           w == ReturnWrites(v, p)
<1>1. /\ View \in Whole /\ s \in Nat /\ MaxId \in Nat /\ s \in s..(MaxId + 1)
  BY NextNumber
<1>2. Top.myself \in Contracts /\ Top.myself < s
  BY TopRuns
<1> HIDE DEF s
<1>3. Fits(Debit(Top.myself, p), s) /\ Fits(Store(Top.myself, v), s)
  BY <1>1, <1>2, DebitFits, StoreFits
<1>4. Fits(w, s)
  BY <1>3, OverFits DEF ReturnWrites
<1>5. Over(w, View) \in Whole /\ Over(w, View)[Sequence] = s
  <2>1. Sequence \notin DOMAIN w => s = View[Sequence]
    BY DEF s
  <2>2. s \in View[Sequence]..(MaxId + 1)
    BY <1>1 DEF s
  <2> HIDE DEF w
  <2> QED
    BY <1>1, <1>4, <2>1, <2>2, OverIsWhole
<1> QED
  BY <1>5 DEF s

LEMMA SaveIsWhole ==
  ASSUME ViewInv, frames # <<>>, Len(frames) > 1, NEW v \in Values, NEW p \in Parcels
  PROVE  /\ Over(SaveWrites(v, p), View) \in Whole
         /\ Over(SaveWrites(v, p), View)[Sequence] = View[Sequence]
<1> DEFINE s == View[Sequence]
           w == SaveWrites(v, p)
           T == IF Top.kind = "delegate" THEN NoWrites
                ELSE Transfer(p, Top.myself, Caller.myself)
<1>1. /\ View \in Whole /\ s \in Nat /\ MaxId \in Nat /\ s \in s..(MaxId + 1)
  BY NextNumber
<1>2. /\ Top.myself \in Contracts /\ Top.myself < s
      /\ Caller.myself \in Contracts /\ Caller.myself < s
  BY TopRuns
<1> HIDE DEF s
<1>3. Fits(T, s) /\ Fits(Store(Top.myself, v), s)
  BY <1>1, <1>2, TransferFits, StoreFits, NoWritesFit
<1>4. w = Over(T, Store(Top.myself, v))
  BY DEF SaveWrites
<1> HIDE DEF T, w
<1>5. Fits(w, s)
  BY <1>3, <1>4, OverFits
<1>6. Over(w, View) \in Whole /\ Over(w, View)[Sequence] = s
  <2>1. Sequence \notin DOMAIN w => s = View[Sequence]
    BY DEF s
  <2>2. s \in View[Sequence]..(MaxId + 1)
    BY <1>1 DEF s
  <2> QED
    BY <1>1, <1>5, <2>1, <2>2, OverIsWhole
<1> QED
  BY <1>6 DEF s, w

\* The sheets, by action.
LEMMA StepSheets ==
  ASSUME ViewInv, IInv', Next
  PROVE  SheetsCover'
<1>0. /\ incoming \in Parcels /\ incoming \in [Tokens -> Nat] /\ NoAlkanes \in Parcels
      /\ inputs \in [Tokens -> Nat] /\ sheet \in [Tokens -> Nat]
      /\ outside \in [Tokens -> Nat] /\ spent \in [Tokens -> Nat]
      /\ NoAlkanes \in [Tokens -> Nat]
      /\ Within(incoming, sheet) /\ IInv
      /\ frames = <<>> => incoming = NoAlkanes
      /\ Count = 0 => inputs = NoAlkanes /\ sheet = NoAlkanes
  BY ParcelShape DEF ViewInv, SheetsCover
<1>1. ASSUME NEW p \in Parcels, BeginTransaction(p) PROVE SheetsCover'
  <2>1. /\ frames = <<>> /\ frames' = <<>> /\ Count' = 0 + 1
    BY <1>0, <1>1, BeginTransactionViews DEF Pushes
  <2>2. /\ Within(p, outside) /\ inputs' = p /\ sheet' = p /\ outside' = Minus(outside, p)
        /\ incoming' = incoming /\ spent' = spent
    BY <1>1 DEF BeginTransaction
  <2>3. p \in [Tokens -> Nat] /\ outside' \in [Tokens -> Nat]
    BY <1>0, <2>2, ParcelShape
  <2>4. Within(incoming', sheet')
    BY <1>0, <2>1, <2>2, <2>3, ParcelShape
  <2> QED
    BY <1>0, <2>1, <2>2, <2>3, <2>4 DEF SheetsCover
<1>2. ASSUME NEW c \in Targets, NEW p \in Parcels, StartMessage(c, p) PROVE SheetsCover'
  <2>1. /\ frames' = <<Frame("message", Resolved(c))>> /\ Count' = 1 + 1
    BY <1>0, <1>2, StartMessageViews DEF Pushes
  <2>2. Within(p, sheet) /\ incoming' = p /\ UNCHANGED sheets
    BY <1>2 DEF StartMessage
  <2>3. frames' # <<>>
    BY <2>1
  <2> QED
    BY <1>0, <2>1, <2>2, <2>3 DEF SheetsCover, sheets, Within
<1>3. ASSUME NEW v \in Values, NEW p \in Parcels, MessageReturns(v, p) PROVE SheetsCover'
  <2>1. Count' = 1
    BY <1>0, <1>3, MessageReturnsViews DEF Pops
  <2>2. /\ sheet' = Plus(Minus(sheet, incoming), p) /\ incoming' = NoAlkanes
        /\ UNCHANGED <<inputs, outside, spent>>
    BY <1>3 DEF MessageReturns
  <2>3. sheet' \in [Tokens -> Nat]
    BY <1>0, <2>2, ParcelShape
  <2>4. Within(incoming', sheet')
    BY <2>2, <2>3, ParcelShape
  <2> QED
    BY <1>0, <2>1, <2>2, <2>3, <2>4 DEF SheetsCover
<1>4. ASSUME MessageReverts PROVE SheetsCover'
  <2>1. Count' = 1
    BY <1>0, <1>4, MessageRevertsViews DEF Pops
  <2>2. incoming' = NoAlkanes /\ UNCHANGED sheets
    BY <1>4 DEF MessageReverts
  <2>3. Within(incoming', sheet')
    BY <1>0, <2>2, ParcelShape DEF sheets
  <2> QED
    BY <1>0, <2>1, <2>2, <2>3 DEF SheetsCover, sheets
<1>5. ASSUME CommitTransaction PROVE SheetsCover'
  <2>1. /\ outside' = Plus(outside, sheet) /\ sheet' = NoAlkanes /\ inputs' = NoAlkanes
        /\ incoming' = incoming /\ spent' = spent /\ frames = <<>>
    BY <1>5 DEF CommitTransaction, Between
  <2>2. outside' \in [Tokens -> Nat]
    BY <1>0, <2>1, ParcelShape
  <2>3. Within(incoming', sheet')
    BY <1>0, <2>1, ParcelShape
  <2> QED
    BY <1>0, <2>1, <2>2, <2>3 DEF SheetsCover
<1>6. ASSUME RollbackTransaction PROVE SheetsCover'
  <2>1. /\ spent' = Plus(spent, inputs) /\ sheet' = NoAlkanes /\ inputs' = NoAlkanes
        /\ incoming' = incoming /\ outside' = outside /\ frames = <<>>
    BY <1>6 DEF RollbackTransaction, Between
  <2>2. spent' \in [Tokens -> Nat]
    BY <1>0, <2>1, ParcelShape
  <2>3. Within(incoming', sheet')
    BY <1>0, <2>1, ParcelShape
  <2> QED
    BY <1>0, <2>1, <2>2, <2>3 DEF SheetsCover
<1>7. ASSUME UNCHANGED <<incoming, sheets>>, frames' # <<>>, Count' # 0 PROVE SheetsCover'
  BY <1>0, <1>7 DEF SheetsCover, sheets, Within
<1>8. ASSUME NEW kind \in Kinds, NEW c \in Targets, NEW v \in Values, NEW p \in Parcels,
             CallContract(kind, c, v, p)
      PROVE  SheetsCover'
  <2>1. frames \in Seq(FrameSet) /\ Len(frames) + 1 \in Nat
    BY <1>0 DEF IInv, Typed
  <2>2. ASSUME NEW m \in Nat, m = Len(frames) + 1
        PROVE  frames' # <<>> /\ Count' # 0
    <3>1. Len(frames') = m /\ m > 1 /\ Count' = m + 1
      BY <1>0, <1>8, <2>2, CallContractViews DEF Pushes
    <3> QED
      BY <3>1
  <2>3. UNCHANGED <<incoming, sheets>>
    BY <1>8 DEF CallContract
  <2> QED
    BY <1>7, <2>1, <2>2, <2>3
<1>9. ASSUME CallRefused PROVE SheetsCover'
  <2>1. frames \in Seq(FrameSet) /\ Len(frames) \in Nat
    BY <1>0 DEF IInv, Typed
  <2>2. frames # <<>> /\ frames' # <<>> /\ Count' = Count
    BY <1>0, <1>9, <2>1, CallRefusedViews DEF Rests
  <2>3. Count # 0
    BY <1>0, <2>1, <2>2, Counts
  <2>4. UNCHANGED <<incoming, sheets>>
    BY <1>9 DEF CallRefused
  <2> QED
    BY <1>7, <2>2, <2>3, <2>4
<1>10. ASSUME NEW v \in Values, NEW p \in Parcels, CallReturns(v, p) PROVE SheetsCover'
  <2>1. frames \in Seq(FrameSet) /\ Len(frames) \in Nat
    BY <1>0 DEF IInv, Typed
  <2>2. ASSUME NEW m \in Nat, m = Len(frames)
        PROVE  frames' # <<>> /\ Count' # 0
    <3>1. frames' # <<>> /\ m > 1 /\ Count' = m
      BY <1>0, <1>10, <2>2, CallReturnsViews DEF Pops
    <3> QED
      BY <3>1
  <2>3. UNCHANGED <<incoming, sheets>>
    BY <1>10 DEF CallReturns
  <2> QED
    BY <1>7, <2>1, <2>2, <2>3
<1>11. ASSUME CallReverts PROVE SheetsCover'
  <2>1. frames \in Seq(FrameSet) /\ Len(frames) \in Nat
    BY <1>0 DEF IInv, Typed
  <2>2. ASSUME NEW m \in Nat, m = Len(frames)
        PROVE  frames' # <<>> /\ Count' # 0
    <3>1. frames' # <<>> /\ m > 1 /\ Count' = m
      BY <1>0, <1>11, <2>2, CallRevertsViews DEF Pops
    <3> QED
      BY <3>1
  <2>3. UNCHANGED <<incoming, sheets>>
    BY <1>11 DEF CallReverts
  <2> QED
    BY <1>7, <2>1, <2>2, <2>3
<1> QED
  BY <1>1, <1>2, <1>3, <1>4, <1>5, <1>6, <1>8, <1>9, <1>10, <1>11 DEF Next

-----------------------------------------------------------------------------
(* The types, and what a number not yet handed out holds. *)

LEMMA StepViews ==
  ASSUME ViewInv, Next
  PROVE  ViewInv'
<1>0. /\ IInv /\ AllIn(Whole) /\ FramesBorn /\ SheetsCover
      /\ frames \in Seq(FrameSet) /\ Len(frames) \in Nat
      /\ View \in Whole /\ View[Sequence] \in Nat
  BY NextNumber DEF ViewInv, IInv, Typed
<1>s. IInv' => SheetsCover'
  BY StepSheets
<1>1. ASSUME NEW p \in Parcels, BeginTransaction(p) PROVE ViewInv'
  <2>1. IInv' /\ frames' = <<>> /\ View' = View /\ Pushes(0)
    BY <1>0, <1>1, BeginTransactionViews
  <2>2. AllIn(Whole)'
    BY <1>0, <2>1, AllInPushes
  <2>3. FramesBorn'
    BY <2>1 DEF FramesBorn
  <2> QED
    BY <1>s, <2>1, <2>2, <2>3 DEF ViewInv
<1>2. ASSUME NEW c \in Targets, NEW p \in Parcels, StartMessage(c, p) PROVE ViewInv'
  <2> DEFINE f == Frame("message", Resolved(c))
  <2>1. /\ IInv' /\ frames = <<>> /\ frames' = <<f>>
        /\ View' = Over(MessageWrites(c, p), View) /\ Pushes(1)
    BY <1>0, <1>2, StartMessageViews
  <2>2. /\ View' \in Whole /\ View'[Sequence] = After(c)
        /\ Resolved(c) \in Runners /\ Resolved(c) < After(c)
        /\ After(c) \in Nat /\ View[Sequence] <= After(c)
    BY <1>2, <2>1, MessageIsWhole DEF StartMessage
  <2>3. AllIn(Whole)'
    BY <1>0, <2>1, <2>2, AllInPushes
  <2>4. Len(frames) = 1 - 1 /\ Len(frames') = 1 /\ frames'[1].myself = Resolved(c)
    BY <2>1 DEF Frame
  <2>5. FramesBorn'
    BY <2>1, <2>2, <2>4, BornPushed
  <2> QED
    BY <1>s, <2>1, <2>3, <2>5 DEF ViewInv
<1>3. ASSUME NEW v \in Values, NEW p \in Parcels, MessageReturns(v, p) PROVE ViewInv'
  <2>1. /\ IInv' /\ Len(frames) = 1 /\ frames' = <<>> /\ frames # <<>>
        /\ View' = Over(ReturnWrites(v, p), View) /\ Pops(1)
    BY <1>0, <1>3, MessageReturnsViews
  <2>2. Over(ReturnWrites(v, p), View) \in Whole
    <3>1. frames # <<>>
      BY <2>1
    <3> QED
      BY ONLY <3>1, ViewInv, v \in Values, p \in Parcels, ReturnIsWhole
  <2>3. AllIn(Whole)'
    BY <1>0, <2>1, <2>2, AllInPops
  <2>4. FramesBorn'
    BY <2>1 DEF FramesBorn
  <2> QED
    BY <1>s, <2>1, <2>3, <2>4 DEF ViewInv
<1>4. ASSUME MessageReverts PROVE ViewInv'
  <2>1. IInv' /\ frames' = <<>> /\ View' = Began(1 + 1) /\ Pops(1)
    BY <1>0, <1>4, MessageRevertsViews
  <2>2. AllIn(Whole)'
    BY <1>0, <2>1, AllInPops
  <2>3. FramesBorn'
    BY <2>1 DEF FramesBorn
  <2> QED
    BY <1>s, <2>1, <2>2, <2>3 DEF ViewInv
<1>5. ASSUME CommitTransaction PROVE ViewInv'
  <2>1. IInv' /\ frames' = <<>> /\ View' = View /\ Pops(0)
    BY <1>0, <1>5, CommitTransactionViews
  <2>2. AllIn(Whole)'
    BY <1>0, <2>1, AllInPops
  <2>3. FramesBorn'
    BY <2>1 DEF FramesBorn
  <2> QED
    BY <1>s, <2>1, <2>2, <2>3 DEF ViewInv
<1>6. ASSUME RollbackTransaction PROVE ViewInv'
  <2>1. IInv' /\ frames' = <<>> /\ View' = Began(0 + 1) /\ Pops(0)
    BY <1>0, <1>6, RollbackTransactionViews
  <2>2. AllIn(Whole)'
    BY <1>0, <2>1, AllInPops
  <2>3. FramesBorn'
    BY <2>1 DEF FramesBorn
  <2> QED
    BY <1>s, <2>1, <2>2, <2>3 DEF ViewInv
<1>7. ASSUME NEW kind \in Kinds, NEW c \in Targets, NEW v \in Values, NEW p \in Parcels,
             CallContract(kind, c, v, p), NEW m \in Nat, m = Len(frames) + 1
      PROVE  ViewInv'
  <2>1. /\ IInv' /\ m > 1 /\ frames # <<>>
        /\ Len(frames') = m /\ frames'[m] = Frame(kind, Myself(kind, c))
        /\ \A j \in 1..(m - 1) : frames'[j] = frames[j]
        /\ View' = Over(CallWrites(kind, c, v, p), View) /\ Pushes(m)
    BY <1>0, <1>7, CallContractViews
  <2>2. /\ View' \in Whole /\ View'[Sequence] = After(c)
        /\ Myself(kind, c) \in Runners /\ Myself(kind, c) < After(c)
        /\ After(c) \in Nat /\ View[Sequence] <= After(c)
    BY <1>7, <2>1, CallIsWhole DEF CallContract
  <2>3. AllIn(Whole)'
    BY <1>0, <2>1, <2>2, AllInPushes
  <2>4. Len(frames) = m - 1 /\ m > 0 /\ frames'[m].myself = Myself(kind, c)
    BY <1>0, <1>7, <2>1 DEF Frame
  <2>5. FramesBorn'
    BY <2>1, <2>2, <2>4, BornPushed
  <2> QED
    BY <1>s, <2>1, <2>3, <2>5 DEF ViewInv
<1>8. ASSUME CallRefused, NEW m \in Nat, m = Len(frames) PROVE ViewInv'
  <2>1. /\ IInv' /\ m > 0 /\ Len(frames') = m
        /\ \A j \in 1..(m - 1) : frames'[j] = frames[j]
        /\ frames'[m] = Abort(frames[m])
        /\ Rests
    BY <1>0, <1>8, CallRefusedViews
  <2>2. AllIn(Whole)'
    BY <1>0, <2>1, AllInRests
  <2>3. \A j \in 1..m : frames'[j].myself = frames[j].myself
    BY <2>1 DEF Abort
  <2>4. \A j \in 1..m : \A i \in (j + 2)..Count : i \in 1..Count
    BY <1>0, CountShape
  <2>5. FramesBorn'
    BY <1>0, <1>8, <2>1, <2>3, <2>4 DEF FramesBorn, Rests
  <2> QED
    BY <1>s, <2>1, <2>2, <2>5 DEF ViewInv
<1>9. ASSUME NEW v \in Values, NEW p \in Parcels, CallReturns(v, p),
             NEW m \in Nat, m = Len(frames)
      PROVE  ViewInv'
  <2>1. /\ IInv' /\ m > 1 /\ Len(frames') = m - 1
        /\ \A j \in 1..(m - 1) : frames'[j] = frames[j]
        /\ Pops(m)
        /\ View' = Began(m + 1) \/ View' = Over(SaveWrites(v, p), View)
    BY <1>0, <1>9, CallReturnsViews
  <2>2. /\ Over(SaveWrites(v, p), View) \in Whole
        /\ Over(SaveWrites(v, p), View)[Sequence] = View[Sequence]
    <3>1. frames # <<>> /\ Len(frames) > 1
      BY <1>9, <2>1
    <3> QED
      BY <3>1, SaveIsWhole
  <2>3. AllIn(Whole)'
    BY <1>0, <2>1, <2>2, AllInPops
  <2>4. View'[Sequence] = View[Sequence] \/ View' = Began(m + 1)
    BY <2>1, <2>2
  <2>5. FramesBorn'
    BY <1>9, <2>1, <2>4, BornPopped
  <2> QED
    BY <1>s, <2>1, <2>3, <2>5 DEF ViewInv
<1>10. ASSUME CallReverts, NEW m \in Nat, m = Len(frames) PROVE ViewInv'
  <2>1. /\ IInv' /\ m > 1 /\ Len(frames') = m - 1
        /\ \A j \in 1..(m - 2) : frames'[j] = frames[j]
        /\ \A j : j = m - 1 => frames'[j] = Abort(frames[j])
        /\ Pops(m) /\ View' = Began(m + 1)
    BY <1>0, <1>10, CallRevertsViews
  <2>2. AllIn(Whole)'
    BY <1>0, <2>1, AllInPops
  <2>3. ASSUME NEW j \in 1..(m - 1) PROVE frames'[j].myself = frames[j].myself
    <3>1. CASE j = m - 1
      <4>1. frames'[j] = Abort(frames[j])
        BY <2>1, <3>1
      <4> QED
        BY <4>1 DEF Abort
    <3>2. CASE j # m - 1
      <4>1. j \in 1..(m - 2)
        BY <3>2
      <4> QED
        BY <2>1, <4>1
    <3> QED
      BY <3>1, <3>2
  <2>4. FramesBorn'
    BY <1>10, <2>1, <2>3, BornPopped
  <2> QED
    BY <1>s, <2>1, <2>2, <2>4 DEF ViewInv
<1>11. Len(frames) + 1 \in Nat
  BY <1>0
<1>12. ASSUME NEW kind \in Kinds, NEW c \in Targets, NEW v \in Values, NEW p \in Parcels,
              CallContract(kind, c, v, p)
       PROVE  ViewInv'
  BY <1>7, <1>11, <1>12
<1>13. ASSUME CallRefused PROVE ViewInv'
  BY <1>0, <1>8, <1>13
<1>14. ASSUME NEW v \in Values, NEW p \in Parcels, CallReturns(v, p) PROVE ViewInv'
  BY <1>0, <1>9, <1>14
<1>15. ASSUME CallReverts PROVE ViewInv'
  BY <1>0, <1>10, <1>15
<1> HIDE DEF ViewInv
<1> QED
  BY <1>1, <1>2, <1>3, <1>4, <1>5, <1>6, <1>12, <1>13, <1>14, <1>15 DEF Next

LEMMA StutterViews ==
  ASSUME ViewInv, UNCHANGED vars
  PROVE  ViewInv'
<1>1. IInv'
  BY StutterInv DEF ViewInv
<1>2. AllIn(Whole)'
  BY AllInStutters DEF ViewInv
<1>3. /\ UNCHANGED <<cells, layers, frames, incoming, inputs, sheet, outside, spent>>
  BY DEF vars, sheets
<1>4. FramesBorn'
  BY <1>3 DEF ViewInv, FramesBorn, View, ViewAt, Began, Count
<1>5. SheetsCover'
  BY <1>3 DEF ViewInv, SheetsCover, Count
<1> QED
  BY <1>1, <1>2, <1>4, <1>5 DEF ViewInv

LEMMA ViewsAlways == Spec => []ViewInv
<1>1. ViewInv /\ [Next]_vars => ViewInv'
  BY StepViews, StutterViews
<1> QED
  BY <1>1, InitViews, PTL DEF Spec

\* Type correctness: no balance ever leaves its width, whatever is sent,
\* credited and undone (credit_balances checks, transfer_from wraps).
THEOREM TypeCorrect == Spec => []TypeOK
<1>1. ViewInv => TypeOK
  <2> SUFFICES ASSUME ViewInv PROVE TypeOK
    OBVIOUS
  <2>1. /\ cells \in [Keys -> Nat] /\ layers \in Seq(Layer) /\ frames \in Seq(FrameSet)
    BY DEF ViewInv, IInv, Typed
  <2>2. ASSUME NEW i \in DOMAIN layers
        PROVE  DOMAIN layers[i] \subseteq Keys /\ \A k \in DOMAIN layers[i] : layers[i][k] \in Nat
    <3>1. layers[i] \in Layer
      BY <2>1
    <3> QED
      BY <3>1, LayerShape
  <2>3. \A k \in BalanceKeys : View[k] < Width
    BY DEF ViewInv, AllIn, Whole
  <2>4. incoming \in Parcels /\ {inputs, sheet, outside, spent} \subseteq [Tokens -> Nat]
    BY DEF ViewInv, SheetsCover
  <2> QED
    BY <2>1, <2>2, <2>3, <2>4 DEF TypeOK, FrameSet
<1> QED
  BY <1>1, ViewsAlways, PTL

\* Under a number that a deployment has yet to take there is nothing, however
\* many deployments under it were undone (run_special_cellpacks).
THEOREM UnbornAlwaysClean == Spec => []UnbornClean
<1>1. ViewInv => UnbornClean
  <2> SUFFICES ASSUME ViewInv, NEW c \in Contracts, c >= View[Sequence],
                      NEW k \in Keys, k # Sequence, k[2] = c
               PROVE  View[k] = 0
    BY DEF UnbornClean
  <2>1. View \in Whole
    BY DEF ViewInv, AllIn
  <2> QED
    BY <2>1 DEF Whole
<1> QED
  BY <1>1, ViewsAlways, PTL

-----------------------------------------------------------------------------
(* What contracts hold of a token. *)

Column(v, t) == [c \in Contracts |-> v[Balance(c, t)]]
Purse(v, t) == Sum(Column(v, t))

\* The contract of the token is there from the beginning and is never
\* called; and there is no more of the token than a balance can count.
Foreign(t) == t \in Tokens \ Called /\ t < FirstFree /\ Supply[t] < Width

NoBalances(w) == \A k \in DOMAIN w : k \notin BalanceKeys

LEMMA PurseTyped ==
  ASSUME NEW v \in Whole, NEW t \in Tokens
  PROVE  /\ Column(v, t) \in [Contracts -> Nat] /\ Purse(v, t) \in Nat
         /\ \A c \in Contracts : v[Balance(c, t)] \in Nat /\ v[Balance(c, t)] < Width
<1>1. \A c \in Contracts : Balance(c, t) \in Keys /\ Balance(c, t) \in BalanceKeys
  BY KeysOf DEF BalanceKeys
<1>2. v \in [Keys -> Nat] /\ \A k \in BalanceKeys : v[k] < Width
  BY DEF Whole
<1>3. Column(v, t) \in [Contracts -> Nat]
  BY <1>1, <1>2 DEF Column
<1> QED
  BY <1>1, <1>2, <1>3, SumTyped DEF Purse

\* One contract's balance changes.
LEMMA PurseShifts ==
  ASSUME NEW v \in Whole, NEW w \in Whole, NEW t \in Tokens, NEW a \in Contracts,
         \A c \in Contracts : c # a => w[Balance(c, t)] = v[Balance(c, t)]
  PROVE  Purse(w, t) + v[Balance(a, t)] = Purse(v, t) + w[Balance(a, t)]
<1>1. Column(v, t) \in [Contracts -> Nat] /\ Column(w, t) \in [Contracts -> Nat]
  BY PurseTyped
<1>2. \A c \in Contracts : Column(v, t)[c] = v[Balance(c, t)] /\ Column(w, t)[c] = w[Balance(c, t)]
  BY DEF Column
<1>3. Sum(Column(w, t)) + Column(v, t)[a] = Sum(Column(v, t)) + Column(w, t)[a]
  BY <1>1, <1>2, SumShifts
<1> QED
  BY <1>2, <1>3 DEF Purse

\* Nobody's balance changes.
LEMMA PurseSame ==
  ASSUME NEW v, NEW w, NEW t \in Tokens,
         \A c \in Contracts : w[Balance(c, t)] = v[Balance(c, t)]
  PROVE  Purse(w, t) = Purse(v, t)
BY DEF Purse, Column

\* One contract's balance goes to another.
LEMMA PurseMoves ==
  ASSUME NEW v \in Whole, NEW w \in Whole, NEW t \in Tokens,
         NEW a \in Contracts, NEW b \in Contracts, a # b, NEW n \in Nat,
         w[Balance(a, t)] + n = v[Balance(a, t)],
         w[Balance(b, t)] = v[Balance(b, t)] + n,
         \A c \in Contracts : c # a /\ c # b => w[Balance(c, t)] = v[Balance(c, t)]
  PROVE  Purse(w, t) = Purse(v, t)
<1> DEFINE f == Column(v, t)
           h == Column(w, t)
           g == [c \in Contracts |-> IF c = a THEN h[c] ELSE f[c]]
<1>1. f \in [Contracts -> Nat] /\ h \in [Contracts -> Nat]
  BY PurseTyped
<1>2. \A c \in Contracts : f[c] = v[Balance(c, t)] /\ h[c] = w[Balance(c, t)]
  BY DEF Column
<1> HIDE DEF f, h
<1>3. /\ g \in [Contracts -> Nat] /\ g[a] = h[a] /\ g[b] = f[b]
      /\ \A c \in Contracts : c # a => g[c] = f[c]
      /\ \A c \in Contracts : c # b => h[c] = g[c]
  BY <1>1, <1>2
<1> HIDE DEF g
<1>4. Sum(g) + f[a] = Sum(f) + g[a]
  BY <1>1, <1>3, SumShifts
<1>5. Sum(h) + g[b] = Sum(g) + h[b]
  BY <1>1, <1>3, SumShifts
<1>6. Sum(f) \in Nat /\ Sum(g) \in Nat /\ Sum(h) \in Nat /\ f[a] \in Nat /\ f[b] \in Nat
      /\ h[a] \in Nat /\ h[b] \in Nat
  BY <1>1, <1>3, SumTyped
<1>7. h[a] + n = f[a] /\ h[b] = f[b] + n
  BY <1>2
<1>8. Sum(h) = Sum(f)
  BY <1>3, <1>4, <1>5, <1>6, <1>7
<1> QED
  BY <1>8 DEF Purse, f, h

\* What two contracts hold is no more than what all hold.
LEMMA PurseCovers ==
  ASSUME NEW v \in Whole, NEW t \in Tokens, NEW a \in Contracts, NEW b \in Contracts, a # b
  PROVE  v[Balance(a, t)] + v[Balance(b, t)] <= Purse(v, t)
<1>1. Column(v, t) \in [Contracts -> Nat]
  BY PurseTyped
<1>2. Column(v, t)[a] + Column(v, t)[b] <= Sum(Column(v, t))
  BY <1>1, SumCovers
<1> QED
  BY <1>2 DEF Column, Purse

\* Stores and deployments write no balance.
LEMMA BalancesElsewhere ==
  /\ NoBalances(NoWrites)
  /\ \A c, v : NoBalances(Store(c, v))
  /\ \A c : NoBalances(Special(c))
  /\ \A w, f : NoBalances(w) /\ NoBalances(f) => NoBalances(Over(w, f))
<1>1. NoBalances(NoWrites)
  BY DEF NoBalances, NoWrites
<1>2. \A c, v : DOMAIN Store(c, v) \subseteq {Storage(c)}
  BY DEF Store, NoWrites
<1>3. \A c : DOMAIN Special(c) \subseteq {Sequence, Binary(View[Sequence])}
  BY DEF Special, NoWrites
<1>4. \A w, f : NoBalances(w) /\ NoBalances(f) => NoBalances(Over(w, f))
  BY DEF NoBalances, Over
<1>5. \A c, v : NoBalances(Store(c, v))
  BY <1>2, KeyShape DEF NoBalances
<1>6. \A c : NoBalances(Special(c))
  BY <1>3, KeyShape DEF NoBalances
<1> QED
  BY <1>1, <1>4, <1>5, <1>6

\* What is seen through writes w above writes f without balances.
LEMMA SeenThrough ==
  ASSUME View \in Whole, NEW w, NEW f, NoBalances(f), NEW c \in Contracts, NEW t \in Tokens
  PROVE  Over(Over(w, f), View)[Balance(c, t)] =
           IF Balance(c, t) \in DOMAIN w THEN w[Balance(c, t)] ELSE View[Balance(c, t)]
<1>1. Balance(c, t) \in BalanceKeys /\ Balance(c, t) \in Keys
  BY KeysOf DEF BalanceKeys
<1>2. Balance(c, t) \in DOMAIN View /\ Balance(c, t) \notin DOMAIN f
  BY <1>1 DEF Whole, NoBalances
<1> QED
  BY <1>2 DEF Over

LEMMA BalanceKey ==
  /\ \A c, d, t, u : Balance(c, t) = Balance(d, u) <=> c = d /\ t = u
  /\ \A c, d, t : t \in Tokens => (Balance(c, t) \in {Balance(d, u) : u \in Tokens} <=> c = d)
<1>1. \A c, d, t, u : Balance(c, t) = Balance(d, u) <=> c = d /\ t = u
  BY DEF Balance
<1> QED
  BY <1>1

LEMMA CreditSeen ==
  ASSUME NEW to, NEW p, NEW c, NEW t \in Tokens
  PROVE  /\ Balance(c, t) \in DOMAIN Credit(to, p) <=> c = to
         /\ c = to => Credit(to, p)[Balance(c, t)] = View[Balance(c, t)] + p[t]
<1>1. Balance(c, t)[3] = t
  BY KeyShape
<1> QED
  BY <1>1, BalanceKey DEF Credit

LEMMA DebitSeen ==
  ASSUME NEW from, NEW p, NEW c, NEW t \in Tokens
  PROVE  /\ Balance(c, t) \in DOMAIN Debit(from, p) <=> c = from
         /\ c = from => Debit(from, p)[Balance(c, t)] = Debited(from, t, p[t])
<1>1. Balance(c, t)[3] = t
  BY KeyShape
<1> QED
  BY <1>1, BalanceKey DEF Debit

LEMMA TransferSeen ==
  ASSUME NEW from, NEW to, NEW p, NEW c, NEW t \in Tokens
  PROVE  /\ Balance(c, t) \in DOMAIN Transfer(p, from, to) <=> (c = to \/ c = from)
         /\ c = to => Transfer(p, from, to)[Balance(c, t)] =
              (p[t] + (IF from = to THEN Debited(from, t, p[t]) ELSE View[Balance(c, t)])) % Width
         /\ c # to /\ c = from => Transfer(p, from, to)[Balance(c, t)] = Debited(from, t, p[t])
<1> DEFINE D == {Balance(to, u) : u \in Tokens}
           f == [k \in D |->
                  (p[k[3]] + (IF from = to THEN Debited(from, k[3], p[k[3]])
                                           ELSE View[k])) % Width]
<1>1. Balance(c, t)[3] = t
  BY KeyShape
<1>2. Balance(c, t) \in D <=> c = to
  BY BalanceKey
<1>3. Transfer(p, from, to) = Over(f, Debit(from, p))
  BY DEF Transfer
<1>4. c = to => f[Balance(c, t)] =
              (p[t] + (IF from = to THEN Debited(from, t, p[t]) ELSE View[Balance(c, t)])) % Width
  BY <1>1, <1>2
<1>5. DOMAIN f = D
  OBVIOUS
<1> HIDE DEF f
<1> QED
  BY <1>2, <1>3, <1>4, <1>5, DebitSeen DEF Over

\* A message brings what it receives.
LEMMA MessageAdds ==
  ASSUME ViewInv, NEW c \in Targets, NEW p \in Parcels, Exists(c), CanCredit(Resolved(c), p),
         NEW t \in Tokens
  PROVE  Purse(Over(MessageWrites(c, p), View), t) = Purse(View, t) + p[t]
<1> DEFINE w == Over(MessageWrites(c, p), View)
           to == Resolved(c)
<1>1. View \in Whole /\ w \in Whole /\ to \in Contracts
  BY MessageIsWhole, NextNumber
<1>2. \A d \in Contracts :
        w[Balance(d, t)] = IF d = to THEN View[Balance(d, t)] + p[t] ELSE View[Balance(d, t)]
  BY <1>1, SeenThrough, CreditSeen, BalancesElsewhere DEF MessageWrites
<1> HIDE DEF w, to
<1>3. Purse(w, t) + View[Balance(to, t)] = Purse(View, t) + w[Balance(to, t)]
  BY <1>1, <1>2, PurseShifts
<1>4. /\ Purse(w, t) \in Nat /\ Purse(View, t) \in Nat /\ View[Balance(to, t)] \in Nat
      /\ p[t] \in Nat
  BY <1>1, PurseTyped, ParcelShape
<1>5. w[Balance(to, t)] = View[Balance(to, t)] + p[t]
  BY <1>1, <1>2
<1> QED
  BY <1>3, <1>4, <1>5 DEF w

\* What a message returns goes.
LEMMA ReturnTakes ==
  ASSUME ViewInv, frames # <<>>, NEW v \in Values, NEW p \in Parcels, CanDebit(Top.myself, p),
         NEW t, Foreign(t)
  PROVE  Purse(Over(ReturnWrites(v, p), View), t) + p[t] = Purse(View, t)
<1> DEFINE w == Over(ReturnWrites(v, p), View)
           me == Top.myself
<1>1. /\ View \in Whole /\ w \in Whole /\ me \in Contracts /\ me \in Runners /\ t \in Tokens
  BY ReturnIsWhole, NextNumber, TopRuns DEF Foreign
<1>2. \A d \in Contracts :
        w[Balance(d, t)] = IF d = me THEN Debited(me, t, p[t]) ELSE View[Balance(d, t)]
  BY <1>1, SeenThrough, DebitSeen, BalancesElsewhere DEF ReturnWrites
<1>3. me # t
  <2>1. FirstFree \in Nat /\ t \in Nat
    BY <1>1, MessageAssumption DEF Contracts
  <2> QED
    BY <1>1, <2>1, NextNumber DEF Runners, Foreign
<1>4. p[t] <= View[Balance(me, t)]
  BY <1>1, <1>3 DEF CanDebit
<1>5. Debited(me, t, p[t]) = View[Balance(me, t)] - p[t]
  <2>1. View[Balance(me, t)] \in Nat /\ p[t] \in Nat
    BY <1>1, PurseTyped, ParcelShape
  <2> QED
    BY <1>4, <2>1 DEF Debited
<1> HIDE DEF w, me
<1>6. Purse(w, t) + View[Balance(me, t)] = Purse(View, t) + w[Balance(me, t)]
  BY <1>1, <1>2, PurseShifts
<1>7. /\ Purse(w, t) \in Nat /\ Purse(View, t) \in Nat /\ View[Balance(me, t)] \in Nat
      /\ p[t] \in Nat
  BY <1>1, PurseTyped, ParcelShape
<1>8. w[Balance(me, t)] = View[Balance(me, t)] - p[t]
  BY <1>1, <1>2, <1>5
<1> QED
  BY <1>6, <1>7, <1>8 DEF w

\* A transfer of what a contract has moves it and wraps nothing.
LEMMA TransferMoves ==
  ASSUME ViewInv, NEW from \in Contracts, NEW to \in Contracts, NEW p \in Parcels,
         NEW t \in Tokens, p[t] <= View[Balance(from, t)], Purse(View, t) < Width,
         NEW f, NoBalances(f), Over(Over(Transfer(p, from, to), f), View) \in Whole
  PROVE  Purse(Over(Over(Transfer(p, from, to), f), View), t) = Purse(View, t)
<1> DEFINE w == Over(Over(Transfer(p, from, to), f), View)
           T == Transfer(p, from, to)
<1>1. View \in Whole /\ w \in Whole
  BY NextNumber
<1>2. ASSUME NEW d \in Contracts
      PROVE  w[Balance(d, t)] =
               IF Balance(d, t) \in DOMAIN T THEN T[Balance(d, t)] ELSE View[Balance(d, t)]
  BY <1>1, SeenThrough
<1>3. /\ View[Balance(from, t)] \in Nat /\ View[Balance(to, t)] \in Nat /\ p[t] \in Nat
      /\ View[Balance(from, t)] < Width /\ Width \in Nat /\ Purse(View, t) \in Nat
  BY <1>1, PurseTyped, ParcelShape, MessageAssumption
<1>4. Debited(from, t, p[t]) = View[Balance(from, t)] - p[t]
  BY <1>3 DEF Debited
<1>5. \A n \in Nat : n < Width => n % Width = n
  BY <1>3
<1> HIDE DEF w, T
<1>6. CASE from = to
  <2>1. T[Balance(to, t)] = (p[t] + Debited(from, t, p[t])) % Width
    BY <1>6, TransferSeen DEF T
  <2>2. p[t] + Debited(from, t, p[t]) = View[Balance(from, t)]
    BY <1>3, <1>4
  <2>3. T[Balance(to, t)] = View[Balance(to, t)]
    BY <1>3, <1>5, <1>6, <2>1, <2>2
  <2>4. \A d \in Contracts : d # to => Balance(d, t) \notin DOMAIN T
    BY <1>6, TransferSeen DEF T
  <2>5. \A d \in Contracts : w[Balance(d, t)] = View[Balance(d, t)]
    BY <1>2, <2>3, <2>4
  <2> QED
    BY <2>5, PurseSame DEF w, T
<1>7. CASE from # to
  <2>1. View[Balance(from, t)] + View[Balance(to, t)] < Width
    <3>1. View[Balance(from, t)] + View[Balance(to, t)] <= Purse(View, t)
      BY <1>1, <1>7, PurseCovers
    <3> QED
      BY <1>3, <3>1
  <2>2. Balance(to, t) \in DOMAIN T /\ T[Balance(to, t)] = (p[t] + View[Balance(to, t)]) % Width
    BY <1>7, TransferSeen DEF T
  <2>3. p[t] + View[Balance(to, t)] < Width /\ p[t] + View[Balance(to, t)] \in Nat
    BY <1>3, <2>1
  <2>4. w[Balance(to, t)] = View[Balance(to, t)] + p[t]
    BY <1>2, <1>3, <1>5, <2>2, <2>3
  <2>5. Balance(from, t) \in DOMAIN T /\ T[Balance(from, t)] = Debited(from, t, p[t])
    BY <1>7, TransferSeen DEF T
  <2>6. w[Balance(from, t)] + p[t] = View[Balance(from, t)]
    BY <1>2, <1>3, <1>4, <2>5
  <2>7. \A d \in Contracts : d # from /\ d # to => Balance(d, t) \notin DOMAIN T
    BY TransferSeen DEF T
  <2>8. \A d \in Contracts : d # from /\ d # to => w[Balance(d, t)] = View[Balance(d, t)]
    BY <1>2, <2>7
  <2>9. Purse(w, t) = Purse(View, t)
    BY <1>1, <1>3, <1>7, <2>4, <2>6, <2>8, PurseMoves
  <2> QED
    BY <2>9 DEF w, T
<1> QED
  BY <1>6, <1>7

-----------------------------------------------------------------------------
(* Conservation, at every level. *)

\* What there is of the token at each level: the transaction began with its
\* inputs in no sheet yet, the message with nothing received.
Balanced(t) ==
  /\ Purse(View, t) + outside[t] + sheet[t] + spent[t] = Supply[t] + incoming[t]
  /\ Count >= 1 => Purse(Began(1), t) + outside[t] + inputs[t] + spent[t] = Supply[t]
  /\ Count >= 2 => Purse(Began(2), t) + outside[t] + sheet[t] + spent[t] = Supply[t]
  /\ \A i \in 3..Count :
       Purse(Began(i), t) + outside[t] + sheet[t] + spent[t] = Supply[t] + incoming[t]

\* Calls of contracts move tokens, and no more than fits.
LEMMA CallMoves ==
  ASSUME ViewInv, NEW kind \in Kinds, NEW c \in Targets, NEW v \in Values, NEW p \in Parcels,
         frames # <<>>, Exists(c), kind # "delegate" => CanDebit(Top.myself, p),
         NEW t, Foreign(t), Purse(View, t) < Width
  PROVE  Purse(Over(CallWrites(kind, c, v, p), View), t) = Purse(View, t)
<1> DEFINE f == Over(Special(c), Store(Top.myself, v))
           w == Over(CallWrites(kind, c, v, p), View)
<1>1. /\ View \in Whole /\ w \in Whole /\ t \in Tokens
  BY CallIsWhole, NextNumber DEF Foreign
<1>2. NoBalances(f)
  BY BalancesElsewhere
<1>3. Resolved(c) \in Contracts /\ Top.myself \in Contracts /\ Top.myself \in Runners
  BY <1>1, SpecialFits, TopRuns
<1>4. CASE kind = "delegate"
  <2>1. w = Over(Over(NoWrites, f), View)
    BY <1>4 DEF CallWrites
  <2>2. \A d \in Contracts : w[Balance(d, t)] = View[Balance(d, t)]
    <3>1. DOMAIN NoWrites = {}
      BY DEF NoWrites
    <3> HIDE DEF f, w
    <3> QED
      BY <1>1, <1>2, <2>1, <3>1, SeenThrough
  <2> HIDE DEF w
  <2>3. Purse(w, t) = Purse(View, t)
    BY <1>1, <2>2, PurseSame
  <2> QED
    BY <2>3 DEF w
<1>5. CASE kind # "delegate"
  <2>1. w = Over(Over(Transfer(p, Top.myself, Resolved(c)), f), View)
    BY <1>5 DEF CallWrites
  <2>2. Top.myself # t
    <3>1. FirstFree \in Nat /\ t \in Nat
      BY <1>1, MessageAssumption DEF Contracts
    <3> QED
      BY <1>3, <3>1, NextNumber DEF Runners, Foreign
  <2>3. p[t] <= View[Balance(Top.myself, t)]
    BY <1>1, <1>5, <2>2 DEF CanDebit
  <2> HIDE DEF w, f
  <2>4. Purse(w, t) = Purse(View, t)
    BY <1>1, <1>2, <1>3, <2>1, <2>3, TransferMoves
  <2> QED
    BY <2>4 DEF w
<1> QED
  BY <1>4, <1>5

LEMMA SaveMoves ==
  ASSUME ViewInv, NEW v \in Values, NEW p \in Parcels, frames # <<>>, Len(frames) > 1,
         Top.kind # "delegate" => CanDebit(Top.myself, p),
         NEW t, Foreign(t), Purse(View, t) < Width
  PROVE  Purse(Over(SaveWrites(v, p), View), t) = Purse(View, t)
<1> DEFINE f == Store(Top.myself, v)
           w == Over(SaveWrites(v, p), View)
<1>1. /\ View \in Whole /\ w \in Whole /\ t \in Tokens
  BY SaveIsWhole, NextNumber DEF Foreign
<1>2. NoBalances(f)
  BY BalancesElsewhere
<1>3. Caller.myself \in Contracts /\ Top.myself \in Contracts /\ Top.myself \in Runners
  BY TopRuns
<1>4. CASE Top.kind = "delegate"
  <2>1. w = Over(Over(NoWrites, f), View)
    BY <1>4 DEF SaveWrites
  <2>2. \A d \in Contracts : w[Balance(d, t)] = View[Balance(d, t)]
    <3>1. DOMAIN NoWrites = {}
      BY DEF NoWrites
    <3> HIDE DEF f, w
    <3> QED
      BY <1>1, <1>2, <2>1, <3>1, SeenThrough
  <2> HIDE DEF w
  <2>3. Purse(w, t) = Purse(View, t)
    BY <1>1, <2>2, PurseSame
  <2> QED
    BY <2>3 DEF w
<1>5. CASE Top.kind # "delegate"
  <2>1. w = Over(Over(Transfer(p, Top.myself, Caller.myself), f), View)
    BY <1>5 DEF SaveWrites
  <2>2. Top.myself # t
    <3>1. FirstFree \in Nat /\ t \in Nat
      BY <1>1, MessageAssumption DEF Contracts
    <3> QED
      BY <1>3, <3>1, NextNumber DEF Runners, Foreign
  <2>3. p[t] <= View[Balance(Top.myself, t)]
    BY <1>1, <1>5, <2>2 DEF CanDebit
  <2> HIDE DEF w, f
  <2>4. Purse(w, t) = Purse(View, t)
    BY <1>1, <1>2, <1>3, <2>1, <2>3, TransferMoves
  <2> QED
    BY <2>4 DEF w
<1> QED
  BY <1>4, <1>5

\* The numbers of a token.
LEMMA TokenNumbers ==
  ASSUME ViewInv, NEW t, Foreign(t), Balanced(t)
  PROVE  /\ t \in Tokens /\ Purse(View, t) \in Nat /\ Supply[t] \in Nat
         /\ outside[t] \in Nat /\ sheet[t] \in Nat /\ spent[t] \in Nat
         /\ inputs[t] \in Nat /\ incoming[t] \in Nat /\ incoming[t] <= sheet[t]
         /\ Purse(View, t) < Width
         /\ \A i \in 1..Count : Purse(Began(i), t) \in Nat
<1>1. t \in Tokens /\ Supply[t] \in Nat /\ Supply[t] < Width /\ Width \in Nat
  BY MessageAssumption DEF Foreign
<1>2. /\ outside[t] \in Nat /\ sheet[t] \in Nat /\ spent[t] \in Nat
      /\ inputs[t] \in Nat /\ incoming[t] \in Nat /\ incoming[t] <= sheet[t]
  BY <1>1, ParcelShape DEF ViewInv, SheetsCover, Within
<1>3. View \in Whole /\ \A i \in 1..Count : Began(i) \in Whole
  BY DEF ViewInv, AllIn
<1>4. Purse(View, t) \in Nat /\ \A i \in 1..Count : Purse(Began(i), t) \in Nat
  BY <1>1, <1>3, PurseTyped
<1>5. Purse(View, t) + outside[t] + sheet[t] + spent[t] = Supply[t] + incoming[t]
  BY DEF Balanced
<1>6. Purse(View, t) < Width
  BY <1>1, <1>2, <1>4, <1>5
<1> QED
  BY <1>1, <1>2, <1>4, <1>6

\* A step that leaves the sheets, and ends or begins a call.
LEMMA BalancedPushed ==
  ASSUME ViewInv, NEW t, Foreign(t), Balanced(t), NEW n \in Nat, n > 1, Pushes(n),
         Purse(View', t) = Purse(View, t), UNCHANGED <<incoming, sheets>>
  PROVE  Balanced(t)'
<1>1. Count = n /\ Count' = n + 1 /\ 1 \in 1..n /\ 2 \in 1..n
  BY DEF Pushes
<1>2. \A i \in 1..n : Began(i)' = Began(i)
  BY DEF Pushes
<1>3. Began(1)' = Began(1) /\ Began(2)' = Began(2)
  BY <1>1, <1>2
<1>4. UNCHANGED <<incoming, inputs, sheet, outside, spent>>
  BY DEF sheets
<1>5. ASSUME NEW i \in 3..(n + 1)
      PROVE  Purse(Began(i)', t) + outside[t] + sheet[t] + spent[t] = Supply[t] + incoming[t]
  <2>1. CASE i = n + 1
    <3>1. Began(i)' = View
      BY <2>1 DEF Pushes
    <3> QED
      BY <3>1 DEF Balanced
  <2>2. CASE i # n + 1
    <3>1. i \in 3..n /\ i \in 1..n
      BY <2>2
    <3>2. Began(i)' = Began(i)
      BY <1>2, <3>1
    <3> QED
      BY <1>1, <3>1, <3>2 DEF Balanced
  <2> QED
    BY <2>1, <2>2
<1>6. /\ Purse(View', t) + outside[t] + sheet[t] + spent[t] = Supply[t] + incoming[t]
      /\ Purse(Began(1)', t) + outside[t] + inputs[t] + spent[t] = Supply[t]
      /\ Purse(Began(2)', t) + outside[t] + sheet[t] + spent[t] = Supply[t]
  BY <1>1, <1>3 DEF Balanced
<1> QED
  BY <1>1, <1>4, <1>5, <1>6 DEF Balanced, Purse, Column

LEMMA BalancedPopped ==
  ASSUME ViewInv, NEW t, Foreign(t), Balanced(t), NEW n \in Nat, n > 1, Pops(n),
         View' = Began(n + 1) \/ Purse(View', t) = Purse(View, t), UNCHANGED <<incoming, sheets>>
  PROVE  Balanced(t)'
<1>1. Count = n + 1 /\ Count' = n /\ 1 \in 1..n /\ 2 \in 1..n /\ n + 1 \in 3..(n + 1)
  BY DEF Pops
<1>2. \A i \in 1..n : Began(i)' = Began(i)
  BY DEF Pops
<1>3. Began(1)' = Began(1) /\ Began(2)' = Began(2)
  BY <1>1, <1>2
<1>4. UNCHANGED <<incoming, inputs, sheet, outside, spent>>
  BY DEF sheets
<1>5. ASSUME NEW i \in 3..n
      PROVE  Purse(Began(i)', t) + outside[t] + sheet[t] + spent[t] = Supply[t] + incoming[t]
  <2>1. i \in 3..(n + 1) /\ i \in 1..n
    OBVIOUS
  <2>2. Began(i)' = Began(i)
    BY <1>2, <2>1
  <2> QED
    BY <1>1, <2>1, <2>2 DEF Balanced
<1>6. /\ Purse(View', t) + outside[t] + sheet[t] + spent[t] = Supply[t] + incoming[t]
      /\ Purse(Began(1)', t) + outside[t] + inputs[t] + spent[t] = Supply[t]
      /\ Purse(Began(2)', t) + outside[t] + sheet[t] + spent[t] = Supply[t]
  BY <1>1, <1>3 DEF Balanced
<1> QED
  BY <1>1, <1>4, <1>5, <1>6 DEF Balanced, Purse, Column

-----------------------------------------------------------------------------
(* No step makes or loses a token. *)

LEMMA BeginTransactionBalanced ==
  ASSUME ViewInv, NEW t, Foreign(t), Balanced(t), NEW p \in Parcels, BeginTransaction(p)
  PROVE  Balanced(t)'
<1>1. /\ View' = View /\ Count = 0 /\ Count' = 1 /\ Began(1)' = View /\ frames = <<>>
  <2>1. View' = View /\ Pushes(0) /\ frames = <<>>
    BY BeginTransactionViews DEF ViewInv
  <2> QED
    BY <2>1 DEF Pushes
<1>2. /\ Within(p, outside) /\ inputs' = p /\ sheet' = p /\ outside' = Minus(outside, p)
      /\ incoming' = incoming /\ spent' = spent
  BY DEF BeginTransaction
<1>3. sheet[t] = 0 /\ incoming[t] = 0 /\ p[t] \in Nat
  BY <1>1, TokenNumbers, ParcelShape DEF ViewInv, SheetsCover, NoAlkanes
<1>4. /\ t \in Tokens /\ Purse(View, t) \in Nat /\ Supply[t] \in Nat
      /\ outside[t] \in Nat /\ spent[t] \in Nat
  BY TokenNumbers
<1>5. outside'[t] = outside[t] - p[t] /\ inputs'[t] = p[t] /\ sheet'[t] = p[t]
      /\ incoming'[t] = 0 /\ spent'[t] = spent[t]
  BY <1>2, <1>3, <1>4 DEF Minus
<1>6. Purse(View, t) + outside[t] + spent[t] = Supply[t]
  BY <1>3, <1>4 DEF Balanced
<1>7. /\ Purse(View', t) + outside'[t] + sheet'[t] + spent'[t] = Supply[t] + incoming'[t]
      /\ Purse(Began(1)', t) + outside'[t] + inputs'[t] + spent'[t] = Supply[t]
  BY <1>1, <1>3, <1>4, <1>5, <1>6
<1> QED
  BY <1>1, <1>7 DEF Balanced, Purse, Column

LEMMA StartMessageBalanced ==
  ASSUME ViewInv, NEW t, Foreign(t), Balanced(t),
         NEW c \in Targets, NEW p \in Parcels, StartMessage(c, p)
  PROVE  Balanced(t)'
<1>1. /\ Count = 1 /\ Count' = 2 /\ Began(1)' = Began(1) /\ Began(2)' = View /\ frames = <<>>
      /\ View' = Over(MessageWrites(c, p), View)
  <2>1. View' = Over(MessageWrites(c, p), View) /\ Pushes(1) /\ frames = <<>>
    BY StartMessageViews DEF ViewInv
  <2> QED
    BY <2>1 DEF Pushes
<1>2. /\ Exists(c) /\ CanCredit(Resolved(c), p) /\ incoming' = p
      /\ UNCHANGED <<inputs, sheet, outside, spent>>
  BY DEF StartMessage, sheets
<1>3. /\ t \in Tokens /\ Purse(View, t) \in Nat /\ Supply[t] \in Nat
      /\ outside[t] \in Nat /\ sheet[t] \in Nat /\ spent[t] \in Nat
  BY TokenNumbers
<1>4. incoming[t] = 0 /\ p[t] \in Nat
  BY <1>1, <1>3, ParcelShape DEF ViewInv, SheetsCover, NoAlkanes
<1>5. Purse(View', t) = Purse(View, t) + p[t]
  BY <1>1, <1>2, <1>3, MessageAdds
<1>6. /\ Purse(View, t) + outside[t] + sheet[t] + spent[t] = Supply[t]
      /\ Purse(Began(1), t) + outside[t] + inputs[t] + spent[t] = Supply[t]
  BY <1>1, <1>3, <1>4 DEF Balanced
<1>7. /\ Purse(View', t) + outside[t] + sheet[t] + spent[t] = Supply[t] + p[t]
      /\ Purse(Began(1)', t) + outside[t] + inputs[t] + spent[t] = Supply[t]
      /\ Purse(Began(2)', t) + outside[t] + sheet[t] + spent[t] = Supply[t]
  BY <1>1, <1>3, <1>4, <1>5, <1>6
<1> QED
  BY <1>1, <1>2, <1>7 DEF Balanced, Purse, Column

LEMMA MessageReturnsBalanced ==
  ASSUME ViewInv, NEW t, Foreign(t), Balanced(t),
         NEW v \in Values, NEW p \in Parcels, MessageReturns(v, p)
  PROVE  Balanced(t)'
<1>1. /\ Count = 2 /\ Count' = 1 /\ Began(1)' = Began(1) /\ frames # <<>>
      /\ View' = Over(ReturnWrites(v, p), View)
  <2>1. View' = Over(ReturnWrites(v, p), View) /\ Pops(1) /\ Len(frames) = 1
    BY MessageReturnsViews DEF ViewInv
  <2> QED
    BY <2>1 DEF Pops
<1>2. /\ CanDebit(Top.myself, p) /\ incoming' = NoAlkanes
      /\ sheet' = Plus(Minus(sheet, incoming), p)
      /\ UNCHANGED <<inputs, outside, spent>>
  BY DEF MessageReturns
<1>3. /\ t \in Tokens /\ Purse(View, t) \in Nat /\ Supply[t] \in Nat
      /\ outside[t] \in Nat /\ sheet[t] \in Nat /\ spent[t] \in Nat
      /\ incoming[t] \in Nat /\ incoming[t] <= sheet[t]
  BY TokenNumbers
<1>4. /\ p[t] \in Nat /\ incoming'[t] = 0 /\ sheet'[t] = (sheet[t] - incoming[t]) + p[t]
  BY <1>2, <1>3, ParcelShape DEF NoAlkanes, Plus, Minus
<1>5. Purse(View', t) + p[t] = Purse(View, t) /\ Purse(View', t) \in Nat
  <2>1. Over(ReturnWrites(v, p), View) \in Whole
    BY <1>1, ReturnIsWhole
  <2> QED
    BY <1>1, <1>2, <1>3, <2>1, ReturnTakes, PurseTyped
<1>6. /\ Purse(View, t) + outside[t] + sheet[t] + spent[t] = Supply[t] + incoming[t]
      /\ Purse(Began(1), t) + outside[t] + inputs[t] + spent[t] = Supply[t]
  BY <1>1 DEF Balanced
<1>7. /\ Purse(View', t) + outside[t] + sheet'[t] + spent[t] = Supply[t] + incoming'[t]
  BY <1>3, <1>4, <1>5, <1>6
<1>8. Purse(Began(1)', t) + outside[t] + inputs[t] + spent[t] = Supply[t]
  BY <1>1, <1>6
<1> QED
  BY <1>1, <1>2, <1>7, <1>8 DEF Balanced, Purse, Column

LEMMA MessageRevertsBalanced ==
  ASSUME ViewInv, NEW t, Foreign(t), Balanced(t), MessageReverts
  PROVE  Balanced(t)'
<1>1. /\ Count = 2 /\ Count' = 1 /\ Began(1)' = Began(1) /\ View' = Began(2)
  <2>1. View' = Began(2) /\ Pops(1)
    BY MessageRevertsViews DEF ViewInv
  <2> QED
    BY <2>1 DEF Pops
<1>2. incoming' = NoAlkanes /\ UNCHANGED <<inputs, sheet, outside, spent>>
  BY DEF MessageReverts, sheets
<1>3. t \in Tokens /\ Supply[t] \in Nat
  BY TokenNumbers
<1>4. incoming'[t] = 0
  BY <1>2, <1>3 DEF NoAlkanes
<1>5. /\ Purse(Began(1), t) + outside[t] + inputs[t] + spent[t] = Supply[t]
      /\ Purse(Began(2), t) + outside[t] + sheet[t] + spent[t] = Supply[t]
  BY <1>1 DEF Balanced
<1>6. /\ Purse(View', t) + outside[t] + sheet[t] + spent[t] = Supply[t] + incoming'[t]
      /\ Purse(Began(1)', t) + outside[t] + inputs[t] + spent[t] = Supply[t]
  BY <1>1, <1>3, <1>4, <1>5
<1> QED
  BY <1>1, <1>2, <1>6 DEF Balanced, Purse, Column

LEMMA CommitTransactionBalanced ==
  ASSUME ViewInv, NEW t, Foreign(t), Balanced(t), CommitTransaction
  PROVE  Balanced(t)'
<1>1. View' = View /\ Count' = 0
  BY CommitTransactionViews DEF ViewInv, Pops
<1>2. /\ outside' = Plus(outside, sheet) /\ sheet' = NoAlkanes
      /\ incoming' = incoming /\ spent' = spent
  BY DEF CommitTransaction
<1>3. /\ t \in Tokens /\ Purse(View, t) \in Nat /\ Supply[t] \in Nat
      /\ outside[t] \in Nat /\ sheet[t] \in Nat /\ spent[t] \in Nat /\ incoming[t] \in Nat
  BY TokenNumbers
<1>4. outside'[t] = outside[t] + sheet[t] /\ sheet'[t] = 0
  BY <1>2, <1>3 DEF Plus, NoAlkanes
<1>5. Purse(View', t) + outside'[t] + sheet'[t] + spent[t] = Supply[t] + incoming[t]
  BY <1>1, <1>3, <1>4 DEF Balanced
<1> QED
  BY <1>1, <1>2, <1>5 DEF Balanced, Purse, Column

LEMMA RollbackTransactionBalanced ==
  ASSUME ViewInv, NEW t, Foreign(t), Balanced(t), RollbackTransaction
  PROVE  Balanced(t)'
<1>1. View' = Began(1) /\ Count = 1 /\ Count' = 0 /\ frames = <<>>
  BY RollbackTransactionViews DEF ViewInv, Pops
<1>2. /\ spent' = Plus(spent, inputs) /\ sheet' = NoAlkanes
      /\ incoming' = incoming /\ outside' = outside
  BY DEF RollbackTransaction
<1>3. /\ t \in Tokens /\ Supply[t] \in Nat /\ outside[t] \in Nat /\ inputs[t] \in Nat
      /\ spent[t] \in Nat /\ Purse(Began(1), t) \in Nat
  BY <1>1, TokenNumbers
<1>4. incoming[t] = 0
  BY <1>1, <1>3 DEF ViewInv, SheetsCover, NoAlkanes
<1>5. spent'[t] = spent[t] + inputs[t] /\ sheet'[t] = 0
  BY <1>2, <1>3 DEF Plus, NoAlkanes
<1>6. Purse(Began(1), t) + outside[t] + inputs[t] + spent[t] = Supply[t]
  BY <1>1 DEF Balanced
<1>7. Purse(View', t) + outside[t] + sheet'[t] + spent'[t] = Supply[t] + incoming[t]
  BY <1>1, <1>3, <1>4, <1>5, <1>6
<1> QED
  BY <1>1, <1>2, <1>7 DEF Balanced, Purse, Column

LEMMA StepBalanced ==
  ASSUME ViewInv, NEW t, Foreign(t), Balanced(t), Next
  PROVE  Balanced(t)'
<1>0. /\ IInv /\ frames \in Seq(FrameSet) /\ Len(frames) \in Nat /\ Purse(View, t) < Width
  BY TokenNumbers DEF ViewInv, IInv, Typed
<1>1. ASSUME NEW kind \in Kinds, NEW c \in Targets, NEW v \in Values, NEW p \in Parcels,
             CallContract(kind, c, v, p), NEW m \in Nat, m = Len(frames) + 1
      PROVE  Balanced(t)'
  <2>1. /\ m > 1 /\ frames # <<>> /\ Pushes(m)
        /\ View' = Over(CallWrites(kind, c, v, p), View)
    BY <1>0, <1>1, CallContractViews
  <2>2. /\ Exists(c)
        /\ kind # "delegate" => CanDebit(Top.myself, p)
        /\ UNCHANGED <<incoming, sheets>>
    BY <1>1 DEF CallContract
  <2>3. Purse(View', t) = Purse(View, t)
    BY <1>0, <2>1, <2>2, CallMoves
  <2> QED
    BY <2>1, <2>2, <2>3, BalancedPushed
<1>2. ASSUME CallRefused, NEW m \in Nat, m = Len(frames) PROVE Balanced(t)'
  <2>1. Rests
    BY <1>0, <1>2, CallRefusedViews
  <2>2. UNCHANGED <<incoming, inputs, sheet, outside, spent>>
    BY <1>2 DEF CallRefused, sheets
  <2>3. Count \in Nat
    BY <1>0, CountShape
  <2>4. /\ Count >= 1 => Began(1)' = Began(1)
        /\ Count >= 2 => Began(2)' = Began(2)
        /\ \A i \in 3..Count : Began(i)' = Began(i)
    BY <2>1, <2>3 DEF Rests
  <2>5. /\ Count >= 1 => Purse(Began(1)', t) + outside[t] + inputs[t] + spent[t] = Supply[t]
        /\ Count >= 2 => Purse(Began(2)', t) + outside[t] + sheet[t] + spent[t] = Supply[t]
        /\ \A i \in 3..Count :
             Purse(Began(i)', t) + outside[t] + sheet[t] + spent[t] = Supply[t] + incoming[t]
        /\ Purse(View', t) + outside[t] + sheet[t] + spent[t] = Supply[t] + incoming[t]
        /\ Count' = Count
    BY <2>1, <2>4 DEF Balanced, Rests
  <2> QED
    BY <2>2, <2>5 DEF Balanced, Purse, Column
<1>3. ASSUME NEW v \in Values, NEW p \in Parcels, CallReturns(v, p),
             NEW m \in Nat, m = Len(frames)
      PROVE  Balanced(t)'
  <2>1. /\ m > 1 /\ Pops(m)
        /\ View' = Began(m + 1) \/ View' = Over(SaveWrites(v, p), View)
    BY <1>0, <1>3, CallReturnsViews
  <2>2. /\ Top.kind # "delegate" => CanDebit(Top.myself, p)
        /\ UNCHANGED <<incoming, sheets>>
    BY <1>3 DEF CallReturns
  <2>3. Purse(Over(SaveWrites(v, p), View), t) = Purse(View, t)
    <3>1. frames # <<>> /\ Len(frames) > 1
      BY <1>3, <2>1
    <3> QED
      BY <1>0, <2>2, <3>1, SaveMoves
  <2> QED
    BY <2>1, <2>2, <2>3, BalancedPopped
<1>4. ASSUME CallReverts, NEW m \in Nat, m = Len(frames) PROVE Balanced(t)'
  <2>1. m > 1 /\ Pops(m) /\ View' = Began(m + 1)
    BY <1>0, <1>4, CallRevertsViews
  <2>2. UNCHANGED <<incoming, sheets>>
    BY <1>4 DEF CallReverts
  <2> QED
    BY <2>1, <2>2, BalancedPopped
<1>5. Len(frames) + 1 \in Nat
  BY <1>0
<1>6. ASSUME NEW kind \in Kinds, NEW c \in Targets, NEW v \in Values, NEW p \in Parcels,
             CallContract(kind, c, v, p)
      PROVE  Balanced(t)'
  BY <1>1, <1>5, <1>6
<1>7. ASSUME CallRefused PROVE Balanced(t)'
  BY <1>0, <1>2, <1>7
<1>8. ASSUME NEW v \in Values, NEW p \in Parcels, CallReturns(v, p) PROVE Balanced(t)'
  BY <1>0, <1>3, <1>8
<1>9. ASSUME CallReverts PROVE Balanced(t)'
  BY <1>0, <1>4, <1>9
<1> HIDE DEF Balanced
<1> QED
  BY <1>6, <1>7, <1>8, <1>9, BeginTransactionBalanced, StartMessageBalanced,
     MessageReturnsBalanced, MessageRevertsBalanced, CommitTransactionBalanced,
     RollbackTransactionBalanced DEF Next

\* Every token whose contract never runs is foreign.
ForeignTokens == \A t \in Tokens \ Called : Foreign(t)

AllBalanced == \A t \in Tokens \ Called : Balanced(t)

LEMMA InitBalanced ==
  ASSUME Init, NEW t \in Tokens
  PROVE  Balanced(t)
<1>1. /\ View \in Whole /\ frames = <<>> /\ layers = <<>> /\ Count = 0
  BY InitViews, NextNumber DEF Init, Count
<1>2. \A c \in Contracts : View[Balance(c, t)] = 0
  <2> SUFFICES ASSUME NEW c \in Contracts PROVE View[Balance(c, t)] = 0
    OBVIOUS
  <2>1. Balance(c, t) \in Keys /\ Len(layers) = 0
    BY <1>1, KeysOf
  <2>2. View[Balance(c, t)] = cells[Balance(c, t)]
    BY <2>1, SeenBottom DEF View, ViewAt
  <2>3. Balance(c, t) # Sequence /\ \A d : Balance(c, t) # Binary(d)
    BY DEF Balance, Sequence, Binary
  <2>4. cells[Balance(c, t)] = 0
    BY <2>1, <2>3 DEF Init
  <2> QED
    BY <2>2, <2>4
<1>3. Purse(View, t) = 0
  <2>1. Column(View, t) \in [Contracts -> Nat] /\ \A c \in Contracts : Column(View, t)[c] = 0
    BY <1>1, <1>2, PurseTyped DEF Column
  <2> QED
    BY <2>1, SumOfNone DEF Purse
<1>4. sheet[t] = 0 /\ spent[t] = 0 /\ incoming[t] = 0 /\ outside[t] = Supply[t] /\ Supply[t] \in Nat
  BY MessageAssumption DEF Init, NoAlkanes
<1> QED
  BY <1>1, <1>3, <1>4 DEF Balanced

LEMMA StutterBalanced ==
  ASSUME NEW t, Balanced(t), UNCHANGED vars
  PROVE  Balanced(t)'
BY DEF Balanced, Purse, Column, Count, Began, View, ViewAt, vars, sheets

\* Of a token whose contract never runs, nothing is ever made or lost: what
\* contracts hold and what outputs hold is what there was, through every
\* nesting of calls that return, fail or are undone, provided there is no
\* more of it than a u128 counts (transfer_from wraps; handle_message and
\* process_message pay and refund).
THEOREM NothingMadeOrLost == ForeignTokens => (Spec => []Conserved)
<1> SUFFICES ASSUME ForeignTokens PROVE Spec => []Conserved
  OBVIOUS
<1>1. Init => AllBalanced
  BY InitBalanced DEF AllBalanced
<1>2. ViewInv /\ AllBalanced /\ [Next]_vars => AllBalanced'
  <2> SUFFICES ASSUME ViewInv, AllBalanced, [Next]_vars, NEW t \in Tokens \ Called
               PROVE  Balanced(t)'
    BY DEF AllBalanced
  <2>1. Balanced(t) /\ Foreign(t)
    BY DEF AllBalanced, ForeignTokens
  <2> QED
    BY <2>1, StepBalanced, StutterBalanced
<1>3. AllBalanced => Conserved
  BY DEF AllBalanced, Balanced, Conserved, Held, Purse, Column
<1> QED
  BY <1>1, <1>2, <1>3, ViewsAlways, PTL DEF Spec

=============================================================================
