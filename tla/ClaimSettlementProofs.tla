------------------------- MODULE ClaimSettlementProofs -------------------------
(***************************************************************************)
(* Proofs about ClaimSettlement, for any claims, claim hashes, rewards,    *)
(* cap, premine, number of auth units and number of overlapping requests.  *)
(***************************************************************************)
EXTENDS ClaimSettlement, FiniteSetTheorems, TLAPS

\* What the contracts and the transactions on their way keep: inductive.
Settlement == TypeOK /\ PaidOnce /\ SupplyCapped /\ AuthBacked

\* Deployment leaves a settlement state behind.
LEMMA InitSettles == Init => Settlement
<1> SUFFICES ASSUME Init PROVE Settlement
  OBVIOUS
<1> USE SettlementAssumption DEF Init
<1>1. TypeOK
  BY DEF TypeOK, Idle, Never
<1>2. PaidOnce
  BY DEF PaidOnce, Never
<1>3. SupplyCapped
  BY DEF SupplyCapped
<1>4. AuthBacked
  BY FS_EmptySet DEF AuthBacked
<1>5. QED
  BY <1>1, <1>2, <1>3, <1>4 DEF Settlement

\* What a step of the server changes neither the contracts nor the wallet sees.
LEMMA ServerSteps ==
  ASSUME Settlement, TypeOK', UNCHANGED chain
  PROVE  Settlement'
BY DEF Settlement, PaidOnce, SupplyCapped, AuthBacked, chain

\* Receipts, requests, answers and provider errors have their types.
LEMMA RequestSteps ==
  ASSUME Settlement,
         \/ \E c \in Claims : Issue(c)
         \/ \E q \in Calls :
              \/ \E c \in Claims, h \in Hashes : Submit(q, c, h)
              \/ Broadcast(q) \/ ProviderError(q) \/ Record(q)
  PROVE  Settlement'
<1> USE DEF Settlement
<1>1. CASE \E c \in Claims : Issue(c)
  <2>1. PICK c \in Claims : Issue(c)
    BY <1>1
  <2>2. TypeOK'
    BY <2>1 DEF Issue, TypeOK, chain
  <2>3. QED
    BY <2>1, <2>2, ServerSteps DEF Issue
<1>2. ASSUME NEW q \in Calls, NEW c \in Claims, NEW h \in Hashes, Submit(q, c, h)
      PROVE  Settlement'
  <2>1. TypeOK'
    BY <1>2 DEF Submit, TypeOK, chain
  <2>2. QED
    BY <1>2, <2>1, ServerSteps DEF Submit
<1>3. ASSUME NEW q \in Calls, Broadcast(q)
      PROVE  Settlement'
  <2>1. calls[q].claim \in Claims /\ calls[q].hash \in Hashes
    BY <1>3 DEF Broadcast, TypeOK
  <2>2. waiting' \in [Claims -> [Hashes -> Nat]]
    BY <1>3, <2>1 DEF Broadcast, TypeOK
  <2>3. /\ calls' = [calls EXCEPT ![q] = [calls[q] EXCEPT !.pc = "sent"]]
        /\ calls[q] \in [pc : {"idle", "building", "sent"},
                         claim : Claims \cup {None}, hash : Hashes \cup {None}]
    BY <1>3 DEF Broadcast, TypeOK
  <2>4. [calls[q] EXCEPT !.pc = "sent"] =
          [pc |-> "sent", claim |-> calls[q].claim, hash |-> calls[q].hash]
    BY <2>3
  <2>5. /\ calls' \in [Calls -> [pc : {"idle", "building", "sent"},
                                 claim : Claims \cup {None}, hash : Hashes \cup {None}]]
        /\ \A p \in Calls : calls'[p].pc # "idle" =>
             calls'[p].claim \in Claims /\ calls'[p].hash \in Hashes
    BY <2>1, <2>3, <2>4 DEF TypeOK
  <2>6. /\ UNCHANGED <<receipt, recorded, chain, lost, crashes>>
        /\ broadcasts \in Nat /\ broadcasts' = broadcasts + 1
    BY <1>3 DEF Broadcast, TypeOK
  <2>7. TypeOK'
    BY <2>2, <2>5, <2>6, TypeOK DEF TypeOK, chain
  <2>8. QED
    BY <1>3, <2>7, ServerSteps DEF Broadcast
<1>4. ASSUME NEW q \in Calls, ProviderError(q)
      PROVE  Settlement'
  <2>1. TypeOK'
    BY <1>4 DEF ProviderError, Idle, TypeOK, chain
  <2>2. QED
    BY <1>4, <2>1, ServerSteps DEF ProviderError
<1>5. ASSUME NEW q \in Calls, Record(q)
      PROVE  Settlement'
  <2>1. calls[q].claim \in Claims /\ calls[q].hash \in Hashes
    BY <1>5 DEF Record, TypeOK
  <2>2. TypeOK'
    BY <1>5, <2>1 DEF Record, Idle, TypeOK, chain
  <2>3. QED
    BY <1>5, <2>2, ServerSteps DEF Record
<1>6. QED
  BY <1>1, <1>2, <1>3, <1>4, <1>5

\* A restart, with whatever alkanes-cli processes it leaves behind.
LEMMA CrashSettles ==
  ASSUME Settlement, NEW orphans \in SUBSET Calls, Crash(orphans)
  PROVE  Settlement'
<1> USE SettlementAssumption DEF Settlement
<1> DEFINE Left(c, h) == {q \in orphans : calls[q].claim = c /\ calls[q].hash = h}
<1>1. IsFiniteSet(orphans) /\ \A c \in Claims, h \in Hashes : IsFiniteSet(Left(c, h))
  BY FS_Subset
<1>2. Cardinality(orphans) \in Nat /\ \A c \in Claims, h \in Hashes : Cardinality(Left(c, h)) \in Nat
  BY <1>1, FS_CardinalityType
<1>3. /\ waiting' \in [Claims -> [Hashes -> Nat]]
      /\ broadcasts' \in Nat
  <2>1. waiting' = [c \in Claims |-> [h \in Hashes |-> waiting[c][h] + Cardinality(Left(c, h))]]
    BY DEF Crash
  <2> HIDE DEF Left
  <2>2. \A c \in Claims, h \in Hashes : waiting[c][h] + Cardinality(Left(c, h)) \in Nat
    BY <1>2 DEF TypeOK
  <2>3. broadcasts' \in Nat
    BY <1>2 DEF Crash, TypeOK
  <2>4. QED
    BY <2>1, <2>2, <2>3
<1>4. receipt' \in [Claims -> {"none", "receipt_issued", "submitted", "lost"}]
  BY DEF Crash, TypeOK
<1>5. TypeOK'
  BY <1>3, <1>4 DEF Crash, Idle, TypeOK, chain
<1>6. QED
  BY <1>5, ServerSteps DEF Crash

\* A confirmed transaction takes its auth units out of the wallet.
LEMMA ConfirmedTypes ==
  ASSUME TypeOK, NEW c \in Claims, NEW h \in Hashes, NEW n \in 1..AuthUnits, Confirms(c, h, n)
  PROVE  /\ waiting' \in [Claims -> [Hashes -> Nat]]
         /\ n \in Nat /\ n >= 1 /\ held' \in Nat /\ held' + n = held
<1> USE SettlementAssumption
<1>1. waiting[c] \in [Hashes -> Nat] /\ waiting[c][h] - 1 \in Nat
  BY DEF Confirms, TypeOK
<1>2. waiting' = [waiting EXCEPT ![c] = [waiting[c] EXCEPT ![h] = waiting[c][h] - 1]]
  BY DEF Confirms
<1>3. waiting' \in [Claims -> [Hashes -> Nat]]
  BY <1>1, <1>2 DEF TypeOK
<1>4. n \in Nat /\ n >= 1 /\ held \in Nat /\ n <= held /\ held' = held - n
  BY DEF Confirms, TypeOK
<1>5. QED
  BY <1>3, <1>4

\* A settlement marks its hash, mints once, and leaves at least one auth unit with
\* the claim manager.
LEMMA SettleClaimSettles ==
  ASSUME Settlement, NEW c \in Claims, NEW h \in Hashes, NEW n \in 1..AuthUnits,
         SettleClaim(c, h, n)
  PROVE  Settlement'
<1> USE SettlementAssumption DEF Settlement
<1>1. Units[c] \in Nat
  OBVIOUS
<1>2. /\ waiting' \in [Claims -> [Hashes -> Nat]]
      /\ n \in Nat /\ n >= 1 /\ held' \in Nat /\ held' + n = held
  BY ConfirmedTypes DEF SettleClaim
<1>3. /\ minted' \in [Claims -> [Hashes -> Nat]]
      /\ minted'[c][h] = minted[c][h] + 1
      /\ \A d \in Claims, k \in Hashes : d # c \/ k # h => minted'[d][k] = minted[d][k]
  <2>1. minted[c] \in [Hashes -> Nat]
    BY DEF TypeOK
  <2>2. minted' = [minted EXCEPT ![c] = [minted[c] EXCEPT ![h] = minted[c][h] + 1]]
    BY DEF SettleClaim
  <2>3. QED
    BY <2>1, <2>2 DEF TypeOK
<1>4. TypeOK'
  BY <1>1, <1>2, <1>3 DEF SettleClaim, TypeOK, server
<1>5. PaidOnce'
  <2> SUFFICES ASSUME NEW k \in Hashes
               PROVE  /\ k \notin settled' => \A d \in Claims : minted'[d][k] = 0
                      /\ k \in settled' =>
                           \E d \in Claims : /\ minted'[d][k] = 1
                                             /\ \A e \in Claims \ {d} : minted'[e][k] = 0
    BY DEF PaidOnce
  <2>1. settled' = settled \cup {h} /\ h \notin settled
    BY DEF SettleClaim
  <2>2. CASE k = h
    <3>1. \A d \in Claims : minted[d][h] = 0
      BY <2>1 DEF PaidOnce
    <3>2. minted'[c][h] = 1 /\ \A e \in Claims \ {c} : minted'[e][h] = 0
      BY <1>3, <3>1
    <3>3. QED
      BY <2>1, <2>2, <3>2
  <2>3. CASE k # h
    <3>1. \A d \in Claims : minted'[d][k] = minted[d][k]
      BY <1>3, <2>3
    <3>2. k \in settled' <=> k \in settled
      BY <2>1, <2>3
    <3>3. QED
      BY <3>1, <3>2 DEF PaidOnce
  <2>4. QED
    BY <2>2, <2>3
<1>6. SupplyCapped'
  BY DEF SettleClaim, CanMint, SupplyCapped
<1>7. AuthBacked'
  <2>1. IsFiniteSet(settled)
    BY FS_Subset DEF TypeOK
  <2>2. Cardinality(settled) \in Nat /\ Cardinality(settled \cup {h}) = Cardinality(settled) + 1
    BY <2>1, FS_AddElement, FS_CardinalityType DEF SettleClaim
  <2>3. /\ kept' = kept + n /\ strayed' = strayed /\ kept \in Nat /\ strayed \in Nat
        /\ held \in Nat /\ settled' = settled \cup {h}
        /\ held + kept + strayed = AuthUnits /\ Cardinality(settled) <= kept
    BY DEF SettleClaim, TypeOK, AuthBacked
  <2>4. n \in Nat /\ n >= 1 /\ held' = held - n /\ AuthUnits \in Nat
    BY <1>2 DEF SettleClaim, Confirms
  <2>5. held' + kept' + strayed' = AuthUnits
    BY ONLY <2>3, <2>4
  <2>6. Cardinality(settled') <= kept'
    BY ONLY <2>2, <2>3, <2>4
  <2>7. QED
    BY ONLY <2>5, <2>6 DEF AuthBacked
<1>8. QED
  BY <1>4, <1>5, <1>6, <1>7

\* A refused settlement, a lost transaction and a burn pay nothing out.
LEMMA OtherChainSteps ==
  ASSUME Settlement,
         \/ \E c \in Claims, h \in Hashes :
              (\E n \in 1..AuthUnits : SettleReverts(c, h, n)) \/ LoseTransaction(c, h)
         \/ Burn
  PROVE  Settlement'
<1> USE SettlementAssumption DEF Settlement
<1>1. ASSUME NEW c \in Claims, NEW h \in Hashes, NEW n \in 1..AuthUnits, SettleReverts(c, h, n)
      PROVE  Settlement'
  <2>1. /\ waiting' \in [Claims -> [Hashes -> Nat]]
        /\ n \in Nat /\ n >= 1 /\ held' \in Nat /\ held' + n = held
    BY <1>1, ConfirmedTypes DEF SettleReverts
  <2>2. TypeOK'
    BY <1>1, <2>1 DEF SettleReverts, TypeOK, server
  <2>3. /\ strayed' = strayed + n /\ kept' = kept /\ settled' = settled
        /\ strayed \in Nat /\ kept \in Nat
        /\ held + kept + strayed = AuthUnits /\ Cardinality(settled) <= kept
    BY <1>1 DEF SettleReverts, TypeOK, AuthBacked
  <2>4. held' + kept' + strayed' = AuthUnits
    BY ONLY <2>1, <2>3
  <2>5. AuthBacked'
    BY ONLY <2>3, <2>4 DEF AuthBacked
  <2>6. QED
    BY <1>1, <2>2, <2>5 DEF SettleReverts, PaidOnce, SupplyCapped
<1>2. ASSUME NEW c \in Claims, NEW h \in Hashes, LoseTransaction(c, h)
      PROVE  Settlement'
  <2>1. waiting[c] \in [Hashes -> Nat] /\ waiting[c][h] - 1 \in Nat
    BY <1>2 DEF LoseTransaction, TypeOK
  <2>2. waiting' = [waiting EXCEPT ![c] = [waiting[c] EXCEPT ![h] = waiting[c][h] - 1]]
    BY <1>2 DEF LoseTransaction
  <2>3. waiting' \in [Claims -> [Hashes -> Nat]]
    BY <2>1, <2>2 DEF TypeOK
  <2>4. TypeOK'
    BY <1>2, <2>3 DEF LoseTransaction, TypeOK, server, chain
  <2>5. QED
    BY <1>2, <2>4, ServerSteps DEF LoseTransaction
<1>3. CASE Burn
  <2>1. TypeOK'
    BY <1>3 DEF Burn, TypeOK, server
  <2>2. SupplyCapped'
    BY <1>3 DEF Burn, SupplyCapped, TypeOK
  <2>3. QED
    BY <1>3, <2>1, <2>2 DEF Burn, PaidOnce, AuthBacked
<1>4. QED
  BY <1>1, <1>2, <1>3

\* Every step keeps a settlement state.
LEMMA StepSettles == Settlement /\ [Next]_vars => Settlement'
<1> SUFFICES ASSUME Settlement, [Next]_vars PROVE Settlement'
  OBVIOUS
<1>1. CASE UNCHANGED vars
  BY <1>1 DEF vars, server, chain, Settlement, TypeOK, PaidOnce, SupplyCapped, AuthBacked
<1>2. CASE Next
  BY <1>2, RequestSteps, CrashSettles, SettleClaimSettles, OtherChainSteps DEF Next
<1>3. QED
  BY <1>1, <1>2

\* The strengthening holds in every reachable state.
LEMMA AlwaysSettles == Spec => []Settlement
BY InitSettles, StepSettles, PTL DEF Spec

\* Every state of the server, the contracts and the wallet is well formed: no
\* balance, supply or number of auth units goes below zero.
THEOREM TypeCorrect == Spec => []TypeOK
BY AlwaysSettles, PTL DEF Settlement

\* No claim hash is ever paid twice (submitClaim, settle_claim), however many
\* requests overlap, whichever receipts come with it, and however often the server
\* restarts.
THEOREM PaidOnceEver == Spec => []PaidOnce
BY AlwaysSettles, PTL DEF Settlement

\* The token never passes its cap (ensure_can_mint), burns included.
THEOREM CapHolds == Spec => []SupplyCapped
BY AlwaysSettles, PTL DEF Settlement

\* Of the auth units the claim manager minted, each is in the wallet, with the claim
\* manager, or refunded by a call that was rolled back; and for every settled hash
\* one has stayed with the claim manager (only_owner, settle_claim).
THEOREM AuthBackedEver == Spec => []AuthBacked
BY AlwaysSettles, PTL DEF Settlement

=============================================================================
