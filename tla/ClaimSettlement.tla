---------------------------- MODULE ClaimSettlement ----------------------------
(***************************************************************************)
(* From a claim receipt to minted tokens: submitClaim of the Engine miner  *)
(* server, the settlement transaction it has alkanes-cli build, and the    *)
(* two contracts the transaction runs, EngineClaimManager and EngineToken. *)
(*                                                                         *)
(* The server remembers a submission only when the provider has answered,  *)
(* so a claim can be submitted again while its first transaction is on its *)
(* way: two requests overlap, alkanes-cli fails after it has broadcast, or *)
(* a client retries. The contract is what keeps a claim hash from being    *)
(* paid twice. The server keeps its receipts in memory only.               *)
(*                                                                         *)
(* The claim hash is the client's: the provider takes it from the prepared *)
(* claim's backendVerification, which the server does not compare with the *)
(* receipt. So a receipt may be submitted under any hash.                  *)
(*                                                                         *)
(* A claim stands for its receipt and its signed claim. The relay and the  *)
(* development provider, which settle nothing themselves, the checks of    *)
(* assertSignedClaimIsValid on signatures, and what becomes of auth units  *)
(* that have left the operator's wallet are left out; what a contract call *)
(* writes is undone when it fails.                                         *)
(***************************************************************************)
EXTENDS Integers, FiniteSets

CONSTANTS
  Claims,         \* claim receipts
  Hashes,         \* claim hashes clients submit
  Units,          \* reward tokens of a claim
  Cap, Premine,   \* parameters of EngineToken
  AuthUnits,      \* settlement auth units minted by the claim manager
  Calls,          \* submitClaim requests that can overlap
  MaxBroadcasts,  \* bound: settlement transactions ever broadcast
  MaxLost,        \* bound: transactions that never confirm
  MaxCrashes,     \* bound: restarts of the server
  MaxBurned,      \* bound: tokens burned
  None

ASSUME SettlementAssumption ==
  /\ IsFiniteSet(Hashes)
  /\ IsFiniteSet(Calls)
  /\ Units \in [Claims -> Nat]
  /\ Cap \in Nat
  /\ Premine \in 0..Cap
  /\ AuthUnits \in Nat
  /\ None \notin Claims \cup Hashes

VARIABLES
  receipt,    \* claimReceipts: the status of a receipt the server knows
  recorded,   \* claimSubmissions: the hash a claim was submitted under, or None
  calls,      \* the submitClaim requests in progress
  waiting,    \* settlement transactions of a claim and hash not confirmed yet
  settled,    \* settled_claims of the claim manager
  held,       \* auth units in the operator's wallet
  kept,       \* auth units that have stayed with the claim manager
  strayed,    \* auth units refunded to payout outputs
  supply,     \* totalsupply of the token
  minted,     \* how often a claim was paid out under a hash
  burned,     \* tokens burned
  refused,    \* hashes the cap has kept from being minted
  broadcasts, lost, crashes  \* counters for the bounds

server == <<receipt, recorded, calls>>
chain == <<settled, held, kept, strayed, supply, minted, burned, refused>>
vars == <<server, waiting, chain, broadcasts, lost, crashes>>

Idle == [pc |-> "idle", claim |-> None, hash |-> None]
Never == [c \in Claims |-> [h \in Hashes |-> 0]]

\* The contracts are deployed and initialized; the claim manager hands its auth
\* units to the operator, the token its premine.
Init ==
  /\ receipt = [c \in Claims |-> "none"]
  /\ recorded = [c \in Claims |-> None]
  /\ calls = [q \in Calls |-> Idle]
  /\ waiting = Never
  /\ settled = {}
  /\ held = AuthUnits /\ kept = 0 /\ strayed = 0
  /\ supply = Premine
  /\ minted = Never
  /\ burned = 0
  /\ refused = {}
  /\ broadcasts = 0 /\ lost = 0 /\ crashes = 0

-----------------------------------------------------------------------------
(* The server. *)

\* requestClaimReceipt has issued the receipt; its id is never used again.
Issue(c) ==
  /\ receipt[c] = "none"
  /\ receipt' = [receipt EXCEPT ![c] = "receipt_issued"]
  /\ UNCHANGED <<recorded, calls, waiting, chain, broadcasts, lost, crashes>>

\* submitClaim of a known receipt without a recorded submission goes to the
\* provider, with the hash the client gives. Any other one is answered or refused at
\* once and changes nothing.
Submit(q, c, h) ==
  /\ calls[q].pc = "idle"
  /\ receipt[c] \in {"receipt_issued", "submitted"}
  /\ recorded[c] = None
  /\ calls' = [calls EXCEPT ![q] = [pc |-> "building", claim |-> c, hash |-> h]]
  /\ UNCHANGED <<receipt, recorded, waiting, chain, broadcasts, lost, crashes>>

\* alkanes-cli finds an auth unit and the fee inputs and broadcasts.
Broadcast(q) ==
  LET c == calls[q].claim
      h == calls[q].hash
  IN  /\ calls[q].pc = "building"
      /\ held > 0
      /\ broadcasts < MaxBroadcasts
      /\ waiting' = [waiting EXCEPT ![c][h] = @ + 1]
      /\ broadcasts' = broadcasts + 1
      /\ calls' = [calls EXCEPT ![q].pc = "sent"]
      /\ UNCHANGED <<receipt, recorded, chain, lost, crashes>>

\* The provider throws: no wallet, no inputs, or, after the broadcast, a failing
\* exit status or an output without a reveal txid.
ProviderError(q) ==
  /\ calls[q].pc \in {"building", "sent"}
  /\ calls' = [calls EXCEPT ![q] = Idle]
  /\ UNCHANGED <<receipt, recorded, waiting, chain, broadcasts, lost, crashes>>

\* Mutant: the claim is answered before it is broadcast.
Record_Early(q) ==
  LET c == calls[q].claim
  IN  /\ calls[q].pc # "idle"
      /\ recorded' = [recorded EXCEPT ![c] = calls[q].hash]
      /\ receipt' = [receipt EXCEPT ![c] = "submitted"]
      /\ calls' = [calls EXCEPT ![q] = Idle]
      /\ UNCHANGED <<waiting, chain, broadcasts, lost, crashes>>

\* The provider answers with the txid.
Record(q) ==
  LET c == calls[q].claim
  IN  /\ calls[q].pc = "sent"
      /\ recorded' = [recorded EXCEPT ![c] = calls[q].hash]
      /\ receipt' = [receipt EXCEPT ![c] = "submitted"]
      /\ calls' = [calls EXCEPT ![q] = Idle]
      /\ UNCHANGED <<waiting, chain, broadcasts, lost, crashes>>

\* A restart forgets receipts, submissions and requests. Of the alkanes-cli
\* processes that were still building, some broadcast nevertheless.
Crash(orphans) ==
  /\ crashes < MaxCrashes
  /\ orphans \subseteq {q \in Calls : calls[q].pc = "building"}
  /\ held > 0 \/ orphans = {}
  /\ broadcasts + Cardinality(orphans) <= MaxBroadcasts
  /\ waiting' = [c \in Claims |-> [h \in Hashes |->
       waiting[c][h] + Cardinality({q \in orphans : calls[q].claim = c /\ calls[q].hash = h})]]
  /\ broadcasts' = broadcasts + Cardinality(orphans)
  /\ receipt' = [c \in Claims |-> IF receipt[c] = "none" THEN "none" ELSE "lost"]
  /\ recorded' = [c \in Claims |-> None]
  /\ calls' = [q \in Calls |-> Idle]
  /\ crashes' = crashes + 1
  /\ UNCHANGED <<chain, lost>>

-----------------------------------------------------------------------------
(* The chain and the contracts. *)

\* Mutant: the supply is checked without the new tokens.
CanMint_Before(n) == supply <= Cap

\* ensure_can_mint
CanMint(n) == supply + n <= Cap

\* A transaction for a claim and a hash confirms. It carries all auth units of the
\* outputs it spends, one or more: alkanes-cli asks for one and splits nothing off.
Confirms(c, h, n) ==
  /\ waiting[c][h] > 0
  /\ n \in 1..held
  /\ waiting' = [waiting EXCEPT ![c][h] = @ - 1]
  /\ held' = held - n

\* Mutant: no replay protection.
SettleClaim_Replayed(c, h, n) ==
  /\ Confirms(c, h, n)
  /\ CanMint(Units[c])
  /\ settled' = settled \cup {h}
  /\ supply' = supply + Units[c]
  /\ minted' = [minted EXCEPT ![c][h] = @ + 1]
  /\ kept' = kept + n
  /\ UNCHANGED <<server, strayed, burned, refused, broadcasts, lost, crashes>>

\* Mutant: the claim manager forwards the auth units with the tokens.
SettleClaim_Forwards(c, h, n) ==
  /\ Confirms(c, h, n)
  /\ h \notin settled
  /\ CanMint(Units[c])
  /\ settled' = settled \cup {h}
  /\ supply' = supply + Units[c]
  /\ minted' = [minted EXCEPT ![c][h] = @ + 1]
  /\ strayed' = strayed + n
  /\ UNCHANGED <<server, kept, burned, refused, broadcasts, lost, crashes>>

\* settle_claim marks the hash and calls the token, which mints. The response holds
\* the new tokens only: the auth units stay with the claim manager.
SettleClaim(c, h, n) ==
  /\ Confirms(c, h, n)
  /\ h \notin settled
  /\ CanMint(Units[c])
  /\ settled' = settled \cup {h}
  /\ supply' = supply + Units[c]
  /\ minted' = [minted EXCEPT ![c][h] = @ + 1]
  /\ kept' = kept + n
  /\ UNCHANGED <<server, strayed, burned, refused, broadcasts, lost, crashes>>

\* The hash was settled before, or the token would pass its cap: the whole call is
\* rolled back and the auth units go to the refund pointer, which is the payout
\* output by default.
SettleReverts(c, h, n) ==
  /\ Confirms(c, h, n)
  /\ h \in settled \/ ~CanMint(Units[c])
  /\ strayed' = strayed + n
  /\ refused' = IF h \in settled THEN refused ELSE refused \cup {h}
  /\ UNCHANGED <<server, settled, kept, supply, minted, burned, broadcasts, lost, crashes>>

\* A transaction never confirms: evicted, or its inputs were spent by another.
LoseTransaction(c, h) ==
  /\ waiting[c][h] > 0
  /\ lost < MaxLost
  /\ waiting' = [waiting EXCEPT ![c][h] = @ - 1]
  /\ lost' = lost + 1
  /\ UNCHANGED <<server, chain, broadcasts, crashes>>

\* A holder burns a token.
Burn ==
  /\ supply > 0
  /\ burned < MaxBurned
  /\ supply' = supply - 1
  /\ burned' = burned + 1
  /\ UNCHANGED <<server, waiting, settled, held, kept, strayed, minted, refused,
                 broadcasts, lost, crashes>>

-----------------------------------------------------------------------------

Settles(c, h) == \E n \in 1..AuthUnits : SettleClaim(c, h, n) \/ SettleReverts(c, h, n)

Next ==
  \/ \E c \in Claims : Issue(c)
  \/ \E c \in Claims, h \in Hashes :
       \/ \E n \in 1..AuthUnits : SettleClaim(c, h, n) \/ SettleReverts(c, h, n)
       \/ LoseTransaction(c, h)
  \/ \E q \in Calls :
       \/ \E c \in Claims, h \in Hashes : Submit(q, c, h)
       \/ Broadcast(q) \/ ProviderError(q) \/ Record(q)
  \/ \E orphans \in SUBSET Calls : Crash(orphans)
  \/ Burn

Spec == Init /\ [][Next]_vars

\* Blocks are mined: a transaction that can confirm does.
LiveSpec == Spec /\ \A c \in Claims, h \in Hashes : WF_vars(Settles(c, h))

-----------------------------------------------------------------------------

TypeOK ==
  /\ receipt \in [Claims -> {"none", "receipt_issued", "submitted", "lost"}]
  /\ recorded \in [Claims -> Hashes \cup {None}]
  /\ calls \in [Calls -> [pc : {"idle", "building", "sent"},
                          claim : Claims \cup {None}, hash : Hashes \cup {None}]]
  /\ \A q \in Calls : calls[q].pc # "idle" => calls[q].claim \in Claims /\ calls[q].hash \in Hashes
  /\ waiting \in [Claims -> [Hashes -> Nat]]
  /\ settled \subseteq Hashes
  /\ held \in Nat /\ kept \in Nat /\ strayed \in Nat
  /\ supply \in Nat
  /\ minted \in [Claims -> [Hashes -> Nat]]
  /\ burned \in Nat
  /\ refused \subseteq Hashes
  /\ broadcasts \in Nat /\ lost \in Nat /\ crashes \in Nat

\* A claim hash is paid at most once, for one receipt, and is marked as settled
\* exactly when it was paid, whatever was submitted twice, lost, retried or forgotten
\* in a crash, and whichever receipts came with the same hash. That a receipt is
\* paid once does not follow: it may come with several hashes.
PaidOnce ==
  \A h \in Hashes :
    /\ h \notin settled => \A c \in Claims : minted[c][h] = 0
    /\ h \in settled =>
         \E c \in Claims : minted[c][h] = 1 /\ \A d \in Claims \ {c} : minted[d][h] = 0

\* The supply never passes the cap.
SupplyCapped == supply <= Cap

\* Every settled hash has cost at least one auth unit that stays with the claim
\* manager. Units leave the wallet in no other way but in the refund of a call that
\* is rolled back; lost transactions cost none.
AuthBacked ==
  held + kept + strayed = AuthUnits /\ Cardinality(settled) <= kept

\* The server answers "submitted" only for a claim that was broadcast: the hash it
\* was submitted under is settled in the end, unless a transaction is lost, the cap
\* refuses it, or the auth units are gone, settled with or refunded elsewhere.
SubmittedIsSettled ==
  \A c \in Claims, h \in Hashes :
    recorded[c] = h ~> (h \in settled \cup refused \/ lost > 0 \/ held = 0)

=============================================================================
