--------------------------- MODULE MCClaimSettlement ---------------------------
(***************************************************************************)
(* An instance of ClaimSettlement for TLC: a receipt for one reward and a  *)
(* receipt for two; and properties the code breaks.                        *)
(***************************************************************************)
EXTENDS ClaimSettlement, TLC

CONSTANTS one, two, h1, h2, q1, q2

OneAndTwo == (one :> 1) @@ (two :> 2)

\* "ClaimManager verifies the signed receipt and replay state": a receipt is paid
\* once. The contract sees a hash only, and the server passes on whichever hash the
\* client has put into its prepared claim.
ReceiptPaidOnce ==
  \A c \in Claims, h, k \in Hashes : minted[c][h] > 0 /\ minted[c][k] > 0 => h = k

\* "should consume one auth-token unit per successful settlement so authority never
\* flows to the miner payout output". The refund of a call that is rolled back does.
AuthorityStaysHome == strayed = 0

\* "supplies exactly one ClaimManager self-auth token unit": it supplies all units
\* of the outputs it spends.
OneUnitEach == kept = Cardinality(settled)

=============================================================================
