------------------------------ MODULE RewardLedger ------------------------------
(***************************************************************************)
(* What the miner service promises its miners, without requests, queues,   *)
(* reservations or provider calls: a round is won at most once, for good,  *)
(* every win is credited once, and every won round enters at most one      *)
(* claim receipt, which only its winner gets. How often that receipt names *)
(* the round is not promised.                                              *)
(***************************************************************************)
EXTENDS Naturals

CONSTANTS Miners, RoundIds, None

VARIABLES
  winner,    \* the miner a round was won by
  wins,      \* how many wins a miner was credited with
  receipted  \* how often claim receipts name the round

ledgerVars == <<winner, wins, receipted>>

LedgerInit ==
  /\ winner = [r \in RoundIds |-> None]
  /\ wins = [m \in Miners |-> 0]
  /\ receipted = [r \in RoundIds |-> 0]

\* A round that nobody has won goes to one miner.
Win(r, m) ==
  /\ winner[r] = None
  /\ winner' = [winner EXCEPT ![r] = m]
  /\ wins' = [wins EXCEPT ![m] = @ + 1]
  /\ UNCHANGED receipted

\* A receipt names rounds of one winner that no receipt has named before, each of
\* them once or more.
Receipt(m, rs) ==
  /\ \A r \in rs : winner[r] = m /\ receipted[r] = 0
  /\ DOMAIN receipted' = RoundIds
  /\ \A r \in rs : receipted'[r] \in Nat \ {0}
  /\ \A r \in RoundIds \ rs : receipted'[r] = receipted[r]
  /\ UNCHANGED <<winner, wins>>

LedgerNext ==
  \E m \in Miners :
    \/ \E r \in RoundIds : Win(r, m)
    \/ \E rs \in (SUBSET RoundIds) \ {{}} : Receipt(m, rs)

LedgerSpec == LedgerInit /\ [][LedgerNext]_ledgerVars

=============================================================================
