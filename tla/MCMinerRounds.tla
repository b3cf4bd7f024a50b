----------------------------- MODULE MCMinerRounds -----------------------------
(***************************************************************************)
(* Properties and instances of MinerRounds for TLC.                        *)
(***************************************************************************)
EXTENDS MinerRounds, TLC

CONSTANTS
  m1, m2, m3, c1, c2,
  MaxAnswers  \* bound: answers taken in the first round

Interchangeable == Permutations(Miners) \cup Permutations(Calls)

\* Answers taken in all rounds together, right or wrong; every further round
\* leaves room for one less.
Answers ==
  LET upTo[r \in 0..MaxRounds] ==
        IF r = 0 THEN 0 ELSE upTo[r - 1] + Cardinality(rounds[r].attempted)
  IN  upTo[MaxRounds]

FewAnswers == Answers + opened <= MaxAnswers + 1

-----------------------------------------------------------------------------
(* A service that handles one request at a time decides every answer. *)

Waits(r, i) == i \in DOMAIN rounds[r].queue /\ rounds[r].queue[i].status = "queued"

\* A correct answer is decided: its miner pays, fails to, is found without the
\* balance, or somebody else has won. Nobody waits in a queue for ever.
QueueDecided ==
  \A r \in RoundIds, i \in 1..Cardinality(Miners) :
    Waits(r, i) ~> (~Waits(r, i) \/ rounds[r].winner # None)

-----------------------------------------------------------------------------
(* A property that does not hold even of a service that handles one request  *)
(* at a time.                                                                *)

\* A receipt names a round, and adds up its reward, once. requestClaimReceipt does
\* not look for repetitions in its list.
WinCountedOnce == \A k \in ClaimIds : receipts[k] <= 1

-----------------------------------------------------------------------------
(* Properties that do not hold when requests overlap in a provider call. *)

\* "select provisional winners atomically": at most one reservation of a round
\* waits for its payment.
OneProvisionalWinner ==
  \A j, k \in ClaimIds :
    (Pending(j) /\ Pending(k) /\ rewards[j].round = rewards[k].round) => j = k

\* "FCFS order is determined by backend receive time": while an answer that has been
\* received waits for a provider, none for the same round that is received later is
\* taken ahead of it.
NoOvertaking ==
  [][\A b, c \in Calls :
       (/\ calls[b].pc = "lookup" /\ calls[b].then = "solve"
        /\ calls[c].pc = "idle" /\ calls'[c].pc = "solve")
         => calls'[c].asked # calls[b].asked]_vars

=============================================================================
