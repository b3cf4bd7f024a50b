------------------------------ MODULE MinerRounds ------------------------------
(***************************************************************************)
(* EngineMinerService of the Engine miner server: puzzle rounds, the       *)
(* first-come queue of correct answers, reservations with a payment        *)
(* window, claimable rewards and claim receipts, all kept in memory.       *)
(*                                                                         *)
(* The service has one thread. A step of the model is the code between two *)
(* awaits. Other requests get their turn while a request waits for a       *)
(* Bitcoin provider (the balance of a candidate, a payment transaction);   *)
(* where a handler only awaits the service's own async methods, its        *)
(* continuation runs before the next event, and only time passes.          *)
(* Nothing here runs on a timer: a window or a round that has run out is   *)
(* noticed by the next request that reconciles.                            *)
(*                                                                         *)
(* Left out: what is only reported back to a client (miningState,          *)
(* currentRoundId, lastSubmissionId, the funding balance), the puzzle, the *)
(* registration of miners, the receipt's signature and its 48-hour expiry, *)
(* which no handler reads.                                                 *)
(***************************************************************************)
EXTENDS Naturals, Sequences, FiniteSets

CONSTANTS
  Miners,     \* registered miners
  Calls,      \* requests that can be in progress at the same time
  MaxRounds,  \* bound: rounds ever opened
  MaxClaims,  \* bound: reservations ever handed out
  MaxNamed,   \* bound: how often a receipt request names one reward
  None

ASSUME RoundsAssumption ==
  /\ MaxRounds \in Nat \ {0}
  /\ MaxClaims \in Nat
  /\ MaxNamed \in Nat \ {0}
  /\ None \notin Miners

RoundIds == 1..MaxRounds
ClaimIds == 1..MaxClaims

CandidateStatus ==
  {"queued", "reservation_active", "paid", "underfunded", "payment_rejected", "timed_out"}
RewardStatus == {"none", "payment_pending", "claimable", "receipt_issued", "expired"}

\* A correct answer; claim is its reservation, 0 for none. A reservation and
\* its reward are one number here (claimReservationId, claimId).
Candidate == [miner : Miners, status : CandidateStatus, claim : 0..MaxClaims]

Round == [over : BOOLEAN,                 \* expiresAt has passed
          winner : Miners \cup {None},
          attempted : SUBSET Miners,
          queue : Seq(Candidate),
          held : 0..MaxClaims]            \* currentReservationId

Reward == [miner : Miners \cup {None}, round : 0..MaxRounds, status : RewardStatus,
           lapsed : BOOLEAN]              \* paymentDeadlineAt has passed

\* Where a request is: waiting for a candidate's balance, for a payment
\* transaction, or about to run the part of its handler behind reconcile.
CallPc == {"idle", "lookup", "validate", "open", "solve", "pay", "receipt"}

\* asked is the round an answer is for, claims how often a request names a
\* reservation or reward (claimIds is a list and may repeat one); round and at are
\* what it holds on to across a provider call.
Call == [pc : CallPc, then : CallPc, miner : Miners \cup {None}, asked : 0..MaxRounds,
         claims : [ClaimIds -> 0..MaxNamed], round : 0..MaxRounds, at : Nat]

VARIABLES
  rounds,    \* every round ever opened; a request may hold on to an old one
  opened,    \* roundCounter
  active,    \* activeRound, 0 for null
  rewards,   \* rewards and rewardReservations
  given,     \* reservations handed out so far
  receipts,  \* how often claim receipts name and count a reward
  wins,      \* totalWins of a miner
  calls      \* the requests in progress

serviceVars == <<rounds, opened, active, rewards, given, receipts, wins>>
vars == <<rounds, opened, active, rewards, given, receipts, wins, calls>>

NewRound == [over |-> FALSE, winner |-> None, attempted |-> {}, queue |-> <<>>, held |-> 0]
NoReward == [miner |-> None, round |-> 0, status |-> "none", lapsed |-> FALSE]
NoClaims == [k \in ClaimIds |-> 0]
NoCall == [pc |-> "idle", then |-> "idle", miner |-> None, asked |-> 0, claims |-> NoClaims,
           round |-> 0, at |-> 0]

\* The reservations or rewards a request names.
ClaimsOf(call) == {k \in ClaimIds : call.claims[k] > 0}

Init ==
  /\ rounds = [r \in RoundIds |-> NewRound]
  /\ opened = 0
  /\ active = 0
  /\ rewards = [k \in ClaimIds |-> NoReward]
  /\ given = 0
  /\ receipts = [k \in ClaimIds |-> 0]
  /\ wins = [m \in Miners |-> 0]
  /\ calls = [c \in Calls |-> NoCall]

-----------------------------------------------------------------------------
(* Rounds and their queues. *)

\* Mutant: the newest answer first.
NextQueued_Newest(queue, i) ==
  LET later == {j \in DOMAIN queue : j > i /\ queue[j].status = "queued"}
  IN  IF later = {} THEN 0 ELSE CHOOSE j \in later : \A k \in later : j >= k

\* The first queued candidate behind position i, 0 when there is none.
NextQueued(queue, i) ==
  LET later == {j \in DOMAIN queue : j > i /\ queue[j].status = "queued"}
  IN  IF later = {} THEN 0 ELSE CHOOSE j \in later : \A k \in later : j <= k

\* Marks the candidate that still names claim k, if there is one.
Marked(queue, k, status) ==
  [i \in DOMAIN queue |->
     IF queue[i].claim = k THEN [queue[i] EXCEPT !.status = status] ELSE queue[i]]

\* expireReservation: whatever reservation the round holds by now is dropped.
Dropped(round, k, status) ==
  [round EXCEPT !.held = 0, !.queue = Marked(@, k, status)]

\* Mutant: a round that is over closes although a reservation is still open.
Closable_Over(round) == round.winner # None \/ round.over

\* The end of reconcileActiveRoundState: the round is won, or it is over and
\* nobody is left to pay.
Closable(round) ==
  \/ round.winner # None
  \/ round.over /\ round.held = 0 /\ NextQueued(round.queue, 0) = 0

-----------------------------------------------------------------------------
(* reconcileActiveRoundState, run by request c before the part of its handler
   named by then, on the rounds rs and rewards rw its step has computed so far. *)

\* The request goes on with its handler, or is answered.
Continue(call, then) == [call EXCEPT !.pc = then, !.then = "idle", !.round = 0, !.at = 0]
Answered(call, then) == IF then = "idle" THEN NoCall ELSE Continue(call, then)

Reconcile(c, call, then, rs, ac, rw) ==
  IF ac = 0
  THEN /\ rounds' = rs
       /\ active' = 0
       /\ rewards' = rw
       /\ calls' = [calls EXCEPT ![c] = Answered(call, then)]
  ELSE LET k    == rs[ac].held
           late == k # 0 /\ rw[k].status = "payment_pending" /\ rw[k].lapsed
           rw1  == IF late THEN [rw EXCEPT ![k].status = "expired"] ELSE rw
           rnd  == IF late THEN Dropped(rs[ac], k, "timed_out")
                   ELSE IF k # 0 /\ rw[k].status # "payment_pending"
                   THEN [rs[ac] EXCEPT !.held = 0]
                   ELSE rs[ac]
           next == NextQueued(rnd.queue, 0)
       IN  /\ rounds' = [rs EXCEPT ![ac] = rnd]
           /\ rewards' = rw1
           /\ IF rnd.held = 0 /\ rnd.winner = None /\ next # 0
              THEN /\ active' = ac
                   /\ calls' = [calls EXCEPT ![c] =
                        [call EXCEPT !.pc = "lookup", !.then = then, !.round = ac, !.at = next]]
              ELSE /\ active' = IF Closable(rnd) THEN 0 ELSE ac
                   /\ calls' = [calls EXCEPT ![c] = Answered(call, then)]

\* The event loop takes the next request or provider answer once no handler has
\* a continuation to run.
EventTurn == \A c \in Calls : calls[c].pc \in {"idle", "lookup", "validate"}

Return(c) == calls' = [calls EXCEPT ![c] = NoCall]

\* promoteNextEligibleCandidate, after the balance of the candidate arrived and
\* does not cover the fee: on to the next queued candidate. With none left,
\* reconcile closes the round if it can, and sets activeRound to null whatever
\* round is active by then.
Underfunded(c) ==
  LET call == calls[c]
      rnd  == [rounds[call.round] EXCEPT !.queue[call.at].status = "underfunded"]
      next == NextQueued(rnd.queue, call.at)
  IN  /\ call.pc = "lookup"
      /\ EventTurn
      /\ rounds' = [rounds EXCEPT ![call.round] = rnd]
      /\ IF next # 0
         THEN /\ calls' = [calls EXCEPT ![c].at = next]
              /\ UNCHANGED active
         ELSE /\ calls' = [calls EXCEPT ![c] = Answered(call, call.then)]
              /\ active' = IF Closable(rnd) THEN 0 ELSE active
      /\ UNCHANGED <<opened, rewards, given, receipts, wins>>

\* The same with a balance that covers the fee: the candidate gets a new
\* reservation, without another look at its status or at the round.
Promote(c) ==
  LET call == calls[c]
      k    == given + 1
      rnd  == [rounds[call.round] EXCEPT
                 !.queue[call.at].status = "reservation_active",
                 !.queue[call.at].claim = k,
                 !.held = k]
  IN  /\ call.pc = "lookup"
      /\ EventTurn
      /\ given < MaxClaims
      /\ given' = k
      /\ rewards' = [rewards EXCEPT ![k] =
           [miner |-> rnd.queue[call.at].miner, round |-> call.round,
            status |-> "payment_pending", lapsed |-> FALSE]]
      /\ rounds' = [rounds EXCEPT ![call.round] = rnd]
      /\ active' = IF Closable(rnd) THEN 0 ELSE active
      /\ calls' = [calls EXCEPT ![c] = Answered(call, call.then)]
      /\ UNCHANGED <<opened, receipts, wins>>

-----------------------------------------------------------------------------
(* Requests arrive and run up to their first wait. *)

Arrive(c, then, m, r, ks) ==
  /\ calls[c].pc = "idle"
  /\ EventTurn
  /\ Reconcile(c, [NoCall EXCEPT !.miner = m, !.asked = r, !.claims = ks],
               then, rounds, active, rewards)
  /\ UNCHANGED <<opened, given, receipts, wins>>

\* startMining, getCurrentRound
AskRound(c) == Arrive(c, "open", None, 0, NoClaims)

\* getMinerStatus, listClaimableRewards
AskStatus(c) == Arrive(c, "idle", None, 0, NoClaims)

\* submitSolution with the id of a round the miner was told about
SubmitSolution(c, m, r) == Arrive(c, "solve", m, r, NoClaims)

\* submitClaimPayment for one of the miner's reservations
SubmitPayment(c, k) ==
  /\ k <= given
  /\ Arrive(c, "pay", rewards[k].miner, 0, [NoClaims EXCEPT ![k] = 1])

\* requestClaimReceipt for some of the miner's rewards, each named once or more
RequestReceipt(c, m, ks) ==
  /\ ks # NoClaims
  /\ \A k \in ClaimIds : ks[k] > 0 => rewards[k].miner = m
  /\ Arrive(c, "receipt", m, 0, ks)

-----------------------------------------------------------------------------
(* The handlers behind their first reconcile. *)

\* The tail of ensureActiveRound: the active round or a new one, 0 when the
\* bound on rounds is reached.
EnsuredRound ==
  IF active # 0 THEN active ELSE IF opened < MaxRounds THEN opened + 1 ELSE 0

\* Mutant: roundCounter is not increased.
Opened_Uncounted == opened

Opened == IF EnsuredRound > opened THEN EnsuredRound ELSE opened

GiveRound(c) ==
  /\ calls[c].pc = "open"
  /\ opened' = Opened
  /\ active' = EnsuredRound
  /\ Return(c)
  /\ UNCHANGED <<rounds, rewards, given, receipts, wins>>

\* round_mismatch, round_closed or attempt_limit_reached
RefuseSolution(c) ==
  LET call == calls[c]
      r    == EnsuredRound
  IN  /\ call.pc = "solve"
      /\ \/ call.asked # r
         \/ /\ call.asked = r
            /\ ~rounds[r].over
            /\ rounds[r].winner # None \/ call.miner \in rounds[r].attempted
      /\ opened' = Opened
      /\ active' = r
      /\ Return(c)
      /\ UNCHANGED <<rounds, rewards, given, receipts, wins>>

\* round_expired: the service reconciles once more, nothing is recorded.
SolutionTooLate(c) ==
  LET call == calls[c]
  IN  /\ call.pc = "solve"
      /\ call.asked = EnsuredRound
      /\ rounds[call.asked].over
      /\ Reconcile(c, NoCall, "idle", rounds, active, rewards)
      /\ UNCHANGED <<opened, given, receipts, wins>>

\* Mutant: the attempts of the round are not looked up.
TakeSolution_Again(c, right) ==
  LET call == calls[c]
      r    == EnsuredRound
      rnd  == [rounds[r] EXCEPT !.attempted = @ \cup {call.miner}]
      cand == [miner |-> call.miner, status |-> "queued", claim |-> 0]
  IN  /\ call.pc = "solve"
      /\ call.asked = r
      /\ r # 0
      /\ ~rounds[r].over
      /\ rounds[r].winner = None
      /\ opened' = Opened
      /\ IF right
         THEN Reconcile(c, NoCall, "idle",
                [rounds EXCEPT ![r] = [rnd EXCEPT !.queue = Append(@, cand)]], r, rewards)
         ELSE /\ rounds' = [rounds EXCEPT ![r] = rnd]
              /\ active' = r
              /\ Return(c)
              /\ UNCHANGED rewards
      /\ UNCHANGED <<given, receipts, wins>>

\* The attempt counts. A wrong answer ends here, a right one joins the queue
\* and the service reconciles again.
TakeSolution(c, right) ==
  LET call == calls[c]
      r    == EnsuredRound
      rnd  == [rounds[r] EXCEPT !.attempted = @ \cup {call.miner}]
      cand == [miner |-> call.miner, status |-> "queued", claim |-> 0]
  IN  /\ call.pc = "solve"
      /\ call.asked = r
      /\ r # 0
      /\ ~rounds[r].over
      /\ rounds[r].winner = None
      /\ call.miner \notin rounds[r].attempted
      /\ opened' = Opened
      /\ IF right
         THEN Reconcile(c, NoCall, "idle",
                [rounds EXCEPT ![r] = [rnd EXCEPT !.queue = Append(@, cand)]], r, rewards)
         ELSE /\ rounds' = [rounds EXCEPT ![r] = rnd]
              /\ active' = r
              /\ Return(c)
              /\ UNCHANGED rewards
      /\ UNCHANGED <<given, receipts, wins>>

Paid(c) == CHOOSE k \in ClaimsOf(calls[c]) : TRUE

\* The reservation was paid or has expired before, or its round is not active.
PaymentSettled(c) ==
  /\ calls[c].pc = "pay"
  /\ \/ rewards[Paid(c)].status # "payment_pending"
     \/ rewards[Paid(c)].round # active
  /\ Return(c)
  /\ UNCHANGED serviceVars

\* reservation_expired, noticed by the payment itself
PaymentTooLate(c) ==
  LET k == Paid(c)
  IN  /\ calls[c].pc = "pay"
      /\ rewards[k].status = "payment_pending"
      /\ rewards[k].round = active
      /\ rewards[k].lapsed
      /\ Reconcile(c, NoCall, "idle",
           [rounds EXCEPT ![active] = Dropped(@, k, "timed_out")], active,
           [rewards EXCEPT ![k].status = "expired"])
      /\ UNCHANGED <<opened, given, receipts, wins>>

\* validateClaimPayment asks a provider for the transaction.
LookUpPayment(c) ==
  LET k == Paid(c)
  IN  /\ calls[c].pc = "pay"
      /\ rewards[k].status = "payment_pending"
      /\ rewards[k].round = active
      /\ ~rewards[k].lapsed
      /\ calls' = [calls EXCEPT ![c].pc = "validate", ![c].round = active]
      /\ UNCHANGED serviceVars

\* Mutant: the reward gets the status of a candidate.
AcceptPayment_Paid(c) ==
  LET k == Paid(c)
      r == calls[c].round
      m == calls[c].miner
  IN  /\ calls[c].pc = "validate"
      /\ EventTurn
      /\ rewards' = [rewards EXCEPT ![k].status = "paid"]
      /\ rounds' = [rounds EXCEPT ![r].queue = Marked(@, k, "paid"),
                                  ![r].winner = m, ![r].held = 0]
      /\ wins' = [wins EXCEPT ![m] = @ + 1]
      /\ active' = 0
      /\ Return(c)
      /\ UNCHANGED <<opened, given, receipts>>

\* payment_accepted. Neither the reward nor the round is looked at again, and
\* activeRound becomes null whatever round is active by then.
AcceptPayment(c) ==
  LET k == Paid(c)
      r == calls[c].round
      m == calls[c].miner
  IN  /\ calls[c].pc = "validate"
      /\ EventTurn
      /\ rewards' = [rewards EXCEPT ![k].status = "claimable"]
      /\ rounds' = [rounds EXCEPT ![r].queue = Marked(@, k, "paid"),
                                  ![r].winner = m, ![r].held = 0]
      /\ wins' = [wins EXCEPT ![m] = @ + 1]
      /\ active' = 0
      /\ Return(c)
      /\ UNCHANGED <<opened, given, receipts>>

\* Mutant: the reward keeps its status.
RejectPayment_KeepsReward(c) ==
  LET k == Paid(c)
  IN  /\ calls[c].pc = "validate"
      /\ EventTurn
      /\ Reconcile(c, NoCall, "idle",
           [rounds EXCEPT ![calls[c].round] = Dropped(@, k, "payment_rejected")], active,
           rewards)
      /\ UNCHANGED <<opened, given, receipts, wins>>

\* payment_rejected: the reservation goes, and the service reconciles again.
RejectPayment(c) ==
  LET k == Paid(c)
  IN  /\ calls[c].pc = "validate"
      /\ EventTurn
      /\ Reconcile(c, NoCall, "idle",
           [rounds EXCEPT ![calls[c].round] = Dropped(@, k, "payment_rejected")], active,
           [rewards EXCEPT ![k].status = "expired"])
      /\ UNCHANGED <<opened, given, receipts, wins>>

\* The lookup throws: a provider hint or the treasury address is missing.
PaymentError(c) ==
  /\ calls[c].pc = "validate"
  /\ EventTurn
  /\ Return(c)
  /\ UNCHANGED serviceVars

\* Mutant: the status of the rewards is not checked.
IssueReceipt_Any(c) ==
  LET ks == ClaimsOf(calls[c])
  IN  /\ calls[c].pc = "receipt"
      /\ rewards' = [k \in ClaimIds |->
           IF k \in ks THEN [rewards[k] EXCEPT !.status = "receipt_issued"] ELSE rewards[k]]
      /\ receipts' = [k \in ClaimIds |-> receipts[k] + calls[c].claims[k]]
      /\ Return(c)
      /\ UNCHANGED <<rounds, opened, active, given, wins>>

\* One receipt for all the rewards named, or none when one is not claimable. The
\* list is checked before a status changes, and its rewards and rounds are put into
\* the receipt one by one: one that is named twice is counted twice.
IssueReceipt(c) ==
  LET ks == ClaimsOf(calls[c])
  IN  /\ calls[c].pc = "receipt"
      /\ IF \A k \in ks : rewards[k].status = "claimable"
         THEN /\ rewards' = [k \in ClaimIds |->
                   IF k \in ks THEN [rewards[k] EXCEPT !.status = "receipt_issued"]
                   ELSE rewards[k]]
              /\ receipts' = [k \in ClaimIds |-> receipts[k] + calls[c].claims[k]]
         ELSE UNCHANGED <<rewards, receipts>>
      /\ Return(c)
      /\ UNCHANGED <<rounds, opened, active, given, wins>>

-----------------------------------------------------------------------------
(* Time passes. *)

\* Only the active round, or one a request holds on to, is asked for its end.
RoundEnds(r) ==
  /\ r = active \/ \E c \in Calls : calls[c].round = r
  /\ ~rounds[r].over
  /\ rounds' = [rounds EXCEPT ![r].over = TRUE]
  /\ UNCHANGED <<opened, active, rewards, given, receipts, wins, calls>>

\* Only a pending reward of the active round is ever asked for its deadline.
WindowLapses(k) ==
  /\ rewards[k].status = "payment_pending"
  /\ rewards[k].round = active
  /\ ~rewards[k].lapsed
  /\ rewards' = [rewards EXCEPT ![k].lapsed = TRUE]
  /\ UNCHANGED <<rounds, opened, active, given, receipts, wins, calls>>

-----------------------------------------------------------------------------

Request(c) ==
  \/ AskRound(c)
  \/ AskStatus(c)
  \/ \E m \in Miners, r \in 1..opened : SubmitSolution(c, m, r)
  \/ \E k \in ClaimIds : SubmitPayment(c, k)
  \/ \E m \in Miners, ks \in [ClaimIds -> 0..MaxNamed] : RequestReceipt(c, m, ks)

Advance(c) ==
  \/ Underfunded(c) \/ Promote(c)
  \/ GiveRound(c)
  \/ RefuseSolution(c) \/ SolutionTooLate(c) \/ \E right \in BOOLEAN : TakeSolution(c, right)
  \/ PaymentSettled(c) \/ PaymentTooLate(c) \/ LookUpPayment(c)
  \/ AcceptPayment(c) \/ RejectPayment(c) \/ PaymentError(c)
  \/ IssueReceipt(c)

Time == (\E r \in RoundIds : RoundEnds(r)) \/ (\E k \in ClaimIds : WindowLapses(k))

Next == (\E c \in Calls : Request(c) \/ Advance(c)) \/ Time

Spec == Init /\ [][Next]_vars

\* The event loop runs every request on, providers answer, clocks run, and the
\* agents keep polling their status.
LiveSpec ==
  /\ Spec
  /\ \A c \in Calls : WF_vars(Advance(c))
  /\ WF_vars(Time)
  /\ SF_vars(\E c \in Calls : AskStatus(c))

-----------------------------------------------------------------------------
(* Properties, for any number of overlapping requests. *)

TypeOK ==
  /\ rounds \in [RoundIds -> Round]
  /\ opened \in 0..MaxRounds
  /\ active \in 0..MaxRounds
  /\ rewards \in [ClaimIds -> Reward]
  /\ given \in 0..MaxClaims
  /\ receipts \in [ClaimIds -> Nat]
  /\ wins \in [Miners -> Nat]
  /\ calls \in [Calls -> Call]

\* Requests that hold on to an older round may close the active one too early,
\* but never bring a round back: the active round is the newest one.
OnlyNewestRound == active \in {0, opened}

\* One attempt per round: two submissions of a miner that overlap in a provider
\* call never both join the queue, nor does one that follows a wrong answer.
OneAttempt ==
  \A r \in RoundIds : \A i, j \in DOMAIN rounds[r].queue :
    /\ rounds[r].queue[i].miner \in rounds[r].attempted
    /\ rounds[r].queue[i].miner = rounds[r].queue[j].miner => i = j

\* Every reservation, and so every receipt, belongs to a miner whose correct
\* answer is in the queue of its round; a reward is only claimable or in a
\* receipt when its round has been won.
RewardsEarned ==
  \A k \in 1..given :
    LET rnd == rounds[rewards[k].round]
    IN  /\ \E i \in DOMAIN rnd.queue : rnd.queue[i].miner = rewards[k].miner
        /\ (rewards[k].status \in {"claimable", "receipt_issued"} \/ receipts[k] > 0)
              => rnd.winner # None

\* First queued, first served: when a candidate becomes the provisional winner,
\* nobody who joined the queue of the round earlier is still waiting, whichever
\* lookup answered first. Answers are stamped and queued behind ensureActiveRound,
\* which may wait for a provider: not in the order they were received in.
FirstComeFirstServed ==
  [][\A r \in RoundIds : \A i \in DOMAIN rounds[r].queue :
       (/\ rounds[r].queue[i].status # "reservation_active"
        /\ rounds'[r].queue[i].status = "reservation_active")
         => \A j \in 1..(i - 1) : rounds[r].queue[j].status # "queued"]_vars

-----------------------------------------------------------------------------
(* Properties of a service that handles one request at a time. *)

Pending(k) == rewards[k].status = "payment_pending"

\* A reservation that waits for its payment is the one its round holds, and that
\* round is active: the provisional winner can still pay, and nobody else can.
\* (submitClaimPayment answers "no longer active" for any other round.)
PendingIsCurrent ==
  \A k \in ClaimIds : Pending(k) =>
    /\ active = rewards[k].round
    /\ rounds[active].held = k
    /\ rounds[active].winner = None

\* What f adds up to over all reservations.
Total(f) ==
  LET upTo[n \in 0..MaxClaims] == IF n = 0 THEN 0 ELSE upTo[n - 1] + f[n]
  IN  upTo[MaxClaims]

\* How often claim receipts name a reward of round r.
Receipted(r) ==
  Total([k \in ClaimIds |-> IF rewards[k].round = r THEN receipts[k] ELSE 0])

\* Rounds, wins and receipts behave like the ledger of RewardLedger: no second
\* winner, no win credited twice, no reward in two receipts, no receipt for a
\* round somebody else won. Within its one receipt a reward may be counted twice.
Ledger == INSTANCE RewardLedger WITH
  winner <- [r \in RoundIds |-> rounds[r].winner],
  receipted <- [r \in RoundIds |-> Receipted(r)]

ImplementsLedger == Ledger!LedgerSpec

=============================================================================
