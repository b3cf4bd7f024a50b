--------------------------- MODULE MinerRoundsProofs ---------------------------
(***************************************************************************)
(* Proofs about MinerRounds, for any miners, any number of overlapping     *)
(* requests, and any number of rounds and reservations.                    *)
(*                                                                         *)
(* The invariant is stated over tables that are handed to it, because most *)
(* steps compute new rounds and rewards and then run reconcile on them     *)
(* before they are assigned. The last three sections are about a service   *)
(* that handles one request at a time: what holds then and does not when   *)
(* requests overlap, and the ledger of RewardLedger it implements.         *)
(***************************************************************************)
EXTENDS MinerRounds, WellFoundedInduction, TLAPS

Handlers == {"idle", "open", "solve", "pay", "receipt"}

\* What a request that goes on with handler h knows.
HandlerFits(t, h, rw, op, g) ==
  /\ h \in Handlers
  /\ h = "solve" => t.miner \in Miners /\ t.asked \in 1..op
  /\ h = "pay" => \E k \in 1..g : ClaimsOf(t) = {k} /\ t.miner = rw[k].miner

\* A request that waits for a balance holds on to a candidate of an opened round
\* with nobody waiting in front; one that waits for a payment transaction holds
\* on to the round of the reservation it pays for.
CallFits(t, rs, rw, op, g) ==
  /\ t \in Call
  /\ CASE t.pc = "lookup" ->
            /\ t.round \in 1..op
            /\ t.at \in DOMAIN rs[t.round].queue
            /\ \A j \in 1..(t.at - 1) : rs[t.round].queue[j].status # "queued"
            /\ HandlerFits(t, t.then, rw, op, g)
       [] t.pc = "validate" ->
            /\ t.round \in 1..op
            /\ \E k \in 1..g : /\ ClaimsOf(t) = {k}
                               /\ t.miner = rw[k].miner
                               /\ rw[k].round = t.round
       [] OTHER -> HandlerFits(t, t.pc, rw, op, g)

\* The queue of one round holds one answer of every miner that has tried.
QueueOK(rnd) ==
  \A i, j \in DOMAIN rnd.queue :
    /\ rnd.queue[i].miner \in rnd.attempted
    /\ rnd.queue[i].miner = rnd.queue[j].miner => i = j

\* A reservation that was handed out belongs to an answer in the queue of its
\* round, and is only worth something when that round was won.
RewardFits(k, rs, rw, op, g, rc) ==
  IF k <= g
  THEN /\ rw[k].round \in 1..op
       /\ rw[k].miner \in Miners
       /\ \E i \in DOMAIN rs[rw[k].round].queue :
            rs[rw[k].round].queue[i].miner = rw[k].miner
       /\ (rw[k].status \in {"claimable", "receipt_issued"} \/ rc[k] > 0)
            => rs[rw[k].round].winner # None
  ELSE rw[k].status = "none" /\ rc[k] = 0

Fits(rs, rw, op, g, rc) ==
  /\ rs \in [RoundIds -> Round]
  /\ rw \in [ClaimIds -> Reward]
  /\ rc \in [ClaimIds -> Nat]
  /\ op \in 0..MaxRounds
  /\ g \in 0..MaxClaims
  /\ \A r \in RoundIds : QueueOK(rs[r])
  /\ \A k \in ClaimIds : RewardFits(k, rs, rw, op, g, rc)

\* All the requests in progress.
CallsFit(cs, rs, rw, op, g) ==
  /\ cs \in [Calls -> Call]
  /\ \A d \in Calls : CallFits(cs[d], rs, rw, op, g)

\* The inductive invariant.
Inv ==
  /\ Fits(rounds, rewards, opened, given, receipts)
  /\ active \in {0, opened}
  /\ wins \in [Miners -> Nat]
  /\ CallsFit(calls, rounds, rewards, opened, given)

-----------------------------------------------------------------------------
(* Data: the first queued candidate, and later forms of a round. *)

\* Numbers that are smaller than others: a relation without infinite descent.
Below == {ss \in Nat \X Nat : ss[1] < ss[2]}

\* A set of numbers has a least one.
LEMMA Least ==
  ASSUME NEW T \in SUBSET Nat, T # {}
  PROVE  \E x \in T : \A y \in T : x <= y
<1>1. IsWellFoundedOn(Below, Nat)
  BY NatLessThanWellFounded DEF OpToRel, Below
<1>2. PICK x \in T : \A y \in T : ~ (<<y, x>> \in Below)
  BY <1>1, WFMin
<1>3. \A y \in T : <<y, x>> \notin Below
  BY <1>2
<1>4. ASSUME NEW y \in T, y < x PROVE FALSE
  <2>1. <<y, x>> \in Below
    BY <1>4 DEF Below
  <2> QED
    BY <2>1, <1>3
<1>5. \A y \in T : ~(y < x)
  BY <1>4
<1> QED
  BY <1>5

\* NextQueued finds the first queued candidate behind position i.
LEMMA NextQueuedFinds ==
  ASSUME NEW queue \in Seq(Candidate), NEW i \in Nat, NextQueued(queue, i) # 0
  PROVE  LET n == NextQueued(queue, i)
         IN  /\ n \in DOMAIN queue
             /\ n > i
             /\ queue[n].status = "queued"
             /\ \A j \in (i + 1)..(n - 1) : queue[j].status # "queued"
<1> DEFINE later == {j \in DOMAIN queue : j > i /\ queue[j].status = "queued"}
           n == NextQueued(queue, i)
<1>1. later # {} /\ n = CHOOSE j \in later : \A k \in later : j <= k
  BY DEF NextQueued
<1>2. later \in SUBSET Nat
  OBVIOUS
<1>3. \E j \in later : \A k \in later : j <= k
  BY <1>1, <1>2, Least
<1>4. n \in later /\ \A k \in later : n <= k
  BY <1>1, <1>3
<1>5. ASSUME NEW j \in (i + 1)..(n - 1), queue[j].status = "queued"
      PROVE  FALSE
  <2>1. j \in DOMAIN queue
    BY <1>4
  <2>2. j \in later
    BY <2>1, <1>5
  <2> QED
    BY <2>2, <1>2, <1>4
<1> QED
  BY <1>4, <1>5

\* Round b is a later form of round a: nobody has left the queue, nobody waits
\* again, a winner stays one.
Later(a, b) ==
  /\ DOMAIN a.queue \subseteq DOMAIN b.queue
  /\ \A i \in DOMAIN a.queue :
       /\ b.queue[i].miner = a.queue[i].miner
       /\ b.queue[i].status = "queued" => a.queue[i].status = "queued"
  /\ a.winner # None => b.winner # None

\* The same, and nobody has become the provisional winner.
NoNewHolder(a, b) ==
  \A i \in DOMAIN a.queue :
    b.queue[i].status = "reservation_active" => a.queue[i].status = "reservation_active"

\* Marked changes the status of candidates and nothing else.
LEMMA MarkedQueue ==
  ASSUME NEW queue \in Seq(Candidate), NEW k, NEW status \in CandidateStatus \ {"queued"}
  PROVE  /\ Marked(queue, k, status) \in Seq(Candidate)
         /\ DOMAIN Marked(queue, k, status) = DOMAIN queue
         /\ \A i \in DOMAIN queue :
              /\ Marked(queue, k, status)[i].miner = queue[i].miner
              /\ Marked(queue, k, status)[i].status \in {status, queue[i].status}
<1> DEFINE M == Marked(queue, k, status)
<1>1. DOMAIN queue = 1..Len(queue) /\ Len(queue) \in Nat
  OBVIOUS
<1>2. DOMAIN M = DOMAIN queue
  BY DEF Marked
<1>3. ASSUME NEW i \in DOMAIN queue
      PROVE  /\ M[i] \in Candidate
             /\ M[i].miner = queue[i].miner
             /\ M[i].status \in {status, queue[i].status}
  <2>1. queue[i] \in Candidate
    OBVIOUS
  <2>2. M[i] = IF queue[i].claim = k THEN [queue[i] EXCEPT !.status = status] ELSE queue[i]
    BY DEF Marked
  <2> QED
    BY <2>1, <2>2 DEF Candidate
<1>4. M \in Seq(Candidate)
  BY <1>1, <1>2, <1>3 DEF Marked
<1> QED
  BY <1>2, <1>3, <1>4

\* Dropping a reservation leads to a later form of the round.
LEMMA DroppedLater ==
  ASSUME NEW a \in Round, NEW k,
         NEW status \in CandidateStatus \ {"queued", "reservation_active"}
  PROVE  /\ Dropped(a, k, status) \in Round
         /\ Later(a, Dropped(a, k, status))
         /\ NoNewHolder(a, Dropped(a, k, status))
         /\ QueueOK(a) => QueueOK(Dropped(a, k, status))
<1> DEFINE b == Dropped(a, k, status)
<1>1. a.queue \in Seq(Candidate)
  BY DEF Round
<1>2. b = [a EXCEPT !.held = 0, !.queue = Marked(a.queue, k, status)]
  BY DEF Dropped
<1>3. /\ b.queue = Marked(a.queue, k, status)
      /\ b.winner = a.winner /\ b.attempted = a.attempted
  BY <1>2 DEF Round
<1>4. /\ b.queue \in Seq(Candidate)
      /\ DOMAIN b.queue = DOMAIN a.queue
      /\ \A i \in DOMAIN a.queue :
           /\ b.queue[i].miner = a.queue[i].miner
           /\ b.queue[i].status \in {status, a.queue[i].status}
  BY <1>1, <1>3, MarkedQueue
<1>5. b \in Round
  <2>1. 0 \in 0..MaxClaims
    BY RoundsAssumption
  <2>2. b = [over |-> a.over, winner |-> a.winner, attempted |-> a.attempted,
             queue |-> b.queue, held |-> 0]
    BY <1>2, <1>3 DEF Round
  <2>3. a.over \in BOOLEAN /\ a.winner \in Miners \cup {None} /\ a.attempted \in SUBSET Miners
    BY DEF Round
  <2> HIDE DEF b
  <2> QED
    BY <2>1, <2>2, <2>3, <1>4 DEF Round
<1>6. QueueOK(a) => QueueOK(b)
  BY <1>3, <1>4 DEF QueueOK
<1>7. Later(a, b) /\ NoNewHolder(a, b)
  BY <1>3, <1>4 DEF Later, NoNewHolder
<1> QED
  BY <1>5, <1>6, <1>7

-----------------------------------------------------------------------------
(* The invariant under changes of the tables. *)

\* Rounds may move on, and rounds and reservations be added.
MovedOn(rs, rs2, rw, rw2, op, op2, g, g2) ==
  /\ \A r \in 1..op : Later(rs[r], rs2[r])
  /\ op <= op2 /\ g <= g2
  /\ \A k \in 1..g : rw2[k].miner = rw[k].miner /\ rw2[k].round = rw[k].round

\* A request in progress does not notice.
LEMMA CallFitsStill ==
  ASSUME NEW rs, NEW rs2, NEW rw, NEW rw2, NEW t,
         NEW op \in Nat, NEW op2 \in Nat, NEW g \in Nat, NEW g2 \in Nat,
         op <= MaxRounds,
         rs \in [RoundIds -> Round],
         MovedOn(rs, rs2, rw, rw2, op, op2, g, g2),
         CallFits(t, rs, rw, op, g)
  PROVE  CallFits(t, rs2, rw2, op2, g2)
<1> USE DEF MovedOn
<1>1. \A k \in 1..g : k \in 1..g2
  OBVIOUS
<1>2. \A r \in 1..op : r \in 1..op2
  OBVIOUS
<1>3. ASSUME NEW h, HandlerFits(t, h, rw, op, g)
      PROVE  HandlerFits(t, h, rw2, op2, g2)
  BY <1>1, <1>2, <1>3 DEF HandlerFits
<1>4. CASE t.pc = "lookup"
  <2>1. /\ t.round \in 1..op
        /\ t.at \in DOMAIN rs[t.round].queue
        /\ \A j \in 1..(t.at - 1) : rs[t.round].queue[j].status # "queued"
        /\ HandlerFits(t, t.then, rw, op, g)
    BY <1>4 DEF CallFits
  <2> DEFINE q == rs[t.round].queue
  <2>2. q \in Seq(Candidate)
    BY <2>1, RoundsAssumption DEF RoundIds, Round
  <2>3. \A j \in 1..(t.at - 1) : j \in DOMAIN q
    BY <2>1, <2>2
  <2>4. Later(rs[t.round], rs2[t.round])
    BY <2>1
  <2>5. t.at \in DOMAIN rs2[t.round].queue
    BY <2>1, <2>4 DEF Later
  <2>6. \A j \in 1..(t.at - 1) : rs2[t.round].queue[j].status # "queued"
    BY <2>1, <2>3, <2>4 DEF Later
  <2> QED
    BY <2>1, <2>5, <2>6, <1>2, <1>3, <1>4 DEF CallFits
<1>5. CASE t.pc = "validate"
  BY <1>1, <1>2, <1>5 DEF CallFits
<1>6. CASE t.pc \notin {"lookup", "validate"}
  BY <1>3, <1>6 DEF CallFits
<1> QED
  BY <1>4, <1>5, <1>6

\* One round moves on.
LEMMA RoundMoves ==
  ASSUME NEW rs, NEW rw, NEW op, NEW g, NEW rc, Fits(rs, rw, op, g, rc),
         NEW r \in RoundIds, NEW b \in Round, Later(rs[r], b), QueueOK(b)
  PROVE  /\ Fits([rs EXCEPT ![r] = b], rw, op, g, rc)
         /\ \A cs : CallsFit(cs, rs, rw, op, g) => CallsFit(cs, [rs EXCEPT ![r] = b], rw, op, g)
<1> DEFINE rs2 == [rs EXCEPT ![r] = b]
<1>1. rs2 \in [RoundIds -> Round]
      /\ rs2[r] = b /\ \A s \in RoundIds \ {r} : rs2[s] = rs[s]
  BY DEF Fits
<1> HIDE DEF rs2
<1>2. \A s \in RoundIds : Later(rs[s], rs2[s]) /\ QueueOK(rs2[s])
  BY <1>1 DEF Fits, Later
<1>3. op \in Nat /\ g \in Nat /\ op <= MaxRounds /\ \A s \in 1..op : s \in RoundIds
  BY RoundsAssumption DEF Fits, RoundIds
<1>4. ASSUME NEW k \in ClaimIds PROVE RewardFits(k, rs2, rw, op, g, rc)
  <2>1. RewardFits(k, rs, rw, op, g, rc)
    BY DEF Fits
  <2>2. CASE k <= g
    <3>1. rw[k].round \in 1..op /\ Later(rs[rw[k].round], rs2[rw[k].round])
      BY <2>1, <2>2, <1>2, <1>3 DEF RewardFits
    <3> QED
      BY <2>1, <2>2, <3>1 DEF RewardFits, Later
  <2> QED
    BY <2>1, <2>2 DEF RewardFits
<1>5. Fits(rs2, rw, op, g, rc)
  BY <1>1, <1>2, <1>4 DEF Fits
<1>6. MovedOn(rs, rs2, rw, rw, op, op, g, g)
  BY <1>2, <1>3 DEF MovedOn
<1>7. ASSUME NEW cs, CallsFit(cs, rs, rw, op, g)
      PROVE  CallsFit(cs, rs2, rw, op, g)
  <2>1. ASSUME NEW d \in Calls PROVE CallFits(cs[d], rs2, rw, op, g)
    <3>1. CallFits(cs[d], rs, rw, op, g) /\ rs \in [RoundIds -> Round]
      BY <1>7 DEF CallsFit, Fits
    <3> QED
      BY <3>1, <1>3, <1>6, CallFitsStill
  <2> QED
    BY <2>1, <1>7 DEF CallsFit
<1> QED
  BY <1>5, <1>7 DEF rs2

\* Rewards change their status, and receipts are issued.
LEMMA RewardsMove ==
  ASSUME NEW rs, NEW rw, NEW op, NEW g, NEW rc, Fits(rs, rw, op, g, rc),
         NEW rw2 \in [ClaimIds -> Reward], NEW rc2 \in [ClaimIds -> Nat],
         \A k \in ClaimIds :
           /\ rw2[k].miner = rw[k].miner /\ rw2[k].round = rw[k].round
           /\ k > g => rw2[k].status = rw[k].status /\ rc2[k] = rc[k]
           /\ (k <= g /\ (rw2[k].status \in {"claimable", "receipt_issued"} \/ rc2[k] > 0))
                => rs[rw[k].round].winner # None
  PROVE  /\ Fits(rs, rw2, op, g, rc2)
         /\ \A cs : CallsFit(cs, rs, rw, op, g) => CallsFit(cs, rs, rw2, op, g)
<1>1. op \in Nat /\ g \in Nat /\ op <= MaxRounds /\ g <= MaxClaims
      /\ (\A k \in 1..g : k \in ClaimIds) /\ (\A k \in ClaimIds : k \in Nat)
  BY RoundsAssumption DEF Fits, ClaimIds
<1>2. ASSUME NEW k \in ClaimIds PROVE RewardFits(k, rs, rw2, op, g, rc2)
  <2>1. RewardFits(k, rs, rw, op, g, rc)
    BY DEF Fits
  <2>2. CASE k <= g
    BY <2>1, <2>2 DEF RewardFits
  <2>3. CASE k > g
    BY <2>1, <2>3, <1>1 DEF RewardFits
  <2> QED
    BY <2>2, <2>3, <1>1
<1>3. Fits(rs, rw2, op, g, rc2)
  BY <1>2 DEF Fits
<1>4. MovedOn(rs, rs, rw, rw2, op, op, g, g)
  BY <1>1 DEF MovedOn, Later
<1>5. ASSUME NEW cs, CallsFit(cs, rs, rw, op, g)
      PROVE  CallsFit(cs, rs, rw2, op, g)
  <2>1. ASSUME NEW d \in Calls PROVE CallFits(cs[d], rs, rw2, op, g)
    <3>1. CallFits(cs[d], rs, rw, op, g) /\ rs \in [RoundIds -> Round]
      BY <1>5 DEF CallsFit, Fits
    <3> QED
      BY <3>1, <1>1, <1>4, CallFitsStill
  <2> QED
    BY <2>1, <1>5 DEF CallsFit
<1> QED
  BY <1>3, <1>5

\* One request moves on to t.
LEMMA CallMoves ==
  ASSUME NEW cs, NEW rs, NEW rw, NEW op, NEW g, CallsFit(cs, rs, rw, op, g),
         NEW c \in Calls, NEW t, CallFits(t, rs, rw, op, g)
  PROVE  CallsFit([cs EXCEPT ![c] = t], rs, rw, op, g)
<1>1. t \in Call
  BY DEF CallFits
<1> QED
  BY <1>1 DEF CallsFit

\* An answered request, or one that goes on with its handler, fits.
LEMMA AnsweredFits ==
  ASSUME NEW rs, NEW rw, NEW op, NEW g, NEW call \in Call, NEW then,
         HandlerFits(call, then, rw, op, g)
  PROVE  /\ CallFits(Answered(call, then), rs, rw, op, g)
         /\ CallFits(NoCall, rs, rw, op, g)
<1>1. NoCall \in Call
  BY RoundsAssumption DEF NoCall, NoClaims, Call, CallPc
<1>2. CallFits(NoCall, rs, rw, op, g)
  BY <1>1 DEF NoCall, CallFits, HandlerFits, Handlers
<1>3. CASE then # "idle"
  <2> DEFINE t == Answered(call, then)
  <2>1. t = [call EXCEPT !.pc = then, !.then = "idle", !.round = 0, !.at = 0]
    BY <1>3 DEF Answered, Continue
  <2>2. then \in CallPc /\ "idle" \in CallPc /\ 0 \in 0..MaxRounds /\ 0 \in Nat
    BY RoundsAssumption DEF HandlerFits, Handlers, CallPc
  <2>3. t \in Call
    BY <2>1, <2>2 DEF Call
  <2>4. /\ t.pc = then /\ t.miner = call.miner /\ t.asked = call.asked
        /\ ClaimsOf(t) = ClaimsOf(call)
    BY <2>1 DEF Call, ClaimsOf
  <2> HIDE DEF t
  <2>5. HandlerFits(t, then, rw, op, g)
    BY <2>4 DEF HandlerFits
  <2>6. then \notin {"lookup", "validate"}
    BY DEF HandlerFits, Handlers
  <2> QED
    BY <2>3, <2>4, <2>5, <2>6, <1>2 DEF CallFits, t
<1> QED
  BY <1>2, <1>3 DEF Answered

\* The window of reservation k runs out.
LEMMA RewardExpires ==
  ASSUME NEW rs, NEW rw, NEW op, NEW g, NEW rc, Fits(rs, rw, op, g, rc), NEW k \in 1..g
  PROVE  LET rw2 == [rw EXCEPT ![k].status = "expired"]
         IN  /\ Fits(rs, rw2, op, g, rc)
             /\ \A cs : CallsFit(cs, rs, rw, op, g) => CallsFit(cs, rs, rw2, op, g)
             /\ \A t, h : HandlerFits(t, h, rw, op, g) => HandlerFits(t, h, rw2, op, g)
<1> DEFINE rw2 == [rw EXCEPT ![k].status = "expired"]
<1>1. /\ rw \in [ClaimIds -> Reward] /\ rc \in [ClaimIds -> Nat]
      /\ g \in Nat /\ \A j \in 1..g : j \in ClaimIds
      /\ \A j \in ClaimIds : j \in Nat
  <2>1. g \in Nat /\ g <= MaxClaims
    BY RoundsAssumption DEF Fits
  <2> QED
    BY <2>1, RoundsAssumption DEF Fits, ClaimIds
<1>2. rw[k] \in Reward
  BY <1>1
<1>3. [rw[k] EXCEPT !.status = "expired"] \in Reward
  BY <1>2 DEF Reward, RewardStatus
<1>4. rw2 \in [ClaimIds -> Reward]
  BY <1>1, <1>3
<1>5. \A j \in ClaimIds :
        /\ rw2[j].miner = rw[j].miner /\ rw2[j].round = rw[j].round
        /\ rw2[j].status = rw[j].status \/ (j = k /\ rw2[j].status = "expired")
  <2>1. \A j \in ClaimIds \ {k} : rw2[j] = rw[j]
    BY <1>1
  <2>2. rw2[k] = [rw[k] EXCEPT !.status = "expired"]
    BY <1>1
  <2>3. /\ rw2[k].miner = rw[k].miner /\ rw2[k].round = rw[k].round
        /\ rw2[k].status = "expired"
    BY <1>2, <2>2 DEF Reward
  <2> HIDE DEF rw2
  <2> QED
    BY <2>1, <2>3
<1> HIDE DEF rw2
<1>6. ASSUME NEW j \in ClaimIds, j <= g,
             rw2[j].status \in {"claimable", "receipt_issued"} \/ rc[j] > 0
      PROVE  rs[rw[j].round].winner # None
  BY <1>5, <1>6 DEF Fits, RewardFits
<1>7. \A j \in ClaimIds :
        /\ rw2[j].miner = rw[j].miner /\ rw2[j].round = rw[j].round
        /\ j > g => rw2[j].status = rw[j].status /\ rc[j] = rc[j]
        /\ (j <= g /\ (rw2[j].status \in {"claimable", "receipt_issued"} \/ rc[j] > 0))
             => rs[rw[j].round].winner # None
  BY <1>1, <1>5, <1>6
<1>8. Fits(rs, rw2, op, g, rc) /\ \A cs : CallsFit(cs, rs, rw, op, g) => CallsFit(cs, rs, rw2, op, g)
  BY <1>1, <1>4, <1>7, RewardsMove
<1>9. ASSUME NEW t, NEW h, HandlerFits(t, h, rw, op, g)
      PROVE  HandlerFits(t, h, rw2, op, g)
  BY <1>1, <1>5, <1>9 DEF HandlerFits
<1> QED
  BY <1>8, <1>9 DEF rw2

-----------------------------------------------------------------------------
(* reconcileActiveRoundState, on tables that fit. *)

\* Whatever reconcile drops, looks up or closes, tables and requests still fit.
LEMMA ReconcileKeeps ==
  ASSUME NEW c \in Calls, NEW call \in Call, NEW then, NEW rs, NEW ac, NEW rw, NEW op,
         Fits(rs, rw, op, given, receipts), ac \in {0, op},
         CallsFit(calls, rs, rw, op, given),
         HandlerFits(call, then, rw, op, given),
         Reconcile(c, call, then, rs, ac, rw)
  PROVE  /\ Fits(rounds', rewards', op, given, receipts)
         /\ active' \in {0, op}
         /\ CallsFit(calls', rounds', rewards', op, given)
         /\ \A r \in RoundIds : NoNewHolder(rs[r], rounds'[r])
<1>1. CASE ac = 0
  <2>1. /\ rounds' = rs /\ active' = 0 /\ rewards' = rw
        /\ calls' = [calls EXCEPT ![c] = Answered(call, then)]
    BY <1>1 DEF Reconcile
  <2>2. CallFits(Answered(call, then), rs, rw, op, given)
    BY AnsweredFits
  <2>3. CallsFit(calls', rs, rw, op, given)
    BY <2>1, <2>2, CallMoves
  <2> QED
    BY <2>1, <2>3 DEF NoNewHolder
<1>2. CASE ac # 0
  <2> DEFINE k    == rs[ac].held
             late == k # 0 /\ rw[k].status = "payment_pending" /\ rw[k].lapsed
             rw1  == IF late THEN [rw EXCEPT ![k].status = "expired"] ELSE rw
             rnd  == IF late THEN Dropped(rs[ac], k, "timed_out")
                     ELSE IF k # 0 /\ rw[k].status # "payment_pending"
                     THEN [rs[ac] EXCEPT !.held = 0]
                     ELSE rs[ac]
             next == NextQueued(rnd.queue, 0)
             rs1  == [rs EXCEPT ![ac] = rnd]
             look == [call EXCEPT !.pc = "lookup", !.then = then, !.round = ac, !.at = next]
  <2>1. /\ rounds' = rs1
        /\ rewards' = rw1
        /\ \/ /\ next # 0
              /\ active' = ac
              /\ calls' = [calls EXCEPT ![c] = look]
           \/ /\ active' \in {0, ac}
              /\ calls' = [calls EXCEPT ![c] = Answered(call, then)]
    BY <1>2 DEF Reconcile
  <2>2. /\ ac \in RoundIds /\ ac = op /\ ac \in 1..op
        /\ rs[ac] \in Round /\ QueueOK(rs[ac])
        /\ k \in 0..MaxClaims /\ given \in 0..MaxClaims
    BY <1>2, RoundsAssumption DEF Fits, RoundIds, Round
  <2>3. /\ rnd \in Round /\ QueueOK(rnd)
        /\ Later(rs[ac], rnd) /\ NoNewHolder(rs[ac], rnd)
    <3>1. CASE late
      <4>1. "timed_out" \in CandidateStatus \ {"queued", "reservation_active"}
        BY DEF CandidateStatus
      <4> QED
        BY <3>1, <4>1, <2>2, DroppedLater
    <3>2. CASE ~late /\ k # 0 /\ rw[k].status # "payment_pending"
      <4> DEFINE b == [rs[ac] EXCEPT !.held = 0]
      <4>1. b = [over |-> rs[ac].over, winner |-> rs[ac].winner,
                 attempted |-> rs[ac].attempted, queue |-> rs[ac].queue, held |-> 0]
        BY <2>2 DEF Round
      <4>2. 0 \in 0..MaxClaims
        BY RoundsAssumption
      <4>3. b \in Round
        BY <4>1, <4>2, <2>2 DEF Round
      <4>4. QueueOK(b) /\ Later(rs[ac], b) /\ NoNewHolder(rs[ac], b)
        BY <4>1, <2>2 DEF QueueOK, Later, NoNewHolder
      <4> QED
        BY <3>2, <4>3, <4>4
    <3>3. CASE ~late /\ ~(k # 0 /\ rw[k].status # "payment_pending")
      <4>1. Later(rs[ac], rs[ac]) /\ NoNewHolder(rs[ac], rs[ac])
        BY DEF Later, NoNewHolder
      <4> QED
        BY <3>3, <4>1, <2>2
    <3> QED
      BY <3>1, <3>2, <3>3
  <2>4. /\ Fits(rs, rw1, op, given, receipts)
        /\ CallsFit(calls, rs, rw1, op, given)
        /\ \A h : HandlerFits(call, h, rw, op, given) => HandlerFits(call, h, rw1, op, given)
    <3>1. CASE late
      <4>1. k \in ClaimIds
        BY <3>1, <2>2, RoundsAssumption DEF ClaimIds
      <4>2. k \in 1..given
        BY <3>1, <4>1, <2>2, RoundsAssumption DEF ClaimIds, Fits, RewardFits
      <4> QED
        BY <3>1, <4>2, RewardExpires
    <3> QED
      BY <3>1
  <2>5. HandlerFits(call, then, rw1, op, given)
    BY <2>4
  <2> HIDE DEF rnd, rw1
  <2>6. Fits(rs1, rw1, op, given, receipts) /\ CallsFit(calls, rs1, rw1, op, given)
    BY <2>2, <2>3, <2>4, RoundMoves
  <2>7. rs \in [RoundIds -> Round] /\ rs1[ac] = rnd
    BY <2>2 DEF Fits
  <2>8. \A r \in RoundIds : NoNewHolder(rs[r], rs1[r])
    BY <2>3, <2>7 DEF NoNewHolder
  <2>9. CASE next # 0 /\ calls' = [calls EXCEPT ![c] = look] /\ active' = ac
    <3>1. rnd.queue \in Seq(Candidate)
      BY <2>3 DEF Round
    <3>2. /\ next \in DOMAIN rnd.queue /\ next \in Nat /\ next > 0
          /\ \A j \in 1..(next - 1) : rnd.queue[j].status # "queued"
      BY <3>1, <2>9, NextQueuedFinds
    <3> HIDE DEF next
    <3>3. "lookup" \in CallPc /\ then \in CallPc /\ ac \in 0..MaxRounds
      BY <2>2, RoundsAssumption DEF CallPc, HandlerFits, Handlers, RoundIds
    <3>4. look \in Call
      BY <3>2, <3>3 DEF Call
    <3>5. /\ look.pc = "lookup" /\ look.then = then /\ look.round = ac /\ look.at = next
          /\ look.miner = call.miner /\ look.asked = call.asked
          /\ ClaimsOf(look) = ClaimsOf(call)
      BY DEF Call, ClaimsOf
    <3> HIDE DEF look, rs1
    <3>6. HandlerFits(look, look.then, rw1, op, given)
      BY <2>5, <3>5 DEF HandlerFits
    <3>7. CallFits(look, rs1, rw1, op, given)
      BY <2>2, <2>7, <3>2, <3>4, <3>5, <3>6 DEF CallFits
    <3>8. CallsFit(calls', rs1, rw1, op, given)
      BY <2>6, <2>9, <3>7, CallMoves
    <3> QED
      BY <2>1, <2>2, <2>6, <2>8, <2>9, <3>8
  <2>10. CASE calls' = [calls EXCEPT ![c] = Answered(call, then)] /\ active' \in {0, ac}
    <3>1. CallFits(Answered(call, then), rs1, rw1, op, given)
      BY <2>5, AnsweredFits
    <3>2. CallsFit(calls', rs1, rw1, op, given)
      BY <2>6, <2>10, <3>1, CallMoves
    <3> QED
      BY <2>1, <2>2, <2>6, <2>8, <2>10, <3>2
  <2> QED
    BY <2>1, <2>9, <2>10
<1> QED
  BY <1>1, <1>2 DEF Fits

-----------------------------------------------------------------------------
(* Every step keeps the invariant and serves the first candidate first. *)

\* What FirstComeFirstServed says of one step.
FirstServed ==
  \A r \in RoundIds : \A i \in DOMAIN rounds[r].queue :
    (/\ rounds[r].queue[i].status # "reservation_active"
     /\ rounds'[r].queue[i].status = "reservation_active")
      => \A j \in 1..(i - 1) : rounds[r].queue[j].status # "queued"

Kept == Inv' /\ FirstServed

\* The invariant in the next state, in the form the lemmas below give it.
LEMMA InvInNext ==
  ASSUME Fits(rounds', rewards', opened', given', receipts'),
         active' \in {0, opened'},
         wins' \in [Miners -> Nat],
         CallsFit(calls', rounds', rewards', opened', given')
  PROVE  Inv'
BY DEF Inv, Fits, RewardFits, QueueOK, CallsFit, CallFits, HandlerFits

\* A step that ends in reconcile.
LEMMA ReconcileStep ==
  ASSUME NEW c \in Calls, NEW call \in Call, NEW then, NEW rs, NEW ac, NEW rw, NEW op,
         Fits(rs, rw, op, given, receipts), ac \in {0, op},
         CallsFit(calls, rs, rw, op, given),
         HandlerFits(call, then, rw, op, given),
         Reconcile(c, call, then, rs, ac, rw),
         Inv, opened' = op, UNCHANGED <<given, receipts, wins>>,
         \A r \in RoundIds : /\ NoNewHolder(rounds[r], rs[r])
                             /\ DOMAIN rounds[r].queue \subseteq DOMAIN rs[r].queue
  PROVE  Kept
<1>1. /\ Fits(rounds', rewards', op, given, receipts)
      /\ active' \in {0, op}
      /\ CallsFit(calls', rounds', rewards', op, given)
      /\ \A r \in RoundIds : NoNewHolder(rs[r], rounds'[r])
  BY ReconcileKeeps
<1>2. Inv'
  BY <1>1, InvInNext DEF Inv
<1>3. FirstServed
  BY <1>1 DEF NoNewHolder, FirstServed
<1> QED
  BY <1>2, <1>3 DEF Kept

\* The call a request starts with, and one that is over.
LEMMA NoCallFits ==
  /\ NoCall \in Call
  /\ \A rw, op, g : HandlerFits(NoCall, "idle", rw, op, g)
  /\ \A rs, rw, op, g : CallFits(NoCall, rs, rw, op, g)
<1>1. NoCall \in Call
  BY RoundsAssumption DEF NoCall, NoClaims, Call, CallPc
<1> QED
  BY <1>1 DEF NoCall, CallFits, HandlerFits, Handlers

\* A request arrives and reconciles.
LEMMA ArriveKeeps ==
  ASSUME Inv, NEW c \in Calls, NEW then \in Handlers, NEW m \in Miners \cup {None},
         NEW r \in 0..MaxRounds, NEW ks \in [ClaimIds -> 0..MaxNamed],
         Arrive(c, then, m, r, ks),
         then = "solve" => m \in Miners /\ r \in 1..opened,
         then = "pay" =>
           \E k \in 1..given : {j \in ClaimIds : ks[j] > 0} = {k} /\ m = rewards[k].miner
  PROVE  Kept
<1> DEFINE call == [NoCall EXCEPT !.miner = m, !.asked = r, !.claims = ks]
<1>1. /\ call \in Call
      /\ call.miner = m /\ call.asked = r /\ ClaimsOf(call) = {j \in ClaimIds : ks[j] > 0}
  BY NoCallFits DEF Call, ClaimsOf
<1>2. /\ Reconcile(c, call, then, rounds, active, rewards)
      /\ UNCHANGED <<opened, given, receipts, wins>>
  BY DEF Arrive
<1> HIDE DEF call
<1>3. HandlerFits(call, then, rewards, opened, given)
  BY <1>1 DEF HandlerFits
<1>4. \A s \in RoundIds : NoNewHolder(rounds[s], rounds[s])
  BY DEF NoNewHolder
<1> QED
  BY <1>1, <1>2, <1>3, <1>4, ReconcileStep DEF Inv

\* startMining, getCurrentRound, getMinerStatus, listClaimableRewards,
\* submitSolution, submitClaimPayment and requestClaimReceipt arrive.
LEMMA RequestKeeps ==
  ASSUME Inv, NEW c \in Calls, Request(c)
  PROVE  Kept
<1>1. /\ opened \in 0..MaxRounds /\ given \in 0..MaxClaims
      /\ rewards \in [ClaimIds -> Reward] /\ NoClaims \in [ClaimIds -> 0..MaxNamed]
  BY RoundsAssumption DEF Inv, Fits, NoClaims
<1>2. CASE AskRound(c)
  BY <1>1, <1>2, ArriveKeeps, RoundsAssumption DEF AskRound, Handlers
<1>3. CASE AskStatus(c)
  BY <1>1, <1>3, ArriveKeeps, RoundsAssumption DEF AskStatus, Handlers
<1>4. ASSUME NEW m \in Miners, NEW r \in 1..opened, SubmitSolution(c, m, r)
      PROVE  Kept
  <2>1. r \in 0..MaxRounds
    BY <1>1, RoundsAssumption
  <2> QED
    BY <1>1, <1>4, <2>1, ArriveKeeps DEF SubmitSolution, Handlers
<1>5. ASSUME NEW k \in ClaimIds, SubmitPayment(c, k)
      PROVE  Kept
  <2>1. k \in 1..given
    BY <1>5, <1>1, RoundsAssumption DEF SubmitPayment, ClaimIds
  <2>2. rewards[k].miner \in Miners \cup {None}
    BY <1>1 DEF Reward
  <2> DEFINE ks == [NoClaims EXCEPT ![k] = 1]
  <2>3. ks \in [ClaimIds -> 0..MaxNamed] /\ {j \in ClaimIds : ks[j] > 0} = {k}
    BY RoundsAssumption DEF NoClaims
  <2>4. Arrive(c, "pay", rewards[k].miner, 0, ks) /\ 0 \in 0..MaxRounds
    BY <1>5, RoundsAssumption DEF SubmitPayment
  <2> HIDE DEF ks
  <2> QED
    BY <2>1, <2>2, <2>3, <2>4, ArriveKeeps DEF Handlers
<1>6. ASSUME NEW m \in Miners, NEW ks \in [ClaimIds -> 0..MaxNamed], RequestReceipt(c, m, ks)
      PROVE  Kept
  <2>1. Arrive(c, "receipt", m, 0, ks) /\ 0 \in 0..MaxRounds
    BY <1>6, RoundsAssumption DEF RequestReceipt
  <2> QED
    BY <2>1, ArriveKeeps DEF Handlers
<1> QED
  BY <1>2, <1>3, <1>4, <1>5, <1>6 DEF Request

\* The candidate at position i gets a new status.
LEMMA CandidateMoves ==
  ASSUME NEW a \in Round, NEW b \in Round, NEW i \in DOMAIN a.queue, NEW x \in Candidate,
         b.queue = [a.queue EXCEPT ![i] = x],
         b.attempted = a.attempted, b.winner = a.winner,
         x.miner = a.queue[i].miner, x.status # "queued",
         QueueOK(a)
  PROVE  /\ Later(a, b) /\ QueueOK(b)
         /\ DOMAIN b.queue = DOMAIN a.queue
         /\ b.queue[i] = x
         /\ \A j \in DOMAIN a.queue \ {i} : b.queue[j] = a.queue[j]
<1>1. a.queue \in Seq(Candidate)
  BY DEF Round
<1>2. /\ DOMAIN b.queue = DOMAIN a.queue
      /\ b.queue[i] = x
      /\ \A j \in DOMAIN a.queue \ {i} : b.queue[j] = a.queue[j]
  BY <1>1
<1> QED
  BY <1>2 DEF QueueOK, Later

\* promoteNextEligibleCandidate without the balance.
LEMMA UnderfundedKeeps ==
  ASSUME Inv, NEW c \in Calls, Underfunded(c)
  PROVE  Kept
<1> DEFINE call == calls[c]
           r    == call.round
           a    == rounds[r]
           b    == [a EXCEPT !.queue[call.at].status = "underfunded"]
           x    == [a.queue[call.at] EXCEPT !.status = "underfunded"]
           next == NextQueued(b.queue, call.at)
           rs2  == [rounds EXCEPT ![r] = b]
           t    == IF next # 0 THEN [call EXCEPT !.at = next] ELSE Answered(call, call.then)
<1>1. /\ call.pc = "lookup"
      /\ rounds' = rs2
      /\ active' \in {0, active}
      /\ calls' = IF next # 0 THEN [calls EXCEPT ![c].at = next]
                  ELSE [calls EXCEPT ![c] = Answered(call, call.then)]
      /\ UNCHANGED <<opened, rewards, given, receipts, wins>>
  BY DEF Underfunded
<1>2. /\ CallFits(call, rounds, rewards, opened, given) /\ call \in Call
      /\ calls \in [Calls -> Call] /\ rounds \in [RoundIds -> Round]
      /\ opened \in 0..MaxRounds /\ \A s \in RoundIds : QueueOK(rounds[s])
  BY DEF Inv, CallsFit, Fits
<1>3. /\ r \in 1..opened
      /\ call.at \in DOMAIN a.queue
      /\ \A j \in 1..(call.at - 1) : a.queue[j].status # "queued"
      /\ HandlerFits(call, call.then, rewards, opened, given)
  BY <1>1, <1>2 DEF CallFits
<1>4. r \in RoundIds /\ a \in Round /\ QueueOK(a) /\ a.queue \in Seq(Candidate)
  <2>1. r \in RoundIds
    BY <1>2, <1>3, RoundsAssumption DEF RoundIds
  <2>2. a \in Round /\ QueueOK(a)
    BY ONLY <1>2, <2>1
  <2> QED
    BY <2>1, <2>2 DEF Round
<1>5. x \in Candidate /\ x.miner = a.queue[call.at].miner /\ x.status = "underfunded"
  <2>1. a.queue[call.at] \in Candidate
    BY <1>3, <1>4
  <2> QED
    BY <2>1 DEF Candidate, CandidateStatus
<1>6. b = [a EXCEPT !.queue = [a.queue EXCEPT ![call.at] = x]]
  OBVIOUS
<1>7. [a.queue EXCEPT ![call.at] = x] \in Seq(Candidate)
  <2> HIDE DEF x, a
  <2> QED
    BY ONLY <1>3, <1>4, <1>5
<1> HIDE DEF x, b
<1>8. /\ b.queue = [a.queue EXCEPT ![call.at] = x]
      /\ b.attempted = a.attempted /\ b.winner = a.winner
      /\ b.over = a.over /\ b.held = a.held
  BY <1>4, <1>6 DEF Round
<1>9. b \in Round
  BY <1>4, <1>6, <1>7, <1>8 DEF Round
<1>10. /\ Later(a, b) /\ QueueOK(b) /\ b.queue[call.at] = x
       /\ DOMAIN b.queue = DOMAIN a.queue
       /\ \A j \in DOMAIN a.queue \ {call.at} : b.queue[j] = a.queue[j]
  <2>1. /\ a \in Round /\ b \in Round /\ QueueOK(a)
        /\ call.at \in DOMAIN a.queue /\ x \in Candidate
        /\ b.queue = [a.queue EXCEPT ![call.at] = x]
        /\ b.attempted = a.attempted /\ b.winner = a.winner
        /\ x.miner = a.queue[call.at].miner /\ x.status # "queued"
    BY <1>3, <1>4, <1>5, <1>8, <1>9
  <2> HIDE DEF a, call
  <2> QED
    BY <2>1, CandidateMoves
<1>11. /\ Fits(rs2, rewards, opened, given, receipts)
       /\ CallsFit(calls, rs2, rewards, opened, given)
  BY <1>4, <1>9, <1>10, RoundMoves DEF Inv
<1>12. rs2[r] = b /\ \A s \in RoundIds \ {r} : rs2[s] = rounds[s]
  BY <1>2, <1>4
<1>13. CallFits(t, rs2, rewards, opened, given)
  <2>1. CASE next # 0
    <3>1. b.queue \in Seq(Candidate) /\ call.at \in Nat /\ DOMAIN a.queue = 1..Len(a.queue)
      BY <1>3, <1>4, <1>9 DEF Round
    <3>2. /\ next \in DOMAIN b.queue
          /\ \A j \in (call.at + 1)..(next - 1) : b.queue[j].status # "queued"
      BY <2>1, <3>1, NextQueuedFinds
    <3>3. next \in Nat
      BY <3>1, <3>2
    <3> HIDE DEF next
    <3>4. \A j \in 1..(call.at - 1) : b.queue[j].status # "queued"
      <4>1. \A j \in 1..(call.at - 1) : j \in DOMAIN a.queue
        BY <1>3, <3>1, <1>4
      <4> QED
        BY <1>3, <1>10, <4>1 DEF Later
    <3>5. \A j \in 1..(next - 1) : b.queue[j].status # "queued"
      BY <3>1, <3>2, <3>3, <3>4, <1>5, <1>10
    <3>6. /\ t = [call EXCEPT !.at = next] /\ t \in Call
          /\ t.pc = "lookup" /\ t.then = call.then /\ t.round = r /\ t.at = next
          /\ t.miner = call.miner /\ t.asked = call.asked
          /\ ClaimsOf(t) = ClaimsOf(call)
      BY <2>1, <3>3, <1>1, <1>2 DEF Call, ClaimsOf
    <3> HIDE DEF t, rs2
    <3>7. HandlerFits(t, t.then, rewards, opened, given)
      BY <1>3, <3>6 DEF HandlerFits
    <3> QED
      BY <1>3, <1>12, <3>2, <3>5, <3>6, <3>7 DEF CallFits
  <2>2. CASE next = 0
    BY <2>2, <1>2, <1>3, AnsweredFits
  <2> QED
    BY <2>1, <2>2
<1>14. calls' = [calls EXCEPT ![c] = t]
  BY <1>1, <1>2
<1>15. CallsFit(calls', rs2, rewards, opened, given)
  BY <1>11, <1>13, <1>14, CallMoves
<1>16. Inv'
  <2>1. Fits(rounds', rewards', opened', given', receipts')
        /\ CallsFit(calls', rounds', rewards', opened', given')
    BY <1>1, <1>11, <1>15
  <2> QED
    BY <1>1, <2>1, InvInNext DEF Inv
<1>17. FirstServed
  BY <1>1, <1>5, <1>10, <1>12 DEF FirstServed
<1> QED
  BY <1>16, <1>17 DEF Kept

\* A reservation is handed out to a candidate of an opened round.
LEMMA RewardAdded ==
  ASSUME NEW rs, NEW rw, NEW op, NEW g, NEW rc, Fits(rs, rw, op, g, rc),
         g < MaxClaims, NEW n \in Reward, n.round \in 1..op, n.miner \in Miners,
         n.status = "payment_pending",
         \E i \in DOMAIN rs[n.round].queue : rs[n.round].queue[i].miner = n.miner
  PROVE  /\ Fits(rs, [rw EXCEPT ![g + 1] = n], op, g + 1, rc)
         /\ \A cs : CallsFit(cs, rs, rw, op, g)
                      => CallsFit(cs, rs, [rw EXCEPT ![g + 1] = n], op, g + 1)
<1> DEFINE rw2 == [rw EXCEPT ![g + 1] = n]
<1>1. /\ g \in Nat /\ g + 1 \in ClaimIds /\ g + 1 \in 0..MaxClaims
      /\ op \in Nat /\ op <= MaxRounds
      /\ \A j \in 1..g : j \in ClaimIds \ {g + 1}
      /\ \A j \in ClaimIds : j \in Nat
  BY RoundsAssumption DEF Fits, ClaimIds
<1>2. /\ rw2 \in [ClaimIds -> Reward] /\ rw2[g + 1] = n
      /\ \A j \in ClaimIds \ {g + 1} : rw2[j] = rw[j]
  BY <1>1 DEF Fits
<1> HIDE DEF rw2
<1>3. rc[g + 1] = 0
  BY <1>1 DEF Fits, RewardFits
<1>4. RewardFits(g + 1, rs, rw2, op, g + 1, rc)
  BY <1>1, <1>2, <1>3 DEF RewardFits
<1>5. ASSUME NEW j \in ClaimIds, j # g + 1 PROVE RewardFits(j, rs, rw2, op, g + 1, rc)
  <2>1. RewardFits(j, rs, rw, op, g, rc) /\ rw2[j] = rw[j]
    BY <1>2, <1>5 DEF Fits
  <2>2. j <= g + 1 <=> j <= g
    BY <1>1, <1>5
  <2> QED
    BY <2>1, <2>2 DEF RewardFits
<1>6. Fits(rs, rw2, op, g + 1, rc)
  BY <1>1, <1>2, <1>4, <1>5 DEF Fits
<1>7. MovedOn(rs, rs, rw, rw2, op, op, g, g + 1)
  BY <1>1, <1>2 DEF MovedOn, Later
<1>8. ASSUME NEW cs, CallsFit(cs, rs, rw, op, g)
      PROVE  CallsFit(cs, rs, rw2, op, g + 1)
  <2>1. ASSUME NEW d \in Calls PROVE CallFits(cs[d], rs, rw2, op, g + 1)
    <3>1. CallFits(cs[d], rs, rw, op, g) /\ rs \in [RoundIds -> Round]
      BY <1>8 DEF CallsFit, Fits
    <3> QED
      BY <3>1, <1>1, <1>7, CallFitsStill
  <2> QED
    BY <2>1, <1>8 DEF CallsFit
<1> QED
  BY <1>6, <1>8 DEF rw2

\* promoteNextEligibleCandidate with the balance: the new reservation belongs to
\* the candidate it holds on to, in front of which nobody waits.
LEMMA PromoteKeeps ==
  ASSUME Inv, NEW c \in Calls, Promote(c)
  PROVE  Kept
<1> DEFINE call == calls[c]
           r    == call.round
           a    == rounds[r]
           k    == given + 1
           b    == [a EXCEPT !.queue[call.at].status = "reservation_active",
                             !.queue[call.at].claim = k,
                             !.held = k]
           x    == [a.queue[call.at] EXCEPT !.status = "reservation_active", !.claim = k]
           n    == [miner |-> b.queue[call.at].miner, round |-> r,
                    status |-> "payment_pending", lapsed |-> FALSE]
           rs2  == [rounds EXCEPT ![r] = b]
           rw2  == [rewards EXCEPT ![k] = n]
           t    == Answered(call, call.then)
<1>1. /\ call.pc = "lookup" /\ given < MaxClaims
      /\ rounds' = rs2
      /\ rewards' = rw2
      /\ active' \in {0, active}
      /\ given' = k
      /\ calls' = [calls EXCEPT ![c] = t]
      /\ UNCHANGED <<opened, receipts, wins>>
  BY DEF Promote
<1>2. /\ CallFits(call, rounds, rewards, opened, given) /\ call \in Call
      /\ rounds \in [RoundIds -> Round] /\ given \in 0..MaxClaims
      /\ opened \in 0..MaxRounds /\ \A s \in RoundIds : QueueOK(rounds[s])
  BY DEF Inv, CallsFit, Fits
<1>3. /\ r \in 1..opened
      /\ call.at \in DOMAIN a.queue
      /\ \A j \in 1..(call.at - 1) : a.queue[j].status # "queued"
      /\ HandlerFits(call, call.then, rewards, opened, given)
  BY <1>1, <1>2 DEF CallFits
<1>4. r \in RoundIds /\ a \in Round /\ QueueOK(a) /\ a.queue \in Seq(Candidate)
  <2>1. r \in RoundIds
    BY <1>2, <1>3, RoundsAssumption DEF RoundIds
  <2>2. a \in Round /\ QueueOK(a)
    BY ONLY <1>2, <2>1
  <2> QED
    BY <2>1, <2>2 DEF Round
<1>5. k \in 0..MaxClaims /\ k \in ClaimIds
  <2>1. given \in 0..MaxClaims /\ given < MaxClaims
    BY <1>1, <1>2
  <2> QED
    BY <2>1, RoundsAssumption DEF ClaimIds
<1>6. x \in Candidate /\ x.miner = a.queue[call.at].miner /\ x.status = "reservation_active"
  <2>1. a.queue[call.at] \in Candidate
    BY <1>3, <1>4
  <2> HIDE DEF k
  <2> QED
    BY <2>1, <1>5 DEF Candidate, CandidateStatus
<1>7. b = [a EXCEPT !.queue = [a.queue EXCEPT ![call.at] = x], !.held = k]
  BY <1>3, <1>4
<1>8. [a.queue EXCEPT ![call.at] = x] \in Seq(Candidate)
  <2> HIDE DEF x, a, k
  <2> QED
    BY ONLY <1>3, <1>4, <1>6
<1> HIDE DEF x, b, k
<1>9. /\ b.queue = [a.queue EXCEPT ![call.at] = x]
      /\ b.attempted = a.attempted /\ b.winner = a.winner
      /\ b.over = a.over /\ b.held = k
  BY <1>4, <1>7 DEF Round
<1>10. b \in Round
  BY <1>4, <1>5, <1>7, <1>8, <1>9 DEF Round
<1>11. /\ Later(a, b) /\ QueueOK(b) /\ b.queue[call.at] = x
       /\ DOMAIN b.queue = DOMAIN a.queue
       /\ \A j \in DOMAIN a.queue \ {call.at} : b.queue[j] = a.queue[j]
  <2>1. /\ a \in Round /\ b \in Round /\ QueueOK(a)
        /\ call.at \in DOMAIN a.queue /\ x \in Candidate
        /\ b.queue = [a.queue EXCEPT ![call.at] = x]
        /\ b.attempted = a.attempted /\ b.winner = a.winner
        /\ x.miner = a.queue[call.at].miner /\ x.status # "queued"
    BY <1>3, <1>4, <1>6, <1>9, <1>10
  <2> HIDE DEF a, call
  <2> QED
    BY <2>1, CandidateMoves
<1>12. /\ Fits(rs2, rewards, opened, given, receipts)
       /\ CallsFit(calls, rs2, rewards, opened, given)
  BY <1>4, <1>10, <1>11, RoundMoves DEF Inv
<1>13. rs2[r] = b /\ \A s \in RoundIds \ {r} : rs2[s] = rounds[s]
  BY <1>2, <1>4
<1>14. /\ n.round = r /\ n.miner = x.miner /\ n.status = "payment_pending"
       /\ x.miner \in Miners
  BY <1>6, <1>11 DEF Candidate
<1>15. n \in Reward
  <2>1. r \in 0..MaxRounds
    BY <1>4, RoundsAssumption DEF RoundIds
  <2> QED
    BY <2>1, <1>11, <1>14 DEF Reward, RewardStatus
<1>16. \E i \in DOMAIN rs2[n.round].queue : rs2[n.round].queue[i].miner = n.miner
  BY <1>3, <1>11, <1>13, <1>14
<1>17. k = given + 1
  BY DEF k
<1> HIDE DEF n, rs2
<1>18. /\ Fits(rs2, rw2, opened, k, receipts)
       /\ CallsFit(calls, rs2, rw2, opened, k)
  BY <1>1, <1>3, <1>12, <1>14, <1>15, <1>16, <1>17, RewardAdded
<1>19. HandlerFits(call, call.then, rw2, opened, k)
  <2>1. \A j \in 1..given : j \in 1..k /\ j \in ClaimIds /\ j # k
    BY <1>2, <1>17, RoundsAssumption DEF ClaimIds
  <2>2. \A j \in 1..given : rw2[j] = rewards[j]
    BY <2>1 DEF Inv, Fits
  <2> HIDE DEF rw2
  <2> QED
    BY <2>1, <2>2, <1>3 DEF HandlerFits
<1>20. CallFits(t, rs2, rw2, opened, k)
  BY <1>2, <1>19, AnsweredFits
<1>21. CallsFit(calls', rs2, rw2, opened, k)
  BY <1>1, <1>18, <1>20, CallMoves
<1>22. Inv'
  <2>1. Fits(rounds', rewards', opened', given', receipts')
        /\ CallsFit(calls', rounds', rewards', opened', given')
    BY <1>1, <1>18, <1>21
  <2> QED
    BY <1>1, <2>1, InvInNext DEF Inv
<1>23. FirstServed
  BY <1>1, <1>3, <1>11, <1>13 DEF FirstServed
<1> QED
  BY <1>22, <1>23 DEF Kept

-----------------------------------------------------------------------------
(* The handlers behind their first reconcile. *)

\* ensureActiveRound opens the next round, or finds the newest one active.
LEMMA OpensNewest ==
  ASSUME Inv
  PROVE  /\ Opened \in 0..MaxRounds
         /\ EnsuredRound \in {0, Opened}
         /\ EnsuredRound = 0 => active = 0
         /\ Fits(rounds, rewards, Opened, given, receipts)
         /\ \A cs : CallsFit(cs, rounds, rewards, opened, given)
                      => CallsFit(cs, rounds, rewards, Opened, given)
<1>1. opened \in 0..MaxRounds /\ given \in 0..MaxClaims /\ active \in {0, opened}
      /\ rounds \in [RoundIds -> Round]
  BY DEF Inv, Fits
<1>2. /\ Opened \in 0..MaxRounds /\ opened <= Opened
      /\ EnsuredRound \in {0, Opened}
      /\ EnsuredRound = 0 => active = 0
  BY <1>1, RoundsAssumption DEF Opened, EnsuredRound
<1>3. opened \in Nat /\ Opened \in Nat /\ given \in Nat /\ opened <= MaxRounds
  BY <1>1, <1>2, RoundsAssumption
<1> DEFINE n == Opened
<1> HIDE DEF n
<1>4. n = Opened
  BY DEF n
<1>5. ASSUME NEW k \in ClaimIds PROVE RewardFits(k, rounds, rewards, n, given, receipts)
  <2>1. RewardFits(k, rounds, rewards, opened, given, receipts)
    BY DEF Inv, Fits
  <2>2. \A r \in 1..opened : r \in 1..n
    BY <1>2, <1>3, <1>4
  <2> QED
    BY <2>1, <2>2 DEF RewardFits
<1>6. Fits(rounds, rewards, n, given, receipts)
  BY <1>2, <1>4, <1>5 DEF Inv, Fits
<1>7. MovedOn(rounds, rounds, rewards, rewards, opened, n, given, given)
  BY <1>2, <1>3, <1>4 DEF MovedOn, Later
<1>8. ASSUME NEW cs, CallsFit(cs, rounds, rewards, opened, given)
      PROVE  CallsFit(cs, rounds, rewards, n, given)
  <2>1. ASSUME NEW d \in Calls PROVE CallFits(cs[d], rounds, rewards, n, given)
    <3>1. CallFits(cs[d], rounds, rewards, opened, given)
      BY <1>8 DEF CallsFit
    <3> QED
      BY <3>1, <1>1, <1>3, <1>4, <1>7, CallFitsStill
  <2> QED
    BY <2>1, <1>8 DEF CallsFit
<1> QED
  BY <1>2, <1>4, <1>6, <1>8

\* A request goes on or is answered after rounds and rewards were written.
LEMMA WriteKeeps ==
  ASSUME Inv, NEW c \in Calls, NEW op, NEW t, NEW rs, NEW rw, NEW rc,
         Fits(rs, rw, op, given, rc),
         CallsFit(calls, rs, rw, op, given),
         CallFits(t, rs, rw, op, given),
         calls' = [calls EXCEPT ![c] = t],
         rounds' = rs, rewards' = rw, receipts' = rc, given' = given,
         opened' = op, active' \in {0, op}, wins' \in [Miners -> Nat],
         \A r \in RoundIds : NoNewHolder(rounds[r], rs[r])
  PROVE  Kept
<1>1. CallsFit(calls', rs, rw, op, given)
  BY CallMoves
<1>2. Inv'
  BY <1>1, InvInNext
<1>3. FirstServed
  BY DEF FirstServed, NoNewHolder
<1> QED
  BY <1>2, <1>3 DEF Kept

\* A request is answered without a change to rounds and rewards.
LEMMA AnswerKeeps ==
  ASSUME Inv, NEW c \in Calls, NEW op, NEW t,
         Fits(rounds, rewards, op, given, receipts),
         CallsFit(calls, rounds, rewards, op, given),
         CallFits(t, rounds, rewards, op, given),
         calls' = [calls EXCEPT ![c] = t],
         opened' = op, active' \in {0, op},
         UNCHANGED <<rounds, rewards, given, receipts, wins>>
  PROVE  Kept
<1>1. \A r \in RoundIds : NoNewHolder(rounds[r], rounds[r])
  BY DEF NoNewHolder
<1>2. wins' \in [Miners -> Nat]
  BY DEF Inv
<1> QED
  BY <1>1, <1>2, WriteKeeps

\* startMining, getCurrentRound, and the refusals of submitSolution.
LEMMA OpenKeeps ==
  ASSUME Inv, NEW c \in Calls, GiveRound(c) \/ RefuseSolution(c)
  PROVE  Kept
<1>1. /\ opened' = Opened /\ active' = EnsuredRound
      /\ calls' = [calls EXCEPT ![c] = NoCall]
      /\ UNCHANGED <<rounds, rewards, given, receipts, wins>>
  BY DEF GiveRound, RefuseSolution, Return
<1> QED
  BY <1>1, OpensNewest, NoCallFits, AnswerKeeps DEF Inv

\* The answers of submitClaimPayment that change nothing.
LEMMA SettledKeeps ==
  ASSUME Inv, NEW c \in Calls, PaymentSettled(c) \/ PaymentError(c)
  PROVE  Kept
<1>1. /\ calls' = [calls EXCEPT ![c] = NoCall]
      /\ UNCHANGED serviceVars
  BY DEF PaymentSettled, PaymentError, Return
<1> QED
  BY <1>1, NoCallFits, AnswerKeeps DEF Inv, serviceVars

\* round_expired
LEMMA TooLateKeeps ==
  ASSUME Inv, NEW c \in Calls, SolutionTooLate(c)
  PROVE  Kept
<1>1. /\ Reconcile(c, NoCall, "idle", rounds, active, rewards)
      /\ UNCHANGED <<opened, given, receipts, wins>>
  BY DEF SolutionTooLate
<1>2. \A r \in RoundIds : NoNewHolder(rounds[r], rounds[r])
  BY DEF NoNewHolder
<1> QED
  BY <1>1, <1>2, NoCallFits, ReconcileStep DEF Inv

\* The round with the attempt of request c, and with its right answer queued.
Attempted(c) == [rounds[EnsuredRound] EXCEPT !.attempted = @ \cup {calls[c].miner}]
Queued(c) ==
  [Attempted(c) EXCEPT
     !.queue = Append(@, [miner |-> calls[c].miner, status |-> "queued", claim |-> 0])]
Tried(c, right) ==
  [rounds EXCEPT ![EnsuredRound] = IF right THEN Queued(c) ELSE Attempted(c)]

\* submitSolution records the attempt; a right answer joins the queue of a round
\* the miner has not tried before.
LEMMA TakeFits ==
  ASSUME Inv, NEW c \in Calls, NEW right \in BOOLEAN, TakeSolution(c, right),
         NEW r, r = EnsuredRound, NEW rs2, rs2 = Tried(c, right)
  PROVE  /\ r = Opened /\ r \in RoundIds /\ opened' = Opened
         /\ UNCHANGED <<given, receipts, wins>>
         /\ IF right
            THEN Reconcile(c, NoCall, "idle", rs2, r, rewards)
            ELSE /\ rounds' = rs2 /\ active' = r /\ rewards' = rewards
                 /\ calls' = [calls EXCEPT ![c] = NoCall]
         /\ Fits(rs2, rewards, Opened, given, receipts)
         /\ CallsFit(calls, rs2, rewards, Opened, given)
         /\ \A s \in RoundIds : /\ NoNewHolder(rounds[s], rs2[s])
                                /\ DOMAIN rounds[s].queue \subseteq DOMAIN rs2[s].queue
                                /\ rs2[s].winner = rounds[s].winner
                                /\ rs2[s].held = rounds[s].held
<1> DEFINE call == calls[c]
           a    == rounds[r]
           b    == [a EXCEPT !.attempted = @ \cup {call.miner}]
           cand == [miner |-> call.miner, status |-> "queued", claim |-> 0]
           d    == [b EXCEPT !.queue = Append(@, cand)]
<1>0. rs2 = [rounds EXCEPT ![r] = IF right THEN d ELSE b]
  BY DEF Tried, Queued, Attempted
<1>1. /\ call.pc = "solve" /\ r # 0
      /\ call.miner \notin a.attempted
      /\ opened' = Opened
      /\ UNCHANGED <<given, receipts, wins>>
      /\ IF right
         THEN Reconcile(c, NoCall, "idle", [rounds EXCEPT ![r] = d], r, rewards)
         ELSE /\ rounds' = [rounds EXCEPT ![r] = b]
              /\ active' = r
              /\ calls' = [calls EXCEPT ![c] = NoCall]
              /\ rewards' = rewards
  BY DEF TakeSolution, Return
<1>2. CallFits(call, rounds, rewards, opened, given)
  BY DEF Inv, CallsFit
<1>3. call.miner \in Miners
  BY <1>1, <1>2 DEF CallFits, HandlerFits
<1>4. /\ r = Opened /\ r \in RoundIds
      /\ Fits(rounds, rewards, Opened, given, receipts)
      /\ CallsFit(calls, rounds, rewards, Opened, given)
  BY <1>1, OpensNewest, RoundsAssumption DEF RoundIds, Inv
<1>5. /\ a \in Round /\ QueueOK(a) /\ a.queue \in Seq(Candidate)
      /\ rounds \in [RoundIds -> Round]
  BY <1>4 DEF Fits, Round
<1>6. /\ b \in Round
      /\ b.queue = a.queue /\ b.attempted = a.attempted \cup {call.miner}
      /\ b.winner = a.winner /\ b.held = a.held
  BY <1>3, <1>5 DEF Round
<1>7. CASE ~right
  <2>1. QueueOK(b) /\ Later(a, b) /\ NoNewHolder(a, b)
    BY <1>5, <1>6 DEF QueueOK, Later, NoNewHolder
  <2> HIDE DEF b, d
  <2>2. rs2 = [rounds EXCEPT ![r] = b]
    BY <1>0, <1>7
  <2>3. /\ Fits(rs2, rewards, Opened, given, receipts)
        /\ CallsFit(calls, rs2, rewards, Opened, given)
    <3> DEFINE q == [rounds EXCEPT ![r] = b]
    <3>1. /\ Fits(q, rewards, Opened, given, receipts)
          /\ CallsFit(calls, q, rewards, Opened, given)
      BY <2>1, <1>4, <1>6, RoundMoves
    <3> QED
      BY ONLY <2>2, <3>1
  <2>4. \A s \in RoundIds : /\ NoNewHolder(rounds[s], rs2[s])
                            /\ DOMAIN rounds[s].queue \subseteq DOMAIN rs2[s].queue
                            /\ rs2[s].winner = rounds[s].winner
                            /\ rs2[s].held = rounds[s].held
    BY <2>1, <2>2, <1>4, <1>5, <1>6 DEF NoNewHolder
  <2> QED
    BY <1>1, <1>4, <1>7, <2>2, <2>3, <2>4
<1>8. CASE right
  <2>1. cand \in Candidate /\ cand.miner = call.miner /\ cand.status = "queued"
    BY <1>3, RoundsAssumption DEF Candidate, CandidateStatus
  <2> HIDE DEF cand, b
  <2>2. /\ d.queue = Append(a.queue, cand)
        /\ d.attempted = a.attempted \cup {call.miner} /\ d.winner = a.winner
        /\ d.held = a.held
    BY <1>6 DEF Round
  <2>3. /\ Append(a.queue, cand) \in Seq(Candidate)
        /\ DOMAIN Append(a.queue, cand) = 1..(Len(a.queue) + 1)
        /\ DOMAIN a.queue = 1..Len(a.queue) /\ Len(a.queue) \in Nat
        /\ Append(a.queue, cand)[Len(a.queue) + 1] = cand
        /\ \A i \in DOMAIN a.queue : Append(a.queue, cand)[i] = a.queue[i]
    BY <1>5, <2>1
  <2>4. d \in Round
    BY <1>6, <2>2, <2>3 DEF Round
  <2> HIDE DEF d
  <2>5. \A i \in DOMAIN d.queue :
          d.queue[i] = (IF i \in DOMAIN a.queue THEN a.queue[i] ELSE cand)
          /\ (i \notin DOMAIN a.queue => i = Len(a.queue) + 1)
    BY <2>2, <2>3
  <2>6. QueueOK(d)
    <3>1. ASSUME NEW i \in DOMAIN d.queue PROVE d.queue[i].miner \in d.attempted
      BY <1>5, <2>1, <2>2, <2>5 DEF QueueOK
    <3>2. ASSUME NEW i \in DOMAIN d.queue, NEW j \in DOMAIN d.queue,
                 d.queue[i].miner = d.queue[j].miner
          PROVE  i = j
      <4>1. CASE i \in DOMAIN a.queue /\ j \in DOMAIN a.queue
        BY <3>2, <4>1, <1>5, <2>5 DEF QueueOK
      <4>2. CASE i \in DOMAIN a.queue /\ j \notin DOMAIN a.queue
        BY <3>2, <4>2, <1>1, <1>5, <2>1, <2>5 DEF QueueOK
      <4>3. CASE i \notin DOMAIN a.queue /\ j \in DOMAIN a.queue
        BY <3>2, <4>3, <1>1, <1>5, <2>1, <2>5 DEF QueueOK
      <4>4. CASE i \notin DOMAIN a.queue /\ j \notin DOMAIN a.queue
        BY <4>4, <2>5
      <4> QED
        BY <4>1, <4>2, <4>3, <4>4
    <3> QED
      BY <3>1, <3>2 DEF QueueOK
  <2>7. /\ DOMAIN a.queue \subseteq DOMAIN d.queue
        /\ \A i \in DOMAIN a.queue : d.queue[i] = a.queue[i]
    BY <2>2, <2>3
  <2>8. Later(a, d) /\ NoNewHolder(a, d)
    BY <2>2, <2>7 DEF Later, NoNewHolder
  <2>9. rs2 = [rounds EXCEPT ![r] = d]
    BY <1>0, <1>8
  <2>10. /\ Fits(rs2, rewards, Opened, given, receipts)
         /\ CallsFit(calls, rs2, rewards, Opened, given)
    <3> DEFINE q == [rounds EXCEPT ![r] = d]
    <3>1. /\ Fits(q, rewards, Opened, given, receipts)
          /\ CallsFit(calls, q, rewards, Opened, given)
      BY <2>4, <2>6, <2>8, <1>4, RoundMoves
    <3> QED
      BY ONLY <2>9, <3>1
  <2>11. \A s \in RoundIds : /\ NoNewHolder(rounds[s], rs2[s])
                             /\ DOMAIN rounds[s].queue \subseteq DOMAIN rs2[s].queue
                             /\ rs2[s].winner = rounds[s].winner
                             /\ rs2[s].held = rounds[s].held
    BY <2>2, <2>7, <2>8, <2>9, <1>4, <1>5 DEF NoNewHolder
  <2>12. /\ Reconcile(c, NoCall, "idle", rs2, r, rewards)
         /\ opened' = Opened /\ UNCHANGED <<given, receipts, wins>>
    BY <1>1, <1>8, <2>9 DEF d, b, cand
  <2> QED
    BY <1>4, <1>8, <2>10, <2>11, <2>12
<1> QED
  BY <1>7, <1>8

LEMMA TakeKeeps ==
  ASSUME Inv, NEW c \in Calls, NEW right \in BOOLEAN, TakeSolution(c, right)
  PROVE  Kept
<1> DEFINE r   == EnsuredRound
           rs2 == Tried(c, right)
<1>1. /\ r = Opened /\ opened' = Opened
      /\ UNCHANGED <<given, receipts, wins>>
      /\ IF right
         THEN Reconcile(c, NoCall, "idle", rs2, r, rewards)
         ELSE /\ rounds' = rs2 /\ active' = r /\ rewards' = rewards
              /\ calls' = [calls EXCEPT ![c] = NoCall]
      /\ Fits(rs2, rewards, Opened, given, receipts)
      /\ CallsFit(calls, rs2, rewards, Opened, given)
      /\ \A s \in RoundIds : /\ NoNewHolder(rounds[s], rs2[s])
                             /\ DOMAIN rounds[s].queue \subseteq DOMAIN rs2[s].queue
  BY TakeFits
<1> HIDE DEF r, rs2
<1>2. CASE right
  BY <1>1, <1>2, NoCallFits, ReconcileStep
<1>3. CASE ~right
  BY <1>1, <1>3, NoCallFits, WriteKeeps DEF Inv
<1> QED
  BY <1>2, <1>3

\* A payment that is looked at belongs to a reservation that was handed out.
LEMMA PaymentFits ==
  ASSUME Inv, NEW c \in Calls, calls[c].pc \in {"pay", "validate"}
  PROVE  /\ Paid(c) \in 1..given /\ Paid(c) \in ClaimIds
         /\ ClaimsOf(calls[c]) = {Paid(c)}
         /\ calls[c].miner = rewards[Paid(c)].miner
         /\ rewards[Paid(c)].round \in 1..opened /\ rewards[Paid(c)].round \in RoundIds
         /\ rewards[Paid(c)].miner \in Miners
         /\ calls[c].pc = "validate" => calls[c].round = rewards[Paid(c)].round
<1>1. CallFits(calls[c], rounds, rewards, opened, given)
  BY DEF Inv, CallsFit
<1>2. PICK k \in 1..given :
        /\ ClaimsOf(calls[c]) = {k} /\ calls[c].miner = rewards[k].miner
        /\ calls[c].pc = "validate" => rewards[k].round = calls[c].round
  BY <1>1 DEF CallFits, HandlerFits
<1>3. Paid(c) = k
  BY <1>2 DEF Paid
<1>4. k \in ClaimIds /\ k <= given
  BY RoundsAssumption DEF Inv, Fits, ClaimIds
<1>5. RewardFits(k, rounds, rewards, opened, given, receipts)
  BY <1>4 DEF Inv, Fits
<1>6. rewards[k].round \in 1..opened /\ rewards[k].miner \in Miners
  BY <1>4, <1>5 DEF RewardFits
<1>7. rewards[k].round \in RoundIds
  BY <1>6, RoundsAssumption DEF Inv, Fits, RoundIds
<1> QED
  BY <1>2, <1>3, <1>4, <1>6, <1>7

\* A reservation is dropped and its reward expires.
LEMMA DropFits ==
  ASSUME Inv, NEW k \in 1..given, NEW r \in RoundIds,
         NEW status \in CandidateStatus \ {"queued", "reservation_active"},
         NEW rs2, rs2 = [rounds EXCEPT ![r] = Dropped(@, k, status)],
         NEW rw2, rw2 = [rewards EXCEPT ![k].status = "expired"]
  PROVE  /\ Fits(rs2, rw2, opened, given, receipts)
         /\ CallsFit(calls, rs2, rw2, opened, given)
         /\ \A s \in RoundIds : /\ NoNewHolder(rounds[s], rs2[s])
                                /\ DOMAIN rounds[s].queue \subseteq DOMAIN rs2[s].queue
                                /\ rs2[s].winner = rounds[s].winner
<1> DEFINE b == Dropped(rounds[r], k, status)
<1>1. rounds \in [RoundIds -> Round] /\ QueueOK(rounds[r]) /\ rounds[r] \in Round
  BY DEF Inv, Fits
<1>2. /\ b \in Round /\ Later(rounds[r], b) /\ NoNewHolder(rounds[r], b) /\ QueueOK(b)
  BY <1>1, DroppedLater
<1>3. b.winner = rounds[r].winner
  BY <1>1 DEF Dropped, Round
<1>4. rs2 = [rounds EXCEPT ![r] = b]
  OBVIOUS
<1> HIDE DEF b
<1>5. /\ Fits(rs2, rewards, opened, given, receipts)
      /\ CallsFit(calls, rs2, rewards, opened, given)
  <2> DEFINE q == [rounds EXCEPT ![r] = b]
  <2>1. /\ Fits(q, rewards, opened, given, receipts)
        /\ CallsFit(calls, q, rewards, opened, given)
    BY <1>2, RoundMoves DEF Inv
  <2> QED
    BY ONLY <1>4, <2>1
<1>6. \A s \in RoundIds : /\ NoNewHolder(rounds[s], rs2[s])
                          /\ DOMAIN rounds[s].queue \subseteq DOMAIN rs2[s].queue
                          /\ rs2[s].winner = rounds[s].winner
  BY <1>1, <1>2, <1>3, <1>4 DEF NoNewHolder, Later
<1>7. /\ Fits(rs2, rw2, opened, given, receipts)
      /\ CallsFit(calls, rs2, rw2, opened, given)
  BY <1>5, RewardExpires
<1> QED
  BY <1>6, <1>7

\* The same before the service reconciles.
LEMMA DropKeeps ==
  ASSUME Inv, NEW c \in Calls, NEW k \in 1..given, NEW r \in RoundIds,
         NEW status \in CandidateStatus \ {"queued", "reservation_active"},
         Reconcile(c, NoCall, "idle", [rounds EXCEPT ![r] = Dropped(@, k, status)], active,
                   [rewards EXCEPT ![k].status = "expired"]),
         UNCHANGED <<opened, given, receipts, wins>>
  PROVE  Kept
<1> DEFINE rs2 == [rounds EXCEPT ![r] = Dropped(@, k, status)]
           rw2 == [rewards EXCEPT ![k].status = "expired"]
<1>1. /\ Fits(rs2, rw2, opened, given, receipts)
      /\ CallsFit(calls, rs2, rw2, opened, given)
      /\ \A s \in RoundIds : /\ NoNewHolder(rounds[s], rs2[s])
                             /\ DOMAIN rounds[s].queue \subseteq DOMAIN rs2[s].queue
  BY DropFits
<1>2. Reconcile(c, NoCall, "idle", rs2, active, rw2)
  OBVIOUS
<1> HIDE DEF rs2, rw2
<1>3. active \in {0, opened}
  BY DEF Inv
<1> QED
  BY <1>1, <1>2, <1>3, NoCallFits, ReconcileStep

\* reservation_expired
LEMMA PaymentTooLateKeeps ==
  ASSUME Inv, NEW c \in Calls, PaymentTooLate(c)
  PROVE  Kept
<1>1. Paid(c) \in 1..given /\ active \in RoundIds
  BY PaymentFits DEF PaymentTooLate
<1>2. "timed_out" \in CandidateStatus \ {"queued", "reservation_active"}
  BY DEF CandidateStatus
<1> QED
  BY <1>1, <1>2, DropKeeps DEF PaymentTooLate

\* payment_rejected
LEMMA RejectKeeps ==
  ASSUME Inv, NEW c \in Calls, RejectPayment(c)
  PROVE  Kept
<1>1. Paid(c) \in 1..given /\ calls[c].round \in RoundIds
  BY PaymentFits DEF RejectPayment
<1>2. "payment_rejected" \in CandidateStatus \ {"queued", "reservation_active"}
  BY DEF CandidateStatus
<1> QED
  BY <1>1, <1>2, DropKeeps DEF RejectPayment

\* The payment transaction is looked up for the round of its reservation.
LEMMA LookUpKeeps ==
  ASSUME Inv, NEW c \in Calls, LookUpPayment(c)
  PROVE  Kept
<1> DEFINE call == calls[c]
           k    == Paid(c)
           t    == [call EXCEPT !.pc = "validate", !.round = active]
<1>1. /\ k \in 1..given /\ ClaimsOf(call) = {k} /\ call.miner = rewards[k].miner
      /\ active \in 1..opened /\ active \in RoundIds /\ rewards[k].round = active
  BY PaymentFits DEF LookUpPayment
<1>2. calls \in [Calls -> Call] /\ call \in Call
  BY DEF Inv, CallsFit
<1>3. active \in 0..MaxRounds /\ "validate" \in CallPc
  BY <1>1, RoundsAssumption DEF RoundIds, CallPc
<1>4. /\ t \in Call /\ t.pc = "validate" /\ t.round = active
      /\ ClaimsOf(t) = ClaimsOf(call) /\ t.miner = call.miner
  BY <1>2, <1>3 DEF Call, ClaimsOf
<1>5. calls' = [calls EXCEPT ![c] = t] /\ UNCHANGED serviceVars
  BY <1>2 DEF LookUpPayment
<1> HIDE DEF t
<1>6. CallFits(t, rounds, rewards, opened, given)
  BY <1>1, <1>4 DEF CallFits
<1> QED
  BY <1>5, <1>6, AnswerKeeps DEF Inv, serviceVars

\* payment_accepted: the round of the reservation is won, the reward claimable.
LEMMA AcceptKeeps ==
  ASSUME Inv, NEW c \in Calls, AcceptPayment(c)
  PROVE  Kept
<1> DEFINE k   == Paid(c)
           r   == calls[c].round
           m   == calls[c].miner
           a   == rounds[r]
           b   == [a EXCEPT !.queue = Marked(a.queue, k, "paid"), !.winner = m, !.held = 0]
           rs2 == [rounds EXCEPT ![r] = b]
           rw2 == [rewards EXCEPT ![k].status = "claimable"]
<1>1. /\ k \in 1..given /\ k \in ClaimIds /\ r \in RoundIds /\ r = rewards[k].round
      /\ m = rewards[k].miner /\ m \in Miners
  BY PaymentFits DEF AcceptPayment
<1>2. /\ rounds \in [RoundIds -> Round] /\ a \in Round /\ QueueOK(a)
      /\ rewards \in [ClaimIds -> Reward] /\ receipts \in [ClaimIds -> Nat]
      /\ wins \in [Miners -> Nat]
  BY <1>1 DEF Inv, Fits
<1>3. /\ rounds' = rs2 /\ rewards' = rw2
      /\ wins' = [wins EXCEPT ![m] = @ + 1]
      /\ active' = 0
      /\ calls' = [calls EXCEPT ![c] = NoCall]
      /\ UNCHANGED <<opened, given, receipts>>
  BY <1>1, <1>2 DEF AcceptPayment, Return
<1>4. wins' \in [Miners -> Nat]
  BY <1>1, <1>2, <1>3
<1>5. /\ Marked(a.queue, k, "paid") \in Seq(Candidate)
      /\ DOMAIN Marked(a.queue, k, "paid") = DOMAIN a.queue
      /\ \A i \in DOMAIN a.queue :
           /\ Marked(a.queue, k, "paid")[i].miner = a.queue[i].miner
           /\ Marked(a.queue, k, "paid")[i].status \in {"paid", a.queue[i].status}
  <2>1. a.queue \in Seq(Candidate) /\ "paid" \in CandidateStatus \ {"queued"}
    BY <1>2 DEF Round, CandidateStatus
  <2> QED
    BY <2>1, MarkedQueue
<1>6. /\ b.queue = Marked(a.queue, k, "paid") /\ b.winner = m /\ b.attempted = a.attempted
      /\ b.held = 0 /\ b.over = a.over
  BY <1>2 DEF Round
<1>7. b \in Round
  <2>1. 0 \in 0..MaxClaims
    BY RoundsAssumption
  <2> QED
    BY <2>1, <1>1, <1>2, <1>5, <1>6 DEF Round
<1> HIDE DEF b
<1>8. QueueOK(b) /\ Later(a, b) /\ NoNewHolder(a, b) /\ b.winner # None
  <2>1. b.winner # None
    BY <1>1, <1>6, RoundsAssumption
  <2>2. /\ DOMAIN b.queue = DOMAIN a.queue
        /\ \A i \in DOMAIN a.queue :
             /\ b.queue[i].miner = a.queue[i].miner
             /\ b.queue[i].status \in {"paid", a.queue[i].status}
    BY <1>5, <1>6
  <2>3. Later(a, b) /\ NoNewHolder(a, b)
    BY <2>1, <2>2 DEF Later, NoNewHolder
  <2>4. QueueOK(b)
    <3> SUFFICES ASSUME NEW i \in DOMAIN a.queue, NEW j \in DOMAIN a.queue
                 PROVE  /\ b.queue[i].miner \in a.attempted
                        /\ b.queue[i].miner = b.queue[j].miner => i = j
      BY <2>2, <1>6 DEF QueueOK
    <3>1. /\ a.queue[i].miner \in a.attempted
          /\ a.queue[i].miner = a.queue[j].miner => i = j
      BY <1>2 DEF QueueOK
    <3> QED
      BY <2>2, <3>1
  <2> QED
    BY <2>1, <2>3, <2>4
<1>9. /\ Fits(rs2, rewards, opened, given, receipts)
      /\ CallsFit(calls, rs2, rewards, opened, given)
  BY <1>1, <1>7, <1>8, RoundMoves DEF Inv
<1>10. rs2[r] = b /\ \A s \in RoundIds : NoNewHolder(rounds[s], rs2[s])
  BY <1>1, <1>2, <1>8 DEF NoNewHolder
<1> HIDE DEF rs2
<1>11. /\ rw2 \in [ClaimIds -> Reward]
       /\ \A j \in ClaimIds \ {k} : rw2[j] = rewards[j]
       /\ rw2[k].miner = rewards[k].miner /\ rw2[k].round = rewards[k].round
  <2>1. rewards[k] \in Reward
    BY <1>1, <1>2
  <2> DEFINE x == [rewards[k] EXCEPT !.status = "claimable"]
  <2>2. x \in Reward /\ x.miner = rewards[k].miner /\ x.round = rewards[k].round
    BY <2>1 DEF Reward, RewardStatus
  <2>3. rw2 = [rewards EXCEPT ![k] = x]
    BY <1>1, <1>2
  <2> HIDE DEF x, rw2
  <2> QED
    BY <2>2, <2>3, <1>1, <1>2
<1> HIDE DEF rw2
<1>12. \A j \in ClaimIds :
         /\ rw2[j].miner = rewards[j].miner /\ rw2[j].round = rewards[j].round
         /\ j > given => rw2[j].status = rewards[j].status /\ receipts[j] = receipts[j]
         /\ (j <= given /\ (rw2[j].status \in {"claimable", "receipt_issued"} \/ receipts[j] > 0))
              => rs2[rewards[j].round].winner # None
  <2>1. ASSUME NEW j \in ClaimIds, j # k, j <= given,
               rw2[j].status \in {"claimable", "receipt_issued"} \/ receipts[j] > 0
        PROVE  rs2[rewards[j].round].winner # None
    BY <2>1, <1>9, <1>11 DEF Fits, RewardFits
  <2>2. given \in Nat /\ k <= given /\ \A j \in ClaimIds : j \in Nat
    BY <1>1, RoundsAssumption DEF Inv, Fits, ClaimIds
  <2> QED
    BY <2>1, <2>2, <1>1, <1>8, <1>10, <1>11
<1>13. /\ Fits(rs2, rw2, opened, given, receipts)
       /\ CallsFit(calls, rs2, rw2, opened, given)
  BY <1>2, <1>9, <1>11, <1>12, RewardsMove
<1> QED
  BY <1>3, <1>4, <1>10, <1>13, NoCallFits, WriteKeeps

\* requestClaimReceipt: rewards enter a receipt only when their round was won.
LEMMA IssueKeeps ==
  ASSUME Inv, NEW c \in Calls, IssueReceipt(c)
  PROVE  Kept
<1> DEFINE ks == ClaimsOf(calls[c])
           n  == calls[c].claims
           ok == \A k \in ks : rewards[k].status = "claimable"
           rw2 == [k \in ClaimIds |->
                     IF k \in ks THEN [rewards[k] EXCEPT !.status = "receipt_issued"]
                     ELSE rewards[k]]
           rc2 == [k \in ClaimIds |-> receipts[k] + n[k]]
<1>1. /\ IF ok THEN rewards' = rw2 /\ receipts' = rc2 ELSE UNCHANGED <<rewards, receipts>>
      /\ calls' = [calls EXCEPT ![c] = NoCall]
      /\ UNCHANGED <<rounds, opened, active, given, wins>>
  BY DEF IssueReceipt, Return
<1>2. /\ rewards \in [ClaimIds -> Reward] /\ receipts \in [ClaimIds -> Nat]
      /\ given \in Nat /\ \A k \in ClaimIds : k \in Nat
  BY RoundsAssumption DEF Inv, Fits, ClaimIds
<1>5. \A k \in ClaimIds : n[k] \in Nat /\ (k \notin ks => n[k] = 0)
  <2>1. n \in [ClaimIds -> 0..MaxNamed]
    BY DEF Inv, CallsFit, Call
  <2> QED
    BY <2>1, RoundsAssumption DEF ClaimsOf
<1> HIDE DEF n, ks
<1>3. CASE ~ok
  BY <1>1, <1>3, NoCallFits, AnswerKeeps DEF Inv
<1>4. CASE ok
  <2>1. ASSUME NEW k \in ClaimIds
        PROVE  /\ rw2[k] \in Reward /\ rc2[k] \in Nat
               /\ rw2[k].miner = rewards[k].miner /\ rw2[k].round = rewards[k].round
    <3>1. rewards[k] \in Reward
      BY <1>2
    <3> DEFINE x == [rewards[k] EXCEPT !.status = "receipt_issued"]
    <3>2. x \in Reward /\ x.miner = rewards[k].miner /\ x.round = rewards[k].round
      BY <3>1 DEF Reward, RewardStatus
    <3>3. rw2[k] = IF k \in ks THEN x ELSE rewards[k]
      OBVIOUS
    <3> HIDE DEF x, rw2
    <3> QED
      BY <3>1, <3>2, <3>3, <1>2, <1>5
  <2>2. ASSUME NEW k \in ClaimIds, k \in ks
        PROVE  k <= given /\ rounds[rewards[k].round].winner # None
    BY <2>2, <1>2, <1>4 DEF Inv, Fits, RewardFits
  <2>3. ASSUME NEW k \in ClaimIds, k \notin ks
        PROVE  rw2[k] = rewards[k] /\ rc2[k] = receipts[k]
    BY <2>3, <1>2, <1>5
  <2>4. rw2 \in [ClaimIds -> Reward] /\ rc2 \in [ClaimIds -> Nat]
    BY <2>1
  <2> HIDE DEF rw2, rc2
  <2>5. ASSUME NEW k \in ClaimIds
        PROVE  /\ rw2[k].miner = rewards[k].miner /\ rw2[k].round = rewards[k].round
               /\ k > given => rw2[k].status = rewards[k].status /\ rc2[k] = receipts[k]
               /\ (k <= given /\ (rw2[k].status \in {"claimable", "receipt_issued"} \/ rc2[k] > 0))
                    => rounds[rewards[k].round].winner # None
    <3>1. CASE k \in ks
      BY <3>1, <2>1, <2>2, <1>2
    <3>2. CASE k \notin ks
      <4>1. RewardFits(k, rounds, rewards, opened, given, receipts)
        BY DEF Inv, Fits
      <4> QED
        BY <3>2, <4>1, <2>3 DEF RewardFits
    <3> QED
      BY <3>1, <3>2
  <2>6. /\ Fits(rounds, rw2, opened, given, rc2)
        /\ CallsFit(calls, rounds, rw2, opened, given)
    BY <2>4, <2>5, RewardsMove DEF Inv
  <2>7. \A s \in RoundIds : NoNewHolder(rounds[s], rounds[s])
    BY DEF NoNewHolder
  <2>8. wins' \in [Miners -> Nat] /\ active' \in {0, opened}
    BY <1>1 DEF Inv
  <2> QED
    BY <1>1, <1>4, <2>6, <2>7, <2>8, NoCallFits, WriteKeeps
<1> QED
  BY <1>3, <1>4

\* Rounds and payment windows run out.
LEMMA TimeKeeps ==
  ASSUME Inv, Time
  PROVE  Kept
<1>1. ASSUME NEW r \in RoundIds, RoundEnds(r)
      PROVE  Kept
  <2> DEFINE b   == [rounds[r] EXCEPT !.over = TRUE]
             rs2 == [rounds EXCEPT ![r] = b]
  <2>1. rounds \in [RoundIds -> Round] /\ rounds[r] \in Round /\ QueueOK(rounds[r])
    BY DEF Inv, Fits
  <2>2. /\ b \in Round /\ b.queue = rounds[r].queue
        /\ b.attempted = rounds[r].attempted /\ b.winner = rounds[r].winner
    BY <2>1 DEF Round
  <2>3. /\ rounds' = rs2
        /\ UNCHANGED <<opened, active, rewards, given, receipts, wins, calls>>
    BY <1>1, <2>1 DEF RoundEnds
  <2> HIDE DEF b
  <2>4. Later(rounds[r], b) /\ NoNewHolder(rounds[r], b) /\ QueueOK(b)
    BY <2>1, <2>2 DEF Later, NoNewHolder, QueueOK
  <2>5. /\ Fits(rs2, rewards, opened, given, receipts)
        /\ CallsFit(calls, rs2, rewards, opened, given)
    BY <2>2, <2>4, RoundMoves DEF Inv
  <2>6. \A s \in RoundIds : NoNewHolder(rounds[s], rs2[s])
    BY <2>1, <2>4 DEF NoNewHolder
  <2> HIDE DEF rs2
  <2>7. /\ Fits(rounds', rewards', opened', given', receipts')
        /\ CallsFit(calls', rounds', rewards', opened', given')
        /\ active' \in {0, opened'} /\ wins' \in [Miners -> Nat]
    BY <2>3, <2>5 DEF Inv
  <2>8. FirstServed
    BY <2>3, <2>6 DEF FirstServed, NoNewHolder
  <2> QED
    BY <2>7, <2>8, InvInNext DEF Kept
<1>2. ASSUME NEW k \in ClaimIds, WindowLapses(k)
      PROVE  Kept
  <2> DEFINE x   == [rewards[k] EXCEPT !.lapsed = TRUE]
             rw2 == [rewards EXCEPT ![k] = x]
  <2>1. /\ rewards \in [ClaimIds -> Reward] /\ rewards[k] \in Reward
        /\ receipts \in [ClaimIds -> Nat]
    BY DEF Inv, Fits
  <2>2. /\ x \in Reward /\ x.miner = rewards[k].miner /\ x.round = rewards[k].round
        /\ x.status = rewards[k].status
    BY <2>1 DEF Reward
  <2>3. /\ rewards' = rw2
        /\ UNCHANGED <<rounds, opened, active, given, receipts, wins, calls>>
    BY <1>2, <2>1 DEF WindowLapses
  <2> HIDE DEF x
  <2>4. /\ rw2 \in [ClaimIds -> Reward]
        /\ \A j \in ClaimIds : /\ rw2[j].miner = rewards[j].miner
                               /\ rw2[j].round = rewards[j].round
                               /\ rw2[j].status = rewards[j].status
    BY <2>1, <2>2
  <2> HIDE DEF rw2
  <2>5. \A j \in ClaimIds :
          (j <= given /\ (rewards[j].status \in {"claimable", "receipt_issued"} \/ receipts[j] > 0))
            => rounds[rewards[j].round].winner # None
    BY DEF Inv, Fits, RewardFits
  <2>6. /\ Fits(rounds, rw2, opened, given, receipts)
        /\ CallsFit(calls, rounds, rw2, opened, given)
    <3>1. /\ Fits(rounds, rewards, opened, given, receipts)
          /\ CallsFit(calls, rounds, rewards, opened, given)
      BY DEF Inv
    <3>2. /\ receipts \in [ClaimIds -> Nat]
          /\ \A j \in ClaimIds :
               /\ rw2[j].miner = rewards[j].miner /\ rw2[j].round = rewards[j].round
               /\ j > given => rw2[j].status = rewards[j].status /\ receipts[j] = receipts[j]
               /\ (j <= given /\ (rw2[j].status \in {"claimable", "receipt_issued"} \/ receipts[j] > 0))
                    => rounds[rewards[j].round].winner # None
      BY <2>4, <2>5, <3>1 DEF Fits
    <3> QED
      BY <2>4, <3>1, <3>2, RewardsMove
  <2>7. /\ Fits(rounds', rewards', opened', given', receipts')
        /\ CallsFit(calls', rounds', rewards', opened', given')
        /\ active' \in {0, opened'} /\ wins' \in [Miners -> Nat]
    BY <2>3, <2>6 DEF Inv
  <2>8. FirstServed
    BY <2>3 DEF FirstServed
  <2> QED
    BY <2>7, <2>8, InvInNext DEF Kept
<1> QED
  BY <1>1, <1>2 DEF Time

-----------------------------------------------------------------------------

\* A new service fits.
LEMMA InvInit == Init => Inv
<1> SUFFICES ASSUME Init PROVE Inv
  OBVIOUS
<1>1. /\ 0 \in 0..MaxRounds /\ 0 \in 0..MaxClaims
      /\ \A k \in ClaimIds : k \in Nat /\ k > 0
  BY RoundsAssumption DEF ClaimIds
<1>2. NewRound \in Round /\ QueueOK(NewRound)
  <2>1. <<>> \in Seq(Candidate) /\ DOMAIN <<>> = {}
    OBVIOUS
  <2> QED
    BY <2>1, <1>1 DEF NewRound, Round, QueueOK
<1>3. NoReward \in Reward /\ NoReward.status = "none"
  BY <1>1 DEF NoReward, Reward, RewardStatus
<1>4. Fits(rounds, rewards, opened, given, receipts)
  <2>1. \A k \in ClaimIds : RewardFits(k, rounds, rewards, 0, 0, receipts)
    BY <1>1, <1>3 DEF Init, RewardFits
  <2> QED
    BY <2>1, <1>1, <1>2, <1>3 DEF Init, Fits
<1>5. CallsFit(calls, rounds, rewards, opened, given)
  BY NoCallFits DEF Init, CallsFit
<1> QED
  BY <1>4, <1>5 DEF Init, Inv

\* One case for every action.
LEMMA InvNext == Inv /\ [Next]_vars => Inv' /\ [FirstServed]_vars
<1> SUFFICES ASSUME Inv, [Next]_vars PROVE Inv' /\ [FirstServed]_vars
  OBVIOUS
<1>1. ASSUME NEW c \in Calls, Advance(c)
      PROVE  Kept
  <2>1. CASE \E right \in BOOLEAN : TakeSolution(c, right)
    BY <2>1, TakeKeeps
  <2>2. CASE Underfunded(c) \/ Promote(c)
    BY <2>2, UnderfundedKeeps, PromoteKeeps
  <2>3. CASE GiveRound(c) \/ RefuseSolution(c) \/ SolutionTooLate(c)
    BY <2>3, OpenKeeps, TooLateKeeps
  <2>4. CASE PaymentSettled(c) \/ PaymentTooLate(c) \/ LookUpPayment(c) \/ PaymentError(c)
    BY <2>4, SettledKeeps, PaymentTooLateKeeps, LookUpKeeps
  <2>5. CASE AcceptPayment(c) \/ RejectPayment(c) \/ IssueReceipt(c)
    BY <2>5, AcceptKeeps, RejectKeeps, IssueKeeps
  <2> QED
    BY <1>1, <2>1, <2>2, <2>3, <2>4, <2>5 DEF Advance
<1>2. CASE Next
  BY <1>1, <1>2, RequestKeeps, TimeKeeps DEF Next, Kept
<1>3. CASE UNCHANGED vars
  <2>1. /\ Fits(rounds', rewards', opened', given', receipts')
        /\ CallsFit(calls', rounds', rewards', opened', given')
        /\ active' \in {0, opened'} /\ wins' \in [Miners -> Nat]
    BY <1>3 DEF Inv, vars
  <2> QED
    BY <1>3, <2>1, InvInNext
<1> QED
  BY <1>2, <1>3

\* The invariant holds in every reachable state.
LEMMA AlwaysInv == Spec => []Inv
BY InvInit, InvNext, PTL DEF Spec

\* Rounds, rewards, counters and requests have their types: no request ever
\* indexes a queue, a round or a reward that is not there.
THEOREM TypeCorrect == Spec => []TypeOK
<1>1. ASSUME Inv PROVE TypeOK
  <2>1. active \in 0..MaxRounds
    BY <1>1, RoundsAssumption DEF Inv, Fits
  <2> QED
    BY <1>1, <2>1 DEF Inv, Fits, CallsFit, TypeOK
<1>2. Inv => TypeOK
  BY <1>1
<1> QED
  BY <1>2, AlwaysInv, PTL

\* However many requests overlap, the active round is none or the newest one.
THEOREM OnlyNewestRoundEver == Spec => []OnlyNewestRound
<1>1. Inv => OnlyNewestRound
  BY DEF Inv, OnlyNewestRound
<1> QED
  BY <1>1, AlwaysInv, PTL

\* A miner has at most one correct answer in the queue of a round
\* (attempt_limit_reached).
THEOREM OneAttemptEver == Spec => []OneAttempt
<1>1. Inv => OneAttempt
  BY DEF Inv, Fits, QueueOK, OneAttempt
<1> QED
  BY <1>1, AlwaysInv, PTL

\* Reservations and receipts name miners with a correct answer, and only rounds
\* that were won.
THEOREM RewardsEarnedEver == Spec => []RewardsEarned
<1>1. ASSUME Inv PROVE RewardsEarned
  <2>1. \A k \in 1..given : k \in ClaimIds /\ k <= given
    BY <1>1, RoundsAssumption DEF Inv, Fits, ClaimIds
  <2> QED
    BY <1>1, <2>1 DEF Inv, Fits, RewardFits, RewardsEarned
<1>2. Inv => RewardsEarned
  BY <1>1
<1> QED
  BY <1>2, AlwaysInv, PTL

\* promoteNextEligibleCandidate passes over nobody: however requests overlap in
\* their balance lookups, a candidate becomes the provisional winner only when
\* everybody who answered earlier has been decided.
THEOREM FirstServedEver == Spec => FirstComeFirstServed
<1>1. Inv /\ [Next]_vars => [FirstServed]_vars
  BY InvNext
<1>2. Spec => [][FirstServed]_vars
  BY <1>1, AlwaysInv, PTL DEF Spec
<1> QED
  BY <1>2 DEF FirstComeFirstServed, FirstServed

-----------------------------------------------------------------------------
(* One request at a time. *)

OneAtATime == \A c, d \in Calls : c = d

\* The provisional winner is the candidate of the active round's reservation,
\* and nobody else waits for a payment.
PendingHeld(rs, ac, rw) ==
  \A k \in ClaimIds : rw[k].status = "payment_pending" =>
    ac # 0 /\ rw[k].round = ac /\ rs[ac].held = k

\* Neither the active round nor one that is not opened yet has been won.
OpenUnwon(rs, ac, op) ==
  /\ ac # 0 => rs[ac].winner = None
  /\ \A r \in RoundIds : r > op => rs[r].winner = None

Earned(rw, k) == rw[k].status \in {"claimable", "receipt_issued"}

\* A round is won with one reward, its winner's, and only a reward whose receipt
\* was issued is in one.
WonOnce(rs, rw, g, rc) ==
  /\ \A k \in ClaimIds : Earned(rw, k) => rs[rw[k].round].winner = rw[k].miner
  /\ \A j, k \in ClaimIds :
       (Earned(rw, j) /\ Earned(rw, k) /\ rw[j].round = rw[k].round) => j = k
  /\ \A k \in ClaimIds : rw[k].status # "receipt_issued" => rc[k] = 0
  /\ \A k \in ClaimIds : k > g => rw[k].miner = None

Tables(rs, ac, rw, op, g, rc) ==
  PendingHeld(rs, ac, rw) /\ OpenUnwon(rs, ac, op) /\ WonOnce(rs, rw, g, rc)

\* A request that waits, waits for the active round: for a candidate that could
\* hold its next reservation, or for the payment of the one it holds. One for a
\* receipt names rewards of its miner.
Waiting(t, rs, ac, rw, g) ==
  /\ t.pc = "lookup" => ac # 0 /\ t.round = ac /\ rs[ac].held = 0
  /\ t.pc = "validate" =>
       t.round = ac /\ \A k \in ClaimsOf(t) : rw[k].status = "payment_pending"
  /\ (t.pc = "receipt" \/ t.then = "receipt") =>
       /\ t.miner \in Miners
       /\ \A k \in ClaimsOf(t) : k \in 1..g /\ rw[k].miner = t.miner

SerialInv ==
  /\ Tables(rounds, active, rewards, opened, given, receipts)
  /\ \A c \in Calls : Waiting(calls[c], rounds, active, rewards, given)

\* Nobody waits for a payment when there is no round or it holds no reservation.
LEMMA NonePending ==
  ASSUME NEW rs, NEW ac, NEW rw, PendingHeld(rs, ac, rw), ac = 0 \/ rs[ac].held = 0
  PROVE  \A k \in ClaimIds : rw[k].status # "payment_pending"
BY RoundsAssumption DEF PendingHeld, ClaimIds

\* Reservations expire and rounds close, and the tables still agree.
LEMMA TablesStill ==
  ASSUME NEW rs, NEW ac, NEW rw, NEW op, NEW g, NEW rc, Tables(rs, ac, rw, op, g, rc),
         rw \in [ClaimIds -> Reward], op \in 0..MaxRounds, ac \in {0, op},
         \A k \in ClaimIds : rw[k].status # "none" => rw[k].round \in RoundIds,
         NEW rs2, NEW ac2, ac2 \in {0, ac}, NEW rw2,
         \A r \in RoundIds : rs2[r].winner = rs[r].winner,
         \A k \in ClaimIds :
           /\ rw2[k].miner = rw[k].miner /\ rw2[k].round = rw[k].round
           /\ \/ rw2[k].status = rw[k].status
              \/ rw[k].status = "payment_pending" /\ rw2[k].status = "expired",
         PendingHeld(rs2, ac2, rw2)
  PROVE  Tables(rs2, ac2, rw2, op, g, rc)
<1>1. OpenUnwon(rs2, ac2, op)
  BY RoundsAssumption DEF Tables, OpenUnwon, RoundIds
<1>2. \A k \in ClaimIds : Earned(rw2, k) => Earned(rw, k) /\ rw[k].round \in RoundIds
  BY DEF Earned
<1>3. WonOnce(rs2, rw2, g, rc)
  <2>1. \A k \in ClaimIds : Earned(rw2, k) => rs2[rw2[k].round].winner = rw2[k].miner
    BY <1>2 DEF Tables, WonOnce
  <2>2. \A j, k \in ClaimIds :
          (Earned(rw2, j) /\ Earned(rw2, k) /\ rw2[j].round = rw2[k].round) => j = k
    BY <1>2 DEF Tables, WonOnce
  <2>3. \A k \in ClaimIds : rw2[k].status # "receipt_issued" => rc[k] = 0
    BY DEF Tables, WonOnce
  <2>4. \A k \in ClaimIds : k > g => rw2[k].miner = None
    BY DEF Tables, WonOnce
  <2> QED
    BY <2>1, <2>2, <2>3, <2>4 DEF WonOnce
<1> QED
  BY <1>1, <1>3 DEF Tables

\* What a request for a receipt knows it keeps.
Knows(t, rw, g) ==
  t.miner \in Miners /\ \A k \in ClaimsOf(t) : k \in 1..g /\ rw[k].miner = t.miner

\* The request goes on or is answered and no longer waits.
LEMMA AnsweredWaits ==
  ASSUME NEW call \in Call, NEW then \in Handlers, NEW rs, NEW ac, NEW rw, NEW g,
         then = "receipt" => Knows(call, rw, g)
  PROVE  Waiting(Answered(call, then), rs, ac, rw, g)
<1>1. CASE then = "idle"
  BY <1>1 DEF Answered, NoCall, Waiting
<1>2. CASE then # "idle"
  <2> DEFINE t == Continue(call, then)
  <2>1. /\ t.pc = then /\ t.then = "idle" /\ t.miner = call.miner
        /\ ClaimsOf(t) = ClaimsOf(call)
    BY DEF Continue, Call, ClaimsOf
  <2>2. Answered(call, then) = t
    BY <1>2 DEF Answered
  <2> HIDE DEF t
  <2>3. then \notin {"lookup", "validate"}
    BY DEF Handlers
  <2> QED
    BY <2>1, <2>2, <2>3 DEF Waiting, Knows
<1> QED
  BY <1>1, <1>2

LEMMA NoCallWaits == \A rs, ac, rw, g : Waiting(NoCall, rs, ac, rw, g)
BY DEF NoCall, Waiting

\* reconcileActiveRoundState closes nothing somebody could still pay for, and
\* waits only for a candidate that would be the only provisional winner.
LEMMA ReconcileSerial ==
  ASSUME NEW c \in Calls, NEW call \in Call, NEW then \in Handlers,
         NEW rs, NEW ac, NEW rw, NEW op,
         Fits(rs, rw, op, given, receipts), ac \in {0, op},
         Tables(rs, ac, rw, op, given, receipts),
         then = "receipt" => Knows(call, rw, given),
         calls \in [Calls -> Call],
         Reconcile(c, call, then, rs, ac, rw)
  PROVE  /\ Tables(rounds', active', rewards', op, given, receipts)
         /\ Waiting(calls'[c], rounds', active', rewards', given)
         /\ \A r \in RoundIds : rounds'[r].winner = rs[r].winner
         /\ \A k \in ClaimIds : rewards'[k].round = rw[k].round
<1>1. CASE ac = 0
  <2>1. /\ rounds' = rs /\ active' = 0 /\ rewards' = rw
        /\ calls'[c] = Answered(call, then)
    BY <1>1 DEF Reconcile
  <2> QED
    BY <1>1, <2>1, AnsweredWaits
<1>2. CASE ac # 0
  <2> DEFINE k    == rs[ac].held
             late == k # 0 /\ rw[k].status = "payment_pending" /\ rw[k].lapsed
             rw1  == IF late THEN [rw EXCEPT ![k].status = "expired"] ELSE rw
             rnd  == IF late THEN Dropped(rs[ac], k, "timed_out")
                     ELSE IF k # 0 /\ rw[k].status # "payment_pending"
                     THEN [rs[ac] EXCEPT !.held = 0]
                     ELSE rs[ac]
             next == NextQueued(rnd.queue, 0)
             rs1  == [rs EXCEPT ![ac] = rnd]
             look == [call EXCEPT !.pc = "lookup", !.then = then, !.round = ac, !.at = next]
  <2>1. /\ rounds' = rs1
        /\ rewards' = rw1
        /\ \/ /\ rnd.held = 0
              /\ active' = ac
              /\ calls' = [calls EXCEPT ![c] = look]
           \/ /\ active' = IF Closable(rnd) THEN 0 ELSE ac
              /\ calls' = [calls EXCEPT ![c] = Answered(call, then)]
    BY <1>2 DEF Reconcile
  <2>2. /\ ac \in RoundIds /\ ac = op /\ op \in 0..MaxRounds
        /\ rs \in [RoundIds -> Round] /\ rs[ac] \in Round /\ rs[ac].winner = None
        /\ k \in 0..MaxClaims /\ given \in 0..MaxClaims /\ rw \in [ClaimIds -> Reward]
    BY <1>2, RoundsAssumption DEF Fits, RoundIds, Round, Tables, OpenUnwon
  <2>3. /\ rnd.winner = rs[ac].winner
        /\ rnd.held = IF late \/ (k # 0 /\ rw[k].status # "payment_pending") THEN 0 ELSE k
    BY <2>2 DEF Dropped, Round
  <2>4. late => k \in ClaimIds
    BY <2>2, RoundsAssumption DEF ClaimIds
  <2>5. \A j \in ClaimIds :
          /\ rw1[j].miner = rw[j].miner /\ rw1[j].round = rw[j].round
          /\ rw1[j].status = IF late /\ j = k THEN "expired" ELSE rw[j].status
    <3>1. CASE ~late
      BY <3>1
    <3>2. CASE late
      <4> DEFINE x == [rw[k] EXCEPT !.status = "expired"]
      <4>1. x.miner = rw[k].miner /\ x.round = rw[k].round /\ x.status = "expired"
        BY <2>2, <2>4, <3>2 DEF Reward
      <4>2. rw1 = [rw EXCEPT ![k] = x]
        BY <3>2
      <4> HIDE DEF x, rw1, k, late
      <4> QED
        BY <2>2, <3>2, <4>1, <4>2
    <3> QED
      BY <3>1, <3>2
  <2> HIDE DEF rnd, rw1
  <2>6. rs1[ac] = rnd /\ \A r \in RoundIds : rs1[r].winner = rs[r].winner
    BY <2>2, <2>3
  <2> HIDE DEF rs1
  <2>7. PendingHeld(rs1, ac, rw1)
    <3> SUFFICES ASSUME NEW j \in ClaimIds, rw1[j].status = "payment_pending"
                 PROVE  ac # 0 /\ rw1[j].round = ac /\ rs1[ac].held = j
      BY DEF PendingHeld
    <3>1. rw[j].status = "payment_pending" /\ ~(late /\ j = k)
      BY <2>5
    <3>2. rw[j].round = ac /\ k = j
      BY <3>1 DEF Tables, PendingHeld
    <3> QED
      BY <1>2, <2>3, <2>5, <2>6, <3>1, <3>2
  <2>8. \A j \in ClaimIds : rw[j].status # "none" => rw[j].round \in RoundIds
    BY <2>2, RoundsAssumption DEF Fits, RewardFits, RoundIds
  <2>9. \A ac2 \in {0, ac} : PendingHeld(rs1, ac2, rw1) =>
           Tables(rs1, ac2, rw1, op, given, receipts)
    <3> SUFFICES ASSUME NEW ac2 \in {0, ac}, PendingHeld(rs1, ac2, rw1)
                 PROVE  Tables(rs1, ac2, rw1, op, given, receipts)
      OBVIOUS
    <3>1. \A j \in ClaimIds :
            /\ rw1[j].miner = rw[j].miner /\ rw1[j].round = rw[j].round
            /\ \/ rw1[j].status = rw[j].status
               \/ rw[j].status = "payment_pending" /\ rw1[j].status = "expired"
      BY <2>5
    <3> QED
      BY <2>2, <2>6, <2>8, <3>1, TablesStill
  <2>10. CASE rnd.held = 0 /\ active' = ac /\ calls' = [calls EXCEPT ![c] = look]
    <3>1. /\ look.pc = "lookup" /\ look.then = then /\ look.round = ac
          /\ look.miner = call.miner /\ ClaimsOf(look) = ClaimsOf(call)
      BY DEF Call, ClaimsOf
    <3>2. calls'[c] = look
      BY <2>10
    <3> HIDE DEF look
    <3>3. then = "receipt" => Knows(call, rw1, given)
      <4> SUFFICES ASSUME then = "receipt" PROVE Knows(call, rw1, given)
        OBVIOUS
      <4>1. \A j \in 1..given : j \in ClaimIds
        BY <2>2, RoundsAssumption DEF ClaimIds
      <4> QED
        BY <2>5, <4>1 DEF Knows
    <3>4. Waiting(look, rs1, ac, rw1, given)
      BY <1>2, <2>6, <2>10, <3>1, <3>3 DEF Waiting, Knows
    <3> QED
      BY <2>1, <2>5, <2>6, <2>7, <2>9, <2>10, <3>2, <3>4
  <2>11. CASE /\ active' = IF Closable(rnd) THEN 0 ELSE ac
              /\ calls' = [calls EXCEPT ![c] = Answered(call, then)]
    <3>1. PendingHeld(rs1, active', rw1)
      <4>1. CASE ~Closable(rnd)
        BY <2>7, <2>11, <4>1
      <4>2. CASE Closable(rnd)
        <5>1. rnd.held = 0
          BY <2>2, <2>3, <4>2 DEF Closable
        <5>2. \A j \in ClaimIds : rw1[j].status # "payment_pending"
          BY <2>6, <2>7, <5>1, NonePending
        <5> QED
          BY <5>2 DEF PendingHeld
      <4> QED
        BY <4>1, <4>2
    <3>2. Tables(rs1, active', rw1, op, given, receipts)
      BY <2>9, <2>11, <3>1
    <3>3. then = "receipt" => Knows(call, rw1, given)
      <4> SUFFICES ASSUME then = "receipt" PROVE Knows(call, rw1, given)
        OBVIOUS
      <4>1. \A j \in 1..given : j \in ClaimIds
        BY <2>2, RoundsAssumption DEF ClaimIds
      <4> QED
        BY <2>5, <4>1 DEF Knows
    <3>4. Waiting(Answered(call, then), rs1, active', rw1, given)
      BY <3>3, AnsweredWaits
    <3>5. calls'[c] = Answered(call, then)
      BY <2>11
    <3> QED
      BY <2>1, <2>5, <2>6, <3>2, <3>4, <3>5
  <2> QED
    BY <2>1, <2>10, <2>11
<1> QED
  BY <1>1, <1>2

\* A step that counts no win and issues no receipt.
Quiet ==
  /\ \A r \in RoundIds : rounds'[r].winner = rounds[r].winner
  /\ \A k \in ClaimIds : rewards'[k].round = rewards[k].round \/ receipts[k] = 0
  /\ UNCHANGED <<wins, receipts>>

LEMMA SerialInNext ==
  ASSUME OneAtATime, NEW c \in Calls,
         Tables(rounds', active', rewards', opened', given', receipts'),
         Waiting(calls'[c], rounds', active', rewards', given')
  PROVE  SerialInv'
<1>1. \A d \in Calls : d = c
  BY DEF OneAtATime
<1>2. \A d \in Calls : Waiting(calls'[d], rounds', active', rewards', given')
  BY <1>1
<1> QED
  BY <1>2 DEF SerialInv, Tables, PendingHeld, OpenUnwon, WonOnce, Earned, Waiting

LEMMA ReconcileQuiet ==
  ASSUME OneAtATime, Inv, NEW c \in Calls, NEW call \in Call, NEW then \in Handlers,
         NEW rs, NEW ac, NEW rw, NEW op,
         Fits(rs, rw, op, given, receipts), ac \in {0, op},
         Tables(rs, ac, rw, op, given, receipts),
         then = "receipt" => Knows(call, rw, given),
         Reconcile(c, call, then, rs, ac, rw),
         opened' = op, UNCHANGED <<given, receipts, wins>>,
         \A r \in RoundIds : rs[r].winner = rounds[r].winner,
         \A k \in ClaimIds : rw[k].round = rewards[k].round
  PROVE  SerialInv' /\ Quiet
<1>1. calls \in [Calls -> Call]
  BY DEF Inv, CallsFit
<1>2. /\ Tables(rounds', active', rewards', op, given, receipts)
      /\ Waiting(calls'[c], rounds', active', rewards', given)
      /\ \A r \in RoundIds : rounds'[r].winner = rs[r].winner
      /\ \A k \in ClaimIds : rewards'[k].round = rw[k].round
  BY <1>1, ReconcileSerial
<1> QED
  BY <1>2, SerialInNext DEF Quiet

\* The tables before the step.
LEMMA SerialFacts ==
  ASSUME Inv, SerialInv
  PROVE  /\ Fits(rounds, rewards, opened, given, receipts) /\ active \in {0, opened}
         /\ opened \in 0..MaxRounds /\ given \in 0..MaxClaims /\ opened \in Nat /\ given \in Nat
         /\ rounds \in [RoundIds -> Round] /\ rewards \in [ClaimIds -> Reward]
         /\ receipts \in [ClaimIds -> Nat] /\ calls \in [Calls -> Call]
         /\ active # 0 => active \in RoundIds
         /\ \A k \in ClaimIds : rewards[k].status # "none" => rewards[k].round \in RoundIds
         /\ \A k \in 1..given : k \in ClaimIds
         /\ Tables(rounds, active, rewards, opened, given, receipts)
         /\ \A c \in Calls : Waiting(calls[c], rounds, active, rewards, given)
<1>1. Fits(rounds, rewards, opened, given, receipts) /\ active \in {0, opened}
      /\ calls \in [Calls -> Call]
  BY DEF Inv, CallsFit
<1>2. \A k \in ClaimIds : rewards[k].status # "none" => rewards[k].round \in RoundIds
  BY <1>1, RoundsAssumption DEF Fits, RewardFits, RoundIds
<1> QED
  BY <1>1, <1>2, RoundsAssumption DEF Fits, SerialInv, RoundIds, ClaimIds

LEMMA ArriveSerial ==
  ASSUME OneAtATime, Inv, SerialInv, NEW c \in Calls, NEW then \in Handlers,
         NEW m \in Miners \cup {None}, NEW r \in 0..MaxRounds,
         NEW ks \in [ClaimIds -> 0..MaxNamed],
         Arrive(c, then, m, r, ks),
         then = "receipt" =>
           m \in Miners /\ \A k \in ClaimIds : ks[k] > 0 => rewards[k].miner = m
  PROVE  SerialInv' /\ Quiet
<1> DEFINE call == [NoCall EXCEPT !.miner = m, !.asked = r, !.claims = ks]
<1>1. /\ call \in Call /\ call.miner = m
      /\ ClaimsOf(call) = {k \in ClaimIds : ks[k] > 0}
  BY NoCallFits DEF Call, ClaimsOf
<1>2. /\ Reconcile(c, call, then, rounds, active, rewards)
      /\ UNCHANGED <<opened, given, receipts, wins>>
  BY DEF Arrive
<1> HIDE DEF call
<1>3. then = "receipt" => Knows(call, rewards, given)
  <2> SUFFICES ASSUME then = "receipt", NEW k \in ClaimIds, ks[k] > 0 PROVE k \in 1..given
    BY <1>1 DEF Knows
  <2>1. k \in ClaimIds /\ rewards[k].miner # None /\ given \in Nat
    BY SerialFacts, RoundsAssumption
  <2>2. ~(k > given)
    BY <2>1, SerialFacts DEF Tables, WonOnce
  <2> QED
    BY <2>1, <2>2, RoundsAssumption DEF ClaimIds
<1>4. /\ Fits(rounds, rewards, opened, given, receipts) /\ active \in {0, opened}
      /\ Tables(rounds, active, rewards, opened, given, receipts)
  BY SerialFacts
<1> QED
  BY <1>1, <1>2, <1>3, <1>4, ReconcileQuiet

LEMMA RequestSerial ==
  ASSUME OneAtATime, Inv, SerialInv, NEW c \in Calls, Request(c)
  PROVE  SerialInv' /\ Quiet
<1>1. /\ opened \in 0..MaxRounds /\ given \in 0..MaxClaims
      /\ rewards \in [ClaimIds -> Reward] /\ 0 \in 0..MaxRounds
      /\ NoClaims \in [ClaimIds -> 0..MaxNamed]
  BY RoundsAssumption DEF Inv, Fits, NoClaims
<1>2. CASE AskRound(c)
  BY <1>1, <1>2, ArriveSerial DEF AskRound, Handlers
<1>3. CASE AskStatus(c)
  BY <1>1, <1>3, ArriveSerial DEF AskStatus, Handlers
<1>4. ASSUME NEW m \in Miners, NEW r \in 1..opened, SubmitSolution(c, m, r)
      PROVE  SerialInv' /\ Quiet
  <2>1. r \in 0..MaxRounds
    BY <1>1, RoundsAssumption
  <2>2. Arrive(c, "solve", m, r, NoClaims) /\ m \in Miners \cup {None}
    BY <1>4 DEF SubmitSolution
  <2> QED
    BY <1>1, <2>1, <2>2, ArriveSerial DEF Handlers
<1>5. ASSUME NEW k \in ClaimIds, SubmitPayment(c, k)
      PROVE  SerialInv' /\ Quiet
  <2>1. rewards[k].miner \in Miners \cup {None}
    BY <1>1 DEF Reward
  <2>2. [NoClaims EXCEPT ![k] = 1] \in [ClaimIds -> 0..MaxNamed]
    BY <1>1, RoundsAssumption
  <2> QED
    BY <1>1, <1>5, <2>1, <2>2, ArriveSerial DEF SubmitPayment, Handlers
<1>6. ASSUME NEW m \in Miners, NEW ks \in [ClaimIds -> 0..MaxNamed], RequestReceipt(c, m, ks)
      PROVE  SerialInv' /\ Quiet
  BY <1>1, <1>6, ArriveSerial DEF RequestReceipt, Handlers
<1> QED
  BY <1>2, <1>3, <1>4, <1>5, <1>6 DEF Request

\* A request is answered and nothing else changes.
LEMMA SettledSerial ==
  ASSUME OneAtATime, Inv, SerialInv, NEW c \in Calls,
         \/ PaymentSettled(c) \/ PaymentError(c)
  PROVE  SerialInv' /\ Quiet
<1>1. calls' = [calls EXCEPT ![c] = NoCall] /\ UNCHANGED serviceVars
  BY DEF PaymentSettled, PaymentError, Return
<1>2. calls'[c] = NoCall
  BY <1>1, SerialFacts
<1>3. Tables(rounds', active', rewards', opened', given', receipts')
  BY <1>1, SerialFacts DEF serviceVars
<1>4. SerialInv'
  BY <1>2, <1>3, NoCallWaits, SerialInNext
<1> QED
  BY <1>1, <1>4 DEF Quiet, serviceVars

\* A new round is opened only when nobody waits for a payment.
LEMMA OpensSerial ==
  ASSUME Inv, SerialInv
  PROVE  /\ Tables(rounds, EnsuredRound, rewards, Opened, given, receipts)
         /\ Fits(rounds, rewards, Opened, given, receipts)
         /\ EnsuredRound \in {0, Opened} /\ Opened \in 0..MaxRounds
<1>1. /\ Opened \in 0..MaxRounds /\ EnsuredRound \in {0, Opened}
      /\ Fits(rounds, rewards, Opened, given, receipts)
  BY OpensNewest
<1>2. /\ Tables(rounds, active, rewards, opened, given, receipts)
      /\ active \in {0, opened} /\ opened \in 0..MaxRounds /\ opened \in Nat
      /\ MaxRounds \in Nat
  BY SerialFacts, RoundsAssumption
<1>3. CASE active # 0
  <2>1. EnsuredRound = active /\ Opened = opened
    BY <1>2, <1>3 DEF EnsuredRound, Opened
  <2> QED
    BY <1>1, <1>2, <2>1
<1>4. CASE active = 0
  <2>1. PendingHeld(rounds, EnsuredRound, rewards)
    BY <1>2, <1>4, NonePending DEF Tables, PendingHeld
  <2>2. /\ EnsuredRound \in {0, opened + 1} /\ Opened \in {opened, opened + 1}
        /\ EnsuredRound # 0 => EnsuredRound \in RoundIds /\ EnsuredRound > opened
    BY <1>2, <1>4 DEF EnsuredRound, Opened, RoundIds
  <2>3. \A r \in RoundIds : r > Opened => r > opened
    BY <1>2, <2>2 DEF RoundIds
  <2>4. OpenUnwon(rounds, EnsuredRound, Opened)
    BY <1>2, <2>2, <2>3 DEF Tables, OpenUnwon
  <2> QED
    BY <1>1, <1>2, <2>1, <2>4 DEF Tables
<1> QED
  BY <1>3, <1>4

LEMMA OpenSerial ==
  ASSUME OneAtATime, Inv, SerialInv, NEW c \in Calls, GiveRound(c) \/ RefuseSolution(c)
  PROVE  SerialInv' /\ Quiet
<1>1. /\ opened' = Opened /\ active' = EnsuredRound
      /\ calls' = [calls EXCEPT ![c] = NoCall]
      /\ UNCHANGED <<rounds, rewards, given, receipts, wins>>
  BY DEF GiveRound, RefuseSolution, Return
<1>2. calls'[c] = NoCall
  BY <1>1, SerialFacts
<1>3. Tables(rounds', active', rewards', opened', given', receipts')
  BY <1>1, OpensSerial
<1>4. SerialInv'
  BY <1>2, <1>3, NoCallWaits, SerialInNext
<1> QED
  BY <1>1, <1>4 DEF Quiet

LEMMA TooLateSerial ==
  ASSUME OneAtATime, Inv, SerialInv, NEW c \in Calls, SolutionTooLate(c)
  PROVE  SerialInv' /\ Quiet
<1>1. /\ Reconcile(c, NoCall, "idle", rounds, active, rewards)
      /\ UNCHANGED <<opened, given, receipts, wins>>
  BY DEF SolutionTooLate
<1>2. NoCall \in Call /\ "idle" \in Handlers
  BY NoCallFits DEF Handlers
<1>3. /\ Fits(rounds, rewards, opened, given, receipts) /\ active \in {0, opened}
      /\ Tables(rounds, active, rewards, opened, given, receipts)
  BY SerialFacts
<1> QED
  BY <1>1, <1>2, <1>3, ReconcileQuiet

\* A round changes, but not in its winner or its reservation.
LEMMA TablesRound ==
  ASSUME NEW rs, NEW ac, NEW rw, NEW op, NEW g, NEW rc, Tables(rs, ac, rw, op, g, rc),
         Fits(rs, rw, op, g, rc), ac \in {0, op},
         NEW r \in RoundIds, NEW b, b.winner = rs[r].winner, b.held = rs[r].held
  PROVE  Tables([rs EXCEPT ![r] = b], ac, rw, op, g, rc)
<1> DEFINE rs2 == [rs EXCEPT ![r] = b]
<1>1. \A s \in RoundIds : rs2[s].winner = rs[s].winner /\ rs2[s].held = rs[s].held
  BY DEF Fits
<1> HIDE DEF rs2
<1>2. \A k \in ClaimIds : rw[k].status # "none" => rw[k].round \in RoundIds
  BY RoundsAssumption DEF Fits, RewardFits, RoundIds
<1>3. PendingHeld(rs2, ac, rw)
  BY <1>1, <1>2 DEF Tables, PendingHeld
<1>4. /\ rw \in [ClaimIds -> Reward] /\ op \in 0..MaxRounds /\ ac \in {0, ac}
  BY DEF Fits
<1>5. Tables(rs2, ac, rw, op, g, rc)
  BY <1>1, <1>2, <1>3, <1>4, TablesStill
<1> QED
  BY <1>5 DEF rs2

LEMMA TakeSerial ==
  ASSUME OneAtATime, Inv, SerialInv, NEW c \in Calls, NEW right \in BOOLEAN,
         TakeSolution(c, right)
  PROVE  SerialInv' /\ Quiet
<1> DEFINE r   == EnsuredRound
           rs2 == Tried(c, right)
<1>1. /\ r = Opened /\ r \in RoundIds /\ opened' = Opened
      /\ UNCHANGED <<given, receipts, wins>>
      /\ IF right
         THEN Reconcile(c, NoCall, "idle", rs2, r, rewards)
         ELSE /\ rounds' = rs2 /\ active' = r /\ rewards' = rewards
              /\ calls' = [calls EXCEPT ![c] = NoCall]
      /\ Fits(rs2, rewards, Opened, given, receipts)
      /\ \A s \in RoundIds : rs2[s].winner = rounds[s].winner /\ rs2[s].held = rounds[s].held
  BY TakeFits
<1>2. /\ Tables(rounds, r, rewards, Opened, given, receipts)
      /\ Opened \in 0..MaxRounds
  BY OpensSerial
<1> HIDE DEF r, rs2
<1>3. PendingHeld(rs2, r, rewards)
  BY <1>1, <1>2 DEF Tables, PendingHeld
<1>4. /\ rewards \in [ClaimIds -> Reward] /\ r \in {0, r} /\ r \in {0, Opened}
      /\ \A k \in ClaimIds : rewards[k].status # "none" => rewards[k].round \in RoundIds
  BY <1>1, SerialFacts
<1>5. Tables(rs2, r, rewards, Opened, given, receipts)
  BY <1>1, <1>2, <1>3, <1>4, TablesStill
<1>6. CASE right
  <2>1. NoCall \in Call /\ "idle" \in Handlers
    BY NoCallFits DEF Handlers
  <2> QED
    BY <1>1, <1>4, <1>5, <1>6, <2>1, ReconcileQuiet
<1>7. CASE ~right
  <2>1. calls'[c] = NoCall
    BY <1>1, <1>7, SerialFacts
  <2>2. Tables(rounds', active', rewards', opened', given', receipts')
    BY <1>1, <1>5, <1>7
  <2>3. SerialInv'
    BY <2>1, <2>2, NoCallWaits, SerialInNext
  <2> QED
    BY <1>1, <1>7, <2>3 DEF Quiet
<1> QED
  BY <1>6, <1>7

\* What a request that waits for a balance holds on to.
LEMMA LookupFacts ==
  ASSUME Inv, SerialInv, NEW c \in Calls, calls[c].pc = "lookup"
  PROVE  /\ active # 0 /\ active \in RoundIds /\ calls[c].round = active
         /\ rounds[active] \in Round /\ rounds[active].held = 0
         /\ rounds[active].winner = None
         /\ calls[c].at \in DOMAIN rounds[active].queue
         /\ calls[c] \in Call /\ calls[c].then \in Handlers
         /\ calls[c].then = "receipt" => Knows(calls[c], rewards, given)
         /\ \A k \in ClaimIds : rewards[k].status # "payment_pending"
<1>1. Waiting(calls[c], rounds, active, rewards, given)
  BY SerialFacts
<1>2. CallFits(calls[c], rounds, rewards, opened, given)
  BY DEF Inv, CallsFit
<1>3. Tables(rounds, active, rewards, opened, given, receipts)
  BY SerialFacts
<1>4. active # 0 /\ calls[c].round = active /\ rounds[active].held = 0
      /\ rounds[active].winner = None
  BY <1>1, <1>3 DEF Waiting, Tables, OpenUnwon
<1>5. active \in RoundIds /\ rounds[active] \in Round
  BY <1>4, SerialFacts
<1>6. /\ calls[c].at \in DOMAIN rounds[active].queue /\ calls[c] \in Call
      /\ calls[c].then \in Handlers
  BY <1>2, <1>4 DEF CallFits, HandlerFits
<1>7. calls[c].then = "receipt" => Knows(calls[c], rewards, given)
  BY <1>1 DEF Waiting, Knows
<1>8. \A k \in ClaimIds : rewards[k].status # "payment_pending"
  BY <1>3, <1>4, NonePending DEF Tables
<1> QED
  BY <1>4, <1>5, <1>6, <1>7, <1>8

LEMMA UnderfundedSerial ==
  ASSUME OneAtATime, Inv, SerialInv, NEW c \in Calls, Underfunded(c)
  PROVE  SerialInv' /\ Quiet
<1> DEFINE call == calls[c]
           rnd  == [rounds[call.round] EXCEPT !.queue[call.at].status = "underfunded"]
           rs2  == [rounds EXCEPT ![call.round] = rnd]
           next == NextQueued(rnd.queue, call.at)
           on   == [call EXCEPT !.at = next]
<1>1. /\ call.pc = "lookup"
      /\ rounds' = rs2
      /\ \/ calls' = [calls EXCEPT ![c].at = next] /\ active' = active
         \/ /\ calls' = [calls EXCEPT ![c] = Answered(call, call.then)]
            /\ active' \in {0, active}
      /\ UNCHANGED <<opened, rewards, given, receipts, wins>>
  BY DEF Underfunded
<1>2. /\ active # 0 /\ active \in RoundIds /\ call.round = active
      /\ rounds[active] \in Round /\ rounds[active].held = 0
      /\ call \in Call /\ call.then \in Handlers
      /\ call.then = "receipt" => Knows(call, rewards, given)
      /\ \A k \in ClaimIds : rewards[k].status # "payment_pending"
  BY <1>1, LookupFacts
<1>3. rnd.winner = rounds[active].winner /\ rnd.held = 0
  BY <1>2 DEF Round
<1> HIDE DEF rnd
<1>4. /\ rs2[active].held = 0
      /\ \A r \in RoundIds : rs2[r].winner = rounds[r].winner
  BY <1>2, <1>3, SerialFacts
<1>5. \A ac2 \in {0, active} : Tables(rs2, ac2, rewards, opened, given, receipts)
  <2> SUFFICES ASSUME NEW ac2 \in {0, active}
               PROVE  Tables(rs2, ac2, rewards, opened, given, receipts)
    OBVIOUS
  <2>1. PendingHeld(rs2, ac2, rewards)
    BY <1>2 DEF PendingHeld
  <2>2. Tables(rounds, active, rewards, opened, given, receipts)
    BY SerialFacts
  <2>3. /\ rewards \in [ClaimIds -> Reward] /\ opened \in 0..MaxRounds
        /\ active \in {0, opened}
        /\ \A k \in ClaimIds : rewards[k].status # "none" => rewards[k].round \in RoundIds
    BY SerialFacts
  <2> HIDE DEF rs2
  <2> QED
    BY <1>4, <2>1, <2>2, <2>3, TablesStill
<1> HIDE DEF rs2
<1>6. Tables(rounds', active', rewards', opened', given', receipts')
  BY <1>1, <1>5
<1>7. CASE calls' = [calls EXCEPT ![c].at = next] /\ active' = active
  <2>1. calls'[c] = on
    BY <1>7, SerialFacts
  <2>2. /\ on.pc = "lookup" /\ on.round = active /\ on.then = call.then
        /\ on.miner = call.miner /\ ClaimsOf(on) = ClaimsOf(call)
    BY <1>1, <1>2 DEF Call, ClaimsOf
  <2> HIDE DEF on
  <2>3. Waiting(on, rounds', active', rewards', given')
    BY <1>1, <1>2, <1>4, <1>7, <2>2 DEF Waiting, Knows
  <2>4. SerialInv'
    BY <1>6, <2>1, <2>3, SerialInNext
  <2> QED
    BY <1>1, <1>4, <2>4 DEF Quiet
<1>8. CASE calls' = [calls EXCEPT ![c] = Answered(call, call.then)]
  <2>1. calls'[c] = Answered(call, call.then)
    BY <1>8, SerialFacts
  <2>2. call.then = "receipt" => Knows(call, rewards', given')
    BY <1>1, <1>2
  <2>3. Waiting(Answered(call, call.then), rounds', active', rewards', given')
    BY <1>2, <2>2, AnsweredWaits
  <2>4. SerialInv'
    BY <1>6, <2>1, <2>3, SerialInNext
  <2> QED
    BY <1>1, <1>4, <2>4 DEF Quiet
<1> QED
  BY <1>1, <1>7, <1>8

\* The reservation that waits for its payment is dropped, and nobody waits.
LEMMA DropSerial ==
  ASSUME OneAtATime, Inv, SerialInv, NEW c \in Calls, NEW k \in 1..given,
         rewards[k].status = "payment_pending",
         NEW r \in RoundIds,
         NEW status \in CandidateStatus \ {"queued", "reservation_active"},
         Reconcile(c, NoCall, "idle", [rounds EXCEPT ![r] = Dropped(@, k, status)], active,
                   [rewards EXCEPT ![k].status = "expired"]),
         UNCHANGED <<opened, given, receipts, wins>>
  PROVE  SerialInv' /\ Quiet
<1> DEFINE rs2 == [rounds EXCEPT ![r] = Dropped(@, k, status)]
           rw2 == [rewards EXCEPT ![k].status = "expired"]
<1>1. /\ Fits(rs2, rw2, opened, given, receipts)
      /\ \A s \in RoundIds : rs2[s].winner = rounds[s].winner
  BY DropFits
<1>2. Reconcile(c, NoCall, "idle", rs2, active, rw2)
  OBVIOUS
<1>3. k \in ClaimIds /\ rewards \in [ClaimIds -> Reward]
  BY SerialFacts
<1>4. \A j \in ClaimIds :
        /\ rw2[j].miner = rewards[j].miner /\ rw2[j].round = rewards[j].round
        /\ rw2[j].status = IF j = k THEN "expired" ELSE rewards[j].status
  <2> DEFINE x == [rewards[k] EXCEPT !.status = "expired"]
  <2>1. x.miner = rewards[k].miner /\ x.round = rewards[k].round /\ x.status = "expired"
    BY <1>3 DEF Reward
  <2>2. rw2 = [rewards EXCEPT ![k] = x]
    OBVIOUS
  <2> HIDE DEF x, rw2
  <2> QED
    BY <1>3, <2>1, <2>2
<1> HIDE DEF rs2, rw2
<1>5. Tables(rounds, active, rewards, opened, given, receipts)
  BY SerialFacts
<1>6. \A j \in ClaimIds : rw2[j].status # "payment_pending"
  BY <1>3, <1>4, <1>5 DEF Tables, PendingHeld
<1>7. PendingHeld(rs2, active, rw2)
  BY <1>6 DEF PendingHeld
<1>8. \A j \in ClaimIds :
        \/ rw2[j].status = rewards[j].status
        \/ rewards[j].status = "payment_pending" /\ rw2[j].status = "expired"
  BY <1>4
<1>9. Tables(rs2, active, rw2, opened, given, receipts)
  <2>1. /\ opened \in 0..MaxRounds /\ active \in {0, opened} /\ active \in {0, active}
        /\ \A j \in ClaimIds : rewards[j].status # "none" => rewards[j].round \in RoundIds
    BY SerialFacts
  <2> QED
    BY <1>1, <1>3, <1>4, <1>5, <1>7, <1>8, <2>1, TablesStill
<1>10. NoCall \in Call /\ "idle" \in Handlers /\ active \in {0, opened}
  BY NoCallFits, SerialFacts DEF Handlers
<1> QED
  BY <1>1, <1>2, <1>4, <1>9, <1>10, ReconcileQuiet

\* What a request that waits for a payment transaction holds on to.
LEMMA ValidateFacts ==
  ASSUME Inv, SerialInv, NEW c \in Calls, calls[c].pc = "validate"
  PROVE  /\ active # 0 /\ active \in RoundIds /\ calls[c].round = active
         /\ Paid(c) \in 1..given /\ Paid(c) \in ClaimIds
         /\ rewards[Paid(c)].status = "payment_pending"
         /\ rewards[Paid(c)].round = active
         /\ rounds[active].winner = None
         /\ calls[c].miner = rewards[Paid(c)].miner /\ calls[c].miner \in Miners
<1>1. /\ Paid(c) \in 1..given /\ Paid(c) \in ClaimIds
      /\ ClaimsOf(calls[c]) = {Paid(c)}
      /\ calls[c].miner = rewards[Paid(c)].miner /\ rewards[Paid(c)].miner \in Miners
      /\ rewards[Paid(c)].round \in RoundIds
      /\ calls[c].round = rewards[Paid(c)].round
  BY PaymentFits
<1>2. /\ Waiting(calls[c], rounds, active, rewards, given)
      /\ Tables(rounds, active, rewards, opened, given, receipts)
  BY SerialFacts
<1>3. calls[c].round = active /\ rewards[Paid(c)].status = "payment_pending"
  BY <1>1, <1>2 DEF Waiting
<1>4. active # 0 /\ rounds[active].winner = None
  BY <1>1, <1>2, <1>3 DEF Tables, PendingHeld, OpenUnwon
<1> QED
  BY <1>1, <1>3, <1>4

LEMMA PaymentTooLateSerial ==
  ASSUME OneAtATime, Inv, SerialInv, NEW c \in Calls, PaymentTooLate(c)
  PROVE  SerialInv' /\ Quiet
<1>1. Paid(c) \in 1..given /\ active \in RoundIds
  BY PaymentFits DEF PaymentTooLate
<1>2. "timed_out" \in CandidateStatus \ {"queued", "reservation_active"}
  BY DEF CandidateStatus
<1> QED
  BY <1>1, <1>2, DropSerial DEF PaymentTooLate

LEMMA RejectSerial ==
  ASSUME OneAtATime, Inv, SerialInv, NEW c \in Calls, RejectPayment(c)
  PROVE  SerialInv' /\ Quiet
<1>1. /\ Paid(c) \in 1..given /\ calls[c].round \in RoundIds
      /\ rewards[Paid(c)].status = "payment_pending"
  BY ValidateFacts DEF RejectPayment
<1>2. "payment_rejected" \in CandidateStatus \ {"queued", "reservation_active"}
  BY DEF CandidateStatus
<1> QED
  BY <1>1, <1>2, DropSerial DEF RejectPayment

LEMMA LookUpSerial ==
  ASSUME OneAtATime, Inv, SerialInv, NEW c \in Calls, LookUpPayment(c)
  PROVE  SerialInv' /\ Quiet
<1> DEFINE call == calls[c]
           t    == [call EXCEPT !.pc = "validate", !.round = active]
<1>1. /\ call.pc = "pay" /\ rewards[Paid(c)].status = "payment_pending"
      /\ calls' = [calls EXCEPT ![c].pc = "validate", ![c].round = active]
      /\ UNCHANGED serviceVars
  BY DEF LookUpPayment
<1>2. ClaimsOf(call) = {Paid(c)}
  BY <1>1, PaymentFits
<1>3. calls'[c] = t /\ call \in Call
  BY <1>1, SerialFacts
<1>4. /\ t.pc = "validate" /\ t.round = active
      /\ ClaimsOf(t) = ClaimsOf(call) /\ t.then = call.then /\ t.miner = call.miner
  BY <1>3 DEF Call, ClaimsOf
<1> HIDE DEF t
<1>5. Waiting(call, rounds, active, rewards, given)
  BY SerialFacts
<1>6. Waiting(t, rounds, active, rewards, given)
  BY <1>1, <1>2, <1>4, <1>5 DEF Waiting
<1>7. /\ Tables(rounds', active', rewards', opened', given', receipts')
      /\ Waiting(calls'[c], rounds', active', rewards', given')
  BY <1>1, <1>3, <1>6, SerialFacts DEF serviceVars
<1>8. SerialInv'
  BY <1>7, SerialInNext
<1> QED
  BY <1>1, <1>8 DEF Quiet, serviceVars

\* The candidate becomes the only provisional winner, of the active round.
LEMMA PromoteSerial ==
  ASSUME OneAtATime, Inv, SerialInv, NEW c \in Calls, Promote(c)
  PROVE  SerialInv' /\ Quiet
<1> DEFINE call == calls[c]
           k    == given + 1
           rnd  == [rounds[call.round] EXCEPT
                      !.queue[call.at].status = "reservation_active",
                      !.queue[call.at].claim = k,
                      !.held = k]
           rs2  == [rounds EXCEPT ![call.round] = rnd]
           new  == [miner |-> rnd.queue[call.at].miner, round |-> call.round,
                    status |-> "payment_pending", lapsed |-> FALSE]
           rw2  == [rewards EXCEPT ![k] = new]
<1>1. /\ call.pc = "lookup" /\ given < MaxClaims /\ given' = k
      /\ rewards' = rw2 /\ rounds' = rs2
      /\ active' = IF Closable(rnd) THEN 0 ELSE active
      /\ calls' = [calls EXCEPT ![c] = Answered(call, call.then)]
      /\ UNCHANGED <<opened, receipts, wins>>
  BY DEF Promote
<1>2. /\ active # 0 /\ active \in RoundIds /\ call.round = active
      /\ rounds[active] \in Round /\ rounds[active].winner = None
      /\ call \in Call /\ call.then \in Handlers
      /\ call.then = "receipt" => Knows(call, rewards, given)
      /\ \A j \in ClaimIds : rewards[j].status # "payment_pending"
  BY <1>1, LookupFacts
<1>3. /\ k \in ClaimIds /\ k # 0 /\ given \in Nat /\ k > given
  <2>1. given \in Nat /\ MaxClaims \in Nat
    BY SerialFacts, RoundsAssumption
  <2>2. given < MaxClaims
    BY <1>1
  <2> QED
    BY ONLY <2>1, <2>2 DEF ClaimIds
<1>4. rnd.winner = None /\ rnd.held = k
  BY <1>2 DEF Round
<1>5. new.round = active /\ new.status = "payment_pending"
  BY <1>2
<1> HIDE DEF rnd, new
<1>6. ~Closable(rnd)
  BY <1>3, <1>4 DEF Closable
<1>7. /\ rs2[active].held = k
      /\ \A r \in RoundIds : rs2[r].winner = rounds[r].winner
  BY <1>2, <1>4, SerialFacts
<1>8. rw2[k] = new /\ \A j \in ClaimIds : j # k => rw2[j] = rewards[j]
  BY <1>3, SerialFacts
<1> HIDE DEF rs2, rw2, k
<1>9. /\ Tables(rounds, active, rewards, opened, given, receipts)
      /\ Fits(rounds, rewards, opened, given, receipts)
  BY SerialFacts
<1>10. rewards[k].status = "none" /\ receipts[k] = 0
  <2>1. RewardFits(k, rounds, rewards, opened, given, receipts)
    BY <1>3, <1>9 DEF Fits
  <2>2. ~(k <= given)
    BY <1>3 DEF ClaimIds
  <2> QED
    BY <2>1, <2>2 DEF RewardFits
<1>11. PendingHeld(rs2, active, rw2)
  BY <1>2, <1>5, <1>7, <1>8 DEF PendingHeld
<1>12. OpenUnwon(rs2, active, opened)
  BY <1>2, <1>7, <1>9 DEF Tables, OpenUnwon
<1>13. WonOnce(rs2, rw2, k, receipts)
  <2>1. ASSUME NEW j \in ClaimIds, Earned(rw2, j)
        PROVE  j # k /\ rw2[j] = rewards[j] /\ Earned(rewards, j) /\ rewards[j].round \in RoundIds
    <3>1. j # k
      BY <2>1, <1>5, <1>8 DEF Earned
    <3>2. rw2[j] = rewards[j]
      BY <3>1, <1>8
    <3>3. Earned(rewards, j)
      BY <2>1, <3>2 DEF Earned
    <3> QED
      BY <3>1, <3>2, <3>3, SerialFacts DEF Earned
  <2>2. \A j \in ClaimIds : Earned(rw2, j) => rs2[rw2[j].round].winner = rw2[j].miner
    BY <1>7, <1>9, <2>1 DEF Tables, WonOnce
  <2>3. \A i, j \in ClaimIds :
          (Earned(rw2, i) /\ Earned(rw2, j) /\ rw2[i].round = rw2[j].round) => i = j
    BY <1>9, <2>1 DEF Tables, WonOnce
  <2>4. \A j \in ClaimIds : rw2[j].status # "receipt_issued" => receipts[j] = 0
    BY <1>8, <1>9, <1>10 DEF Tables, WonOnce
  <2>5. \A j \in ClaimIds : j > k => rw2[j].miner = None
    <3> SUFFICES ASSUME NEW j \in ClaimIds, j > k PROVE rw2[j].miner = None
      OBVIOUS
    <3>1. j \in Nat /\ k \in Nat
      BY <1>3 DEF ClaimIds
    <3>2. j # k /\ j > given
      BY <1>3, <3>1
    <3> QED
      BY <1>8, <1>9, <3>2 DEF Tables, WonOnce
  <2> QED
    BY <2>2, <2>3, <2>4, <2>5 DEF WonOnce
<1>14. Tables(rounds', active', rewards', opened', given', receipts')
  BY <1>1, <1>6, <1>11, <1>12, <1>13 DEF Tables
<1>15. call.then = "receipt" => Knows(call, rw2, k)
  <2> SUFFICES ASSUME call.then = "receipt", NEW j \in ClaimsOf(call)
               PROVE  call.miner \in Miners /\ j \in 1..k /\ rw2[j].miner = call.miner
    BY <1>2 DEF Knows
  <2>1. call.miner \in Miners /\ j \in 1..given /\ rewards[j].miner = call.miner
    BY <1>2 DEF Knows
  <2>2. j \in ClaimIds /\ j # k /\ j \in 1..k
    BY <2>1, <1>3, SerialFacts DEF ClaimIds
  <2> QED
    BY <1>8, <2>1, <2>2
<1>16. calls'[c] = Answered(call, call.then)
  BY <1>1, SerialFacts
<1>17. Waiting(Answered(call, call.then), rounds', active', rewards', given')
  BY <1>1, <1>2, <1>15, AnsweredWaits
<1>18. SerialInv'
  BY <1>14, <1>16, <1>17, SerialInNext
<1>19. \A j \in ClaimIds : rewards'[j].round = rewards[j].round \/ receipts[j] = 0
  BY <1>1, <1>8, <1>10
<1> QED
  BY <1>1, <1>7, <1>18, <1>19 DEF Quiet

\* Time passes: neither winners nor reservations change.
LEMMA TimeSerial ==
  ASSUME OneAtATime, Inv, SerialInv, Time
  PROVE  SerialInv' /\ Quiet
<1>0. /\ Tables(rounds, active, rewards, opened, given, receipts)
      /\ Fits(rounds, rewards, opened, given, receipts) /\ active \in {0, opened}
      /\ \A c \in Calls : Waiting(calls[c], rounds, active, rewards, given)
  BY SerialFacts
<1>1. ASSUME NEW r \in RoundIds, RoundEnds(r) PROVE SerialInv' /\ Quiet
  <2> DEFINE b   == [rounds[r] EXCEPT !.over = TRUE]
             rs2 == [rounds EXCEPT ![r] = b]
  <2>1. rounds \in [RoundIds -> Round] /\ rounds[r] \in Round
    BY SerialFacts
  <2>2. b.winner = rounds[r].winner /\ b.held = rounds[r].held
    BY <2>1 DEF Round
  <2>3. /\ rounds' = rs2
        /\ UNCHANGED <<opened, active, rewards, given, receipts, wins, calls>>
    BY <1>1 DEF RoundEnds
  <2> HIDE DEF b
  <2>4. Tables(rs2, active, rewards, opened, given, receipts)
    BY <1>0, <2>2, TablesRound
  <2>5. \A s \in RoundIds : rs2[s].winner = rounds[s].winner /\ rs2[s].held = rounds[s].held
    BY <2>1, <2>2
  <2> HIDE DEF rs2
  <2>6. \A c \in Calls : Waiting(calls[c], rs2, active, rewards, given)
    <3>1. active # 0 => active \in RoundIds
      BY SerialFacts
    <3> QED
      BY <1>0, <2>5, <3>1 DEF Waiting
  <2>7. SerialInv'
    BY <2>3, <2>4, <2>6
    DEF SerialInv, Tables, PendingHeld, OpenUnwon, WonOnce, Earned, Waiting
  <2> QED
    BY <2>3, <2>5, <2>7 DEF Quiet
<1>2. ASSUME NEW k \in ClaimIds, WindowLapses(k) PROVE SerialInv' /\ Quiet
  <2> DEFINE x   == [rewards[k] EXCEPT !.lapsed = TRUE]
             rw2 == [rewards EXCEPT ![k] = x]
  <2>1. rewards \in [ClaimIds -> Reward] /\ rewards[k] \in Reward
    BY SerialFacts
  <2>2. x.miner = rewards[k].miner /\ x.round = rewards[k].round /\ x.status = rewards[k].status
    BY <2>1 DEF Reward
  <2>3. /\ rewards' = rw2
        /\ UNCHANGED <<rounds, opened, active, given, receipts, wins, calls>>
    BY <1>2 DEF WindowLapses
  <2> HIDE DEF x
  <2>4. \A j \in ClaimIds : /\ rw2[j].miner = rewards[j].miner /\ rw2[j].round = rewards[j].round
                            /\ rw2[j].status = rewards[j].status
    BY <2>1, <2>2
  <2> HIDE DEF rw2
  <2>5. PendingHeld(rounds, active, rw2)
    BY <1>0, <2>4 DEF Tables, PendingHeld
  <2>6. Tables(rounds, active, rw2, opened, given, receipts)
    <3>1. /\ opened \in 0..MaxRounds /\ active \in {0, active}
          /\ \A j \in ClaimIds : rewards[j].status # "none" => rewards[j].round \in RoundIds
      BY SerialFacts
    <3> QED
      BY <1>0, <2>1, <2>4, <2>5, <3>1, TablesStill
  <2>7. ASSUME NEW c \in Calls PROVE Waiting(calls[c], rounds, active, rw2, given)
    <3>1. Waiting(calls[c], rounds, active, rewards, given)
      BY <1>0
    <3>2. calls[c] \in Call /\ ClaimsOf(calls[c]) \subseteq ClaimIds
      BY SerialFacts DEF ClaimsOf
    <3> QED
      BY <2>4, <3>1, <3>2 DEF Waiting
  <2>8. SerialInv'
    BY <2>3, <2>6, <2>7
    DEF SerialInv, Tables, PendingHeld, OpenUnwon, WonOnce, Earned, Waiting
  <2> QED
    BY <2>3, <2>4, <2>8 DEF Quiet
<1> QED
  BY <1>1, <1>2 DEF Time

\* Round r, that nobody has won, is won by miner m.
Wins(r, m) ==
  /\ rounds[r].winner = None
  /\ \A s \in RoundIds : rounds'[s].winner = IF s = r THEN m ELSE rounds[s].winner
  /\ wins' = [wins EXCEPT ![m] = @ + 1]
  /\ \A k \in ClaimIds : rewards'[k].round = rewards[k].round
  /\ UNCHANGED receipts

\* payment_accepted: the provisional winner wins the active round, and with it
\* the only reward of that round that is worth something.
LEMMA AcceptSerial ==
  ASSUME OneAtATime, Inv, SerialInv, NEW c \in Calls, AcceptPayment(c)
  PROVE  SerialInv' /\ \E r \in RoundIds, m \in Miners : Wins(r, m)
<1> DEFINE k   == Paid(c)
           r   == calls[c].round
           m   == calls[c].miner
           a   == rounds[r]
           b   == [a EXCEPT !.queue = Marked(a.queue, k, "paid"), !.winner = m, !.held = 0]
           rs2 == [rounds EXCEPT ![r] = b]
           x   == [rewards[k] EXCEPT !.status = "claimable"]
           rw2 == [rewards EXCEPT ![k] = x]
<1>1. /\ active # 0 /\ r = active /\ r \in RoundIds /\ k \in 1..given /\ k \in ClaimIds
      /\ rewards[k].status = "payment_pending" /\ rewards[k].round = r
      /\ a.winner = None /\ m = rewards[k].miner /\ m \in Miners
  BY ValidateFacts DEF AcceptPayment
<1>2. /\ Tables(rounds, active, rewards, opened, given, receipts)
      /\ rounds \in [RoundIds -> Round] /\ a \in Round
      /\ rewards \in [ClaimIds -> Reward] /\ rewards[k] \in Reward
      /\ active \in {0, opened} /\ opened \in Nat
      /\ \A j \in ClaimIds : rewards[j].status # "none" => rewards[j].round \in RoundIds
  BY <1>1, SerialFacts
<1>3. /\ rounds' = rs2 /\ rewards' = rw2
      /\ wins' = [wins EXCEPT ![m] = @ + 1]
      /\ active' = 0
      /\ calls' = [calls EXCEPT ![c] = NoCall]
      /\ UNCHANGED <<opened, given, receipts>>
  BY <1>1, <1>2 DEF AcceptPayment, Return
<1>4. b.winner = m
  BY <1>2 DEF Round
<1>5. x.miner = m /\ x.round = r /\ x.status = "claimable"
  BY <1>1, <1>2 DEF Reward
<1> HIDE DEF b, x
<1>6. \A s \in RoundIds : rs2[s].winner = IF s = r THEN m ELSE rounds[s].winner
  BY <1>1, <1>2, <1>4
<1>7. rw2[k] = x /\ \A j \in ClaimIds : j # k => rw2[j] = rewards[j]
  BY <1>1, <1>2
<1>8. calls'[c] = NoCall
  BY <1>3, SerialFacts
<1> HIDE DEF rs2, rw2, a, k, r, m
<1>9. \A j \in ClaimIds : rw2[j].status # "payment_pending"
  BY <1>1, <1>2, <1>5, <1>7 DEF Tables, PendingHeld
<1>10. PendingHeld(rs2, 0, rw2)
  BY <1>9 DEF PendingHeld
<1>11. OpenUnwon(rs2, 0, opened)
  <2>1. \A s \in RoundIds : s > opened => s # r
    BY <1>1, <1>2
  <2> QED
    BY <1>2, <1>6, <2>1 DEF Tables, OpenUnwon
<1>12. WonOnce(rs2, rw2, given, receipts)
  <2>1. ASSUME NEW j \in ClaimIds, j # k, Earned(rw2, j)
        PROVE  /\ rw2[j] = rewards[j] /\ Earned(rewards, j)
               /\ rewards[j].round \in RoundIds /\ rewards[j].round # r
    <3>1. rw2[j] = rewards[j]
      BY <2>1, <1>7
    <3>2. Earned(rewards, j) /\ rewards[j].round \in RoundIds
      BY <2>1, <3>1, <1>2 DEF Earned
    <3>3. rounds[rewards[j].round].winner = rewards[j].miner
      BY <3>2, <1>2 DEF Tables, WonOnce
    <3>4. rewards[j].miner # None
      <4>1. RewardFits(j, rounds, rewards, opened, given, receipts)
        BY SerialFacts DEF Fits
      <4>2. rewards[j].status # "none"
        BY <3>2 DEF Earned
      <4> QED
        BY <4>1, <4>2, RoundsAssumption DEF RewardFits
    <3>5. rounds[r].winner = None
      BY <1>1 DEF a
    <3> QED
      BY <3>1, <3>2, <3>3, <3>4, <3>5
  <2>2. ASSUME NEW j \in ClaimIds, Earned(rw2, j)
        PROVE  rs2[rw2[j].round].winner = rw2[j].miner
    <3>1. CASE j = k
      BY <3>1, <1>1, <1>5, <1>6, <1>7
    <3>2. CASE j # k
      BY <2>1, <2>2, <3>2, <1>2, <1>6 DEF Tables, WonOnce
    <3> QED
      BY <3>1, <3>2
  <2>3. ASSUME NEW i \in ClaimIds, NEW j \in ClaimIds,
               Earned(rw2, i), Earned(rw2, j), rw2[i].round = rw2[j].round
        PROVE  i = j
    <3>1. rw2[k].round = r
      BY <1>5, <1>7
    <3>2. CASE i = k \/ j = k
      BY <2>1, <2>3, <3>1, <3>2
    <3>3. CASE i # k /\ j # k
      <4>1. Earned(rewards, i) /\ Earned(rewards, j) /\ rewards[i].round = rewards[j].round
        BY <2>1, <2>3, <3>3
      <4> QED
        BY <4>1, <1>2 DEF Tables, WonOnce
    <3> QED
      BY <3>2, <3>3
  <2>4. \A j \in ClaimIds : rw2[j].status # "receipt_issued" => receipts[j] = 0
    BY <1>1, <1>2, <1>7 DEF Tables, WonOnce
  <2>5. \A j \in ClaimIds : j > given => rw2[j].miner = None
    <3>1. k <= given /\ given \in Nat
      BY <1>1, SerialFacts
    <3> QED
      BY <1>2, <1>7, <3>1 DEF Tables, WonOnce, ClaimIds
  <2> QED
    BY <2>2, <2>3, <2>4, <2>5 DEF WonOnce
<1>13. Tables(rounds', active', rewards', opened', given', receipts')
  BY <1>3, <1>10, <1>11, <1>12 DEF Tables
<1>14. SerialInv'
  BY <1>8, <1>13, NoCallWaits, SerialInNext
<1>15. Wins(r, m)
  <2>1. rounds[r].winner = None
    BY <1>1 DEF a
  <2>2. \A j \in ClaimIds : rewards'[j].round = rewards[j].round
    BY <1>1, <1>3, <1>5, <1>7
  <2> QED
    BY <1>3, <1>6, <2>1, <2>2 DEF Wins
<1> QED
  BY <1>1, <1>14, <1>15

\* The rewards ks of miner m, each of a round m has won, enter a receipt, and
\* no reward of these rounds has been in one.
Receipts(m, ks) ==
  /\ ks # {}
  /\ \A k \in ks :
       /\ rewards[k].round \in RoundIds /\ rounds[rewards[k].round].winner = m
       /\ \A j \in ClaimIds : rewards[j].round = rewards[k].round =>
            receipts[j] = 0 /\ (j \in ks => j = k)
  /\ receipts' \in [ClaimIds -> Nat]
  /\ \A k \in ks : receipts'[k] # 0
  /\ \A k \in ClaimIds \ ks : receipts'[k] = receipts[k]
  /\ \A k \in ClaimIds : rewards'[k].round = rewards[k].round
  /\ UNCHANGED <<rounds, wins>>

\* requestClaimReceipt: all the rewards named are of rounds the miner has won.
LEMMA IssueSerial ==
  ASSUME OneAtATime, Inv, SerialInv, NEW c \in Calls, IssueReceipt(c)
  PROVE  /\ SerialInv'
         /\ \/ Quiet
            \/ \E m \in Miners, ks \in SUBSET ClaimIds : Receipts(m, ks)
<1> DEFINE ks  == ClaimsOf(calls[c])
           n   == calls[c].claims
           m   == calls[c].miner
           ok  == \A k \in ks : rewards[k].status = "claimable"
           rw2 == [k \in ClaimIds |->
                     IF k \in ks THEN [rewards[k] EXCEPT !.status = "receipt_issued"]
                     ELSE rewards[k]]
           rc2 == [k \in ClaimIds |-> receipts[k] + n[k]]
<1>1. /\ calls[c].pc = "receipt"
      /\ IF ok THEN rewards' = rw2 /\ receipts' = rc2 ELSE UNCHANGED <<rewards, receipts>>
      /\ calls' = [calls EXCEPT ![c] = NoCall]
      /\ UNCHANGED <<rounds, opened, active, given, wins>>
  BY DEF IssueReceipt, Return
<1>2. /\ rewards \in [ClaimIds -> Reward] /\ receipts \in [ClaimIds -> Nat]
      /\ Tables(rounds, active, rewards, opened, given, receipts)
      /\ Waiting(calls[c], rounds, active, rewards, given)
      /\ calls[c] \in Call
      /\ \A k \in ClaimIds : rewards[k].status # "none" => rewards[k].round \in RoundIds
  BY SerialFacts
<1>3. m \in Miners /\ \A k \in ks : k \in 1..given /\ rewards[k].miner = m
  BY <1>1, <1>2 DEF Waiting
<1>4. /\ ks \in SUBSET ClaimIds
      /\ \A k \in ClaimIds : n[k] \in Nat /\ (k \in ks <=> n[k] # 0)
  <2>1. n \in [ClaimIds -> 0..MaxNamed]
    BY <1>2 DEF Call
  <2> QED
    BY <2>1, RoundsAssumption DEF ClaimsOf
<1>5. calls'[c] = NoCall
  BY <1>1, SerialFacts
<1> HIDE DEF n, ks
<1>6. CASE ~ok
  <2>1. Tables(rounds', active', rewards', opened', given', receipts')
    BY <1>1, <1>2, <1>6
  <2>2. SerialInv'
    BY <1>5, <2>1, NoCallWaits, SerialInNext
  <2> QED
    BY <1>1, <1>6, <2>2 DEF Quiet
<1>7. CASE ok
  <2>1. ASSUME NEW k \in ClaimIds
        PROVE  /\ rw2[k].miner = rewards[k].miner /\ rw2[k].round = rewards[k].round
               /\ rw2[k].status = IF k \in ks THEN "receipt_issued" ELSE rewards[k].status
    <3>1. rewards[k] \in Reward
      BY <1>2
    <3> DEFINE x == [rewards[k] EXCEPT !.status = "receipt_issued"]
    <3>2. x.miner = rewards[k].miner /\ x.round = rewards[k].round /\ x.status = "receipt_issued"
      BY <3>1 DEF Reward
    <3>3. rw2[k] = IF k \in ks THEN x ELSE rewards[k]
      OBVIOUS
    <3> HIDE DEF x, rw2
    <3> QED
      BY <3>2, <3>3
  <2>2. \A k \in ClaimIds : k \notin ks => rc2[k] = receipts[k]
    BY <1>2, <1>4
  <2>3. rewards' = rw2 /\ receipts' = rc2
    BY <1>1, <1>7
  <2>4. \A k \in ks : k \in ClaimIds /\ rewards[k].status = "claimable"
    BY <1>4, <1>7
  <2> HIDE DEF rw2, ok
  <2>5. \A k \in ClaimIds : Earned(rw2, k) <=> Earned(rewards, k)
    BY <2>1, <2>4 DEF Earned
  <2>6. PendingHeld(rounds, active, rw2)
    BY <1>2, <2>1 DEF Tables, PendingHeld
  <2>7. WonOnce(rounds, rw2, given, rc2)
    <3> HIDE DEF rc2
    <3>1. \A k \in ClaimIds : Earned(rw2, k) => rounds[rw2[k].round].winner = rw2[k].miner
      BY <1>2, <2>1, <2>5 DEF Tables, WonOnce
    <3>2. \A i, j \in ClaimIds :
            (Earned(rw2, i) /\ Earned(rw2, j) /\ rw2[i].round = rw2[j].round) => i = j
      BY <1>2, <2>1, <2>5 DEF Tables, WonOnce
    <3>3. \A k \in ClaimIds : rw2[k].status # "receipt_issued" => rc2[k] = 0
      BY <1>2, <2>1, <2>2 DEF Tables, WonOnce
    <3>4. \A k \in ClaimIds : k > given => rw2[k].miner = None
      BY <1>2, <2>1 DEF Tables, WonOnce
    <3> QED
      BY <3>1, <3>2, <3>3, <3>4 DEF WonOnce
  <2>8. Tables(rounds', active', rewards', opened', given', receipts')
    BY <1>1, <1>2, <2>3, <2>6, <2>7 DEF Tables
  <2>9. SerialInv'
    BY <1>5, <2>8, NoCallWaits, SerialInNext
  <2>10. CASE ks = {}
    BY <1>1, <2>1, <2>2, <2>3, <2>9, <2>10, SerialFacts DEF Quiet
  <2>11. CASE ks # {}
    <3>1. ASSUME NEW k \in ks
          PROVE  /\ rewards[k].round \in RoundIds /\ rounds[rewards[k].round].winner = m
                 /\ \A j \in ClaimIds : rewards[j].round = rewards[k].round =>
                      receipts[j] = 0 /\ (j \in ks => j = k)
      <4>1. k \in ClaimIds /\ Earned(rewards, k) /\ rewards[k].status = "claimable"
        BY <2>4 DEF Earned
      <4>2. rewards[k].round \in RoundIds /\ rounds[rewards[k].round].winner = m
        BY <4>1, <1>2, <1>3 DEF Tables, WonOnce
      <4>3. ASSUME NEW j \in ClaimIds, rewards[j].round = rewards[k].round
            PROVE  receipts[j] = 0 /\ (j \in ks => j = k)
        <5>1. rewards[j].status # "receipt_issued"
          BY <4>1, <4>3, <1>2 DEF Tables, WonOnce, Earned
        <5>2. j \in ks => Earned(rewards, j)
          BY <2>4 DEF Earned
        <5> QED
          BY <4>1, <4>3, <5>1, <5>2, <1>2 DEF Tables, WonOnce
      <4> QED
        BY <4>2, <4>3
    <3>2. /\ \A k \in ClaimIds : rewards'[k].round = rewards[k].round
          /\ UNCHANGED <<rounds, wins>>
      BY <1>1, <2>1, <2>3
    <3>3. /\ receipts' \in [ClaimIds -> Nat]
          /\ \A k \in ks : receipts'[k] # 0
          /\ \A k \in ClaimIds \ ks : receipts'[k] = receipts[k]
      BY <1>2, <1>4, <2>2, <2>3
    <3>4. Receipts(m, ks)
      BY <2>11, <3>1, <3>2, <3>3 DEF Receipts
    <3> QED
      BY <1>3, <1>4, <2>9, <3>4
  <2> QED
    BY <2>10, <2>11
<1> QED
  BY <1>6, <1>7

-----------------------------------------------------------------------------
(* Sums over the reservations. *)

\* What contains 0 and with each number the next contains all.
LEMMA Induction ==
  ASSUME NEW S \in SUBSET Nat, 0 \in S, \A n \in S : n + 1 \in S
  PROVE  \A n \in Nat : n \in S
<1> DEFINE T == Nat \ S
<1> SUFFICES ASSUME T # {} PROVE FALSE
  OBVIOUS
<1>1. PICK t \in T : \A u \in T : t <= u
  BY Least
<1>2. t \in Nat /\ t # 0 /\ t - 1 \in Nat /\ ~(t <= t - 1) /\ (t - 1) + 1 = t
  OBVIOUS
<1>3. t - 1 \in S
  BY <1>1, <1>2
<1> QED
  BY <1>2, <1>3

\* The sums of what stands up to each place.
SumsUpTo(f, g) ==
  g = [n \in 0..MaxClaims |-> IF n = 0 THEN 0 ELSE g[n - 1] + f[n]]

LEMMA SumsExist ==
  ASSUME NEW f \in [ClaimIds -> Nat]
  PROVE  \E g : SumsUpTo(f, g)
<1> DEFINE Upto(g, m) == g[0] = 0 /\ \A n \in 1..m : g[n] = g[n - 1] + f[n]
           S == {m \in Nat : \E g : Upto(g, m)}
<1>0. MaxClaims \in Nat
  BY RoundsAssumption
<1>1. 0 \in S
  <2> DEFINE g == [n \in {0} |-> 0]
  <2>1. Upto(g, 0)
    OBVIOUS
  <2> QED
    BY <2>1
<1>2. ASSUME NEW m \in S PROVE m + 1 \in S
  <2>1. PICK g : Upto(g, m)
    OBVIOUS
  <2> DEFINE h == [n \in 0..(m + 1) |-> IF n = m + 1 THEN g[m] + f[m + 1] ELSE g[n]]
  <2>2. h[0] = 0
    BY <2>1
  <2>3. ASSUME NEW n \in 1..(m + 1) PROVE h[n] = h[n - 1] + f[n]
    <3>1. CASE n = m + 1
      <4>1. h[n] = g[m] + f[n] /\ n - 1 = m /\ m \in 0..(m + 1) /\ m # m + 1
        BY <3>1
      <4>2. h[m] = g[m]
        BY <4>1
      <4> QED
        BY <4>1, <4>2
    <3>2. CASE n # m + 1
      <4>1. n \in 1..m /\ n - 1 \in 0..(m + 1) /\ n - 1 # m + 1
        BY <3>2
      <4>2. h[n] = g[n] /\ h[n - 1] = g[n - 1]
        BY <3>2, <4>1
      <4> QED
        BY <2>1, <4>1, <4>2
    <3> QED
      BY <3>1, <3>2
  <2> HIDE DEF h
  <2>4. Upto(h, m + 1)
    BY <2>2, <2>3
  <2> QED
    BY <2>4
<1>3. MaxClaims \in S
  <2> HIDE DEF S
  <2>1. S \in SUBSET Nat
    BY DEF S
  <2> QED
    BY <1>0, <1>1, <1>2, <2>1, Induction
<1>4. PICK g : Upto(g, MaxClaims)
  BY <1>3
<1> DEFINE h == [n \in 0..MaxClaims |-> g[n]]
<1>5. ASSUME NEW n \in 0..MaxClaims
      PROVE  h[n] = IF n = 0 THEN 0 ELSE h[n - 1] + f[n]
  <2>1. CASE n = 0
    BY <1>4, <2>1
  <2>2. CASE n # 0
    <3>1. n \in 1..MaxClaims /\ n - 1 \in 0..MaxClaims
      BY <1>0, <2>2
    <3> QED
      BY <1>4, <2>2, <3>1
  <2> QED
    BY <2>1, <2>2
<1>6. h = [n \in 0..MaxClaims |-> h[n]]
  OBVIOUS
<1> HIDE DEF h
<1>7. SumsUpTo(f, h)
  BY <1>5, <1>6 DEF SumsUpTo
<1> QED
  BY <1>7

\* Total is the last of these.
LEMMA TotalUnfolds ==
  ASSUME NEW f \in [ClaimIds -> Nat]
  PROVE  \E g : /\ g[0] = 0 /\ \A n \in ClaimIds : g[n] = g[n - 1] + f[n]
                /\ Total(f) = g[MaxClaims]
<1> DEFINE g == CHOOSE g : SumsUpTo(f, g)
<1>0. MaxClaims \in Nat
  BY RoundsAssumption
<1>1. SumsUpTo(f, g)
  BY SumsExist
<1>2. Total(f) = g[MaxClaims]
  BY DEF Total, SumsUpTo
<1> HIDE DEF g
<1>3. g[0] = 0
  BY <1>0, <1>1 DEF SumsUpTo
<1>4. ASSUME NEW n \in ClaimIds PROVE g[n] = g[n - 1] + f[n]
  <2>1. n \in 0..MaxClaims /\ n # 0
    BY <1>0 DEF ClaimIds
  <2> QED
    BY <1>1, <2>1 DEF SumsUpTo
<1> QED
  BY <1>2, <1>3, <1>4

\* Nothing adds up to nothing.
LEMMA TotalOfNone ==
  ASSUME NEW f \in [ClaimIds -> Nat], \A k \in ClaimIds : f[k] = 0
  PROVE  Total(f) = 0
<1>0. MaxClaims \in Nat
  BY RoundsAssumption
<1>1. PICK g : /\ g[0] = 0 /\ \A n \in ClaimIds : g[n] = g[n - 1] + f[n]
               /\ Total(f) = g[MaxClaims]
  BY TotalUnfolds
<1> DEFINE S == {n \in Nat : n <= MaxClaims => g[n] = 0}
<1>2. 0 \in S
  BY <1>1
<1>3. ASSUME NEW n \in S PROVE n + 1 \in S
  <2> SUFFICES ASSUME n + 1 <= MaxClaims PROVE g[n + 1] = 0
    OBVIOUS
  <2>1. n + 1 \in ClaimIds /\ n <= MaxClaims /\ (n + 1) - 1 = n
    BY <1>0 DEF ClaimIds
  <2>2. g[n + 1] = g[(n + 1) - 1] + f[n + 1]
    BY <1>1, <2>1
  <2> QED
    BY <2>1, <2>2
<1>4. MaxClaims \in S
  <2> HIDE DEF S
  <2>1. S \in SUBSET Nat
    BY DEF S
  <2> QED
    BY <1>0, <1>2, <1>3, <2>1, Induction
<1> QED
  BY <1>0, <1>1, <1>4

\* A single number adds up to itself.
LEMMA TotalOfOne ==
  ASSUME NEW f \in [ClaimIds -> Nat], NEW a \in ClaimIds,
         \A k \in ClaimIds : k # a => f[k] = 0
  PROVE  Total(f) = f[a]
<1>0. MaxClaims \in Nat /\ a \in Nat /\ a >= 1 /\ a <= MaxClaims
  BY RoundsAssumption DEF ClaimIds
<1>1. PICK g : /\ g[0] = 0 /\ \A n \in ClaimIds : g[n] = g[n - 1] + f[n]
               /\ Total(f) = g[MaxClaims]
  BY TotalUnfolds
<1> DEFINE S == {n \in Nat : n <= MaxClaims => g[n] = IF n < a THEN 0 ELSE f[a]}
<1>2. 0 \in S
  BY <1>0, <1>1
<1>3. ASSUME NEW n \in S PROVE n + 1 \in S
  <2> SUFFICES ASSUME n + 1 <= MaxClaims
               PROVE  g[n + 1] = IF n + 1 < a THEN 0 ELSE f[a]
    OBVIOUS
  <2>1. n + 1 \in ClaimIds /\ n <= MaxClaims /\ (n + 1) - 1 = n
    BY <1>0 DEF ClaimIds
  <2>2. g[n + 1] = g[(n + 1) - 1] + f[n + 1]
    BY <1>1, <2>1
  <2>3. g[n] = IF n < a THEN 0 ELSE f[a]
    BY <2>1
  <2>4. CASE n + 1 = a
    BY <1>0, <2>1, <2>2, <2>3, <2>4
  <2>5. CASE n + 1 # a
    <3>1. f[n + 1] = 0
      BY <2>1, <2>5
    <3> QED
      BY <1>0, <2>1, <2>2, <2>3, <2>5, <3>1
  <2> QED
    BY <2>4, <2>5
<1>4. MaxClaims \in S
  <2> HIDE DEF S
  <2>1. S \in SUBSET Nat
    BY DEF S
  <2> QED
    BY <1>0, <1>2, <1>3, <2>1, Induction
<1> QED
  BY <1>0, <1>1, <1>4

-----------------------------------------------------------------------------
(* Every step is one of the ledger's, or none of its business. *)

\* The receipts that name a reward of round r, before a step and after it.
Named(rw, rc, r) == [k \in ClaimIds |-> IF rw[k].round = r THEN rc[k] ELSE 0]

LEMMA ReceiptedNamed ==
  \A r : /\ Receipted(r) = Total(Named(rewards, receipts, r))
         /\ Receipted(r)' = Total(Named(rewards', receipts', r))
BY DEF Receipted, Named, Total

LEMMA SameNamed ==
  ASSUME NEW rw, NEW rc, NEW rw2, NEW rc2, NEW r,
         \A k \in ClaimIds :
           (IF rw2[k].round = r THEN rc2[k] ELSE 0) = (IF rw[k].round = r THEN rc[k] ELSE 0)
  PROVE  Named(rw2, rc2, r) = Named(rw, rc, r)
BY DEF Named

LEMMA QuietLedger ==
  ASSUME Quiet
  PROVE  UNCHANGED Ledger!ledgerVars
<1>1. ASSUME NEW r \in RoundIds PROVE Receipted(r)' = Receipted(r)
  <2>1. \A k \in ClaimIds :
          (IF rewards'[k].round = r THEN receipts'[k] ELSE 0)
            = (IF rewards[k].round = r THEN receipts[k] ELSE 0)
    BY DEF Quiet
  <2>2. Named(rewards', receipts', r) = Named(rewards, receipts, r)
    BY ONLY <2>1, SameNamed
  <2> QED
    BY ONLY <2>2, ReceiptedNamed
<1>2. [r \in RoundIds |-> Receipted(r)]' = [r \in RoundIds |-> Receipted(r)]
  BY <1>1
<1>3. [r \in RoundIds |-> rounds[r].winner]' = [r \in RoundIds |-> rounds[r].winner]
  BY DEF Quiet
<1> QED
  BY <1>2, <1>3 DEF Quiet, Ledger!ledgerVars

LEMMA WinsLedger ==
  ASSUME NEW r \in RoundIds, NEW m \in Miners, Wins(r, m)
  PROVE  Ledger!Win(r, m)
<1>1. ASSUME NEW s \in RoundIds PROVE Receipted(s)' = Receipted(s)
  <2>1. \A k \in ClaimIds :
          (IF rewards'[k].round = s THEN receipts'[k] ELSE 0)
            = (IF rewards[k].round = s THEN receipts[k] ELSE 0)
    BY DEF Wins
  <2>2. Named(rewards', receipts', s) = Named(rewards, receipts, s)
    BY ONLY <2>1, SameNamed
  <2> QED
    BY ONLY <2>2, ReceiptedNamed
<1>2. [s \in RoundIds |-> Receipted(s)]' = [s \in RoundIds |-> Receipted(s)]
  BY <1>1
<1>3. [s \in RoundIds |-> rounds[s].winner]'
        = [[s \in RoundIds |-> rounds[s].winner] EXCEPT ![r] = m]
  BY DEF Wins
<1>4. [s \in RoundIds |-> rounds[s].winner][r] = None
  BY DEF Wins
<1> QED
  BY <1>2, <1>3, <1>4 DEF Wins, Ledger!Win

LEMMA ReceiptsLedger ==
  ASSUME receipts \in [ClaimIds -> Nat],
         NEW m \in Miners, NEW ks \in SUBSET ClaimIds, Receipts(m, ks)
  PROVE  \E rs \in (SUBSET RoundIds) \ {{}} : Ledger!Receipt(m, rs)
<1> DEFINE rs == {rewards[k].round : k \in ks}
           f  == [r \in RoundIds |-> Receipted(r)]
           w  == [r \in RoundIds |-> rounds[r].winner]
<1>1. rs \in (SUBSET RoundIds) \ {{}}
  <2>1. PICK k \in ks : TRUE
    BY DEF Receipts
  <2>2. rewards[k].round \in rs
    OBVIOUS
  <2>3. \A r \in rs : r \in RoundIds
    BY DEF Receipts
  <2> QED
    BY <2>2, <2>3
<1>2. /\ \A k \in ClaimIds : rewards'[k].round = rewards[k].round
      /\ receipts' \in [ClaimIds -> Nat]
      /\ \A k \in ks : receipts'[k] # 0
      /\ \A k \in ClaimIds \ ks : receipts'[k] = receipts[k]
      /\ UNCHANGED <<rounds, wins>>
  BY DEF Receipts
<1>3. \A r : /\ Named(rewards, receipts, r) \in [ClaimIds -> Nat]
             /\ Named(rewards', receipts', r) \in [ClaimIds -> Nat]
  BY <1>2 DEF Named
<1>4. ASSUME NEW r \in rs
      PROVE  w[r] = m /\ Receipted(r) = 0 /\ Receipted(r)' \in Nat \ {0}
  <2>1. PICK k \in ks : r = rewards[k].round
    OBVIOUS
  <2>2. /\ r \in RoundIds /\ rounds[r].winner = m /\ k \in ClaimIds
        /\ \A j \in ClaimIds : rewards[j].round = r => receipts[j] = 0 /\ (j \in ks => j = k)
    BY <2>1 DEF Receipts
  <2>3. \A j \in ClaimIds : Named(rewards, receipts, r)[j] = 0
    BY <2>2 DEF Named
  <2>4. Named(rewards', receipts', r)[k] = receipts'[k]
    BY <1>2, <2>1, <2>2 DEF Named
  <2>5. \A j \in ClaimIds : j # k => Named(rewards', receipts', r)[j] = 0
    BY <1>2, <2>2 DEF Named
  <2>6. Total(Named(rewards, receipts, r)) = 0
    BY <1>3, <2>3, TotalOfNone
  <2>7. Total(Named(rewards', receipts', r)) = receipts'[k]
    BY <1>3, <2>2, <2>4, <2>5, TotalOfOne
  <2>8. receipts'[k] \in Nat \ {0}
    BY <1>2, <2>2
  <2> QED
    BY <2>2, <2>6, <2>7, <2>8, ReceiptedNamed
<1>5. ASSUME NEW r \in RoundIds, r \notin rs PROVE Receipted(r)' = Receipted(r)
  <2>1. \A k \in ClaimIds :
          (IF rewards'[k].round = r THEN receipts'[k] ELSE 0)
            = (IF rewards[k].round = r THEN receipts[k] ELSE 0)
    BY <1>2, <1>5
  <2>2. Named(rewards', receipts', r) = Named(rewards, receipts, r)
    BY ONLY <2>1, SameNamed
  <2> QED
    BY ONLY <2>2, ReceiptedNamed
<1>6. \A r \in rs : w[r] = m /\ f[r] = 0
  BY <1>1, <1>4
<1>7. /\ DOMAIN f' = RoundIds
      /\ \A r \in rs : f'[r] \in Nat \ {0}
      /\ \A r \in RoundIds \ rs : f'[r] = f[r]
  <2>1. \A r \in RoundIds : f'[r] = Receipted(r)' /\ f[r] = Receipted(r)
    OBVIOUS
  <2> QED
    BY <1>1, <1>4, <1>5, <2>1
<1>8. w' = w /\ wins' = wins
  BY <1>2
<1>9. Ledger!Receipt(m, rs)
  BY <1>6, <1>7, <1>8 DEF Ledger!Receipt
<1> QED
  BY <1>1, <1>9

LEMMA SerialInit ==
  ASSUME Init
  PROVE  SerialInv /\ Ledger!LedgerInit
<1>1. Tables(rounds, active, rewards, opened, given, receipts)
  BY DEF Init, Tables, PendingHeld, OpenUnwon, WonOnce, Earned, NewRound, NoReward
<1>2. \A c \in Calls : Waiting(calls[c], rounds, active, rewards, given)
  BY NoCallWaits DEF Init
<1>3. ASSUME NEW r \in RoundIds PROVE Receipted(r) = 0
  <2>1. /\ Named(rewards, receipts, r) \in [ClaimIds -> Nat]
        /\ \A k \in ClaimIds : Named(rewards, receipts, r)[k] = 0
    BY DEF Init, Named
  <2>2. Total(Named(rewards, receipts, r)) = 0
    BY <2>1, TotalOfNone
  <2> QED
    BY <2>2, ReceiptedNamed
<1>4. [r \in RoundIds |-> Receipted(r)] = [r \in RoundIds |-> 0]
  BY <1>3
<1>5. [r \in RoundIds |-> rounds[r].winner] = [r \in RoundIds |-> None]
  BY DEF Init, NewRound
<1>6. wins = [m \in Miners |-> 0]
  BY DEF Init
<1> QED
  BY <1>1, <1>2, <1>4, <1>5, <1>6 DEF SerialInv, Ledger!LedgerInit

LEMMA SerialNext ==
  ASSUME OneAtATime, Inv, SerialInv, [Next]_vars
  PROVE  SerialInv' /\ [Ledger!LedgerNext]_(Ledger!ledgerVars)
<1>1. ASSUME Quiet PROVE [Ledger!LedgerNext]_(Ledger!ledgerVars)
  BY <1>1, QuietLedger
<1>2. CASE UNCHANGED vars
  <2>1. Quiet
    BY <1>2 DEF vars, Quiet
  <2>2. SerialInv'
    BY <1>2 DEF vars, SerialInv, Tables, PendingHeld, OpenUnwon, WonOnce, Earned, Waiting
  <2> QED
    BY <1>1, <2>1, <2>2
<1>3. CASE Time
  BY <1>1, <1>3, TimeSerial
<1>4. ASSUME NEW c \in Calls, Request(c)
      PROVE  SerialInv' /\ [Ledger!LedgerNext]_(Ledger!ledgerVars)
  BY <1>1, <1>4, RequestSerial
<1>5. ASSUME NEW c \in Calls, Advance(c)
      PROVE  SerialInv' /\ [Ledger!LedgerNext]_(Ledger!ledgerVars)
  <2>1. CASE AcceptPayment(c)
    <3>1. SerialInv' /\ \E r \in RoundIds, m \in Miners : Wins(r, m)
      BY <2>1, AcceptSerial
    <3>2. \E r \in RoundIds, m \in Miners : Ledger!Win(r, m)
      BY <3>1, WinsLedger
    <3> QED
      BY <3>1, <3>2 DEF Ledger!LedgerNext
  <2>2. CASE IssueReceipt(c)
    <3>1. /\ SerialInv'
          /\ \/ Quiet
             \/ \E m \in Miners, ks \in SUBSET ClaimIds : Receipts(m, ks)
      BY <2>2, IssueSerial
    <3>2. ASSUME NEW m \in Miners, NEW ks \in SUBSET ClaimIds, Receipts(m, ks)
          PROVE  \E rs \in (SUBSET RoundIds) \ {{}} : Ledger!Receipt(m, rs)
      <4>1. receipts \in [ClaimIds -> Nat]
        BY SerialFacts
      <4> QED
        BY <3>2, <4>1, ReceiptsLedger
    <3> QED
      BY <1>1, <3>1, <3>2 DEF Ledger!LedgerNext
  <2>3. CASE Underfunded(c)
    BY <1>1, <2>3, UnderfundedSerial
  <2>4. CASE Promote(c)
    BY <1>1, <2>4, PromoteSerial
  <2>5. CASE GiveRound(c) \/ RefuseSolution(c)
    BY <1>1, <2>5, OpenSerial
  <2>6. CASE SolutionTooLate(c)
    BY <1>1, <2>6, TooLateSerial
  <2>7. CASE \E right \in BOOLEAN : TakeSolution(c, right)
    BY <1>1, <2>7, TakeSerial
  <2>8. CASE PaymentSettled(c) \/ PaymentError(c)
    BY <1>1, <2>8, SettledSerial
  <2>9. CASE PaymentTooLate(c)
    BY <1>1, <2>9, PaymentTooLateSerial
  <2>10. CASE LookUpPayment(c)
    BY <1>1, <2>10, LookUpSerial
  <2>11. CASE RejectPayment(c)
    BY <1>1, <2>11, RejectSerial
  <2> QED
    BY <1>5, <2>1, <2>2, <2>3, <2>4, <2>5, <2>6, <2>7, <2>8, <2>9, <2>10, <2>11
    DEF Advance
<1> QED
  BY <1>2, <1>3, <1>4, <1>5 DEF Next

\* In a service that handles one request at a time a reservation that waits for
\* its payment is the one its round holds, and that round is active and not won:
\* the provisional winner can still pay, and nobody else can.
THEOREM PendingIsCurrentSerially ==
  ASSUME OneAtATime
  PROVE  Spec => []PendingIsCurrent
<1>1. Init => SerialInv
  BY SerialInit
<1>2. Inv /\ SerialInv /\ [Next]_vars => SerialInv'
  BY SerialNext
<1>3. SerialInv => PendingIsCurrent
  BY DEF SerialInv, Tables, PendingHeld, OpenUnwon, PendingIsCurrent, Pending
<1> QED
  BY <1>1, <1>2, <1>3, AlwaysInv, PTL DEF Spec

\* A service that handles one request at a time implements the ledger its miners
\* rely on: no round is won twice, no win is credited twice, and no reward enters
\* a second receipt or one of a miner who has not won its round.
THEOREM ServiceImplementsLedger ==
  ASSUME OneAtATime
  PROVE  Spec => ImplementsLedger
<1>1. Init => SerialInv /\ Ledger!LedgerInit
  BY SerialInit
<1>2. Inv /\ SerialInv /\ [Next]_vars => SerialInv' /\ [Ledger!LedgerNext]_(Ledger!ledgerVars)
  BY SerialNext
<1> QED
  BY <1>1, <1>2, AlwaysInv, PTL DEF Spec, ImplementsLedger, Ledger!LedgerSpec

=============================================================================
