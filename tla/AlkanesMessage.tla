--------------------------- MODULE AlkanesMessage ---------------------------
(***************************************************************************)
(* Messages to alkanes and the calls inside them: handle_message           *)
(* (message.rs), extcall and its wrapper (vm/host_functions.rs),           *)
(* AlkanesInstance::execute (vm/instance.rs), with process_message and     *)
(* index_runestone (protorune) around them.                                *)
(*                                                                         *)
(* A contract is any program: at each call and at its return it hands over *)
(* the storage it has changed and the alkanes it sends, and it may fail at *)
(* any point, for want of fuel if nothing else.  Its storage is one cell.  *)
(* Runestones, edicts and outputs are the choice of what a message         *)
(* receives out of what the transaction has.                               *)
(***************************************************************************)
EXTENDS CheckpointStack

CONSTANTS
  MaxId,         \* bound: contracts are numbered 0..MaxId
  FirstFree,     \* the next sequence number before the first transaction
  Called,        \* the contracts that get called
  Tokens,        \* the contracts whose tokens are moved
  Amounts,       \* what is moved of one token
  Stored,        \* what contracts store
  Supply,        \* what outputs hold of each token at first
  MaxDepth,      \* the depth of checkpoints at which calls are refused
  Width,         \* balances are numbers modulo Width
  Starts         \* bound: transactions, messages and calls begun

Contracts == 0..MaxId

ASSUME MessageAssumption ==
  /\ MaxId \in Nat /\ FirstFree \in 0..(MaxId + 1)
  /\ Called \subseteq Contracts /\ Tokens \subseteq Contracts
  /\ Amounts \subseteq Nat /\ 0 \in Amounts /\ Stored \subseteq Nat
  /\ Supply \in [Tokens -> Nat]
  /\ MaxDepth \in Nat /\ Width \in Nat \ {0} /\ Starts \in Nat

Parcels == [Tokens -> Amounts]
NoAlkanes == [t \in Tokens |-> 0]

Create == -1                            \* the target of a deployment
Nothing == -1                           \* a storage map without entries

Storage(c) == <<"storage", c>>
Binary(c) == <<"binary", c>>
Balance(c, t) == <<"balance", c, t>>
Sequence == <<"sequence">>

BalanceKeys == {Balance(c, t) : c \in Contracts, t \in Tokens}
Keys == {Storage(c) : c \in Contracts} \cup {Binary(c) : c \in Contracts}
          \cup BalanceKeys \cup {Sequence}

VARIABLES
  cells,         \* the block's state, without the running transaction
  layers,        \* IndexCheckpointStack; empty between transactions
  frames,        \* the instances on the stack
  incoming,      \* what the running message was sent
  inputs,        \* what the transaction's inputs hold
  sheet,         \* what the transaction's outputs hold (balances_by_output)
  outside,       \* what unspent outputs hold
  spent,         \* left on outputs whose transaction failed
  starts

sheets == <<inputs, sheet, outside, spent>>
vars == <<cells, layers, frames, incoming, sheets, starts>>

ViewAt(n) == [k \in Keys |-> Seen(cells, layers, n, k)]
View == ViewAt(Len(layers))

Top == frames[Len(frames)]
Frame(kind, c) == [kind |-> kind, myself |-> c, failed |-> FALSE]
Abort(f) == [kind |-> f.kind, myself |-> f.myself, failed |-> TRUE]

Plus(p, q) == [t \in Tokens |-> p[t] + q[t]]
Minus(p, q) == [t \in Tokens |-> p[t] - q[t]]
Within(p, q) == \A t \in Tokens : p[t] <= q[t]

Init ==
  /\ cells = [k \in Keys |->
       IF k = Sequence THEN FirstFree
       ELSE IF k \in {Binary(c) : c \in 0..(FirstFree - 1)} THEN 1 ELSE 0]
  /\ layers = <<>> /\ frames = <<>>
  /\ incoming = NoAlkanes /\ inputs = NoAlkanes /\ sheet = NoAlkanes
  /\ outside = Supply /\ spent = NoAlkanes
  /\ starts = 0

Start == starts < Starts /\ starts' = starts + 1

-----------------------------------------------------------------------------
(* What a call writes. *)

\* pipe_storagemap_to
Store(c, value) ==
  IF value = Nothing THEN NoWrites ELSE [k \in {Storage(c)} |-> value]

\* run_special_cellpacks.  A contract without a binary fails to instantiate
\* behind the transfer, which is then undone.
\* Mutant: what has no binary is not refused.
Exists_Any(target) == target = Create => View[Sequence] <= MaxId

Exists(target) ==
  IF target = Create THEN View[Sequence] <= MaxId
                     ELSE target < View[Sequence]

Resolved(target) == IF target = Create THEN View[Sequence] ELSE target

Special(target) ==
  IF target = Create
  THEN [k \in {Sequence, Binary(View[Sequence])} |->
         IF k = Sequence THEN View[Sequence] + 1 ELSE 1]
  ELSE NoWrites

\* Mutant: a contract may send what it does not have.
CanDebit_Any(from, parcel) == TRUE

\* checked_debit_with_minting: a contract mints its own token.
CanDebit(from, parcel) ==
  \A t \in Tokens : parcel[t] <= View[Balance(from, t)] \/ t = from

Debited(from, t, n) ==
  IF View[Balance(from, t)] < n THEN 0 ELSE View[Balance(from, t)] - n

\* debit_balances
Debit(from, parcel) ==
  [k \in {Balance(from, t) : t \in Tokens} |-> Debited(from, k[3], parcel[k[3]])]

\* Mutant: the sum is not brought back into u128.
Transfer_Wide(parcel, from, to) ==
  Over([k \in {Balance(to, t) : t \in Tokens} |->
          parcel[k[3]] + (IF from = to THEN Debited(from, k[3], parcel[k[3]])
                                       ELSE View[k])],
       Debit(from, parcel))

\* transfer_from.  The credit is added without a check.
Transfer(parcel, from, to) ==
  Over([k \in {Balance(to, t) : t \in Tokens} |->
          (parcel[k[3]] + (IF from = to THEN Debited(from, k[3], parcel[k[3]])
                                        ELSE View[k])) % Width],
       Debit(from, parcel))

\* credit_balances
CanCredit(to, parcel) ==
  \A t \in Tokens : View[Balance(to, t)] + parcel[t] < Width

Credit(to, parcel) ==
  [k \in {Balance(to, t) : t \in Tokens} |-> View[k] + parcel[k[3]]]

-----------------------------------------------------------------------------
(* Transactions and messages. *)

BeginTransaction(parcel) ==
  /\ Start /\ layers = <<>>
  /\ Within(parcel, outside)
  /\ layers' = Checkpoint(layers)
  /\ inputs' = parcel /\ sheet' = parcel /\ outside' = Minus(outside, parcel)
  /\ UNCHANGED <<cells, frames, incoming, spent>>

Between == Len(layers) = 1 /\ frames = <<>>

\* A message that is refused before it runs is refunded and leaves nothing.
StartMessage(target, parcel) ==
  /\ Start /\ Between
  /\ Within(parcel, sheet)
  /\ Exists(target) /\ CanCredit(Resolved(target), parcel)
  /\ layers' = Checkpoint(Put(Checkpoint(layers),
                 Over(Credit(Resolved(target), parcel), Special(target))))
  /\ frames' = <<Frame("message", Resolved(target))>>
  /\ incoming' = parcel
  /\ UNCHANGED <<cells, sheets>>

\* The contract returns to handle_message.
MessageReturns(value, parcel) ==
  /\ Len(frames) = 1 /\ ~Top.failed
  /\ CanDebit(Top.myself, parcel)
  /\ layers' = Commit(Put(Commit(layers),
                 Over(Debit(Top.myself, parcel), Store(Top.myself, value))))
  /\ sheet' = Plus(Minus(sheet, incoming), parcel)
  /\ frames' = <<>> /\ incoming' = NoAlkanes
  /\ UNCHANGED <<cells, inputs, outside, spent, starts>>

\* It fails, or what it returns cannot be paid; the sheet is refunded.
MessageReverts ==
  /\ Len(frames) = 1
  /\ layers' = Rollback(Rollback(layers))
  /\ frames' = <<>> /\ incoming' = NoAlkanes
  /\ UNCHANGED <<cells, sheets, starts>>

CommitTransaction ==
  /\ Between
  /\ cells' = Over(layers[1], cells) /\ layers' = <<>>
  /\ outside' = Plus(outside, sheet) /\ sheet' = NoAlkanes /\ inputs' = NoAlkanes
  /\ UNCHANGED <<frames, incoming, spent, starts>>

\* index_runestone fails after its messages.  What is rolled
\* back includes what the inputs held, and they are not cleared.
RollbackTransaction ==
  /\ Between
  /\ layers' = Rollback(layers)
  /\ spent' = Plus(spent, inputs) /\ sheet' = NoAlkanes /\ inputs' = NoAlkanes
  /\ UNCHANGED <<cells, frames, incoming, outside, starts>>

-----------------------------------------------------------------------------
(* Calls.  Each host function runs between a checkpoint and a commit of its *)
(* wrapper, with_context_safety.                                            *)

Kinds == {"call", "delegate", "static"}

\* Extcall::change_context
Myself(kind, target) ==
  IF kind = "delegate" THEN Top.myself ELSE Resolved(target)

CallContract(kind, target, value, parcel) ==
  /\ Start /\ frames # <<>>
  /\ Len(Checkpoint(layers)) < MaxDepth
  /\ Exists(target)
  /\ kind # "delegate" => CanDebit(Top.myself, parcel)
  /\ layers' = Checkpoint(Put(Checkpoint(Checkpoint(layers)),
       Over(IF kind = "delegate" THEN NoWrites
              ELSE Transfer(parcel, Top.myself, Resolved(target)),
            Over(Special(target), Store(Top.myself, value)))))
  /\ frames' = Append(frames, Frame(kind, Myself(kind, target)))
  /\ UNCHANGED <<cells, incoming, sheets>>

\* The call ends before the callee runs: too deep, no such contract, too
\* little fuel or balance.  What extcall had written is rolled back, and
\* the abort marks the caller as failed.
CallRefused ==
  /\ frames # <<>> /\ ~Top.failed
  /\ frames' = [frames EXCEPT ![Len(frames)] = Abort(@)]
  /\ UNCHANGED <<cells, layers, incoming, sheets, starts>>

Caller == frames[Len(frames) - 1]

\* Mutant: save() writes the callee's storage into the caller.
Saved_Swapped(value, parcel) ==
  Put(Commit(layers),
      Over(IF Top.kind = "delegate" THEN NoWrites
             ELSE Transfer(parcel, Top.myself, Caller.myself),
           Store(Caller.myself, value)))

\* Saveable::save, into the layer of the call.
Saved(value, parcel) ==
  Put(Commit(layers),
      Over(IF Top.kind = "delegate" THEN NoWrites
             ELSE Transfer(parcel, Top.myself, Caller.myself),
           Store(Top.myself, value)))

\* Mutant: a static call is committed like any other.
HandleAtomic_Commits(ls) == Commit(ls)

HandleAtomic(ls) == IF Top.kind = "static" THEN Rollback(ls) ELSE Commit(ls)

CallReturns(value, parcel) ==
  /\ Len(frames) > 1 /\ ~Top.failed
  /\ Top.kind # "delegate" => CanDebit(Top.myself, parcel)
  /\ layers' = Commit(HandleAtomic(Saved(value, parcel)))
  /\ frames' = SubSeq(frames, 1, Len(frames) - 1)
  /\ UNCHANGED <<cells, incoming, sheets, starts>>

\* Mutant: only execute's own checkpoint is taken back.
CallReverts_Once ==
  /\ Len(frames) > 1
  /\ layers' = Commit(Rollback(layers))
  /\ frames' = [SubSeq(frames, 1, Len(frames) - 1)
                  EXCEPT ![Len(frames) - 1] = Abort(@)]
  /\ UNCHANGED <<cells, incoming, sheets, starts>>

\* execute or save fails: the layer of the call goes too, and the caller's
\* own instance is marked as failed.
CallReverts ==
  /\ Len(frames) > 1
  /\ layers' = Commit(Rollback(Rollback(layers)))
  /\ frames' = [SubSeq(frames, 1, Len(frames) - 1)
                  EXCEPT ![Len(frames) - 1] = Abort(@)]
  /\ UNCHANGED <<cells, incoming, sheets, starts>>

-----------------------------------------------------------------------------
Targets == Called \cup {Create}
Values == Stored \cup {Nothing}

Next ==
  \/ \E p \in Parcels : BeginTransaction(p)
  \/ \E c \in Targets, p \in Parcels : StartMessage(c, p)
  \/ \E v \in Values, p \in Parcels : MessageReturns(v, p)
  \/ MessageReverts
  \/ CommitTransaction
  \/ RollbackTransaction
  \/ \E kind \in Kinds, c \in Targets, v \in Values, p \in Parcels :
       CallContract(kind, c, v, p)
  \/ CallRefused
  \/ \E v \in Values, p \in Parcels : CallReturns(v, p)
  \/ CallReverts

Spec == Init /\ [][Next]_vars

-----------------------------------------------------------------------------
(* Properties. *)

\* Every value is of its type: what a contract holds is a u128 (transfer_from,
\* credit_balances), and a layer holds writes to cells there are.
TypeOK ==
  /\ cells \in [Keys -> Nat]
  /\ \A i \in DOMAIN layers :
       DOMAIN layers[i] \subseteq Keys /\ \A k \in DOMAIN layers[i] : layers[i][k] \in Nat
  /\ \A k \in BalanceKeys : View[k] < Width
  /\ frames \in Seq([kind : Kinds \cup {"message"}, myself : Contracts, failed : BOOLEAN])
  /\ incoming \in Parcels
  /\ {inputs, sheet, outside, spent} \subseteq [Tokens -> Nat]

\* Each level of the call stack holds its own checkpoints and no other: one
\* of the transaction, two of the message, three of every call, however the
\* calls below it ended.  with_context_safety asserts it at each return.
DepthMatches ==
  IF frames = <<>> THEN Len(layers) <= 1 ELSE Len(layers) = 3 * Len(frames)

\* What contracts hold, what outputs hold and what the running transaction
\* holds in between is always what there was, for a token whose contract
\* never runs: no sequence of calls, failures and rollbacks makes such a
\* token or loses it (transfer_from, handle_message, process_message).
Sum(f) ==
  LET upTo[n \in 0..(MaxId + 1)] == IF n = 0 THEN 0 ELSE upTo[n - 1] + f[n - 1]
  IN  upTo[MaxId + 1]

Held(t) == Sum([c \in Contracts |-> View[Balance(c, t)]])

Conserved ==
  \A t \in Tokens \ Called :
    Held(t) + outside[t] + sheet[t] + spent[t] = Supply[t] + incoming[t]

\* Under a number that a deployment has yet to take there is nothing: no
\* code, no storage and no balance that the contract would be born with
\* (run_special_cellpacks, undone with the call that ran it).
UnbornClean ==
  \A c \in Contracts : c >= View[Sequence] =>
    \A k \in Keys : (k # Sequence /\ k[2] = c) => View[k] = 0

\* The storage of a contract changes only while it runs under its own name,
\* or when all that a level has done is undone (extcall, Saveable::save,
\* change_context, rollback).
SlotOwned ==
  [][\A c \in Contracts : View'[Storage(c)] # View[Storage(c)] =>
       \/ frames # <<>> /\ Top.myself = c
       \/ \E n \in 0..(Len(layers) - 1) : View' = ViewAt(n)]_vars

\* What a level began with, out of the layers: a transaction, its message
\* and its calls leave all of their effects or none.
Level(i) ==
  IF i = 1 THEN [view |-> ViewAt(0), static |-> FALSE, doomed |-> FALSE]
  ELSE [view   |-> ViewAt(3 * (i - 1) - 2),
        static |-> frames[i - 1].kind = "static",
        doomed |-> frames[i - 1].failed]

Levels == [i \in 1..(IF layers = <<>> THEN 0 ELSE Len(frames) + 1) |-> Level(i)]

Nested == INSTANCE NestedCalls
            WITH Values <- Nat, view <- View, saved <- Levels

ImplementsNested == Nested!Spec
=============================================================================
