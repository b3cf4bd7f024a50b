------------------------------ MODULE FuelTank ------------------------------
(***************************************************************************)
(* The fuel of one block: vm/fuel.rs and the part of handle_message        *)
(* (message.rs) that draws on it.  A block has TotalFuel.  The first       *)
(* message of a transaction gives the transaction its share, in proportion *)
(* to its size; what the transaction leaves goes back to the tank when the *)
(* next transaction that runs a message is fuelled.  The loop over the     *)
(* transactions is index_unspendables of protorune/src/lib.rs.             *)
(*                                                                         *)
(* A message that fails before it is fuelled (no such contract, a balance  *)
(* that overflows) leaves the tank alone and is no step here.              *)
(***************************************************************************)
EXTENDS Integers

CONSTANTS
  N,             \* number of transactions of the block
  SizeFrom,      \* SizeFrom[i]: what vfsize adds up to over transactions i..N
  TotalFuel,     \* total_fuel(height)
  MinimumFuel,   \* minimum_fuel(height)
  ByShare,       \* whether the build is for a network (TRUE) or for regtest
  Costs,         \* what a message that ends well may have used
  Gasless        \* whether messages to GASLESS_ALKANES occur

ASSUME BlockAssumption ==
  /\ N \in Nat /\ TotalFuel \in Nat /\ MinimumFuel \in Nat
  /\ SizeFrom \in [1..(N + 1) -> Nat]
  /\ SizeFrom[N + 1] = 0
  /\ \A i \in 1..N : SizeFrom[i + 1] <= SizeFrom[i]
  /\ ByShare \in BOOLEAN /\ Gasless \in BOOLEAN
  /\ Costs \subseteq Nat

TxSize(i) == SizeFrom[i] - SizeFrom[i + 1]
BlockSize == SizeFrom[1]

NoTx == 0                              \* u32::MAX: no transaction fuelled yet

VARIABLES
  current_txindex, size, txsize, block_fuel, transaction_fuel,
  block_metered_fuel,                  \* the fields of FuelTank
  index,                               \* the transaction being indexed
  running                              \* whose fuel the running message uses

tank == <<current_txindex, size, txsize, block_fuel, transaction_fuel,
          block_metered_fuel>>
vars == <<tank, index, running>>

Init ==
  /\ current_txindex = NoTx
  /\ size = BlockSize /\ txsize = 0
  /\ block_fuel = TotalFuel
  /\ transaction_fuel = 0 /\ block_metered_fuel = 0
  /\ index = 1 /\ running = "none"

TransactionFuel(metered) ==
  IF ByShare /\ metered > MinimumFuel THEN metered ELSE MinimumFuel

\* fuel_transaction, on a tank that holds fuel for sz bytes still to come.
FuelTransaction(fuel, sz) ==
  LET metered == (fuel * TxSize(index)) \div sz
  IN  /\ current_txindex' = index
      /\ size' = sz
      /\ txsize' = TxSize(index)
      /\ block_metered_fuel' = metered
      /\ transaction_fuel' = TransactionFuel(metered)
      /\ block_fuel' = IF metered < fuel THEN fuel - metered ELSE 0

\* Mutant: refuel_block gives back what the transaction could still spend, its
\* minimum included.
FuelNext_Unspent ==
  /\ current_txindex \notin {NoTx, index}
  /\ FuelTransaction(block_fuel + transaction_fuel, size - txsize)

\* Mutant: refuel_block forgets to take the bytes of the transaction off.
FuelNext_KeepsSize ==
  /\ current_txindex \notin {NoTx, index}
  /\ FuelTransaction(block_fuel + block_metered_fuel, size)

\* Mutant: the bytes of the new transaction are taken off, not of the last.
FuelNext_OwnSize ==
  /\ current_txindex \notin {NoTx, index}
  /\ FuelTransaction(block_fuel + block_metered_fuel, size - TxSize(index))

\* The first message of all, and the first of a later transaction, which
\* begins with refuel_block.
FuelFirst == current_txindex = NoTx /\ FuelTransaction(block_fuel, size)

FuelNext ==
  /\ current_txindex \notin {NoTx, index}
  /\ FuelTransaction(block_fuel + block_metered_fuel, size - txsize)

FuelNone == current_txindex = index /\ UNCHANGED tank

\* handle_message up to run_after_special.  A transaction with a message has
\* a cellpack, hence a size.
EnterMessage ==
  /\ running = "none"
  /\ index \in 1..N /\ TxSize(index) > 0
  /\ FuelFirst \/ FuelNext \/ FuelNone
  /\ running' \in {"tank"} \cup (IF Gasless THEN {"gasless"} ELSE {})
  /\ UNCHANGED index

DrainFuel ==
  /\ transaction_fuel' = 0 /\ block_metered_fuel' = 0
  /\ UNCHANGED <<current_txindex, size, txsize, block_fuel>>

\* Mutant: subtracts from the metered fuel without a check.
ConsumeFuel_Unchecked(n) ==
  /\ transaction_fuel' = transaction_fuel - n
  /\ block_metered_fuel' = block_metered_fuel - n
  /\ UNCHANGED <<current_txindex, size, txsize, block_fuel>>

ConsumeFuel(n) ==
  /\ transaction_fuel' = transaction_fuel - n
  /\ block_metered_fuel' =
       IF block_metered_fuel < n THEN 0 ELSE block_metered_fuel - n
  /\ UNCHANGED <<current_txindex, size, txsize, block_fuel>>

EndMessage == running' = "none" /\ UNCHANGED index

\* The message returns and has used n.
MessageReturns(n) ==
  /\ running = "tank" /\ n <= transaction_fuel
  /\ ConsumeFuel(n)
  /\ EndMessage

\* A gasless message is not charged, against the transaction or the block.
GaslessReturns ==
  /\ running = "gasless"
  /\ UNCHANGED tank
  /\ EndMessage

\* It reverts, or has used more than there is: storage is charged at the end.
MessageFails ==
  /\ running # "none"
  /\ DrainFuel
  /\ EndMessage

NextTransaction ==
  /\ running = "none" /\ index <= N
  /\ index' = index + 1
  /\ UNCHANGED <<tank, running>>

Next ==
  \/ EnterMessage
  \/ \E n \in Costs : MessageReturns(n)
  \/ GaslessReturns
  \/ MessageFails
  \/ NextTransaction

Spec == Init /\ [][Next]_vars

-----------------------------------------------------------------------------
TypeOK ==
  /\ current_txindex \in 0..N /\ index \in 1..(N + 1)
  /\ size \in Nat /\ txsize \in Nat
  /\ block_fuel \in Nat /\ transaction_fuel \in Nat
  /\ block_metered_fuel \in Nat
  /\ running \in {"none", "tank", "gasless"}

(***************************************************************************)
(* The bytes the tank counts are at least those still to be fuelled, the   *)
(* fuelled transaction included: size - txsize (fuel.rs:255) never wraps   *)
(* and fuel_transaction never divides by zero, whichever transactions run  *)
(* no message.                                                             *)
(***************************************************************************)
SizeCovers ==
  /\ current_txindex = NoTx => size >= SizeFrom[index]
  /\ current_txindex # NoTx =>
       /\ size >= txsize
       /\ current_txindex < index => size - txsize >= SizeFrom[index]

(***************************************************************************)
(* Whatever the transactions before it did (used all, little, failed, went *)
(* unfuelled), a transaction is metered at least the share of the block's  *)
(* fuel its size is of the block: nobody can spend the fuel of those to    *)
(* come.                                                                   *)
(***************************************************************************)
FairShare ==
  [][current_txindex' # current_txindex =>
       block_metered_fuel' >=
         (TotalFuel * TxSize(current_txindex')) \div BlockSize]_vars

\* Refunds give back only what was taken: what is left of the block and what the
\* running transaction is metered for never grow together. transaction_fuel itself,
\* which may be raised to the minimum, is not part of the sum.
NoFuelCreated ==
  [][block_fuel' + block_metered_fuel'
       <= block_fuel + block_metered_fuel]_vars
=============================================================================
