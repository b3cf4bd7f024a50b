--------------------------- MODULE FuelTankProofs ---------------------------
(***************************************************************************)
(* The fuel of a block, for every block and every budget.  The invariant   *)
(* behind the fair share is that the fuel left bears to the bytes left at  *)
(* least the ratio TotalFuel bears to BlockSize, written without division. *)
(***************************************************************************)
EXTENDS FuelTank, TLAPS

RatioKept == block_fuel * BlockSize >= TotalFuel * (size - txsize)

\* While the fuelled transaction is the one being indexed, its own bytes are
\* still counted.
FuelledIsCounted ==
  current_txindex = index => txsize = TxSize(index) /\ size >= SizeFrom[index]

NotAhead ==
  /\ current_txindex <= index /\ size <= BlockSize
  /\ current_txindex = NoTx => txsize = 0

IInv == TypeOK /\ SizeCovers /\ RatioKept /\ FuelledIsCounted /\ NotAhead

-----------------------------------------------------------------------------
\* Facts of arithmetic.

LEMMA DivisionBounds ==
  ASSUME NEW a \in Nat, NEW b \in Nat, b > 0
  PROVE  /\ a \div b \in Nat
         /\ (a \div b) * b <= a
         /\ a < ((a \div b) + 1) * b
OBVIOUS

LEMMA ProductMonotone ==
  ASSUME NEW a \in Nat, NEW b \in Nat, NEW c \in Nat, a <= b
  PROVE  a * c <= b * c
OBVIOUS

LEMMA ProductCancel ==
  ASSUME NEW a \in Int, NEW b \in Int, NEW c \in Nat, c > 0, a * c <= b * c
  PROVE  a <= b
OBVIOUS

LEMMA SumFalls ==
  ASSUME NEW a \in Nat, NEW b \in Nat, NEW c \in Nat, c <= b
  PROVE  a + c <= a + b
OBVIOUS

\* A share of f in the proportion s of sz is at most f.
LEMMA ShareBounded ==
  ASSUME NEW f \in Nat, NEW s \in Nat, NEW sz \in Nat, s <= sz, sz > 0
  PROVE  (f * s) \div sz <= f
<1> DEFINE m == (f * s) \div sz
<1>1. f * s \in Nat
  OBVIOUS
<1>2. m \in Nat /\ m * sz <= f * s
  BY <1>1, DivisionBounds
<1>3. s * f <= sz * f
  BY ProductMonotone
<1>4. m * sz <= f * sz
  BY <1>2, <1>3
<1> QED
  BY <1>2, <1>4, ProductCancel

\* What is left keeps the ratio: f fuel for sz bytes, minus a share of s.
LEMMA RatioAfterShare ==
  ASSUME NEW f \in Nat, NEW s \in Nat, NEW sz \in Nat, s <= sz, sz > 0,
         NEW total \in Nat, NEW all \in Nat,
         f * all >= total * sz
  PROVE  (f - ((f * s) \div sz)) * all >= total * (sz - s)
<1> DEFINE m == (f * s) \div sz
           r == sz - s
<1>1. f * s \in Nat
  OBVIOUS
<1>2. m \in Nat /\ m * sz <= f * s /\ m <= f
  BY <1>1, DivisionBounds, ShareBounded
<1>3. r \in Nat /\ s = sz - r
  OBVIOUS
<1> DEFINE g == f - m
<1>4. g \in Nat /\ m = f - g
  BY <1>2
<1> HIDE DEF m, r, g
<1>5. f * r <= g * sz
  <2>1. (f - g) * sz <= f * (sz - r)
    BY <1>2, <1>3, <1>4
  <2>2. f * sz - g * sz <= f * sz - f * r
    BY <2>1, <1>3, <1>4
  <2> QED
    BY <2>2, <1>3, <1>4
<1>6. (f * r) * all <= (g * sz) * all
  BY <1>3, <1>4, <1>5, ProductMonotone
<1>7. (total * sz) * r <= (f * all) * r
  BY <1>3, ProductMonotone
<1>8. (total * r) * sz <= (g * all) * sz
  BY <1>3, <1>4, <1>6, <1>7
<1>9. total * r <= g * all
  BY <1>3, <1>4, <1>8, ProductCancel
<1> QED
  BY <1>9 DEF g, r, m

\* A share of fuel that keeps the ratio is a share of the whole.
LEMMA ShareOfRatio ==
  ASSUME NEW f \in Nat, NEW s \in Nat, NEW sz \in Nat, sz > 0, s > 0,
         NEW total \in Nat, NEW all \in Nat, all > 0,
         f * all >= total * sz
  PROVE  (f * s) \div sz >= (total * s) \div all
<1> DEFINE m == (f * s) \div sz
           q == (total * s) \div all
<1>1. f * s \in Nat /\ total * s \in Nat
  OBVIOUS
<1>2. m \in Nat /\ f * s < (m + 1) * sz
  BY <1>1, DivisionBounds
<1>3. q \in Nat /\ q * all <= total * s
  BY <1>1, DivisionBounds
<1> HIDE DEF m, q
<1>4. SUFFICES ASSUME m + 1 <= q PROVE FALSE
  BY <1>2, <1>3 DEF m, q
<1>5. f * s < q * sz
  <2>1. (m + 1) * sz <= q * sz
    BY <1>2, <1>3, <1>4, ProductMonotone
  <2> QED
    BY <2>1, <1>2, <1>3
<1>6. (f * s) * all < (q * sz) * all
  <2>1. f * s + 1 <= q * sz
    BY <1>5, <1>3
  <2>2. (f * s + 1) * all <= (q * sz) * all
    BY <2>1, <1>3, ProductMonotone
  <2>3. (f * s + 1) * all = (f * s) * all + all
    OBVIOUS
  <2> QED
    BY <2>2, <2>3, <1>3
<1>7. (q * all) * sz <= (total * s) * sz
  BY <1>3, ProductMonotone
<1>8. (total * sz) * s <= (f * all) * s
  BY ProductMonotone
<1> QED
  BY <1>3, <1>6, <1>7, <1>8

-----------------------------------------------------------------------------
LEMMA TxSizeType ==
  ASSUME NEW i \in 1..N
  PROVE  /\ SizeFrom[i] \in Nat /\ SizeFrom[i + 1] \in Nat
         /\ TxSize(i) \in Nat /\ TxSize(i) = SizeFrom[i] - SizeFrom[i + 1]
BY BlockAssumption DEF TxSize

LEMMA BlockSizeType == BlockSize \in Nat
BY BlockAssumption DEF BlockSize

\* What fuel_transaction establishes, from the fuel and the bytes left.
LEMMA FuelTransactionKeeps ==
  ASSUME IInv, index \in 1..N, TxSize(index) > 0,
         NEW fuel \in Nat, NEW sz \in Nat,
         sz >= SizeFrom[index], sz <= BlockSize,
         fuel * BlockSize >= TotalFuel * sz,
         FuelTransaction(fuel, sz),
         UNCHANGED index, running' \in {"tank", "gasless"}
  PROVE  /\ IInv' /\ current_txindex' = index
         /\ block_metered_fuel' >= (TotalFuel * TxSize(index)) \div BlockSize
         /\ block_fuel' + block_metered_fuel' = fuel
<1> DEFINE s == TxSize(index)
           m == (fuel * s) \div sz
<1>1. s \in Nat /\ s > 0 /\ s <= sz /\ sz > 0 /\ sz - s >= SizeFrom[index + 1]
  BY TxSizeType
<1>2. BlockSize \in Nat /\ BlockSize > 0 /\ TotalFuel \in Nat
      /\ MinimumFuel \in Nat /\ N \in Nat
  BY <1>1, BlockSizeType, BlockAssumption
<1>3. fuel * s \in Nat
  BY <1>1
<1>4. m \in Nat /\ m <= fuel
  BY <1>1, <1>3, DivisionBounds, ShareBounded
<1>5. (fuel - m) * BlockSize >= TotalFuel * (sz - s)
  BY <1>1, <1>2, RatioAfterShare
<1>6. m >= (TotalFuel * s) \div BlockSize
  BY <1>1, <1>2, ShareOfRatio
<1>7. /\ current_txindex' = index /\ size' = sz /\ txsize' = s
      /\ block_metered_fuel' = m /\ block_fuel' = fuel - m
      /\ transaction_fuel' = TransactionFuel(m)
  BY <1>4 DEF FuelTransaction
<1> HIDE DEF m
<1>8. TransactionFuel(m) \in Nat
  BY <1>2, <1>4 DEF TransactionFuel
<1>9. TypeOK'
  BY <1>1, <1>2, <1>4, <1>7, <1>8 DEF IInv, TypeOK
<1>10. SizeCovers'
  BY <1>1, <1>2, <1>7 DEF SizeCovers, NoTx, TypeOK, IInv
<1>11. RatioKept'
  BY <1>5, <1>7 DEF RatioKept, BlockSize
<1>12. FuelledIsCounted' /\ NotAhead'
  BY <1>1, <1>7 DEF FuelledIsCounted, NotAhead, TypeOK, IInv, TxSize, BlockSize,
                       NoTx
<1> QED
  BY <1>4, <1>6, <1>7, <1>9, <1>10, <1>11, <1>12 DEF IInv

\* EnterMessage hands fuel_transaction the fuel and the bytes it needs, and
\* takes nothing from the transactions to come.
LEMMA EnterMessageKeeps ==
  ASSUME IInv, EnterMessage
  PROVE  /\ IInv'
         /\ current_txindex' # current_txindex =>
              /\ current_txindex' = index
              /\ block_metered_fuel' >=
                   (TotalFuel * TxSize(index)) \div BlockSize
         /\ block_fuel' + block_metered_fuel'
              <= block_fuel + block_metered_fuel
<1>1. /\ index \in 1..N /\ TxSize(index) > 0 /\ UNCHANGED index
      /\ running' \in {"tank", "gasless"}
      /\ TypeOK /\ SizeCovers /\ RatioKept /\ FuelledIsCounted /\ NotAhead
  BY DEF EnterMessage, IInv
<1>2. BlockSize \in Nat /\ TotalFuel \in Nat /\ SizeFrom[index] \in Nat
      /\ size \in Nat /\ txsize \in Nat /\ block_fuel \in Nat
      /\ block_metered_fuel \in Nat /\ current_txindex \in Nat
  BY <1>1, BlockSizeType, TxSizeType, BlockAssumption DEF TypeOK
<1>3. CASE FuelFirst
  <2>1. size >= SizeFrom[index] /\ size <= BlockSize
    BY <1>1, <1>3 DEF SizeCovers, NotAhead, FuelFirst
  <2>2. block_fuel * BlockSize >= TotalFuel * size
    <3>1. txsize = 0
      BY <1>1, <1>3 DEF FuelFirst, NotAhead
    <3> QED
      BY <3>1, <1>1, <1>2 DEF RatioKept
  <2> QED
    BY <1>1, <1>2, <1>3, <2>1, <2>2, FuelTransactionKeeps DEF FuelFirst
<1>4. CASE FuelNext
  <2>1. /\ size - txsize \in Nat
        /\ size - txsize >= SizeFrom[index] /\ size - txsize <= BlockSize
    BY <1>1, <1>2, <1>4 DEF SizeCovers, NotAhead, FuelNext, NoTx
  <2>2. (block_fuel + block_metered_fuel) * BlockSize
          >= TotalFuel * (size - txsize)
    <3>1. block_fuel * BlockSize
            <= (block_fuel + block_metered_fuel) * BlockSize
      BY <1>2, ProductMonotone
    <3> DEFINE u == size - txsize
    <3>2. u \in Nat /\ block_fuel * BlockSize >= TotalFuel * u
      BY <1>1, <2>1 DEF RatioKept
    <3> HIDE DEF u
    <3>3. (block_fuel + block_metered_fuel) * BlockSize >= TotalFuel * u
      BY <1>2, <3>1, <3>2
    <3> QED
      BY <3>3 DEF u
  <2>3. block_fuel + block_metered_fuel \in Nat
    BY <1>2
  <2> QED
    BY <1>1, <1>2, <1>4, <2>1, <2>2, <2>3, FuelTransactionKeeps DEF FuelNext
<1>5. CASE FuelNone
  <2>1. UNCHANGED <<tank, index>>
    BY <1>1, <1>5 DEF FuelNone
  <2>2. IInv'
    BY <1>1, <2>1 DEF IInv, TypeOK, SizeCovers, RatioKept, FuelledIsCounted,
                      NotAhead, tank, BlockSize, TxSize
  <2> QED
    BY <1>2, <2>1, <2>2 DEF tank
<1> QED
  BY <1>3, <1>4, <1>5 DEF EnterMessage

\* The other steps leave bytes and block fuel alone.
LEMMA OtherStepsKeep ==
  ASSUME IInv,
         \/ \E n \in Costs : MessageReturns(n)
         \/ GaslessReturns
         \/ MessageFails
         \/ NextTransaction
         \/ UNCHANGED vars
  PROVE  /\ IInv'
         /\ current_txindex' = current_txindex
         /\ block_fuel' + block_metered_fuel'
              <= block_fuel + block_metered_fuel
<1>1. TypeOK /\ SizeCovers /\ RatioKept /\ FuelledIsCounted /\ NotAhead
  BY DEF IInv
<1>2. ASSUME (\E n \in Costs : MessageReturns(n)) \/ GaslessReturns
      PROVE  /\ UNCHANGED <<current_txindex, size, txsize, block_fuel, index>>
             /\ transaction_fuel' \in Nat /\ block_metered_fuel' \in Nat
             /\ block_metered_fuel' <= block_metered_fuel
             /\ running' = "none"
  <2>1. CASE GaslessReturns
    BY <1>1, <2>1 DEF TypeOK, GaslessReturns, EndMessage, tank
  <2>2. ASSUME NEW n \in Costs, MessageReturns(n)
        PROVE  /\ UNCHANGED <<current_txindex, size, txsize, block_fuel, index>>
               /\ transaction_fuel' \in Nat /\ block_metered_fuel' \in Nat
               /\ block_metered_fuel' <= block_metered_fuel
               /\ running' = "none"
    <3>1. n \in Nat
      BY BlockAssumption
    <3> QED
      BY <1>1, <2>2, <3>1 DEF TypeOK, MessageReturns, ConsumeFuel, EndMessage
  <2> QED
    BY <1>2, <2>1, <2>2
<1>3. ASSUME MessageFails
      PROVE  /\ UNCHANGED <<current_txindex, size, txsize, block_fuel, index>>
             /\ transaction_fuel' = 0 /\ block_metered_fuel' = 0
             /\ running' = "none"
  BY <1>3 DEF MessageFails, DrainFuel, EndMessage
<1>4. ASSUME UNCHANGED <<current_txindex, size, txsize, block_fuel, index>>,
             transaction_fuel' \in Nat, block_metered_fuel' \in Nat,
             block_metered_fuel' <= block_metered_fuel,
             running' \in {"none", "tank", "gasless"}
      PROVE  /\ IInv'
             /\ current_txindex' = current_txindex
             /\ block_fuel' + block_metered_fuel'
                  <= block_fuel + block_metered_fuel
  <2>1. TypeOK'
    BY <1>1, <1>4 DEF TypeOK
  <2>2. /\ SizeCovers' /\ RatioKept' /\ FuelledIsCounted' /\ NotAhead'
    BY <1>1, <1>4 DEF SizeCovers, RatioKept, FuelledIsCounted, NotAhead, TxSize,
                      BlockSize
  <2>3. block_fuel' + block_metered_fuel' <= block_fuel + block_metered_fuel
    <3>1. /\ block_fuel \in Nat /\ block_metered_fuel \in Nat
          /\ block_metered_fuel' \in Nat /\ block_fuel' = block_fuel
          /\ block_metered_fuel' <= block_metered_fuel
      BY <1>1, <1>4 DEF TypeOK
    <3>2. block_fuel + block_metered_fuel' <= block_fuel + block_metered_fuel
      BY <3>1, SumFalls, Zenon
    <3> QED
      BY <3>1, <3>2, Zenon
  <2>4. IInv'
    BY <2>1, <2>2 DEF IInv
  <2> QED
    BY <1>4, <2>3, <2>4
<1>5. CASE NextTransaction
  <2>1. /\ index \in 1..N /\ index' = index + 1
        /\ UNCHANGED <<tank, running>>
    BY <1>1, <1>5, BlockAssumption DEF NextTransaction, TypeOK
  <2>2. TypeOK'
    BY <1>1, <2>1, BlockAssumption DEF TypeOK, tank
  <2>3. SizeCovers'
    <3>1. SizeFrom[index + 1] <= SizeFrom[index] /\ SizeFrom[index] \in Nat
          /\ SizeFrom[index + 1] \in Nat
          /\ TxSize(index) = SizeFrom[index] - SizeFrom[index + 1]
      BY <2>1, TxSizeType, BlockAssumption
    <3>2. /\ size' = size /\ txsize' = txsize /\ index' = index + 1
          /\ current_txindex' = current_txindex
      BY <2>1 DEF tank
    <3>3. CASE current_txindex = NoTx
      BY <1>1, <3>1, <3>2, <3>3 DEF SizeCovers, TypeOK
    <3>4. CASE current_txindex # NoTx /\ current_txindex = index
      BY <1>1, <3>1, <3>2, <3>4 DEF SizeCovers, FuelledIsCounted, TypeOK
    <3>5. CASE current_txindex # NoTx /\ current_txindex < index
      BY <1>1, <3>1, <3>2, <3>5 DEF SizeCovers, TypeOK
    <3> QED
      BY <1>1, <3>3, <3>4, <3>5 DEF NotAhead, TypeOK
  <2>4. FuelledIsCounted' /\ NotAhead' /\ RatioKept'
    BY <1>1, <2>1 DEF FuelledIsCounted, NotAhead, RatioKept, TypeOK, tank,
                      BlockSize
  <2> QED
    BY <1>1, <2>1, <2>2, <2>3, <2>4 DEF IInv, tank, TypeOK
<1>6. CASE UNCHANGED vars
  BY <1>1, <1>4, <1>6 DEF vars, tank, TypeOK
<1>7. CASE MessageFails
  BY <1>1, <1>3, <1>4, <1>7 DEF TypeOK
<1>8. CASE (\E n \in Costs : MessageReturns(n)) \/ GaslessReturns
  BY <1>1, <1>2, <1>4, <1>8
<1> QED
  BY <1>5, <1>6, <1>7, <1>8

LEMMA InitIInv == Init => IInv
<1> SUFFICES ASSUME Init PROVE IInv
  OBVIOUS
<1>1. BlockSize \in Nat /\ SizeFrom[1] = BlockSize
  BY BlockSizeType DEF BlockSize
<1>2. TypeOK
  BY <1>1, BlockAssumption DEF Init, TypeOK, NoTx
<1>3. SizeCovers /\ FuelledIsCounted /\ NotAhead
  BY <1>1 DEF Init, SizeCovers, FuelledIsCounted, NotAhead, NoTx
<1>4. RatioKept
  BY <1>1, BlockAssumption DEF Init, RatioKept
<1> QED
  BY <1>2, <1>3, <1>4 DEF IInv

LEMMA NextIInv == IInv /\ [Next]_vars => IInv'
BY EnterMessageKeeps, OtherStepsKeep DEF Next

LEMMA InvariantHolds == Spec => []IInv
<1> QED
  BY InitIInv, NextIInv, PTL DEF Spec

-----------------------------------------------------------------------------
(***************************************************************************)
(* FuelTank, every block and every cost: no counter of the tank falls      *)
(* below zero, as one that is taken from without a check would             *)
(* (consume_fuel, refuel_block), and the fuelled transaction is one of the *)
(* block.                                                                  *)
(***************************************************************************)
THEOREM TypeCorrect == Spec => []TypeOK
<1>1. IInv => TypeOK
  BY DEF IInv
<1> QED
  BY <1>1, InvariantHolds, PTL

(***************************************************************************)
(* FuelTank, every block: the subtraction of refuel_block does not wrap    *)
(* and the division of fuel_transaction is never by zero, whichever        *)
(* transactions run no message at all.                                     *)
(***************************************************************************)
THEOREM SizeAlwaysCovers == Spec => [](TypeOK /\ SizeCovers)
<1>1. IInv => TypeOK /\ SizeCovers
  BY DEF IInv
<1> QED
  BY <1>1, InvariantHolds, PTL

(***************************************************************************)
(* FuelTank, every block and every use of the fuel by earlier              *)
(* transactions: each transaction is metered at least its share.           *)
(***************************************************************************)
THEOREM ShareIsFair == Spec => FairShare
<1>1. ASSUME IInv, [Next]_vars
      PROVE  [current_txindex' # current_txindex =>
                block_metered_fuel' >=
                  (TotalFuel * TxSize(current_txindex')) \div BlockSize]_vars
  <2>1. CASE EnterMessage
    BY <1>1, <2>1, EnterMessageKeeps
  <2>2. CASE ~EnterMessage
    BY <1>1, <2>2, OtherStepsKeep DEF Next
  <2> QED
    BY <2>1, <2>2
<1> QED
  BY <1>1, InvariantHolds, PTL DEF Spec, FairShare

(***************************************************************************)
(* FuelTank: no message and no refund makes fuel.                          *)
(***************************************************************************)
THEOREM FuelOnlyFalls == Spec => NoFuelCreated
<1>1. ASSUME IInv, [Next]_vars
      PROVE  [block_fuel' + block_metered_fuel'
                <= block_fuel + block_metered_fuel]_vars
  <2>1. CASE EnterMessage
    BY <1>1, <2>1, EnterMessageKeeps
  <2>2. CASE ~EnterMessage
    BY <1>1, <2>2, OtherStepsKeep DEF Next
  <2> QED
    BY <2>1, <2>2
<1> QED
  BY <1>1, InvariantHolds, PTL DEF Spec, NoFuelCreated
=============================================================================
