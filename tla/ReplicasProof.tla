--------------------------- MODULE ReplicasProof ---------------------------
(***************************************************************************)
(* The theorems of Replicas: what two nodes agree on once they have        *)
(* connected the same blocks, whatever each made of bundles and answers.   *)
(*                                                                         *)
(* StateProof says of one node which parts of its state the blocks decide. *)
(* It is taken twice, for the variables of each node; `There' are its      *)
(* lemmas about the other one.  They speak of There!X where Replicas       *)
(* speaks of Other!X, so the first lemmas show that these are the same.    *)
(***************************************************************************)
EXTENDS Replicas, StateProof

There == INSTANCE StateProof
    WITH utxos <- utxos2, pending_withdrawal_bundle <- pending2,
         last_withdrawal_bundle_failure_height <- failure_height2,
         last_deposit_block <- deposit_block2, height <- height2,
         spent <- spent2, settled <- settled2, credited <- credited2, scanned <- scanned2

-----------------------------------------------------------------------------
(* One definition, read three times: here, by Replicas of the other node, and
   by the lemmas about the other node. *)

LEMMA SameData ==
    /\ \A log, s, e : /\ There!NewDeposits(log, s, e) = NewDeposits(log, s, e)
                      /\ Other!NewDeposits(log, s, e) = NewDeposits(log, s, e)
    /\ \A log, s, e : /\ There!DepositOutputs(log, s, e) = DepositOutputs(log, s, e)
                      /\ Other!DepositOutputs(log, s, e) = DepositOutputs(log, s, e)
    /\ \A log, s, e, i : /\ There!DepositValue(log, s, e, i) = DepositValue(log, s, e, i)
                         /\ Other!DepositValue(log, s, e, i) = DepositValue(log, s, e, i)
    /\ \A log, s, e, x : /\ There!IsDepositBlock(log, s, e, x) = IsDepositBlock(log, s, e, x)
                         /\ Other!IsDepositBlock(log, s, e, x) = IsDepositBlock(log, s, e, x)
    /\ \A o : There!OutputOf(o) = OutputOf(o) /\ Other!OutputOf(o) = OutputOf(o)
    /\ \A o : There!Value(o) = Value(o) /\ Other!Value(o) = Value(o)
    /\ \A o : There!IsWithdrawal(o) = IsWithdrawal(o) /\ Other!IsWithdrawal(o) = IsWithdrawal(o)
    /\ \A i : There!Deposit(i) = Deposit(i) /\ Other!Deposit(i) = Deposit(i)
    /\ \A t : There!Inputs(t) = Inputs(t) /\ Other!Inputs(t) = Inputs(t)
    /\ \A t : There!TxOutPoints(t) = TxOutPoints(t) /\ Other!TxOutPoints(t) = TxOutPoints(t)
    /\ \A b : /\ There!CoinbaseOutPoints(b) = CoinbaseOutPoints(b)
              /\ Other!CoinbaseOutPoints(b) = CoinbaseOutPoints(b)
    /\ \A f : There!Total(f) = Total(f) /\ Other!Total(f) = Total(f)
    /\ \A n : There!Fits(n) = Fits(n) /\ Other!Fits(n) = Fits(n)
    /\ \A n : There!Wrap(n) = Wrap(n) /\ Other!Wrap(n) = Wrap(n)
    /\ \A S : There!Positive(S) = Positive(S) /\ Other!Positive(S) = Positive(S)
<1>1. \A log, s, e : /\ There!NewDeposits(log, s, e) = NewDeposits(log, s, e)
                     /\ Other!NewDeposits(log, s, e) = NewDeposits(log, s, e)
  BY DEF There!NewDeposits, Other!NewDeposits, NewDeposits, There!ListDeposits, Other!ListDeposits,
         ListDeposits, There!LastTotal, Other!LastTotal, LastTotal
<1>2. \A log, s, e : /\ There!DepositOutputs(log, s, e) = DepositOutputs(log, s, e)
                     /\ Other!DepositOutputs(log, s, e) = DepositOutputs(log, s, e)
  BY <1>1 DEF There!DepositOutputs, Other!DepositOutputs, DepositOutputs,
         There!Parses, Other!Parses, Parses
<1>3. \A log, s, e, i : /\ There!DepositValue(log, s, e, i) = DepositValue(log, s, e, i)
                        /\ Other!DepositValue(log, s, e, i) = DepositValue(log, s, e, i)
  BY DEF There!DepositValue, Other!DepositValue, DepositValue, There!LastTotal, Other!LastTotal,
         LastTotal, There!ListDeposits, Other!ListDeposits, ListDeposits
<1>4. \A log, s, e, x : /\ There!IsDepositBlock(log, s, e, x) = IsDepositBlock(log, s, e, x)
                        /\ Other!IsDepositBlock(log, s, e, x) = IsDepositBlock(log, s, e, x)
  BY <1>1 DEF There!IsDepositBlock, Other!IsDepositBlock, IsDepositBlock
<1>5. \A o : There!OutputOf(o) = OutputOf(o) /\ Other!OutputOf(o) = OutputOf(o)
  BY DEF There!OutputOf, Other!OutputOf, OutputOf, There!DepositIncrement, Other!DepositIncrement,
         DepositIncrement, There!TotalBefore, Other!TotalBefore, TotalBefore
<1>6. \A o : There!Value(o) = Value(o) /\ Other!Value(o) = Value(o)
  BY <1>5 DEF There!Value, Other!Value, Value
<1>7. \A o : There!IsWithdrawal(o) = IsWithdrawal(o) /\ Other!IsWithdrawal(o) = IsWithdrawal(o)
  BY <1>5 DEF There!IsWithdrawal, Other!IsWithdrawal, IsWithdrawal
<1>8. \A i : There!Deposit(i) = Deposit(i) /\ Other!Deposit(i) = Deposit(i)
  BY DEF There!Deposit, Other!Deposit, Deposit
<1>9. \A t : There!Inputs(t) = Inputs(t) /\ Other!Inputs(t) = Inputs(t)
  BY DEF There!Inputs, Other!Inputs, Inputs
<1>10. \A t : There!TxOutPoints(t) = TxOutPoints(t) /\ Other!TxOutPoints(t) = TxOutPoints(t)
  BY DEF There!TxOutPoints, Other!TxOutPoints, TxOutPoints,
         There!Regular, Other!Regular, Regular
<1>11. \A b : /\ There!CoinbaseOutPoints(b) = CoinbaseOutPoints(b)
              /\ Other!CoinbaseOutPoints(b) = CoinbaseOutPoints(b)
  BY DEF There!CoinbaseOutPoints, Other!CoinbaseOutPoints, CoinbaseOutPoints,
         There!Coinbase, Other!Coinbase, Coinbase, There!MerkleRoot, Other!MerkleRoot, MerkleRoot
<1>12. \A f : There!Total(f) = Total(f) /\ Other!Total(f) = Total(f)
  BY DEF There!Total, Other!Total, Total, There!Units, Other!Units,
         Units, There!Cardinality, Other!Cardinality, Cardinality
<1>13. \A n : There!Fits(n) = Fits(n) /\ Other!Fits(n) = Fits(n)
  BY DEF There!Fits, Other!Fits, Fits
<1>14. \A n : There!Wrap(n) = Wrap(n) /\ Other!Wrap(n) = Wrap(n)
  BY DEF There!Wrap, Other!Wrap, Wrap
<1>15. \A S : There!Positive(S) = Positive(S) /\ Other!Positive(S) = Positive(S)
  BY <1>6 DEF There!Positive, Other!Positive, Positive
<1> QED
  BY <1>1, <1>2, <1>3, <1>4, <1>5, <1>6, <1>7, <1>8, <1>9, <1>10, <1>11, <1>12, <1>13, <1>14, <1>15

(* The checks of a body that do not look at the unspent outputs. *)
LEMMA SameChecks ==
    /\ \A b : /\ There!NoDoubleSpend(b) = NoDoubleSpend(b)
              /\ Other!NoDoubleSpend(b) = NoDoubleSpend(b)
    /\ \A t : /\ There!ValidTransaction(t) = ValidTransaction(t)
              /\ Other!ValidTransaction(t) = ValidTransaction(t)
    /\ \A b : There!ValidFees(b) = ValidFees(b) /\ Other!ValidFees(b) = ValidFees(b)
    /\ \A b : There!Authorized(b) = Authorized(b) /\ Other!Authorized(b) = Authorized(b)
<1>1. \A t : There!ValueIn(t) = ValueIn(t) /\ Other!ValueIn(t) = ValueIn(t)
  BY SameData DEF There!ValueIn, Other!ValueIn, ValueIn
<1>2. \A t : There!ValueOut(t) = ValueOut(t) /\ Other!ValueOut(t) = ValueOut(t)
  BY SameData DEF There!ValueOut, Other!ValueOut, ValueOut
<1>3. \A t : There!Fee(t) = Fee(t) /\ Other!Fee(t) = Fee(t)
  BY <1>1, <1>2, SameData DEF There!Fee, Other!Fee, Fee
<1>4. \A b : /\ There!CoinbaseValue(b) = CoinbaseValue(b)
             /\ Other!CoinbaseValue(b) = CoinbaseValue(b)
  BY SameData DEF There!CoinbaseValue, Other!CoinbaseValue, CoinbaseValue
<1>5. \A b : There!TotalFees(b) = TotalFees(b) /\ Other!TotalFees(b) = TotalFees(b)
  BY <1>3, SameData DEF There!TotalFees, Other!TotalFees, TotalFees
<1>6. \A b : There!SpentInputs(b) = SpentInputs(b) /\ Other!SpentInputs(b) = SpentInputs(b)
  BY DEF There!SpentInputs, Other!SpentInputs, SpentInputs,
         There!FlattenSeq, Other!FlattenSeq, FlattenSeq
<1>7. \A b : /\ There!NoDoubleSpend(b) = NoDoubleSpend(b)
             /\ Other!NoDoubleSpend(b) = NoDoubleSpend(b)
  BY DEF There!NoDoubleSpend, Other!NoDoubleSpend, NoDoubleSpend
<1>8. \A t : /\ There!ValidTransaction(t) = ValidTransaction(t)
             /\ Other!ValidTransaction(t) = ValidTransaction(t)
  BY <1>1, <1>2, SameData DEF There!ValidTransaction, Other!ValidTransaction, ValidTransaction
<1>9. \A b : There!ValidFees(b) = ValidFees(b) /\ Other!ValidFees(b) = ValidFees(b)
  BY <1>4, <1>5, SameData DEF There!ValidFees, Other!ValidFees, ValidFees
<1>10. \A b : There!Authorized(b) = Authorized(b) /\ Other!Authorized(b) = Authorized(b)
  BY <1>6, SameData DEF There!Authorized, Other!Authorized, Authorized
<1> QED
  BY <1>7, <1>8, <1>9, <1>10

(* The bundles that may be collected. *)
LEMMA SameBundles ==
    /\ \A u : There!Withdrawals(u) = Other!Withdrawals(u)
    /\ \A b : There!Txid(b) = Other!Txid(b)
    /\ \A u, h : There!Bundles(u, h) = Other!Bundles(u, h)
    /\ \A u, h : There!Candidates(u, h) = Other!Candidates(u, h)
    /\ \A c : There!Accepted(c) = Other!Accepted(c)
<1>1. \A u : There!Withdrawals(u) = Other!Withdrawals(u)
  BY SameData DEF There!Withdrawals, Other!Withdrawals
<1>2. \A o : There!MainAddress(o) = Other!MainAddress(o)
  BY SameData DEF There!MainAddress, Other!MainAddress
<1>3. \A u : There!Destinations(u) = Other!Destinations(u)
  BY <1>2, <1>1 DEF There!Destinations, Other!Destinations
<1>4. \A u, a : There!CoinsTo(u, a) = Other!CoinsTo(u, a)
  BY <1>2, <1>1 DEF There!CoinsTo, Other!CoinsTo
<1>5. \A c : There!ValueOf(c) = Other!ValueOf(c)
  BY SameData DEF There!ValueOf, Other!ValueOf
<1>6. \A u, a : There!Aggregated(u, a) = Other!Aggregated(u, a)
  BY <1>4, <1>5, SameData DEF There!Aggregated, Other!Aggregated
<1>7. \A S : There!SetToSeqs(S) = Other!SetToSeqs(S)
  BY DEF There!SetToSeqs, Other!SetToSeqs, There!Cardinality, Other!Cardinality
<1>8. \A a : There!SortOutcomes(a) = Other!SortOutcomes(a)
  BY <1>7 DEF There!SortOutcomes, Other!SortOutcomes, There!Greater, Other!Greater
<1>9. \A s : There!Taken(s) = Other!Taken(s)
  BY DEF There!Taken, Other!Taken, There!MaxBundleOutputs, Other!MaxBundleOutputs
<1>10. \A t, k, h : There!Bundle(t, k, h) = Other!Bundle(t, k, h)
  BY SameData DEF There!Bundle, Other!Bundle
<1>11. \A b : There!Txid(b) = Other!Txid(b)
  BY DEF There!Txid, Other!Txid
<1>12. \A b : There!Weight(b) = Other!Weight(b)
  BY SameData DEF There!Weight, Other!Weight, There!BundleOutputs, Other!BundleOutputs
<1>13. \A c : There!Orders(c) = Other!Orders(c)
  BY DEF There!Orders, Other!Orders, There!Cardinality, Other!Cardinality
<1>14. \A t, u : There!BundleFits(t, u) = Other!BundleFits(t, u)
  BY <1>3, <1>5, <1>4, SameData DEF There!BundleFits, Other!BundleFits
<1>15. \A u, h : There!Candidates(u, h) = Other!Candidates(u, h)
  <2> SUFFICES ASSUME NEW u, NEW h PROVE There!Candidates(u, h) = Other!Candidates(u, h)
    OBVIOUS
  <2> DEFINE there(s) ==
               {[bundle |-> There!Bundle(There!Taken(s), k, h),
                 fits   |-> There!BundleFits(There!Taken(s), u)] :
                   k \in There!Orders(UNION {There!Taken(s)[i].spent_utxos : i \in DOMAIN There!Taken(s)})}
             other(s) ==
               {[bundle |-> Other!Bundle(Other!Taken(s), k, h),
                 fits   |-> Other!BundleFits(Other!Taken(s), u)] :
                   k \in Other!Orders(UNION {Other!Taken(s)[i].spent_utxos : i \in DOMAIN Other!Taken(s)})}
             sorted == Other!SortOutcomes({Other!Aggregated(u, a) : a \in Other!Destinations(u)})
  <2>1. There!SortOutcomes({There!Aggregated(u, a) : a \in There!Destinations(u)}) = sorted
    BY <1>3, <1>6, <1>8
  <2>2. \A s : there(s) = other(s)
    <3> TAKE s
    <3>1. There!Taken(s) = Other!Taken(s)
      BY <1>9
    <3>2. \A k : There!Bundle(Other!Taken(s), k, h) = Other!Bundle(Other!Taken(s), k, h)
      BY <1>10
    <3>3. \A coins : There!Orders(coins) = Other!Orders(coins)
      BY <1>13
    <3>4. There!BundleFits(Other!Taken(s), u) = Other!BundleFits(Other!Taken(s), u)
      BY <1>14
    <3> QED
      BY <3>1, <3>2, <3>3, <3>4
  <2>3. /\ There!Candidates(u, h) =
              UNION {there(s) :
                  s \in There!SortOutcomes({There!Aggregated(u, a) : a \in There!Destinations(u)})}
        /\ Other!Candidates(u, h) = UNION {other(s) : s \in sorted}
    BY DEF There!Candidates, Other!Candidates
  <2> HIDE DEF there, other, sorted
  <2>4. {there(s) : s \in sorted} = {other(s) : s \in sorted}
    BY <2>2
  <2> QED
    BY <2>1, <2>3, <2>4
<1>16. \A c : There!Accepted(c) = Other!Accepted(c)
  BY <1>12 DEF There!Accepted, Other!Accepted
<1>17. \A u, h : There!Bundles(u, h) = Other!Bundles(u, h)
  BY <1>15, <1>16 DEF There!Bundles, Other!Bundles
<1> QED
  BY <1>1, <1>11, <1>15, <1>16, <1>17

(* The other node's step is the one that the lemmas are about. *)
LEMMA SameSteps ==
    /\ \A b : There!ValidBody(b) = Other!ValidBody(b)
    /\ \A b, s, e : There!ConnectBlock(b, s, e) = Other!ConnectBlock(b, s, e)
    /\ There!Init = Other!Init
    /\ There!Bundled = Other!Bundled
    /\ There!Paid = Other!Paid
    /\ \A b, s, e : There!BeforeCollection(b, s, e) = Other!BeforeCollection(b, s, e)
    /\ \A u : There!CollectionMayFail(u) = Other!CollectionMayFail(u)
    /\ \A u : There!CollectionOverLimits(u) = Other!CollectionOverLimits(u)
<1>1. \A b : There!InputsExist(b) = Other!InputsExist(b)
  BY SameData DEF There!InputsExist, Other!InputsExist
<1>2. \A b : There!ValidBody(b) = Other!ValidBody(b)
  BY <1>1, SameChecks DEF There!ValidBody, Other!ValidBody
<1>3. \A b : There!AfterBody(b) = Other!AfterBody(b)
  BY SameData DEF There!AfterBody, Other!AfterBody
<1>4. \A s, e : There!CreditDeposits(s, e) = Other!CreditDeposits(s, e)
  BY SameData DEF There!CreditDeposits, Other!CreditDeposits
<1>5. \A u : There!AfterCollection(u) = Other!AfterCollection(u)
  BY SameBundles DEF There!AfterCollection, Other!AfterCollection, There!Due, Other!Due
<1>6. \A b : There!Answers(b) = Other!Answers(b)
  BY SameBundles DEF There!Answers, Other!Answers
<1>7. \A c : There!NoAnswer(c) = Other!NoAnswer(c)
  BY SameBundles DEF There!NoAnswer, Other!NoAnswer, There!Unanswered, Other!Unanswered
<1>8. \A c : There!Failed(c) = Other!Failed(c)
  BY <1>6 DEF There!Failed, Other!Failed
<1>9. \A c : There!Confirmed(c) = Other!Confirmed(c)
  BY <1>6 DEF There!Confirmed, Other!Confirmed
<1>10. \A b, s, e : There!BeforeCollection(b, s, e) = Other!BeforeCollection(b, s, e)
  BY <1>3, SameData DEF There!BeforeCollection, Other!BeforeCollection
<1>11. \A b, s, e : There!ConnectBlock(b, s, e) = Other!ConnectBlock(b, s, e)
  BY <1>2, <1>4, <1>5, <1>10, <1>7, <1>8, <1>9, SameData DEF There!ConnectBlock, Other!ConnectBlock
<1>12. There!Init = Other!Init
  BY DEF There!Init, Other!Init
<1>13. There!Bundled = Other!Bundled
  BY DEF There!Bundled, Other!Bundled
<1>14. There!Paid = Other!Paid
  BY DEF There!Paid, Other!Paid
<1>15. \A u : There!CollectionMayFail(u) = Other!CollectionMayFail(u)
  BY SameBundles DEF There!CollectionMayFail, Other!CollectionMayFail, There!Due, Other!Due
<1>16. \A c : There!OverLimits(c) = Other!OverLimits(c)
  BY DEF There!OverLimits, Other!OverLimits, There!BundleOutputs, Other!BundleOutputs,
         There!MaxBundleOutputs, Other!MaxBundleOutputs
<1>17. \A u : There!CollectionOverLimits(u) = Other!CollectionOverLimits(u)
  BY <1>16, SameBundles DEF There!CollectionOverLimits, Other!CollectionOverLimits,
         There!Due, Other!Due
<1> QED
  BY <1>2, <1>10, <1>11, <1>12, <1>13, <1>14, <1>15, <1>17

(* What the blocks decide is decided alike for both. *)
LEMMA SameFate ==
    /\ \A b : There!Connected(b) = Connected(b)
    /\ \A coins : There!Payments(coins) = Payments(coins)
    /\ \A d, b, e : There!DecidedAfter(d, b, e) = DecidedAfter(d, b, e)
    /\ \A b : There!WellFormed(b) = WellFormed(b)
<1>1. \A b : There!Connected(b) = Connected(b)
  BY SameData DEF There!Connected, Connected
<1>2. \A coins : There!Payments(coins) = Payments(coins)
  BY SameData DEF There!Payments, Payments
<1>3. \A b : There!Unspent(b) = Unspent(b)
  BY SameData DEF There!Unspent, Unspent
<1>4. \A b, s, e : There!Gained(b, s, e) = Gained(b, s, e)
  BY <1>3, SameData DEF There!Gained, Gained
<1>5. \A d, e : There!CreditedAfter(d, e) = CreditedAfter(d, e)
  BY SameData DEF There!CreditedAfter, CreditedAfter
<1>6. \A d, e : There!BlockAfter(d, e) = BlockAfter(d, e)
  BY DEF There!BlockAfter, BlockAfter, There!NewDeposits, NewDeposits, There!IsDepositBlock,
         IsDepositBlock, There!ListDeposits, ListDeposits, There!LastTotal, LastTotal
<1>7. \A c, d, b, e : There!CoinsFrom(c, d, b, e) = CoinsFrom(c, d, b, e)
  BY <1>1, <1>4 DEF There!CoinsFrom, CoinsFrom
<1>8. \A d, b, e : There!DecidedAfter(d, b, e) = DecidedAfter(d, b, e)
  BY <1>5, <1>6, <1>7, <1>1, <1>2, SameData DEF There!DecidedAfter, DecidedAfter
<1>9. \A b : There!WellFormed(b) = WellFormed(b)
  BY SameData, SameChecks DEF There!WellFormed, WellFormed
<1> QED
  BY <1>1, <1>2, <1>8, <1>9

-----------------------------------------------------------------------------
(* Each node is a chain of its own. *)

Block == [body : Body, end : 1 .. MaxMainHeight]

ShapeInv ==
    /\ chain \in Seq(Block)
    /\ height \in 0 .. Len(chain) /\ height2 \in 0 .. Len(chain)

(* A block connected is of the chain, or becomes its last. *)
LEMMA ChainGrows ==
    ASSUME chain \in Seq(Block), NEW h \in 0 .. Len(chain),
           NEW block \in NextBlocks(h), Grow(h, block)
    PROVE  /\ block \in Block /\ chain' \in Seq(Block)
           /\ Len(chain') = (IF h < Len(chain) THEN Len(chain) ELSE Len(chain) + 1)
           /\ \A k \in 1 .. Len(chain) : chain'[k] = chain[k]
           /\ chain'[h + 1] = block
<1>1. CASE h < Len(chain)
  BY <1>1 DEF NextBlocks, Grow
<1>2. CASE ~(h < Len(chain))
  <2>1. block \in Block /\ chain' = Append(chain, block) /\ h = Len(chain)
    BY <1>2 DEF NextBlocks, Grow, Block
  <2> HIDE DEF Block
  <2> QED
    BY <1>2, <2>1
<1> QED
  BY <1>1, <1>2

(* Each node moves its own height. *)
LEMMA HeightsMove ==
    /\ ConnectHere => height' = height + 1 /\ UNCHANGED otherVars
    /\ ConnectThere => height2' = height2 + 1 /\ UNCHANGED vars
  BY DEF ConnectHere, ConnectThere, ConnectBlock, Other!ConnectBlock

(* The chain is made of blocks, and no node is beyond it. *)
LEMMA ShapeInvariant == ReplicasSpec => []ShapeInv
<1>1. ReplicasInit => ShapeInv
  BY DEF ReplicasInit, Init, Other!Init, ShapeInv
<1>2. ShapeInv /\ [ReplicasNext]_replicaVars => ShapeInv'
  <2> SUFFICES ASSUME ShapeInv, [ReplicasNext]_replicaVars PROVE ShapeInv'
    OBVIOUS
  <2>1. CASE ConnectHere
    <3>1. PICK block \in NextBlocks(height) : Grow(height, block)
      BY <2>1 DEF ConnectHere
    <3>2. /\ chain' \in Seq(Block)
          /\ Len(chain') = (IF height < Len(chain) THEN Len(chain) ELSE Len(chain) + 1)
      BY <3>1, ChainGrows DEF ShapeInv
    <3>3. height' = height + 1 /\ height2' = height2
      BY <2>1, HeightsMove DEF otherVars
    <3> QED
      BY <3>2, <3>3 DEF ShapeInv
  <2>2. CASE ConnectThere
    <3>1. PICK block \in NextBlocks(height2) : Grow(height2, block)
      BY <2>2 DEF ConnectThere
    <3>2. /\ chain' \in Seq(Block)
          /\ Len(chain') = (IF height2 < Len(chain) THEN Len(chain) ELSE Len(chain) + 1)
      BY <3>1, ChainGrows DEF ShapeInv
    <3>3. height2' = height2 + 1 /\ height' = height
      BY <2>2, HeightsMove DEF vars
    <3> QED
      BY <3>2, <3>3 DEF ShapeInv
  <2>3. CASE MainchainAnswers \/ UNCHANGED replicaVars
    BY <2>3 DEF MainchainAnswers, replicaVars, vars, otherVars, ShapeInv
  <2> QED
    BY <2>1, <2>2, <2>3 DEF ReplicasNext
<1> QED
  BY <1>1, <1>2, PTL DEF ReplicasSpec

(* Each node by itself is a chain of State, whatever the other one does. *)
LEMMA HereIsAChain == ReplicasSpec => Spec
<1>1. ReplicasInit => Init
  BY DEF ReplicasInit
<1>2. ShapeInv /\ [ReplicasNext]_replicaVars => [Next]_vars
  <2> SUFFICES ASSUME ShapeInv, [ReplicasNext]_replicaVars PROVE [Next]_vars
    OBVIOUS
  <2>1. CASE ConnectHere
    <3>1. PICK block \in NextBlocks(height) :
             Grow(height, block) /\ ConnectBlock(block.body, last_deposit_block, block.end)
      BY <2>1 DEF ConnectHere
    <3>2. block \in Block
      BY <3>1, ChainGrows DEF ShapeInv
    <3> QED
      BY <3>1, <3>2 DEF Next, Block
  <2>2. CASE ConnectThere \/ MainchainAnswers \/ UNCHANGED replicaVars
    BY <2>2 DEF ConnectThere, MainchainAnswers, replicaVars
  <2> QED
    BY <2>1, <2>2 DEF ReplicasNext
<1> QED
  BY <1>1, <1>2, ShapeInvariant, PTL DEF ReplicasSpec, Spec

(* And so is the other one. *)
LEMMA OtherIsAChain == ReplicasSpec => Other!Spec
<1>1. ReplicasInit => Other!Init
  BY DEF ReplicasInit
<1>2. ShapeInv /\ [ReplicasNext]_replicaVars => [Other!Next]_(Other!vars)
  <2> SUFFICES ASSUME ShapeInv, [ReplicasNext]_replicaVars PROVE Other!Next \/ UNCHANGED Other!vars
    OBVIOUS
  <2>1. CASE ConnectThere
    <3>1. PICK block \in NextBlocks(height2) :
             Grow(height2, block) /\ Other!ConnectBlock(block.body, deposit_block2, block.end)
      BY <2>1 DEF ConnectThere
    <3>2. block \in Block
      BY <3>1, ChainGrows DEF ShapeInv
    <3> QED
      BY <3>1, <3>2 DEF Other!Next, Block
  <2>2. CASE ConnectHere \/ MainchainAnswers \/ UNCHANGED replicaVars
    BY <2>2 DEF ConnectHere, MainchainAnswers, replicaVars, otherVars, Other!vars
  <2> QED
    BY <2>1, <2>2 DEF ReplicasNext
<1> QED
  BY <1>1, <1>2, ShapeInvariant, PTL DEF ReplicasSpec, Other!Spec

(* However the nodes, their broadcasts and the mainchain's answers interleave,
   each node takes the steps of State and no others: everything proved of one
   chain holds of both. *)
THEOREM EachNodeIsAChain == ReplicasSpec => Spec /\ Other!Spec
  BY HereIsAChain, OtherIsAChain, PTL

(* The other node's chain, as the lemmas about it read it. *)
LEMMA ThereIsAChain == Other!Spec => There!Spec
<1>1. Other!Init => There!Init
  BY SameSteps
<1>2. [Other!Next]_(Other!vars) => [There!Next]_(There!vars)
  BY SameSteps DEF Other!Next, There!Next, Other!vars, There!vars
<1> QED
  BY <1>1, <1>2, PTL DEF Other!Spec, There!Spec

(* What is assumed of the constants holds as the other node reads it. *)
LEMMA ThereAssumptions ==
    /\ Address \subseteq Strdest
    /\ There!IsDepositLog(DepositLog)
    /\ U64 \in Nat \ {0} /\ OverflowChecks \in BOOLEAN
    /\ \A t \in Tx : There!IsList(TxInputs[t]) /\ There!IsOutputs(TxOutputs[t])
    /\ \A b \in Body : b.transactions \in Seq(Tx) /\ There!IsOutputs(b.coinbase)
    /\ MaxTxWeight \in Nat /\ Bundle0Weight \in Nat /\ OutputWeight \in Nat \ {0}
    /\ Bundle0Weight <= MaxTxWeight
    /\ \A a \in DOMAIN ScriptWeight : ScriptWeight[a] \in Nat
    /\ KeyOrders \in Nat \ {0}
    /\ FailureGap \in Nat /\ MaxMainHeight \in Nat /\ MaxHeight \in Nat
<1>1. There!IsDepositLog(DepositLog)
  BY DepositLogAssumption DEF There!IsDepositLog, IsDepositLog
<1>2. \A s : (There!IsList(s) <=> IsList(s)) /\ (There!IsOutputs(s) <=> IsOutputs(s))
  BY DEF There!IsList, There!IsOutputs, IsList, IsOutputs
<1>3. /\ \A t \in Tx : There!IsList(TxInputs[t]) /\ There!IsOutputs(TxOutputs[t])
      /\ \A b \in Body : b.transactions \in Seq(Tx) /\ There!IsOutputs(b.coinbase)
  BY <1>2, TxAssumption, BodyAssumption
<1> QED
  BY <1>1, <1>3, AddressAssumption, ArithmeticAssumption, WeightAssumption, KeyOrdersAssumption,
     HeightAssumption

(* So what is known of a chain is known of both nodes. *)
LEMMA BothAreChains == ReplicasSpec => [](ChainInv /\ There!ChainInv)
<1>1. There!Spec => []There!ChainInv
  BY ThereAssumptions, There!ChainInvariant
<1> QED
  BY <1>1, EachNodeIsAChain, ThereIsAChain, ChainInvariant, PTL
-----------------------------------------------------------------------------
(* What the blocks decide is the same for both: there is one course of it
   along the chain, and each node is where its height says. *)

Start ==
    [credited |-> [i \in DOMAIN DepositLog |-> 0], deposit_block |-> 0, spent |-> {},
     payments |-> {}, existing |-> {}]

IsCourse(H, blocks) ==
    /\ H[0] = Start
    /\ \A k \in 1 .. Len(blocks) :
          /\ WellFormed(blocks[k].body)
          /\ Payments(Connected(blocks[k].body)) \subseteq H[k - 1].payments
          /\ H[k] = DecidedAfter(H[k - 1], blocks[k].body, blocks[k].end)

CourseInv ==
    \E H : IsCourse(H, chain) /\ Decided = H[height] /\ There!Decided = H[height2]

(* A block that a node accepts where it is continues the course there, be it a
   new one or one that the other node has connected before. *)
LEMMA CourseGrows ==
    ASSUME chain \in Seq(Block), NEW h \in 0 .. Len(chain), NEW H, IsCourse(H, chain),
           NEW block \in NextBlocks(h), Grow(h, block),
           WellFormed(block.body), Payments(Connected(block.body)) \subseteq H[h].payments
    PROVE  \E G : /\ IsCourse(G, chain')
                  /\ \A k \in 0 .. Len(chain) : G[k] = H[k]
                  /\ G[h + 1] = DecidedAfter(H[h], block.body, block.end)
<1> DEFINE n    == Len(chain)
           next == DecidedAfter(H[h], block.body, block.end)
<1>1. /\ n \in Nat /\ Len(chain') = (IF h < n THEN n ELSE n + 1)
      /\ \A k \in 1 .. n : chain'[k] = chain[k]
      /\ chain'[h + 1] = block
  <2>1. n \in Nat
    OBVIOUS
  <2>2. /\ Len(chain') = (IF h < Len(chain) THEN Len(chain) ELSE Len(chain) + 1)
        /\ \A k \in 1 .. Len(chain) : chain'[k] = chain[k]
        /\ chain'[h + 1] = block
    BY ChainGrows
  <2> QED
    BY <2>1, <2>2
<1>2. CASE h < n
  <2>1. h + 1 \in 1 .. n /\ chain[h + 1] = block /\ Len(chain') = n /\ (h + 1) - 1 = h
    BY <1>1, <1>2
  <2>2. IsCourse(H, chain')
    BY <1>1, <2>1 DEF IsCourse
  <2>3. H[h + 1] = next
    BY <2>1 DEF IsCourse
  <2> QED
    BY <2>2, <2>3
<1>3. CASE ~(h < n)
  <2> DEFINE G == [k \in 0 .. n + 1 |-> IF k <= n THEN H[k] ELSE next]
  <2>1. h = n /\ Len(chain') = n + 1
    BY <1>1, <1>3
  <2>2. (\A k \in 0 .. n : G[k] = H[k]) /\ G[n + 1] = next
    BY <1>1
  <2> HIDE DEF G, next
  <2>3. ASSUME NEW k \in 1 .. n + 1
        PROVE  /\ WellFormed(chain'[k].body)
               /\ Payments(Connected(chain'[k].body)) \subseteq G[k - 1].payments
               /\ G[k] = DecidedAfter(G[k - 1], chain'[k].body, chain'[k].end)
    <3>1. CASE k \in 1 .. n
      <4>1. k - 1 \in 0 .. n /\ k \in 0 .. n
        BY <1>1, <3>1
      <4> QED
        BY <1>1, <2>2, <3>1, <4>1 DEF IsCourse
    <3>2. CASE k = n + 1
      <4>1. k - 1 = n /\ n \in 0 .. n
        BY <1>1, <3>2
      <4> QED
        BY <1>1, <2>1, <2>2, <3>2, <4>1 DEF next
    <3> QED
      BY <1>1, <3>1, <3>2
  <2>4. IsCourse(G, chain')
    BY <1>1, <2>1, <2>2, <2>3 DEF IsCourse
  <2> QED
    BY <2>1, <2>2, <2>4 DEF next
<1> QED
  BY <1>2, <1>3

(* Both nodes stay on one course. *)
LEMMA CourseInvariant == ReplicasSpec => []CourseInv
<1>1. ReplicasInit => CourseInv
  <2> SUFFICES ASSUME ReplicasInit PROVE CourseInv
    OBVIOUS
  <2>1. Decided = Start
    BY DEF ReplicasInit, Init, Decided, Start, Payments, Positive, Bundled, Paid
  <2>2. There!Decided = Start
    BY SameSteps DEF ReplicasInit, There!Init, There!Decided, Start, There!Payments,
         There!Positive, There!Bundled, There!Paid
  <2>3. IsCourse([k \in {0} |-> Start], chain)
    BY DEF ReplicasInit, IsCourse
  <2>4. height = 0 /\ height2 = 0
    BY DEF ReplicasInit, Init, Other!Init
  <2> QED
    BY <2>1, <2>2, <2>3, <2>4 DEF CourseInv
<1>2. ShapeInv /\ ChainInv /\ There!ChainInv /\ CourseInv /\ [ReplicasNext]_replicaVars => CourseInv'
  <2> SUFFICES ASSUME ShapeInv, ChainInv, There!ChainInv, CourseInv, [ReplicasNext]_replicaVars
               PROVE  CourseInv'
    OBVIOUS
  <2>1. PICK H : IsCourse(H, chain) /\ Decided = H[height] /\ There!Decided = H[height2]
    BY DEF CourseInv
  <2>2. UNCHANGED vars => Decided' = Decided
    BY DEF vars, Decided, Payments, Positive, Bundled, Paid
  <2>3. UNCHANGED otherVars => There!Decided' = There!Decided
    BY DEF otherVars, There!Decided, There!Payments, There!Positive, There!Bundled, There!Paid
  <2>4. CASE ConnectHere
    <3>1. PICK block \in NextBlocks(height) :
             Grow(height, block) /\ ConnectBlock(block.body, last_deposit_block, block.end)
      BY <2>4 DEF ConnectHere
    <3>2. /\ WellFormed(block.body)
          /\ Payments(Connected(block.body)) \subseteq H[height].payments
          /\ Decided' = DecidedAfter(H[height], block.body, block.end)
      BY <2>1, <3>1, ConnectIsDecided
    <3>3. PICK G : /\ IsCourse(G, chain')
                   /\ \A k \in 0 .. Len(chain) : G[k] = H[k]
                   /\ G[height + 1] = DecidedAfter(H[height], block.body, block.end)
      BY <2>1, <3>1, <3>2, CourseGrows DEF ShapeInv
    <3>4. height' = height + 1 /\ height2' = height2 /\ There!Decided' = There!Decided
      BY <2>3, <2>4, HeightsMove DEF otherVars
    <3>5. There!Decided' = G[height2'] /\ Decided' = G[height']
      BY <2>1, <3>2, <3>3, <3>4 DEF ShapeInv
    <3> QED
      BY <3>3, <3>5 DEF CourseInv
  <2>5. CASE ConnectThere
    <3>1. PICK block \in NextBlocks(height2) :
             Grow(height2, block) /\ Other!ConnectBlock(block.body, deposit_block2, block.end)
      BY <2>5 DEF ConnectThere
    <3>2. There!ConnectBlock(block.body, deposit_block2, block.end)
      BY <3>1, SameSteps
    <3>3. /\ There!WellFormed(block.body)
          /\ There!Payments(There!Connected(block.body)) \subseteq There!Decided.payments
          /\ There!Decided' = There!DecidedAfter(There!Decided, block.body, block.end)
      BY <3>2, ThereAssumptions, There!ConnectIsDecided
    <3>4. /\ WellFormed(block.body)
          /\ Payments(Connected(block.body)) \subseteq H[height2].payments
          /\ There!Decided' = DecidedAfter(H[height2], block.body, block.end)
      BY <2>1, <3>3, SameFate
    <3>5. PICK G : /\ IsCourse(G, chain')
                   /\ \A k \in 0 .. Len(chain) : G[k] = H[k]
                   /\ G[height2 + 1] = DecidedAfter(H[height2], block.body, block.end)
      BY <2>1, <3>1, <3>4, CourseGrows DEF ShapeInv
    <3>6. height2' = height2 + 1 /\ height' = height /\ Decided' = Decided
      BY <2>2, <2>5, HeightsMove DEF vars
    <3>7. There!Decided' = G[height2'] /\ Decided' = G[height']
      BY <2>1, <3>4, <3>5, <3>6 DEF ShapeInv
    <3> QED
      BY <3>5, <3>7 DEF CourseInv
  <2>6. CASE MainchainAnswers \/ UNCHANGED replicaVars
    <3>1. UNCHANGED <<vars, otherVars, chain>>
      BY <2>6 DEF MainchainAnswers, replicaVars
    <3>2. Decided' = Decided /\ There!Decided' = There!Decided
      BY <2>2, <2>3, <3>1
    <3>3. height' = height /\ height2' = height2 /\ chain' = chain
      BY <3>1 DEF vars, otherVars
    <3> QED
      BY <2>1, <3>2, <3>3 DEF CourseInv
  <2> QED
    BY <2>4, <2>5, <2>6 DEF ReplicasNext
<1> QED
  BY <1>1, <1>2, ShapeInvariant, BothAreChains, PTL DEF ReplicasSpec

(* In a build with overflow checks two nodes that have connected the same blocks
   have credited the same deposits and spent the same outputs; the coins that
   carry value and exist are the same for both, and only withdrawals among them
   can be unspent for one and not for the other.  (Without the checks a coin
   can be made again while a bundle holds it, and spending one of the two leaves
   the other to the nodes whose bundle has it.) *)
THEOREM NodesHaveSameCoins ==
    ASSUME OverflowChecks
    PROVE  ReplicasSpec => []SameCoins
<1>1. CourseInv => SameCoins
  <2> SUFFICES ASSUME CourseInv, height = height2
               PROVE  /\ credited = credited2 /\ last_deposit_block = deposit_block2
                      /\ spent = spent2
                      /\ Positive(utxos \cup Bundled \cup Paid)
                            = Positive(utxos2 \cup Other!Bundled \cup Other!Paid)
                      /\ \A o \in Positive((utxos \ utxos2) \cup (utxos2 \ utxos)) : IsWithdrawal(o)
    BY DEF SameCoins
  <2>1. Decided = There!Decided
    BY DEF CourseInv
  <2>2. There!Decided =
          [credited |-> credited2, deposit_block |-> deposit_block2, spent |-> spent2,
           payments |-> Payments(utxos2),
           existing |-> Positive(utxos2 \cup Other!Bundled \cup Other!Paid)]
    BY SameSteps, SameFate, SameData DEF There!Decided
  <2>3. Decided =
          [credited |-> credited, deposit_block |-> last_deposit_block, spent |-> spent,
           payments |-> Payments(utxos), existing |-> Positive(utxos \cup Bundled \cup Paid)]
    BY DEF Decided
  <2>4. Payments(utxos) = Payments(utxos2)
    BY <2>1, <2>2, <2>3
  <2>5. \A o \in Positive((utxos \ utxos2) \cup (utxos2 \ utxos)) : IsWithdrawal(o)
    BY <2>4 DEF Payments, Positive
  <2> QED
    BY <2>1, <2>2, <2>3, <2>5
<1> QED
  BY <1>1, CourseInvariant, PTL

(* A node that is behind refuses a block connected elsewhere only if the block
   spends a withdrawal, validate_body saying the same of payments everywhere, or
   if a bundle is due there whose outputs are too many or too heavy for what
   MAX_BUNDLE_OUTPUTS is computed from, or do not add up in 64 bits. *)
THEOREM PaymentsNeverPart == ReplicasSpec => []RefusedForWithdrawals
<1>1. ShapeInv /\ CourseInv => RefusedForWithdrawals
  <2> SUFFICES ASSUME ShapeInv, CourseInv
               PROVE  RefusedForWithdrawals
    OBVIOUS
  <2>1. PICK H : IsCourse(H, chain) /\ Decided = H[height] /\ There!Decided = H[height2]
    BY DEF CourseInv
  <2>2. ASSUME NEW h \in 0 .. Len(chain), h < Len(chain)
        PROVE  /\ WellFormed(chain[h + 1].body)
               /\ Payments(Connected(chain[h + 1].body)) \subseteq H[h].payments
    <3>1. h + 1 \in 1 .. Len(chain) /\ (h + 1) - 1 = h
      BY <2>2 DEF ShapeInv
    <3> QED
      BY <2>1, <3>1 DEF IsCourse
  <2>3. \A b : ~SpendsWithdrawal(b) => \A o \in Connected(b) : ~IsWithdrawal(o)
    BY DEF SpendsWithdrawal, Connected
  <2>4. ASSUME height < Len(chain), ~SpendsWithdrawal(chain[height + 1].body)
        PROVE  ValidBody(chain[height + 1].body)
    BY <2>1, <2>2, <2>3, <2>4, DecidedSuffices DEF ShapeInv
  <2>5. ASSUME height2 < Len(chain), ~SpendsWithdrawal(chain[height2 + 1].body)
        PROVE  Other!ValidBody(chain[height2 + 1].body)
    <3> DEFINE b == chain[height2 + 1].body
    <3>1. /\ WellFormed(b) /\ Payments(Connected(b)) \subseteq There!Decided.payments
          /\ \A o \in Connected(b) : ~IsWithdrawal(o)
      BY <2>1, <2>2, <2>3, <2>5 DEF ShapeInv
    <3> HIDE DEF b
    <3>2. /\ There!WellFormed(b)
          /\ There!Payments(There!Connected(b)) \subseteq There!Decided.payments
          /\ \A o \in There!Connected(b) : ~There!IsWithdrawal(o)
      BY <3>1, SameFate, SameData
    <3>3. There!ValidBody(b)
      BY <3>2, ThereAssumptions, There!DecidedSuffices
    <3>4. Other!ValidBody(b)
      BY <3>3, SameSteps
    <3> QED
      BY <3>4 DEF b
  <2>6. \A u : CollectionMayFail(u) => CollectionOverLimits(u)
    BY FailsOverLimits
  <2>7. \A u : Other!CollectionMayFail(u) => Other!CollectionOverLimits(u)
    <3>1. \A u : There!CollectionMayFail(u) => There!CollectionOverLimits(u)
      BY ThereAssumptions, There!FailsOverLimits
    <3> QED
      BY <3>1, SameSteps
  <2> QED
    BY <2>4, <2>5, <2>6, <2>7 DEF RefusedForWithdrawals, Refuses, OtherRefuses
<1> QED
  BY <1>1, ShapeInvariant, CourseInvariant, PTL
=============================================================================
