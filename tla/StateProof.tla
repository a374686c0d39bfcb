----------------------------- MODULE StateProof -----------------------------
(***************************************************************************)
(* What holds of every chain of blocks, for every value of the constants:  *)
(* the deposits credited are those of the incremental scan, withdrawal     *)
(* bundles follow each other, each with one answer, and no coin that       *)
(* carries value is used twice.  Then what the blocks alone decide of the  *)
(* state, which ReplicasProof takes to two nodes, and last what coins are  *)
(* worth together.                                                         *)
(***************************************************************************)
EXTENDS State, Lists

ScanProof == INSTANCE DepositScanProof WITH log <- DepositLog, Logs <- {DepositLog}

-----------------------------------------------------------------------------
(* Deposits: a block fetches as one scan of DepositScan does. *)

(* DepositScan's copy of Drivechain says what State's says. *)
LEMMA SameDeposits ==
    ASSUME NEW start, NEW end
    PROVE  /\ Scan!NewDeposits(DepositLog, start, end) = NewDeposits(DepositLog, start, end)
           /\ Scan!DepositOutputs(DepositLog, start, end) = DepositOutputs(DepositLog, start, end)
           /\ \A i : Scan!DepositValue(DepositLog, start, end, i) = DepositValue(DepositLog, start, end, i)
           /\ \A block : Scan!IsDepositBlock(DepositLog, start, end, block)
                             <=> IsDepositBlock(DepositLog, start, end, block)
<1>1. Scan!ListDeposits(DepositLog, start, end) = ListDeposits(DepositLog, start, end)
  BY DEF Scan!ListDeposits, ListDeposits
<1>2. \A list, i : Scan!LastTotal(DepositLog, list, i) = LastTotal(DepositLog, list, i)
  BY DEF Scan!LastTotal, LastTotal
<1>3. Scan!NewDeposits(DepositLog, start, end) = NewDeposits(DepositLog, start, end)
  BY <1>1, <1>2 DEF Scan!NewDeposits, NewDeposits
<1>4. Scan!DepositOutputs(DepositLog, start, end) = DepositOutputs(DepositLog, start, end)
  BY <1>3 DEF Scan!DepositOutputs, DepositOutputs, Scan!Parses, Parses
<1>5. \A i : Scan!DepositValue(DepositLog, start, end, i) = DepositValue(DepositLog, start, end, i)
  BY <1>1, <1>2 DEF Scan!DepositValue, DepositValue
<1>6. \A block : Scan!IsDepositBlock(DepositLog, start, end, block)
                     <=> IsDepositBlock(DepositLog, start, end, block)
  BY <1>3 DEF Scan!IsDepositBlock, IsDepositBlock
<1> QED
  BY <1>3, <1>4, <1>5, <1>6

(* A block that is connected fetches as the scan does. *)
LEMMA ConnectFetches ==
    ASSUME NEW b, NEW end \in 1 .. MaxMainHeight, ConnectBlock(b, last_deposit_block, end)
    PROVE  Scan!Fetch(end)
<1>1. CreditDeposits(last_deposit_block, end)
  BY DEF ConnectBlock
<1>2. Scan!IsDepositBlock(DepositLog, last_deposit_block, end, last_deposit_block')
  BY <1>1, SameDeposits DEF CreditDeposits, IsDepositBlock
<1>3. credited' = [i \in DOMAIN DepositLog |->
                      IF i \in Scan!DepositOutputs(DepositLog, last_deposit_block, end)
                      THEN credited[i] + Scan!DepositValue(DepositLog, last_deposit_block, end, i)
                      ELSE credited[i]]
  BY <1>1, SameDeposits, Zenon DEF CreditDeposits
<1> QED
  BY <1>1, <1>2, <1>3 DEF CreditDeposits, Scan!Fetch

(* State implements the deposit scan. *)
THEOREM StateImplementsScan == Spec => DepositsScanned
<1>1. Init => Scan!ScanInit
  BY DEF Init, Scan!ScanInit
<1>2. [Next]_vars => [Scan!ScanNext]_<<DepositLog, last_deposit_block, credited, scanned>>
  <2> SUFFICES ASSUME [Next]_vars
               PROVE  Scan!ScanNext \/ UNCHANGED <<last_deposit_block, credited, scanned>>
    OBVIOUS
  <2>1. CASE Next
    BY <2>1, ConnectFetches DEF Next, Scan!ScanNext
  <2>2. CASE UNCHANGED vars
    BY <2>2 DEF vars
  <2> QED
    BY <2>1, <2>2
<1> QED
  BY <1>1, <1>2, PTL DEF Spec, DepositsScanned, Scan!ScanSpec, Scan!scanVars

(* DepositScanProof's copy of DepositScan says what State's copy says. *)
LEMMA SameFetch ==
    ASSUME NEW end, Scan!Fetch(end)
    PROVE  ScanProof!Fetch(end)
<1> DEFINE start == last_deposit_block
<1>1. ScanProof!ListDeposits(DepositLog, start, end) = Scan!ListDeposits(DepositLog, start, end)
  BY DEF ScanProof!ListDeposits, Scan!ListDeposits
<1>2. \A list, i : ScanProof!LastTotal(DepositLog, list, i) = Scan!LastTotal(DepositLog, list, i)
  BY DEF Scan!LastTotal, ScanProof!LastTotal
<1>3. ScanProof!NewDeposits(DepositLog, start, end) = Scan!NewDeposits(DepositLog, start, end)
  BY <1>1, <1>2 DEF ScanProof!NewDeposits, Scan!NewDeposits
<1>4. ScanProof!DepositOutputs(DepositLog, start, end) = Scan!DepositOutputs(DepositLog, start, end)
  BY <1>3 DEF ScanProof!DepositOutputs, Scan!DepositOutputs, ScanProof!Parses, Scan!Parses
<1>5. \A i : ScanProof!DepositValue(DepositLog, start, end, i) = Scan!DepositValue(DepositLog, start, end, i)
  BY <1>1, <1>2 DEF ScanProof!DepositValue, Scan!DepositValue
<1>6. \A block : ScanProof!IsDepositBlock(DepositLog, start, end, block)
                     <=> Scan!IsDepositBlock(DepositLog, start, end, block)
  BY <1>3 DEF ScanProof!IsDepositBlock, Scan!IsDepositBlock
<1>7. credited' = [i \in DOMAIN DepositLog |->
                      IF i \in ScanProof!DepositOutputs(DepositLog, start, end)
                      THEN credited[i] + ScanProof!DepositValue(DepositLog, start, end, i)
                      ELSE credited[i]]
  BY <1>4, <1>5, Zenon DEF Scan!Fetch
<1> QED
  BY <1>6, <1>7 DEF ScanProof!Fetch, Scan!Fetch

(* What DepositScan assumes of its logs holds of DepositLog. *)
LEMMA ScanLogs ==
    /\ \A l \in {DepositLog} : ScanProof!IsDepositLog(l)
    /\ MaxMainHeight \in Nat
    /\ Address \subseteq Strdest
  BY DepositLogAssumption, HeightAssumption, AddressAssumption DEF IsDepositLog, ScanProof!IsDepositLog

(* So every chain is a behaviour of DepositScan. *)
LEMMA ChainScans == Spec => ScanProof!ScanSpec
<1>1. Init => ScanProof!ScanInit
  BY DEF Init, ScanProof!ScanInit
<1>2. [Next]_vars => [ScanProof!ScanNext]_<<DepositLog, last_deposit_block, credited, scanned>>
  <2> SUFFICES ASSUME [Next]_vars
               PROVE  ScanProof!ScanNext \/ UNCHANGED <<last_deposit_block, credited, scanned>>
    OBVIOUS
  <2>1. CASE Next
    BY <2>1, ConnectFetches, SameFetch DEF Next, ScanProof!ScanNext
  <2>2. CASE UNCHANGED vars
    BY <2>2 DEF vars
  <2> QED
    BY <2>1, <2>2
<1> QED
  BY <1>1, <1>2, PTL DEF Spec, ScanProof!ScanSpec, ScanProof!scanVars

(* Along the chain every deposit is credited once, with what it added. *)
THEOREM ChainDepositsExact == Spec => []DepositsExact
<1>1. ScanProof!ScanSpec => []ScanProof!DepositsExact
  BY ScanLogs, ScanProof!DepositsAreExact
<1>2. ScanProof!DepositsExact => DepositsExact
  BY DEF ScanProof!DepositsExact, DepositsExact, Scan!DepositsExact, ScanProof!IsIncrease,
         Scan!IsIncrease, ScanProof!Parses, Scan!Parses, ScanProof!DepositIncrement,
         Scan!DepositIncrement, ScanProof!TotalBefore, Scan!TotalBefore
<1> QED
  BY <1>1, <1>2, ChainScans, PTL

-----------------------------------------------------------------------------
(* Bundles.  A bundle's time runs from the block that collects it to the one
   that answers it, and after a failure to the end of the gap; the times of
   two bundles do not overlap. *)

EndOf(r) == r.at + (IF r.answer = "Failed" THEN FailureGap ELSE 0)

SettledInv ==
    /\ \A r \in settled : /\ CollectedAt(r.bundle) \in 1 .. height
                          /\ r.at \in CollectedAt(r.bundle) .. height
                          /\ r.answer = "Failed" => r.at <= last_withdrawal_bundle_failure_height
    /\ \A r, s \in settled : r # s =>
          CollectedAt(s.bundle) > EndOf(r) \/ CollectedAt(r.bundle) > EndOf(s)

(* What holds of the pending bundle, before and after the collection. *)
PendingAfter(pending, h) ==
    /\ \A b \in pending : /\ CollectedAt(b) \in 1 .. h
                          /\ \A r \in settled : CollectedAt(b) > EndOf(r)
    /\ \A b, c \in pending : b = c

BundleInv ==
    /\ height \in Nat
    /\ last_withdrawal_bundle_failure_height \in 0 .. height
    /\ SettledInv
    /\ PendingAfter(pending_withdrawal_bundle, height)

(* The time of a settled bundle ends at a height, not before its answer. *)
LEMMA EndOfType ==
    ASSUME BundleInv, NEW r \in settled
    PROVE  EndOf(r) \in Nat /\ r.at <= EndOf(r) /\ r.at \in Nat
  BY HeightAssumption DEF BundleInv, SettledInv, EndOf

(* The height is part of what the bundle's transaction commits to. *)
LEMMA BundleHeight ==
    ASSUME NEW U, NEW h, NEW b \in Bundles(U, h)
    PROVE  CollectedAt(b) = h
<1>1. PICK x \in Candidates(U, h) : b = x.bundle
  BY DEF Bundles
<1>2. PICK s \in SortOutcomes({Aggregated(U, a) : a \in Destinations(U)}) :
          \E k : x = [bundle |-> Bundle(Taken(s), k, h), fits |-> BundleFits(Taken(s), U)]
  BY Zenon DEF Candidates
<1>3. PICK k : x.bundle = Bundle(Taken(s), k, h)
  BY <1>2
<1> QED
  BY <1>1, <1>3 DEF Bundle, CollectedAt

(* A new bundle is collected after the end of every earlier one. *)
LEMMA CollectionApart ==
    ASSUME BundleInv, NEW U, NEW c \in AfterCollection(U)
    PROVE  PendingAfter(c.pending, height + 1)
<1>1. CASE c.pending = pending_withdrawal_bundle
  BY <1>1 DEF BundleInv, PendingAfter
<1>2. CASE Due /\ \E b \in Bundles(U, height + 1) : c.pending = {b}
  <2>1. PICK b \in Bundles(U, height + 1) : c.pending = {b}
    BY <1>2
  <2>2. CollectedAt(b) = height + 1
    BY <2>1, BundleHeight
  <2>3. ASSUME NEW r \in settled PROVE height + 1 > EndOf(r)
    <3>1. CASE r.answer = "Failed"
      BY <1>2, <3>1, HeightAssumption DEF Due, BundleInv, SettledInv, EndOf
    <3>2. CASE r.answer # "Failed"
      BY <3>2 DEF BundleInv, SettledInv, EndOf
    <3> QED
      BY <3>1, <3>2
  <2> QED
    BY <2>1, <2>2, <2>3 DEF PendingAfter, BundleInv
<1> QED
  BY <1>1, <1>2 DEF AfterCollection

(* An answer ends the time of the bundle it settles. *)
LEMMA SettlingApart ==
    ASSUME BundleInv, NEW b, NEW answer \in {"Failed", "Confirmed"},
           PendingAfter({b}, height + 1), height' = height + 1,
           settled' = settled \cup {[bundle |-> b, answer |-> answer, at |-> height + 1]},
           last_withdrawal_bundle_failure_height' =
               IF answer = "Failed" THEN height + 1 ELSE last_withdrawal_bundle_failure_height,
           pending_withdrawal_bundle' = {}
    PROVE  BundleInv'
<1> DEFINE new == [bundle |-> b, answer |-> answer, at |-> height + 1]
<1>1. /\ new.bundle = b /\ new.answer = answer /\ new.at = height + 1
      /\ settled' = settled \cup {new}
  OBVIOUS
<1>2. CollectedAt(b) \in 1 .. height + 1 /\ \A r \in settled : CollectedAt(b) > EndOf(r)
  BY DEF PendingAfter
<1> HIDE DEF new
<1>3. ASSUME NEW r \in settled'
      PROVE  /\ CollectedAt(r.bundle) \in 1 .. height'
             /\ r.at \in CollectedAt(r.bundle) .. height'
             /\ r.answer = "Failed" => r.at <= last_withdrawal_bundle_failure_height'
  BY <1>1, <1>2 DEF BundleInv, SettledInv
<1>4. ASSUME NEW r \in settled', NEW s \in settled', r # s
      PROVE  CollectedAt(s.bundle) > EndOf(r) \/ CollectedAt(r.bundle) > EndOf(s)
  BY <1>1, <1>2, <1>4 DEF BundleInv, SettledInv
<1>5. height' \in Nat /\ last_withdrawal_bundle_failure_height' \in 0 .. height'
  BY DEF BundleInv
<1>6. SettledInv'
  BY <1>3, <1>4 DEF SettledInv, EndOf, CollectedAt
<1>7. PendingAfter(pending_withdrawal_bundle, height)'
  BY DEF PendingAfter
<1> QED
  BY <1>5, <1>6, <1>7 DEF BundleInv

(* connect_two_way_peg_data keeps BundleInv, whichever way it ends. *)
LEMMA ConnectKeepsBundles ==
    ASSUME BundleInv, NEW b, NEW start, NEW end, ConnectBlock(b, start, end)
    PROVE  BundleInv'
<1>1. height' = height + 1
  BY DEF ConnectBlock
<1>2. PICK c \in AfterCollection(BeforeCollection(b, start, end)) :
          NoAnswer(c) \/ Failed(c) \/ Confirmed(c)
  BY DEF ConnectBlock
<1>3. PendingAfter(c.pending, height + 1)
  BY CollectionApart
<1>4. CASE NoAnswer(c)
  <2>1. /\ pending_withdrawal_bundle' = c.pending
        /\ settled' = settled
        /\ last_withdrawal_bundle_failure_height' = last_withdrawal_bundle_failure_height
    BY <1>4 DEF NoAnswer
  <2>2. SettledInv'
    BY <1>1, <2>1 DEF BundleInv, SettledInv, EndOf, CollectedAt
  <2>3. PendingAfter(pending_withdrawal_bundle, height)'
    BY <1>1, <1>3, <2>1 DEF PendingAfter, EndOf, CollectedAt
  <2> QED
    BY <1>1, <2>1, <2>2, <2>3 DEF BundleInv
<1>5. CASE Failed(c)
  <2>1. PICK d \in c.pending :
            /\ pending_withdrawal_bundle' = {}
            /\ last_withdrawal_bundle_failure_height' = height + 1
            /\ settled' = settled \cup {[bundle |-> d, answer |-> "Failed", at |-> height + 1]}
    BY <1>5 DEF Failed
  <2>2. PendingAfter({d}, height + 1)
    BY <1>3, <2>1 DEF PendingAfter
  <2> QED
    BY <1>1, <2>1, <2>2, SettlingApart
<1>6. CASE Confirmed(c)
  <2>1. PICK d \in c.pending :
            /\ pending_withdrawal_bundle' = {}
            /\ last_withdrawal_bundle_failure_height' = last_withdrawal_bundle_failure_height
            /\ settled' = settled \cup {[bundle |-> d, answer |-> "Confirmed", at |-> height + 1]}
    BY <1>6 DEF Confirmed
  <2>2. PendingAfter({d}, height + 1)
    BY <1>3, <2>1 DEF PendingAfter
  <2> QED
    BY <1>1, <2>1, <2>2, SettlingApart
<1> QED
  BY <1>2, <1>4, <1>5, <1>6

(* BundleInv is inductive. *)
LEMMA BundleInvariant == Spec => []BundleInv
<1>1. Init => BundleInv
  BY DEF Init, BundleInv, SettledInv, PendingAfter
<1>2. BundleInv /\ [Next]_vars => BundleInv'
  <2> SUFFICES ASSUME BundleInv, [Next]_vars PROVE BundleInv'
    OBVIOUS
  <2>1. CASE Next
    BY <2>1, ConnectKeepsBundles DEF Next
  <2>2. CASE UNCHANGED vars
    BY <2>2 DEF vars, BundleInv, SettledInv, PendingAfter, EndOf, CollectedAt
  <2> QED
    BY <2>1, <2>2
<1> QED
  BY <1>1, <1>2, PTL DEF Spec

(* Whatever the mainchain answers and when, no bundle is collected while
   another is pending or within the gap after a failure. *)
THEOREM BundlesStayApart == Spec => []BundlesApart
<1>1. BundleInv => BundlesApart
  <2> SUFFICES ASSUME BundleInv, NEW r \in settled, NEW b \in AllBundles, b # r.bundle
               PROVE  CollectedAt(b) < CollectedAt(r.bundle) \/ CollectedAt(b) > EndOf(r)
    BY DEF BundlesApart, EndOf
  <2>1. CASE b \in pending_withdrawal_bundle
    BY <2>1 DEF BundleInv, PendingAfter
  <2>2. CASE \E s \in settled : b = s.bundle
    <3>1. PICK s \in settled : b = s.bundle
      BY <2>2
    <3>2. CASE CollectedAt(s.bundle) > EndOf(r)
      BY <3>1, <3>2
    <3>3. CASE CollectedAt(r.bundle) > EndOf(s)
      BY <3>1, <3>3, EndOfType DEF BundleInv, SettledInv
    <3> QED
      BY <3>1, <3>2, <3>3 DEF BundleInv, SettledInv
  <2> QED
    BY <2>1, <2>2 DEF AllBundles
<1> QED
  BY <1>1, BundleInvariant, PTL

(* An answer that stays listed settles one bundle only. *)
THEOREM AnswersSettleOnce == Spec => []EachAnswerOnce
<1>1. BundleInv => EachAnswerOnce
  <2> SUFFICES ASSUME BundleInv, NEW r \in settled, NEW s \in settled,
                      Txid(r.bundle) = Txid(s.bundle)
               PROVE  r = s
    BY DEF EachAnswerOnce
  <2>1. CollectedAt(r.bundle) = CollectedAt(s.bundle)
    BY DEF Txid, CollectedAt
  <2> QED
    BY <2>1, EndOfType DEF BundleInv, SettledInv
<1> QED
  BY <1>1, BundleInvariant, PTL

-----------------------------------------------------------------------------
(***************************************************************************)
(* Coins: none that carries value is used twice, for every set of          *)
(* transactions and bodies.                                                *)
(*                                                                         *)
(* Nothing in the code refuses a transaction or a body that was connected  *)
(* before.  The argument is about value: a coin that carries value was     *)
(* made by a transaction with an input that carries value (or in a body    *)
(* with such a fee, or by a deposit), and once it is made that input is    *)
(* spent.  So the transaction that made a coin which is still somewhere    *)
(* cannot be connected again, and the coin made by it is new.              *)
(***************************************************************************)

(* Sums of natural numbers. *)

LEMMA UnitsFinite ==
    ASSUME NEW f, IsFiniteSet(DOMAIN f), \A i \in DOMAIN f : f[i] \in Int
    PROVE  IsFiniteSet(Units(f))
<1> DEFINE D == DOMAIN f
           T == {{i} \X (1 .. f[i]) : i \in D}
           g == [i \in D |-> {i} \X (1 .. f[i])]
<1>1. g \in Surjection(D, T)
  BY DEF Surjection
<1>2. IsFiniteSet(T)
  <2> HIDE DEF g, T
  <2> QED
    BY <1>1, FS_Surjection
<1>3. \A x \in T : IsFiniteSet(x)
  <2> SUFFICES ASSUME NEW i \in D PROVE IsFiniteSet({i} \X (1 .. f[i]))
    OBVIOUS
  <2>1. IsFiniteSet({i})
    BY FS_Singleton
  <2>2. IsFiniteSet(1 .. f[i])
    BY FS_Interval
  <2> QED
    BY <2>1, <2>2, FS_Product
<1> QED
  BY <1>2, <1>3, FS_UNION DEF Units

(* A sum is a natural number, *)
LEMMA SumType ==
    ASSUME NEW f, IsFiniteSet(DOMAIN f), \A i \in DOMAIN f : f[i] \in Int
    PROVE  Total(f) \in Nat
  BY UnitsFinite, FS_CardinalityType DEF Total

(* positive if one of its terms is, *)
LEMMA SumPositive ==
    ASSUME NEW f, IsFiniteSet(DOMAIN f), \A i \in DOMAIN f : f[i] \in Int,
           NEW k \in DOMAIN f, f[k] > 0
    PROVE  Total(f) > 0
<1>1. <<k, 1>> \in {k} \X (1 .. f[k])
  OBVIOUS
<1>2. Units(f) # {}
  BY <1>1 DEF Units
<1> QED
  BY <1>2, UnitsFinite, SumType, FS_EmptySet DEF Total

(* and only then. *)
LEMMA SumHasPositive ==
    ASSUME NEW f, \A i \in DOMAIN f : f[i] \in Int, Total(f) > 0
    PROVE  \E i \in DOMAIN f : f[i] > 0
<1> SUFFICES ASSUME \A i \in DOMAIN f : ~(f[i] > 0) PROVE FALSE
  OBVIOUS
<1>1. Units(f) = {}
  BY DEF Units
<1> QED
  BY <1>1, FS_EmptySet DEF Total

(* With overflow checks a sum that fits is not changed by wrapping. *)
LEMMA WrapFitting ==
    ASSUME OverflowChecks, NEW n \in Nat, Fits(n)
    PROVE  Wrap(n) = n
  BY ArithmeticAssumption DEF Fits, Wrap

(* What is left of a natural number by wrapping is one. *)
LEMMA WrapType ==
    ASSUME NEW n \in Nat
    PROVE  Wrap(n) \in Nat
  BY ArithmeticAssumption DEF Wrap

-----------------------------------------------------------------------------
(* Where coins come from and go to in one block. *)

Connected(b)  == UNION {Inputs(b.transactions[k]) : k \in DOMAIN b.transactions}
NewOutputs(b) == CoinbaseOutPoints(b)
                 \cup UNION {TxOutPoints(b.transactions[k]) : k \in DOMAIN b.transactions}
NewDepositsOf(end) == {Deposit(i) : i \in DepositOutputs(DepositLog, last_deposit_block, end)}
Made(b, end)  == NewOutputs(b) \cup NewDepositsOf(end)

(* A bundle takes withdrawals from the unspent outputs. *)
LEMMA BundleCoins ==
    ASSUME NEW U, NEW h, NEW b \in Bundles(U, h)
    PROVE  b.spent_utxos \subseteq Withdrawals(U)
<1> DEFINE A == {Aggregated(U, a) : a \in Destinations(U)}
<1>1. PICK x \in Candidates(U, h) : b = x.bundle
  BY DEF Bundles
<1>2. PICK s \in SortOutcomes(A) :
          \E k : x = [bundle |-> Bundle(Taken(s), k, h), fits |-> BundleFits(Taken(s), U)]
  BY Zenon DEF Candidates
<1>3. s \in SetToSeqs(A)
  BY DEF SortOutcomes
<1>4. \A i \in DOMAIN s : s[i] \in A
  <2> HIDE DEF A
  <2> QED
    BY <1>3 DEF SetToSeqs
<1>5. \A y \in A : y.spent_utxos \subseteq Withdrawals(U)
  <2>1. \A a : Aggregated(U, a).spent_utxos = CoinsTo(U, a)
    BY DEF Aggregated
  <2> QED
    BY <2>1 DEF CoinsTo
<1>6. \A i \in DOMAIN Taken(s) : Taken(s)[i].spent_utxos \subseteq Withdrawals(U)
  <2> HIDE DEF A
  <2> QED
    BY <1>4, <1>5 DEF Taken
<1>7. b.spent_utxos = UNION {Taken(s)[i].spent_utxos : i \in DOMAIN Taken(s)}
  BY <1>1, <1>2 DEF Bundle
<1> QED
  BY <1>6, <1>7

(* The collection only moves coins from the unspent outputs to the bundle. *)
LEMMA CollectionMoves ==
    ASSUME NEW U, NEW c \in AfterCollection(U)
    PROVE  \/ c.unspent = U /\ c.pending = pending_withdrawal_bundle
           \/ /\ pending_withdrawal_bundle = {}
              /\ \E b : /\ c.pending = {b}
                       /\ b.spent_utxos \subseteq Withdrawals(U)
                       /\ CollectedAt(b) = height + 1
                       /\ c.unspent = U \ b.spent_utxos
  BY BundleCoins, BundleHeight DEF AfterCollection, Due

(* What a transaction or the coinbase of a body makes are outpoints, and so
   is what the body finds and spends. *)
LEMMA BodyOutPoints ==
    ASSUME NEW b \in Body
    PROVE  /\ \A k \in DOMAIN b.transactions : b.transactions[k] \in Tx
           /\ NewOutputs(b) \subseteq OutPoint
<1>1. \A k \in DOMAIN b.transactions : b.transactions[k] \in Tx
  BY BodyAssumption
<1> QED
  BY <1>1 DEF NewOutputs, OutPoint

(* A body changes only the outputs it spends and makes. *)
LEMMA AfterBodyFrom ==
    ASSUME NEW b
    PROVE  /\ AfterBody(b) \subseteq utxos \cup NewOutputs(b)
           /\ AfterBody(b) \cap Connected(b) \subseteq NewOutputs(b)
           /\ utxos \ Connected(b) \subseteq AfterBody(b)
<1>1. ASSUME NEW o \in AfterBody(b)
      PROVE  /\ o \in utxos \cup NewOutputs(b)
             /\ o \in Connected(b) => o \in NewOutputs(b)
  <2> DEFINE txs == b.transactions
  <2>1. CASE /\ o \in utxos \cup CoinbaseOutPoints(b)
             /\ \A k \in DOMAIN txs : o \notin Inputs(txs[k])
    BY <2>1 DEF NewOutputs, Connected
  <2>2. CASE \E k \in DOMAIN txs : o \in TxOutPoints(txs[k])
    BY <2>2 DEF NewOutputs
  <2> QED
    BY <2>1, <2>2 DEF AfterBody
<1>2. utxos \ Connected(b) \subseteq AfterBody(b)
  BY DEF AfterBody, Connected
<1> QED
  BY <1>1, <1>2

(* The three ways a block ends leave the coins of its bundle in the bundle,
   put them back, or pay them out. *)
LEMMA AnswerMoves ==
    ASSUME NEW c, NoAnswer(c) \/ Failed(c) \/ Confirmed(c)
    PROVE  \/ /\ utxos' = c.unspent /\ pending_withdrawal_bundle' = c.pending
              /\ settled' = settled
           \/ \E b \in c.pending, answer \in {"Failed", "Confirmed"} :
                 /\ utxos' = IF answer = "Failed" THEN c.unspent \cup b.spent_utxos
                                                  ELSE c.unspent
                 /\ pending_withdrawal_bundle' = {}
                 /\ settled' = settled \cup
                       {[bundle |-> b, answer |-> answer, at |-> height + 1]}
<1>1. CASE NoAnswer(c)
  BY <1>1 DEF NoAnswer
<1>2. CASE Failed(c)
  BY <1>2 DEF Failed
<1>3. CASE Confirmed(c)
  BY <1>3 DEF Confirmed
<1> QED
  BY <1>1, <1>2, <1>3

-----------------------------------------------------------------------------
(* Types. *)

TypeInv ==
    /\ utxos \subseteq OutPoint
    /\ spent \subseteq OutPoint
    /\ \A b \in AllBundles : b.spent_utxos \subseteq Withdrawals(OutPoint)
    /\ height \in 0 .. MaxHeight
    /\ scanned \in 0 .. MaxMainHeight
    /\ \A r \in settled : r.answer \in {"Failed", "Confirmed"} /\ r.at \in 1 .. height

(* A block keeps the types. *)
LEMMA ConnectKeepsTypes ==
    ASSUME TypeInv, NEW b \in Body, NEW end \in 1 .. MaxMainHeight,
           ConnectBlock(b, last_deposit_block, end)
    PROVE  TypeInv'
<1> DEFINE U == BeforeCollection(b, last_deposit_block, end)
<1>1. height' = height + 1 /\ height' \in 0 .. MaxHeight
  BY HeightAssumption DEF TypeInv, ConnectBlock
<1>2. scanned' \in 0 .. MaxMainHeight
  BY HeightAssumption DEF TypeInv, ConnectBlock, CreditDeposits
<1>3. spent' \subseteq OutPoint
  <2>1. \A k \in DOMAIN b.transactions : Inputs(b.transactions[k]) \subseteq utxos
    BY DEF ConnectBlock, ValidBody, InputsExist
  <2> QED
    BY <2>1 DEF TypeInv, ConnectBlock
<1>4. U \subseteq OutPoint
  <2>1. AfterBody(b) \subseteq OutPoint
    BY AfterBodyFrom, BodyOutPoints DEF TypeInv
  <2>2. DepositOutputs(DepositLog, last_deposit_block, end) \subseteq DOMAIN DepositLog
    BY DEF DepositOutputs, NewDeposits, ListDeposits
  <2>3. \A i \in DOMAIN DepositLog : Deposit(i) \in OutPoint
    BY DEF OutPoint
  <2> QED
    BY <2>1, <2>2, <2>3 DEF BeforeCollection
<1>5. PICK c \in AfterCollection(U) : NoAnswer(c) \/ Failed(c) \/ Confirmed(c)
  BY DEF ConnectBlock
<1>6. /\ c.unspent \subseteq OutPoint
      /\ \A d \in c.pending : d.spent_utxos \subseteq Withdrawals(OutPoint)
  <2> HIDE DEF U
  <2>1. Withdrawals(U) \subseteq Withdrawals(OutPoint)
    BY <1>4 DEF Withdrawals
  <2> QED
    BY <1>4, <2>1, CollectionMoves DEF TypeInv, AllBundles
<1>7. Withdrawals(OutPoint) \subseteq OutPoint
  BY DEF Withdrawals
<1>8. /\ utxos' \subseteq OutPoint
      /\ \A d \in AllBundles' : d.spent_utxos \subseteq Withdrawals(OutPoint)
      /\ \A r \in settled' : r.answer \in {"Failed", "Confirmed"} /\ r.at \in 1 .. height'
  <2>1. CASE utxos' = c.unspent /\ pending_withdrawal_bundle' = c.pending /\ settled' = settled
    BY <1>1, <1>6, <2>1 DEF TypeInv, AllBundles
  <2>2. CASE \E d \in c.pending, answer \in {"Failed", "Confirmed"} :
                 /\ utxos' = IF answer = "Failed" THEN c.unspent \cup d.spent_utxos
                                                  ELSE c.unspent
                 /\ pending_withdrawal_bundle' = {}
                 /\ settled' = settled \cup
                       {[bundle |-> d, answer |-> answer, at |-> height + 1]}
    BY <1>1, <1>6, <1>7, <2>2 DEF TypeInv, AllBundles
  <2> QED
    BY <1>5, <2>1, <2>2, AnswerMoves
<1>9. OutPoint' = OutPoint /\ Withdrawals(OutPoint)' = Withdrawals(OutPoint)
  OBVIOUS
<1> QED
  BY <1>1, <1>2, <1>3, <1>8, <1>9 DEF TypeInv

(* TypeInv is inductive. *)
LEMMA TypeInvariant == Spec => []TypeInv
<1>1. Init => TypeInv
  BY HeightAssumption DEF Init, TypeInv, AllBundles
<1>2. TypeInv /\ [Next]_vars => TypeInv'
  <2> SUFFICES ASSUME TypeInv, [Next]_vars PROVE TypeInv'
    OBVIOUS
  <2>1. CASE Next
    BY <2>1, ConnectKeepsTypes DEF Next
  <2>2. CASE UNCHANGED vars
    BY <2>2 DEF vars, TypeInv, AllBundles
  <2> QED
    BY <2>1, <2>2
<1> QED
  BY <1>1, <1>2, PTL DEF Spec

(* The stored block, the credits and the newest block asked for are those of
   the incremental scan. *)
LEMMA ScanTypes == Spec => [](last_deposit_block \in Nat /\ credited \in [DOMAIN DepositLog -> Nat])
<1>1. ScanProof!ScanTypeOK =>
          last_deposit_block \in Nat /\ credited \in [DOMAIN DepositLog -> Nat]
  BY DEF ScanProof!ScanTypeOK
<1>2. ScanProof!ScanSpec => []ScanProof!ScanTypeOK
  BY ScanLogs, ScanProof!ScanTypeCorrect
<1> QED
  BY <1>1, <1>2, ChainScans, PTL

(* connect_body and connect_two_way_peg_data keep to the outpoints of the
   block's own transactions and deposits; a bundle takes withdrawals only; one
   bundle is pending at a time; heights stay within the chain's. *)
THEOREM TypeCorrect == Spec => []TypeOK
<1>1. /\ TypeInv /\ BundleInv
      /\ last_deposit_block \in Nat /\ credited \in [DOMAIN DepositLog -> Nat]
      => TypeOK
  <2> SUFFICES ASSUME TypeInv, BundleInv, last_deposit_block \in Nat,
                      credited \in [DOMAIN DepositLog -> Nat]
               PROVE  TypeOK
    OBVIOUS
  <2>1. Cardinality(pending_withdrawal_bundle) <= 1
    <3>1. CASE pending_withdrawal_bundle = {}
      BY <3>1, FS_EmptySet
    <3>2. CASE pending_withdrawal_bundle # {}
      <4>1. PICK b : b \in pending_withdrawal_bundle
        BY <3>2
      <4>2. pending_withdrawal_bundle = {b}
        BY <4>1 DEF BundleInv, PendingAfter
      <4>3. Cardinality({b}) = 1
        BY FS_Singleton
      <4> QED
        BY <4>2, <4>3
    <3> QED
      BY <3>1, <3>2
  <2>2. \A b \in AllBundles : CollectedAt(b) \in 1 .. height
    BY DEF BundleInv, SettledInv, PendingAfter, AllBundles
  <2>3. last_withdrawal_bundle_failure_height \in 0 .. height
    BY DEF BundleInv
  <2> QED
    BY <2>1, <2>2, <2>3 DEF TypeInv, TypeOK
<1> QED
  BY <1>1, TypeInvariant, BundleInvariant, ScanTypes, PTL

-----------------------------------------------------------------------------
(* Coins.  A coin is somewhere once it was made, and what it was made from is
   used up: the inputs are spent, the deposit is at or before the stored
   block. *)

Known == utxos \cup Bundled \cup spent \cup Paid

OriginUsed(o) ==
    /\ o.type = "Regular" => Inputs(o.txid) \subseteq spent
    /\ o.type = "Coinbase" => \A k \in DOMAIN o.merkle_root.transactions :
                                 Inputs(o.merkle_root.transactions[k]) \subseteq spent
    /\ o.type = "Deposit" => /\ o.entry \in DOMAIN DepositLog
                             /\ DepositLog[o.entry].block <= last_deposit_block

CoinInv ==
    /\ NoCoinTwice
    /\ \A o \in Known : OriginUsed(o)

(* The entries of the log, and what each added. *)
LEMMA DepositLogFacts ==
    \A i \in DOMAIN DepositLog : /\ DepositLog[i].block \in Nat
                                 /\ DepositLog[i].total \in Nat
                                 /\ DepositIncrement(DepositLog, i) \in Int
<1>1. IsDepositLog(DepositLog) /\ ScanProof!IsDepositLog(DepositLog)
  BY DepositLogAssumption DEF IsDepositLog, ScanProof!IsDepositLog
<1>2. /\ DOMAIN DepositLog = 1 .. Len(DepositLog) /\ Len(DepositLog) \in Nat
      /\ \A i \in DOMAIN DepositLog : /\ DepositLog[i].block \in Nat \ {0}
                                       /\ DepositLog[i].total \in Nat
  BY <1>1, ScanLogs, ScanProof!LogFacts
<1>3. ASSUME NEW i \in DOMAIN DepositLog PROVE TotalBefore(DepositLog, i) \in Nat
  <2>1. i # 1 => i - 1 \in DOMAIN DepositLog
    BY <1>2
  <2> QED
    BY <1>2, <2>1 DEF TotalBefore
<1> QED
  BY <1>2, <1>3 DEF DepositIncrement

(* What an outpoint is worth is a number. *)
LEMMA ValueType ==
    ASSUME NEW o \in OutPoint
    PROVE  Value(o) \in Int
<1>1. CASE \E t \in Tx : o \in TxOutPoints(t)
  BY <1>1, TxAssumption DEF TxOutPoints, Regular, Value, OutputOf, IsOutputs
<1>2. CASE \E b \in Body : o \in CoinbaseOutPoints(b)
  BY <1>2, BodyAssumption DEF CoinbaseOutPoints, Coinbase, MerkleRoot, Value, OutputOf, IsOutputs
<1>3. CASE \E i \in DOMAIN DepositLog : o = Deposit(i)
  BY <1>3, DepositLogFacts DEF Deposit, Value, OutputOf
<1> QED
  BY <1>1, <1>2, <1>3 DEF OutPoint

(* A list has finitely many positions. *)
LEMMA ListFinite ==
    ASSUME NEW s, IsList(s)
    PROVE  IsFiniteSet(DOMAIN s)
<1>1. Len(s) \in Nat /\ DOMAIN s = 1 .. Len(s)
  BY DEF IsList
<1>2. IsFiniteSet(1 .. Len(s))
  BY <1>1, FS_Interval
<1> QED
  BY <1>1, <1>2

(* The sums of a transaction over outpoints are natural numbers. *)
LEMMA ValueSums ==
    ASSUME NEW t \in Tx, Inputs(t) \subseteq OutPoint
    PROVE  /\ ValueIn(t) \in Nat /\ ValueOut(t) \in Nat /\ Fee(t) \in Int
           /\ ValueIn(t) > 0 => \E o \in Inputs(t) : Value(o) > 0
           /\ \A i \in DOMAIN TxOutputs[t] : TxOutputs[t][i].value > 0 => ValueOut(t) > 0
<1> DEFINE f == [i \in DOMAIN TxInputs[t] |-> Value(TxInputs[t][i])]
           g == [i \in DOMAIN TxOutputs[t] |-> TxOutputs[t][i].value]
<1>1. /\ IsFiniteSet(DOMAIN f) /\ IsFiniteSet(DOMAIN g)
      /\ \A i \in DOMAIN g : g[i] \in Int
  BY TxAssumption, ListFinite DEF IsOutputs
<1>2. \A i \in DOMAIN f : f[i] \in Int /\ TxInputs[t][i] \in Inputs(t)
  BY ValueType DEF Inputs
<1>3. ValueIn(t) = Total(f) /\ ValueOut(t) = Total(g)
  BY DEF ValueIn, ValueOut
<1>4. ValueIn(t) \in Nat /\ ValueOut(t) \in Nat
  <2> HIDE DEF f, g
  <2> QED
    BY <1>1, <1>2, <1>3, SumType
<1>5. Fee(t) \in Int
  BY <1>4, WrapType DEF Fee
<1>6. ASSUME ValueIn(t) > 0 PROVE \E o \in Inputs(t) : Value(o) > 0
  <2>1. \E i \in DOMAIN f : f[i] > 0
    <3> HIDE DEF f
    <3> QED
      BY <1>2, <1>3, <1>6, SumHasPositive
  <2> QED
    BY <1>2, <2>1
<1>7. ASSUME NEW i \in DOMAIN TxOutputs[t], TxOutputs[t][i].value > 0 PROVE ValueOut(t) > 0
  <2>1. i \in DOMAIN g /\ g[i] > 0
    BY <1>7
  <2> HIDE DEF g
  <2> QED
    BY <1>1, <1>3, <2>1, SumPositive
<1> QED
  BY <1>4, <1>5, <1>6, <1>7

(* Value is not made of nothing: a valid transaction that makes value or
   pays a fee has an input that carries value. *)
LEMMA ValueHasSource ==
    ASSUME OverflowChecks, NEW t \in Tx, Inputs(t) \subseteq OutPoint, ValidTransaction(t),
           ValueOut(t) > 0 \/ Fee(t) > 0
    PROVE  \E o \in Inputs(t) : Value(o) > 0
<1>1. Wrap(ValueIn(t)) = ValueIn(t) /\ Wrap(ValueOut(t)) = ValueOut(t)
  BY ValueSums, WrapFitting DEF ValidTransaction
<1>2. ValueIn(t) > 0
  BY <1>1, ValueSums DEF ValidTransaction, Fee
<1> QED
  BY <1>2, ValueSums

(* A new deposit is of a later block than the stored one. *)
LEMMA NewDepositLater ==
    ASSUME last_deposit_block \in Nat, NEW end \in 1 .. MaxMainHeight,
           NEW i \in DepositOutputs(DepositLog, last_deposit_block, end)
    PROVE  i \in DOMAIN DepositLog /\ DepositLog[i].block > last_deposit_block
  BY DepositLogFacts DEF DepositOutputs, NewDeposits, ListDeposits

(* The coins that carry value which a block makes are new. *)
LEMMA MadeIsNew ==
    ASSUME OverflowChecks, TypeInv, CoinInv, last_deposit_block \in Nat,
           NEW b \in Body, ValidBody(b), NEW end \in 1 .. MaxMainHeight,
           NEW o \in Positive(Made(b, end))
    PROVE  o \notin Known
<1> DEFINE txs == b.transactions
<1>1. \A k \in DOMAIN txs : /\ txs[k] \in Tx
                            /\ Inputs(txs[k]) \subseteq utxos
                            /\ Inputs(txs[k]) \subseteq OutPoint
                            /\ ValidTransaction(txs[k])
  BY BodyOutPoints DEF ValidBody, InputsExist, TypeInv
<1>2. ASSUME NEW k \in DOMAIN txs, ValueOut(txs[k]) > 0 \/ Fee(txs[k]) > 0
      PROVE  ~(Inputs(txs[k]) \subseteq spent)
  <2>1. PICK p \in Inputs(txs[k]) : Value(p) > 0
    BY <1>1, <1>2, ValueHasSource
  <2>2. p \in utxos
    BY <1>1, <2>1
  <2> QED
    BY <2>1, <2>2 DEF CoinInv, NoCoinTwice, Positive
<1>3. CASE \E k \in DOMAIN txs : o \in TxOutPoints(txs[k])
  <2>1. PICK k \in DOMAIN txs : o \in TxOutPoints(txs[k])
    BY <1>3
  <2>2. PICK i \in DOMAIN TxOutputs[txs[k]] : o = Regular(txs[k], i)
    BY <2>1 DEF TxOutPoints
  <2>3. TxOutputs[txs[k]][i].value > 0
    BY <2>2 DEF Positive, Value, OutputOf, Regular
  <2>4. ValueOut(txs[k]) > 0
    BY <1>1, <2>3, ValueSums
  <2>5. o.type = "Regular" /\ o.txid = txs[k]
    BY <2>2 DEF Regular
  <2> QED
    BY <1>2, <2>4, <2>5 DEF CoinInv, OriginUsed
<1>4. CASE o \in CoinbaseOutPoints(b)
  <2> DEFINE f == [i \in DOMAIN b.coinbase |-> b.coinbase[i].value]
             g == [k \in DOMAIN txs |-> Fee(txs[k])]
  <2>1. PICK i \in DOMAIN b.coinbase : o = Coinbase(MerkleRoot(b), i)
    BY <1>4 DEF CoinbaseOutPoints
  <2>2. i \in DOMAIN f /\ f[i] > 0
    BY <2>1 DEF Positive, Value, OutputOf, Coinbase, MerkleRoot
  <2>3. /\ IsFiniteSet(DOMAIN f) /\ \A j \in DOMAIN f : f[j] \in Int
        /\ IsFiniteSet(DOMAIN g) /\ \A k \in DOMAIN g : g[k] \in Int
    <3>1. IsList(txs) /\ IsList(b.coinbase) /\ \A j \in DOMAIN b.coinbase : b.coinbase[j].value \in Int
      BY BodyAssumption DEF IsList, IsOutputs
    <3> QED
      BY <1>1, <3>1, ListFinite, ValueSums
  <2>4. CoinbaseValue(b) = Total(f) /\ TotalFees(b) = Total(g)
    BY DEF CoinbaseValue, TotalFees
  <2>5. Total(f) > 0 /\ Total(f) \in Nat /\ Total(g) \in Nat
    <3> HIDE DEF f, g
    <3> QED
      BY <2>2, <2>3, SumPositive, SumType
  <2>6. Total(g) > 0
    <3> HIDE DEF f, g
    <3>1. Fits(Total(f)) /\ Fits(Total(g)) /\ Wrap(Total(f)) <= Wrap(Total(g))
      BY <2>4 DEF ValidBody, ValidFees
    <3> QED
      BY <2>5, <3>1, WrapFitting
  <2>7. PICK k \in DOMAIN txs : Fee(txs[k]) > 0
    <3>1. \E k \in DOMAIN g : g[k] > 0
      <4> HIDE DEF g
      <4> QED
        BY <2>3, <2>6, SumHasPositive
    <3> QED
      BY <3>1
  <2>8. o.type = "Coinbase" /\ o.merkle_root.transactions = txs
    BY <2>1 DEF Coinbase, MerkleRoot
  <2> QED
    BY <1>2, <2>7, <2>8 DEF CoinInv, OriginUsed
<1>5. CASE \E i \in DepositOutputs(DepositLog, last_deposit_block, end) : o = Deposit(i)
  <2>1. PICK i \in DepositOutputs(DepositLog, last_deposit_block, end) : o = Deposit(i)
    BY <1>5
  <2>2. DepositLog[i].block \in Nat /\ DepositLog[i].block > last_deposit_block
    BY DepositLogFacts, NewDepositLater
  <2>3. o.type = "Deposit" /\ o.entry = i
    BY <2>1 DEF Deposit
  <2> QED
    BY <2>2, <2>3 DEF CoinInv, OriginUsed
<1> QED
  BY <1>3, <1>4, <1>5 DEF Positive, Made, NewOutputs, NewDepositsOf

(* The coins of the pending bundle and of the bundles paid, one by one. *)
LEMMA CoinsOf ==
    /\ \A o : o \in Bundled <=> \E d \in pending_withdrawal_bundle : o \in d.spent_utxos
    /\ \A o : o \in Paid <=> \E r \in settled : r.answer = "Confirmed" /\ o \in r.bundle.spent_utxos
  BY DEF Bundled, Paid

(* Where the coins are after a block.  U are the unspent outputs when the
   collection starts; taken is what it takes. *)
Settlement(U, taken) ==
    /\ Bundled # {} => taken = {}
    /\ \/ /\ utxos' = U \ taken /\ Bundled' = Bundled \cup taken
          /\ Paid' = Paid /\ settled' = settled
       \/ /\ utxos' = (U \ taken) \cup (Bundled \cup taken) /\ Bundled' = {}
          /\ Paid' = Paid
          /\ \E r : settled' = settled \cup {r} /\ r.answer = "Failed"
       \/ /\ utxos' = U \ taken /\ Bundled' = {}
          /\ Paid' = Paid \cup (Bundled \cup taken)
          /\ \E r : /\ settled' = settled \cup {r}
                   /\ r.bundle.spent_utxos = Bundled \cup taken

(* Every way a block ends is a Settlement. *)
LEMMA CoinsAfter ==
    ASSUME BundleInv, NEW U, NEW c \in AfterCollection(U), NoAnswer(c) \/ Failed(c) \/ Confirmed(c)
    PROVE  \E taken \in SUBSET Withdrawals(U) : Settlement(U, taken)
<1>1. PICK taken \in SUBSET Withdrawals(U) :
          /\ Bundled # {} => taken = {}
          /\ c.unspent = U \ taken
          /\ \A o : o \in Bundled \cup taken <=> \E d \in c.pending : o \in d.spent_utxos
          /\ \A d \in c.pending : d.spent_utxos = Bundled \cup taken
  <2>1. CASE c.unspent = U /\ c.pending = pending_withdrawal_bundle
    <3>1. \A d \in c.pending : d.spent_utxos = Bundled
      BY <2>1 DEF BundleInv, PendingAfter, Bundled
    <3> WITNESS {} \in SUBSET Withdrawals(U)
    <3> QED
      BY <2>1, <3>1, CoinsOf
  <2>2. CASE /\ pending_withdrawal_bundle = {}
             /\ \E d : /\ c.pending = {d}
                      /\ d.spent_utxos \subseteq Withdrawals(U)
                      /\ c.unspent = U \ d.spent_utxos
    <3>1. PICK d : /\ c.pending = {d}
                   /\ d.spent_utxos \subseteq Withdrawals(U)
                   /\ c.unspent = U \ d.spent_utxos
      BY <2>2
    <3>2. d.spent_utxos \in SUBSET Withdrawals(U)
      BY <3>1
    <3>3. Bundled = {}
      BY <2>2 DEF Bundled
    <3> WITNESS d.spent_utxos \in SUBSET Withdrawals(U)
    <3> QED
      BY <3>1, <3>3
  <2> QED
    BY <2>1, <2>2, CollectionMoves
<1>2. CASE NoAnswer(c)
  <2>1. utxos' = U \ taken /\ settled' = settled /\ pending_withdrawal_bundle' = c.pending
    BY <1>1, <1>2 DEF NoAnswer
  <2>2. Paid' = Paid
    BY <2>1 DEF Paid
  <2>3. Bundled' = Bundled \cup taken
    BY <1>1, <2>1 DEF Bundled
  <2> QED
    BY <1>1, <2>1, <2>2, <2>3 DEF Settlement
<1>3. CASE Failed(c)
  <2>1. PICK d \in c.pending :
            /\ utxos' = c.unspent \cup d.spent_utxos
            /\ pending_withdrawal_bundle' = {}
            /\ settled' = settled \cup {[bundle |-> d, answer |-> "Failed", at |-> height + 1]}
    BY <1>3 DEF Failed
  <2> DEFINE r == [bundle |-> d, answer |-> "Failed", at |-> height + 1]
  <2>2. r.answer = "Failed" /\ r.bundle = d /\ settled' = settled \cup {r}
    BY <2>1
  <2> HIDE DEF r
  <2>3. r.bundle.spent_utxos = Bundled \cup taken
    BY <1>1, <2>2
  <2>4. Paid' = Paid
    BY <2>2, <2>3 DEF Paid
  <2>5. Bundled' = {}
    BY <2>1 DEF Bundled
  <2> QED
    BY <1>1, <2>1, <2>2, <2>3, <2>4, <2>5 DEF Settlement
<1>4. CASE Confirmed(c)
  <2>1. PICK d \in c.pending :
            /\ utxos' = c.unspent
            /\ pending_withdrawal_bundle' = {}
            /\ settled' = settled \cup {[bundle |-> d, answer |-> "Confirmed", at |-> height + 1]}
    BY <1>4 DEF Confirmed
  <2> DEFINE r == [bundle |-> d, answer |-> "Confirmed", at |-> height + 1]
  <2>2. r.answer = "Confirmed" /\ r.bundle = d /\ settled' = settled \cup {r}
    BY <2>1
  <2> HIDE DEF r
  <2>3. r.bundle.spent_utxos = Bundled \cup taken
    BY <1>1, <2>2
  <2>4. Paid' = Paid \cup (Bundled \cup taken)
    BY <2>2, <2>3 DEF Paid
  <2>5. Bundled' = {}
    BY <2>1 DEF Bundled
  <2> QED
    BY <1>1, <2>1, <2>2, <2>3, <2>4, <2>5 DEF Settlement
<1> QED
  BY <1>2, <1>3, <1>4

(* The stored block only moves forward, past the deposits it credits. *)
LEMMA StoredBlockMoves ==
    ASSUME last_deposit_block \in Nat, NEW end \in 1 .. MaxMainHeight,
           CreditDeposits(last_deposit_block, end)
    PROVE  /\ last_deposit_block' \in Nat /\ last_deposit_block <= last_deposit_block'
           /\ \A i \in DepositOutputs(DepositLog, last_deposit_block, end) :
                 DepositLog[i].block <= last_deposit_block'
<1> DEFINE new == NewDeposits(DepositLog, last_deposit_block, end)
<1>1. CASE new = {} /\ last_deposit_block' = last_deposit_block
  BY <1>1 DEF DepositOutputs
<1>2. CASE IsDepositBlock(DepositLog, last_deposit_block, end, last_deposit_block') /\ new # {}
  <2>1. PICK i \in new : last_deposit_block' = DepositLog[i].block /\ \A j \in new : j <= i
    BY <1>2 DEF IsDepositBlock
  <2>2. new \subseteq DOMAIN DepositLog /\ DepositLog[i].block >= last_deposit_block
    BY <2>1, DepositLogFacts DEF NewDeposits, ListDeposits
  <2>3. \A j \in new : DepositLog[j].block <= DepositLog[i].block
    BY <2>1, <2>2, DepositLogAssumption DEF IsDepositLog
  <2> QED
    BY <2>1, <2>2, <2>3, DepositLogFacts DEF DepositOutputs
<1> QED
  BY <1>1, <1>2 DEF CreditDeposits

(* NoCoinTwice, coin by coin. *)
LEMMA OnePlace ==
    NoCoinTwice <=>
        /\ \A o : Value(o) > 0 =>
              /\ o \in utxos => o \notin Bundled /\ o \notin spent /\ o \notin Paid
              /\ o \in Bundled => o \notin spent /\ o \notin Paid
              /\ o \in spent => o \notin Paid
        /\ \A r, s \in settled : r.answer = "Confirmed" /\ s.answer = "Confirmed" /\ r # s
              => Positive(r.bundle.spent_utxos \cap s.bundle.spent_utxos) = {}
  BY DEF NoCoinTwice, Positive

(* What a block makes has its origin used in the block itself. *)
LEMMA MadeHasOrigin ==
    ASSUME last_deposit_block \in Nat, NEW b, NEW end \in 1 .. MaxMainHeight,
           CreditDeposits(last_deposit_block, end), spent' = spent \cup Connected(b),
           NEW o \in Made(b, end)
    PROVE  OriginUsed(o)'
<1> DEFINE txs == b.transactions
<1>1. \A k \in DOMAIN txs : Inputs(txs[k]) \subseteq spent'
  BY DEF Connected
<1>2. CASE \E k \in DOMAIN txs : o \in TxOutPoints(txs[k])
  <2>1. PICK k \in DOMAIN txs : o \in TxOutPoints(txs[k])
    BY <1>2
  <2>2. o.type = "Regular" /\ o.txid = txs[k]
    BY <2>1 DEF TxOutPoints, Regular
  <2> QED
    BY <1>1, <2>2 DEF OriginUsed
<1>3. CASE o \in CoinbaseOutPoints(b)
  <2>1. o.type = "Coinbase" /\ o.merkle_root.transactions = txs
    BY <1>3 DEF CoinbaseOutPoints, Coinbase, MerkleRoot
  <2> QED
    BY <1>1, <2>1 DEF OriginUsed
<1>4. CASE \E i \in DepositOutputs(DepositLog, last_deposit_block, end) : o = Deposit(i)
  <2>1. PICK i \in DepositOutputs(DepositLog, last_deposit_block, end) : o = Deposit(i)
    BY <1>4
  <2>2. o.type = "Deposit" /\ o.entry = i
    BY <2>1 DEF Deposit
  <2> QED
    BY <2>2, StoredBlockMoves, NewDepositLater DEF OriginUsed
<1> QED
  BY <1>2, <1>3, <1>4 DEF Made, NewOutputs, NewDepositsOf

(* What a block does to the coins: it spends some of them, keeps the others,
   adds new ones, and settles. *)
LEMMA BlockMoves ==
    ASSUME OverflowChecks, TypeInv, BundleInv, CoinInv, last_deposit_block \in Nat,
           NEW b \in Body, NEW end \in 1 .. MaxMainHeight, ConnectBlock(b, last_deposit_block, end)
    PROVE  \E U, taken :
              /\ taken \subseteq U /\ Settlement(U, taken)
              /\ U \subseteq utxos \cup Made(b, end)
              /\ utxos \ Connected(b) \subseteq U
              /\ spent' = spent \cup Connected(b) /\ Connected(b) \subseteq utxos
              /\ \A o : Value(o) > 0 =>
                    /\ o \in U => /\ o \notin Bundled /\ o \notin Paid
                                  /\ o \notin spent \cup Connected(b)
                    /\ o \in Bundled => o \notin Paid /\ o \notin spent \cup Connected(b)
                    /\ o \in spent \cup Connected(b) => o \notin Paid
<1> DEFINE U    == BeforeCollection(b, last_deposit_block, end)
           S    == Connected(b)
           made == Made(b, end)
<1>1. /\ ValidBody(b)
      /\ spent' = spent \cup S
      /\ \E c \in AfterCollection(U) : NoAnswer(c) \/ Failed(c) \/ Confirmed(c)
  BY DEF ConnectBlock, Connected
<1>2. S \subseteq utxos
  BY <1>1 DEF ValidBody, InputsExist, Connected
<1>3. U \subseteq utxos \cup made /\ U \cap S \subseteq made /\ utxos \ S \subseteq U
  BY <1>2, AfterBodyFrom DEF BeforeCollection, Made, NewDepositsOf
<1>4. \A o \in made : Value(o) > 0 => o \notin Known
  BY <1>1, MadeIsNew DEF Positive
<1>5. \E taken \in SUBSET U : Settlement(U, taken)
  BY <1>1, CoinsAfter DEF Withdrawals
<1> HIDE DEF U, S, made
<1>6. \A o : Value(o) > 0 =>
          /\ o \in U => o \notin Bundled /\ o \notin Paid /\ o \notin spent \cup S
          /\ o \in Bundled => o \notin Paid /\ o \notin spent \cup S
          /\ o \in spent \cup S => o \notin Paid
  BY <1>2, <1>3, <1>4, OnePlace DEF CoinInv, Known
<1> QED
  BY <1>1, <1>2, <1>3, <1>5, <1>6 DEF S, made

(* A block keeps CoinInv: what it makes is new, and the rest only moves. *)
LEMMA ConnectKeepsCoins ==
    ASSUME OverflowChecks, TypeInv, BundleInv, CoinInv, last_deposit_block \in Nat,
           NEW b \in Body, NEW end \in 1 .. MaxMainHeight, ConnectBlock(b, last_deposit_block, end)
    PROVE  CoinInv'
<1>1. PICK U, taken :
          /\ taken \subseteq U /\ Settlement(U, taken)
          /\ U \subseteq utxos \cup Made(b, end)
          /\ spent' = spent \cup Connected(b) /\ Connected(b) \subseteq utxos
          /\ \A o : Value(o) > 0 =>
                /\ o \in U => /\ o \notin Bundled /\ o \notin Paid
                              /\ o \notin spent \cup Connected(b)
                /\ o \in Bundled => o \notin Paid /\ o \notin spent \cup Connected(b)
                /\ o \in spent \cup Connected(b) => o \notin Paid
  BY BlockMoves
<1>2. CreditDeposits(last_deposit_block, end)
  BY DEF ConnectBlock
<1>3. \A o : Value(o) > 0 =>
          /\ o \in utxos' => o \notin Bundled' /\ o \notin spent' /\ o \notin Paid'
          /\ o \in Bundled' => o \notin spent' /\ o \notin Paid'
          /\ o \in spent' => o \notin Paid'
  BY <1>1 DEF Settlement
<1>4. ASSUME NEW r \in settled', NEW s \in settled', r # s,
             r.answer = "Confirmed", s.answer = "Confirmed"
      PROVE  Positive(r.bundle.spent_utxos \cap s.bundle.spent_utxos) = {}
  <2>1. CASE r \in settled /\ s \in settled
    BY <1>4, <2>1 DEF CoinInv, NoCoinTwice
  <2>2. ASSUME NEW x \in settled, x.answer = "Confirmed"
        PROVE  Positive(x.bundle.spent_utxos \cap (Bundled \cup taken)) = {}
    <3>1. x.bundle.spent_utxos \subseteq Paid
      BY <2>2 DEF Paid
    <3> QED
      BY <1>1, <3>1 DEF Positive
  <2>3. CASE \E x : settled' = settled \cup {x} /\ x.answer = "Failed"
    BY <1>4, <2>1, <2>3
  <2>4. CASE \E x : settled' = settled \cup {x} /\ x.bundle.spent_utxos = Bundled \cup taken
    BY <1>4, <2>1, <2>2, <2>4 DEF Positive
  <2> QED
    BY <1>1, <1>4, <2>1, <2>3, <2>4 DEF Settlement
<1>5. NoCoinTwice'
  BY <1>3, <1>4 DEF NoCoinTwice, Positive
<1>6. ASSUME NEW o \in Known' PROVE OriginUsed(o)'
  <2>1. o \in Known \cup Made(b, end)
    BY <1>1 DEF Known, Settlement
  <2>2. last_deposit_block' \in Nat /\ last_deposit_block <= last_deposit_block'
    BY <1>2, StoredBlockMoves
  <2>3. CASE OriginUsed(o)
    BY <1>1, <2>2, <2>3, DepositLogFacts DEF OriginUsed
  <2>4. CASE o \in Made(b, end)
    BY <1>1, <1>2, <2>4, MadeHasOrigin
  <2> QED
    BY <2>1, <2>3, <2>4 DEF CoinInv
<1> QED
  BY <1>5, <1>6 DEF CoinInv

(* CoinInv is inductive. *)
LEMMA CoinInvariant ==
    ASSUME OverflowChecks
    PROVE  Spec => []CoinInv
<1>1. Init => CoinInv
  BY DEF Init, CoinInv, NoCoinTwice, Known, Bundled, Paid, Positive
<1>2. TypeInv /\ BundleInv /\ last_deposit_block \in Nat /\ CoinInv /\ [Next]_vars => CoinInv'
  <2> SUFFICES ASSUME TypeInv, BundleInv, last_deposit_block \in Nat, CoinInv, [Next]_vars
               PROVE  CoinInv'
    OBVIOUS
  <2>1. CASE Next
    BY <2>1, ConnectKeepsCoins DEF Next
  <2>2. CASE UNCHANGED vars
    BY <2>2 DEF vars, CoinInv, NoCoinTwice, Known, Bundled, Paid, Positive, OriginUsed
  <2> QED
    BY <2>1, <2>2
<1> QED
  BY <1>1, <1>2, TypeInvariant, BundleInvariant, ScanTypes, PTL DEF Spec

(* In a build with overflow checks no coin that carries value is in two
   places, whatever the bodies connected: a coin is spent, bundled or paid
   once.  (Without the checks a sum of outputs that wraps lets a transaction
   make value of nothing, and connect again.) *)
THEOREM NoCoinIsUsedTwice ==
    ASSUME OverflowChecks
    PROVE  Spec => []NoCoinTwice
<1>1. CoinInv => NoCoinTwice
  BY DEF CoinInv
<1> QED
  BY <1>1, CoinInvariant, PTL

-----------------------------------------------------------------------------
(* The life cycle of a coin. *)

StagesExact ==
    \A o : Value(o) > 0 =>
        /\ StageOf(o) \in Coins!Stage
        /\ o \in utxos   => StageOf(o) = "Unspent"
        /\ o \in Bundled => StageOf(o) = "Bundled"
        /\ o \in spent   => StageOf(o) = "Spent"
        /\ o \in Paid    => StageOf(o) = "Paid"
        /\ o \notin Known => StageOf(o) = "Unborn"

(* A coin that is in one place only is in the stage of that place. *)
LEMMA StagesAreExact == NoCoinTwice => StagesExact
<1> SUFFICES ASSUME NoCoinTwice, NEW o, Value(o) > 0
             PROVE  /\ StageOf(o) \in Coins!Stage
                    /\ o \in utxos   => StageOf(o) = "Unspent"
                    /\ o \in Bundled => StageOf(o) = "Bundled"
                    /\ o \in spent   => StageOf(o) = "Spent"
                    /\ o \in Paid    => StageOf(o) = "Paid"
                    /\ o \notin Known => StageOf(o) = "Unborn"
  BY DEF StagesExact
<1>1. CASE o \in utxos
  <2>1. o \notin Bundled /\ o \notin spent /\ o \notin Paid
    BY <1>1, OnePlace
  <2>2. StageOf(o) = "Unspent"
    BY <1>1, <2>1, Zenon DEF StageOf
  <2> QED
    BY <1>1, <2>1, <2>2 DEF Known, Coins!Stage
<1>2. CASE o \in Bundled
  <2>1. o \notin utxos /\ o \notin spent /\ o \notin Paid
    BY <1>2, OnePlace
  <2>2. StageOf(o) = "Bundled"
    BY <1>2, <2>1, Zenon DEF StageOf
  <2> QED
    BY <1>2, <2>1, <2>2 DEF Known, Coins!Stage
<1>3. CASE o \in spent
  <2>1. o \notin utxos /\ o \notin Bundled /\ o \notin Paid
    BY <1>3, OnePlace
  <2>2. StageOf(o) = "Spent"
    BY <1>3, <2>1, Zenon DEF StageOf
  <2> QED
    BY <1>3, <2>1, <2>2 DEF Known, Coins!Stage
<1>4. CASE o \in Paid
  <2>1. o \notin utxos /\ o \notin Bundled /\ o \notin spent
    BY <1>4, OnePlace
  <2>2. StageOf(o) = "Paid"
    BY <1>4, <2>1, Zenon DEF StageOf
  <2> QED
    BY <1>4, <2>1, <2>2 DEF Known, Coins!Stage
<1>5. CASE o \notin Known
  <2>1. o \notin utxos /\ o \notin Bundled /\ o \notin spent /\ o \notin Paid
    BY <1>5 DEF Known
  <2>2. StageOf(o) = "Unborn"
    BY <2>1, Zenon DEF StageOf
  <2> QED
    BY <2>1, <2>2 DEF Coins!Stage
<1> QED
  BY <1>1, <1>2, <1>3, <1>4, <1>5 DEF Known

(* A block moves a coin along its life cycle. *)
LEMMA ConnectFollowsLifecycle ==
    ASSUME OverflowChecks, TypeInv, BundleInv, CoinInv, last_deposit_block \in Nat,
           NEW b \in Body, NEW end \in 1 .. MaxMainHeight, ConnectBlock(b, last_deposit_block, end),
           StagesExact, StagesExact', NoCoinTwice',
           NEW o, Value(o) > 0
    PROVE  /\ StageOf(o)' \in Coins!Stage
           /\ StageOf(o)' = StageOf(o) \/ <<StageOf(o), StageOf(o)'>> \in Coins!Moves
<1>1. PICK U, taken :
          /\ taken \subseteq U /\ Settlement(U, taken)
          /\ U \subseteq utxos \cup Made(b, end)
          /\ utxos \ Connected(b) \subseteq U
          /\ spent' = spent \cup Connected(b) /\ Connected(b) \subseteq utxos
  BY BlockMoves
<1>2. /\ StageOf(o)' \in Coins!Stage
      /\ o \in utxos'   => StageOf(o)' = "Unspent"
      /\ o \in Bundled' => StageOf(o)' = "Bundled"
      /\ o \in spent'   => StageOf(o)' = "Spent"
      /\ o \in Paid'    => StageOf(o)' = "Paid"
      /\ o \notin Known' => StageOf(o)' = "Unborn"
  BY DEF StagesExact
<1>3. CASE o \in utxos
  <2>1. StageOf(o) = "Unspent"
    BY <1>3 DEF StagesExact
  <2>2. o \in spent' \/ o \in utxos' \/ o \in Bundled' \/ o \in Paid'
    BY <1>1, <1>3 DEF Settlement
  <2> QED
    BY <1>2, <2>1, <2>2 DEF Coins!Moves
<1>4. CASE o \in Bundled
  <2>1. StageOf(o) = "Bundled"
    BY <1>4 DEF StagesExact
  <2>2. o \in utxos' \/ o \in Bundled' \/ o \in Paid'
    BY <1>1, <1>4 DEF Settlement
  <2> QED
    BY <1>2, <2>1, <2>2 DEF Coins!Moves
<1>5. CASE o \in spent
  BY <1>1, <1>2, <1>5 DEF StagesExact
<1>6. CASE o \in Paid
  <2>1. o \in Paid'
    BY <1>1, <1>6 DEF Settlement
  <2> QED
    BY <1>2, <1>6, <2>1 DEF StagesExact
<1>7. CASE o \notin Known
  <2>1. StageOf(o) = "Unborn"
    BY <1>7 DEF StagesExact
  <2>2. o \notin spent'
    BY <1>1, <1>7 DEF Known
  <2> QED
    BY <1>2, <2>1, <2>2 DEF Coins!Moves, Known
<1> QED
  BY <1>3, <1>4, <1>5, <1>6, <1>7 DEF Known

(* In a build with overflow checks every coin that carries value goes through
   its life cycle, and through nothing else: State implements CoinLifecycle
   for each of them. *)
THEOREM StateImplementsLifecycle ==
    ASSUME OverflowChecks
    PROVE  Spec => CoinsFollowLifecycle
<1> DEFINE stage == [o \in PositiveOutPoint |-> StageOf(o)]
<1>1. Init => Coins!CoinInit
  <2> SUFFICES ASSUME Init PROVE \A o \in PositiveOutPoint : StageOf(o) = "Unborn"
    BY DEF Coins!CoinInit
  <2>1. NoCoinTwice /\ Known = {}
    BY DEF Init, NoCoinTwice, Known, Bundled, Paid, Positive
  <2> QED
    BY <2>1, StagesAreExact DEF StagesExact, PositiveOutPoint, Positive
<1>2. /\ TypeInv /\ BundleInv /\ last_deposit_block \in Nat /\ CoinInv /\ [Next]_vars
      /\ StagesExact /\ StagesExact' /\ NoCoinTwice'
      => [Coins!CoinNext]_stage
  <2> SUFFICES ASSUME TypeInv, BundleInv, last_deposit_block \in Nat, CoinInv, [Next]_vars,
                      StagesExact, StagesExact', NoCoinTwice'
               PROVE  Coins!CoinNext \/ stage' = stage
    OBVIOUS
  <2>1. CASE Next
    <3>1. \A o \in PositiveOutPoint :
              /\ StageOf(o)' \in Coins!Stage
              /\ StageOf(o)' = StageOf(o) \/ <<StageOf(o), StageOf(o)'>> \in Coins!Moves
      BY <2>1, ConnectFollowsLifecycle DEF Next, PositiveOutPoint, Positive
    <3> QED
      BY <3>1 DEF Coins!CoinNext, Coins!Follows
  <2>2. CASE UNCHANGED vars
    BY <2>2 DEF vars, StageOf, Bundled, Paid
  <2> QED
    BY <2>1, <2>2
<1>3. CoinInv => NoCoinTwice
  BY DEF CoinInv
<1> QED
  BY <1>1, <1>2, <1>3, StagesAreExact, TypeInvariant, BundleInvariant, ScanTypes, CoinInvariant, PTL
  DEF Spec, CoinsFollowLifecycle, Coins!CoinSpec
-----------------------------------------------------------------------------
(* What the blocks decide.  Two nodes that have connected the same blocks may
   differ over bundles and answers; these parts of the state are a function of
   the blocks alone.  Which coins exist is one only where no value is made of
   nothing. *)

Payments(coins) == {o \in coins : ~IsWithdrawal(o)}

Decided ==
    [credited |-> credited, deposit_block |-> last_deposit_block, spent |-> spent,
     payments |-> Payments(utxos),
     existing |-> IF OverflowChecks THEN Positive(utxos \cup Bundled \cup Paid) ELSE {}]

(* The outputs of a body that are unspent after it. *)
Unspent(b) ==
    LET txs == b.transactions
    IN  {o \in CoinbaseOutPoints(b) : \A k \in DOMAIN txs : o \notin Inputs(txs[k])}
        \cup UNION {{o \in TxOutPoints(txs[k]) :
                        \A l \in DOMAIN txs : l > k => o \notin Inputs(txs[l])} : k \in DOMAIN txs}

Gained(b, start, end) ==
    Unspent(b) \cup {Deposit(i) : i \in DepositOutputs(DepositLog, start, end)}

(* The same parts after a block that ends the scan of deposits at `end'. *)
CreditedAfter(d, end) ==
    [i \in DOMAIN DepositLog |->
        IF i \in DepositOutputs(DepositLog, d.deposit_block, end)
        THEN d.credited[i] + DepositValue(DepositLog, d.deposit_block, end, i)
        ELSE d.credited[i]]

BlockAfter(d, end) ==
    IF NewDeposits(DepositLog, d.deposit_block, end) = {} THEN d.deposit_block
    ELSE CHOOSE x : IsDepositBlock(DepositLog, d.deposit_block, end, x)

CoinsFrom(coins, d, b, end) == (coins \ Connected(b)) \cup Gained(b, d.deposit_block, end)

DecidedAfter(d, b, end) ==
    [credited |-> CreditedAfter(d, end), deposit_block |-> BlockAfter(d, end),
     spent    |-> d.spent \cup Connected(b),
     payments |-> Payments(CoinsFrom(d.payments, d, b, end)),
     existing |-> IF OverflowChecks THEN Positive(CoinsFrom(d.existing, d, b, end)) ELSE {}]

(* What validate_body asks of a body whatever the unspent outputs are. *)
WellFormed(b) ==
    /\ NoDoubleSpend(b)
    /\ \A k \in DOMAIN b.transactions : ValidTransaction(b.transactions[k])
    /\ ValidFees(b)
    /\ Authorized(b)

(* What is known of every node on its way along a chain. *)
ChainInv ==
    /\ TypeInv /\ BundleInv /\ last_deposit_block \in Nat
    /\ credited \in [DOMAIN DepositLog -> Nat]
    /\ OverflowChecks => NoCoinTwice

(* The invariants above, put together. *)
LEMMA ChainInvariant == Spec => []ChainInv
<1>1. CASE OverflowChecks
  BY <1>1, TypeInvariant, BundleInvariant, ScanTypes, NoCoinIsUsedTwice, PTL DEF ChainInv
<1>2. CASE ~OverflowChecks
  <2>1. TypeInv /\ BundleInv /\ (last_deposit_block \in Nat /\ credited \in [DOMAIN DepositLog -> Nat]) => ChainInv
    BY <1>2 DEF ChainInv
  <2> QED
    BY <2>1, TypeInvariant, BundleInvariant, ScanTypes, PTL
<1> QED
  BY <1>1, <1>2

(* connect_body on any unspent outputs. *)
LEMMA BodyGains ==
    ASSUME NEW b
    PROVE  AfterBody(b) = (utxos \ Connected(b)) \cup Unspent(b)
  BY DEF AfterBody, Connected, Unspent

(* The stored block is one that the scan gives. *)
LEMMA BlockIsDecided ==
    ASSUME last_deposit_block \in Nat, NEW end, CreditDeposits(last_deposit_block, end)
    PROVE  last_deposit_block' = BlockAfter(Decided, end)
<1> DEFINE new == NewDeposits(DepositLog, last_deposit_block, end)
           Is(x) == IsDepositBlock(DepositLog, last_deposit_block, end, x)
<1> SUFFICES last_deposit_block' = IF new = {} THEN last_deposit_block ELSE CHOOSE x : Is(x)
  BY DEF Decided, BlockAfter
<1>1. CASE new = {}
  BY <1>1 DEF CreditDeposits
<1>2. CASE new # {}
  <2>1. Is(last_deposit_block')
    BY <1>2 DEF CreditDeposits
  <2>2. new \subseteq DOMAIN DepositLog /\ DOMAIN DepositLog \subseteq Int
    BY DepositLogAssumption DEF NewDeposits, ListDeposits, IsDepositLog
  <2>3. \A x, y : Is(x) /\ Is(y) => x = y
    BY <1>2, <2>2 DEF IsDepositBlock
  <2>4. Is(CHOOSE x : Is(x))
    BY <2>1
  <2> QED
    BY <1>2, <2>1, <2>3, <2>4
<1> QED
  BY <1>1, <1>2
(* A block changes these parts as the blocks decide, and is accepted by what
   they say except for the withdrawals it spends. *)
LEMMA ConnectIsDecided ==
    ASSUME ChainInv, NEW b, NEW end, ConnectBlock(b, last_deposit_block, end)
    PROVE  /\ WellFormed(b)
           /\ Payments(Connected(b)) \subseteq Decided.payments
           /\ Decided' = DecidedAfter(Decided, b, end)
<1> DEFINE gained == Gained(b, last_deposit_block, end)
           U      == BeforeCollection(b, last_deposit_block, end)
<1>1. ValidBody(b) /\ CreditDeposits(last_deposit_block, end)
      /\ spent' = spent \cup Connected(b)
  BY DEF ConnectBlock, Connected
<1>2. WellFormed(b)
  BY <1>1 DEF ValidBody, WellFormed
<1>3. Connected(b) \subseteq utxos
  BY <1>1 DEF ValidBody, InputsExist, Connected
<1>4. U = (utxos \ Connected(b)) \cup gained
  BY BodyGains DEF BeforeCollection, Gained
<1>5. PICK taken \in SUBSET Withdrawals(U) : Settlement(U, taken)
  BY CoinsAfter DEF ConnectBlock, ChainInv
<1>6. Bundled \subseteq Withdrawals(OutPoint)
  BY DEF ChainInv, TypeInv, AllBundles, Bundled
<1>7. Payments(utxos') = Payments((Payments(utxos) \ Connected(b)) \cup gained)
  <2> HIDE DEF U, gained
  <2>1. \A o : ~IsWithdrawal(o) => (o \in utxos' <=> o \in U)
    BY <1>5, <1>6 DEF Settlement, Withdrawals
  <2> QED
    BY <1>4, <2>1 DEF Payments
<1>8. ASSUME OverflowChecks
      PROVE  Positive(utxos' \cup Bundled' \cup Paid')
                = Positive((Positive(utxos \cup Bundled \cup Paid) \ Connected(b)) \cup gained)
  <2> HIDE DEF U, gained
  <2>1. \A o : o \in utxos' \cup Bundled' \cup Paid' <=> o \in U \cup Bundled \cup Paid
    BY <1>5 DEF Settlement, Withdrawals
  <2>2. \A o : Value(o) > 0 /\ o \in Connected(b) => o \notin Bundled /\ o \notin Paid
    BY <1>3, <1>8, OnePlace DEF ChainInv
  <2> QED
    BY <1>4, <2>1, <2>2 DEF Positive
<1>9. /\ Decided.credited = credited /\ Decided.deposit_block = last_deposit_block
      /\ Decided.spent = spent /\ Decided.payments = Payments(utxos)
      /\ OverflowChecks => Decided.existing = Positive(utxos \cup Bundled \cup Paid)
  BY DEF Decided
<1>10. last_deposit_block' = BlockAfter(Decided, end)
  BY <1>1, BlockIsDecided DEF ChainInv
<1>11. credited' = CreditedAfter(Decided, end)
  BY <1>1, <1>9 DEF CreditDeposits, CreditedAfter
<1>12. Payments(utxos') = Payments(CoinsFrom(Decided.payments, Decided, b, end))
  BY <1>7, <1>9 DEF CoinsFrom
<1>13. OverflowChecks => Positive(utxos' \cup Bundled' \cup Paid')
                          = Positive(CoinsFrom(Decided.existing, Decided, b, end))
  BY <1>8, <1>9 DEF CoinsFrom
<1>14. Decided' =
          [credited |-> credited', deposit_block |-> last_deposit_block', spent |-> spent',
           payments |-> Payments(utxos'),
           existing |-> IF OverflowChecks THEN Positive(utxos' \cup Bundled' \cup Paid') ELSE {}]
  BY DEF Decided, Payments, Positive
<1>15. Decided' = DecidedAfter(Decided, b, end)
  BY <1>1, <1>9, <1>10, <1>11, <1>12, <1>13, <1>14 DEF DecidedAfter
<1>16. Payments(Connected(b)) \subseteq Decided.payments
  BY <1>3, <1>9 DEF Payments
<1> QED
  BY <1>2, <1>15, <1>16

(* And the other way round: what they say suffices for a body that spends no
   withdrawal. *)
LEMMA DecidedSuffices ==
    ASSUME NEW b, WellFormed(b), Payments(Connected(b)) \subseteq Decided.payments,
           \A o \in Connected(b) : ~IsWithdrawal(o)
    PROVE  ValidBody(b)
<1>1. Connected(b) \subseteq utxos
  BY DEF Payments, Decided
<1> QED
  BY <1>1 DEF WellFormed, ValidBody, InputsExist, Connected

(***************************************************************************)
(* What coins are worth together: the sidechain owes no more than it was   *)
(* given, and a bundle pays the owners of the coins it takes.              *)
(*                                                                         *)
(* A sum is the number of units its terms are made of (Types!Total), so a  *)
(* sum over a union of sets is the size of a union, and is additive where  *)
(* the sets share no coin that carries value.  With this a valid body      *)
(* makes outputs worth no more than what it spends, and a block adds to    *)
(* what is held (unspent, pending or paid) no more than it credits.  That  *)
(* pending, paid and unspent coins are apart is NoCoinTwice.               *)
(***************************************************************************)

(* Sums.  A sum is the number of units its terms are made of, so that a sum
   over a union is the size of a union. *)

(* Sets of the sizes f[k] are covered by the units of f, one to one when the
   sets are disjoint. *)
LEMMA SumOfSizes ==
    ASSUME NEW D, IsFiniteSet(D), NEW X, DOMAIN X = D, \A k \in D : IsFiniteSet(X[k])
    PROVE  /\ IsFiniteSet(UNION {X[k] : k \in D})
           /\ Cardinality(UNION {X[k] : k \in D}) <= Total([k \in D |-> Cardinality(X[k])])
           /\ (\A k, l \in D : k # l => X[k] \cap X[l] = {})
                 => Cardinality(UNION {X[k] : k \in D}) = Total([k \in D |-> Cardinality(X[k])])
<1> DEFINE f == [k \in D |-> Cardinality(X[k])]
           Enum(k) == Bijection(1 .. f[k], X[k])
           B == [k \in D |-> CHOOSE g \in Enum(k) : TRUE]
           U == UNION {X[k] : k \in D}
           h == [u \in Units(f) |-> B[u[1]][u[2]]]
<1>1. DOMAIN f = D /\ \A k \in D : f[k] \in Nat
  BY FS_CardinalityType
<1>2. IsFiniteSet(Units(f))
  <2> HIDE DEF f
  <2> QED
    BY <1>1, UnitsFinite
<1>3. ASSUME NEW k \in D
      PROVE  /\ \A j \in 1 .. f[k] : B[k][j] \in X[k]
             /\ \A x \in X[k] : \E j \in 1 .. f[k] : B[k][j] = x
             /\ \A i, j \in 1 .. f[k] : B[k][i] = B[k][j] => i = j
  <2>1. \E g : g \in Enum(k)
    BY FS_CardinalityType DEF ExistsBijection
  <2> HIDE DEF Enum
  <2>2. B[k] \in Enum(k)
    BY <2>1
  <2> HIDE DEF B, f
  <2> QED
    BY <2>2 DEF Enum, Bijection, Injection, Surjection, IsInjective
<1>4. \A u : u \in Units(f) <=> u = <<u[1], u[2]>> /\ u[1] \in D /\ u[2] \in 1 .. f[u[1]]
  BY DEF Units
<1> HIDE DEF f, B
<1>5. \A u \in Units(f) : h[u] \in U
  BY <1>3, <1>4
<1>6. \A x \in U : \E u \in Units(f) : h[u] = x
  <2> SUFFICES ASSUME NEW k \in D, NEW x \in X[k] PROVE \E u \in Units(f) : h[u] = x
    OBVIOUS
  <2>1. PICK j \in 1 .. f[k] : B[k][j] = x
    BY <1>3
  <2>2. <<k, j>> \in Units(f) /\ h[<<k, j>>] = x
    BY <1>4, <2>1
  <2> QED
    BY <2>2
<1>7. h \in Surjection(Units(f), U)
  BY <1>5, <1>6 DEF Surjection
<1>8. ASSUME \A k, l \in D : k # l => X[k] \cap X[l] = {}
      PROVE  h \in Injection(Units(f), U)
  <2> SUFFICES ASSUME NEW u \in Units(f), NEW v \in Units(f), h[u] = h[v] PROVE u = v
    BY <1>5 DEF Injection, IsInjective
  <2>1. PICK k \in D : \E i \in 1 .. f[k] : u = <<k, i>>
    BY <1>4
  <2>2. PICK l \in D : \E j \in 1 .. f[l] : v = <<l, j>>
    BY <1>4
  <2>a. PICK i \in 1 .. f[k] : u = <<k, i>>
    BY <2>1
  <2>b. PICK j \in 1 .. f[l] : v = <<l, j>>
    BY <2>2
  <2>3. B[k][i] = B[l][j] /\ B[k][i] \in X[k] /\ B[l][j] \in X[l]
    BY <1>3, <2>a, <2>b
  <2>4. k = l
    BY <1>8, <2>3
  <2> QED
    BY <1>3, <2>a, <2>b, <2>3, <2>4
<1> HIDE DEF h, U
<1>9. /\ IsFiniteSet(U) /\ Cardinality(U) <= Total(f)
      /\ (\A k, l \in D : k # l => X[k] \cap X[l] = {}) => Cardinality(U) = Total(f)
  BY <1>2, <1>7, <1>8, FS_Surjection DEF Total
<1> QED
  BY <1>9 DEF U, f

(* The sum of a function composed with a bijection. *)
LEMMA SumRenamed ==
    ASSUME NEW f, NEW g, IsFiniteSet(DOMAIN f), \A i \in DOMAIN f : f[i] \in Int,
           NEW r \in [DOMAIN f -> DOMAIN g],
           \A i, j \in DOMAIN f : r[i] = r[j] => i = j,
           \A d \in DOMAIN g : \E i \in DOMAIN f : r[i] = d,
           \A i \in DOMAIN f : g[r[i]] = f[i]
    PROVE  Total(g) = Total(f)
<1> DEFINE h == [u \in Units(f) |-> <<r[u[1]], u[2]>>]
<1>1. \A u : u \in Units(f) <=> u = <<u[1], u[2]>> /\ u[1] \in DOMAIN f /\ u[2] \in 1 .. f[u[1]]
  BY DEF Units
<1>2. \A u : u \in Units(g) <=> u = <<u[1], u[2]>> /\ u[1] \in DOMAIN g /\ u[2] \in 1 .. g[u[1]]
  BY DEF Units
<1>3. \A u \in Units(f) : h[u] \in Units(g)
  BY <1>1, <1>2
<1>4. \A v \in Units(g) : \E u \in Units(f) : h[u] = v
  <2> SUFFICES ASSUME NEW v \in Units(g) PROVE \E u \in Units(f) : h[u] = v
    OBVIOUS
  <2>1. v = <<v[1], v[2]>> /\ v[1] \in DOMAIN g /\ v[2] \in 1 .. g[v[1]]
    BY <1>2
  <2>2. PICK i \in DOMAIN f : r[i] = v[1]
    BY <2>1
  <2>3. <<i, v[2]>> \in Units(f)
    BY <1>1, <2>1, <2>2
  <2>4. h[<<i, v[2]>>] = v
    BY <2>1, <2>2, <2>3
  <2> QED
    BY <2>3, <2>4
<1>5. \A u, v \in Units(f) : h[u] = h[v] => u = v
  BY <1>1
<1>6. h \in Bijection(Units(f), Units(g))
  <2> HIDE DEF h
  <2>1. h \in [Units(f) -> Units(g)]
    BY <1>3 DEF h
  <2> QED
    BY <1>4, <1>5, <2>1 DEF Bijection, Injection, Surjection, IsInjective
<1> HIDE DEF h
<1> QED
  BY <1>6, UnitsFinite, FS_Bijection DEF Total, ExistsBijection

(* The sum of a sum. *)
LEMMA SumAdds ==
    ASSUME NEW D, IsFiniteSet(D), NEW f \in [D -> Nat], NEW g \in [D -> Nat]
    PROVE  Total([i \in D |-> f[i] + g[i]]) = Total(f) + Total(g)
<1> DEFINE h == [i \in D |-> f[i] + g[i]]
           Rest == {u \in Units(h) : u[2] > f[u[1]]}
           m == [u \in Units(g) |-> <<u[1], f[u[1]] + u[2]>>]
<1>1. \A u : u \in Units(f) <=> u = <<u[1], u[2]>> /\ u[1] \in D /\ u[2] \in 1 .. f[u[1]]
  BY DEF Units
<1>2. \A u : u \in Units(g) <=> u = <<u[1], u[2]>> /\ u[1] \in D /\ u[2] \in 1 .. g[u[1]]
  BY DEF Units
<1>3. \A u : u \in Units(h) <=> u = <<u[1], u[2]>> /\ u[1] \in D /\ u[2] \in 1 .. (f[u[1]] + g[u[1]])
  BY DEF Units
<1>4. Units(h) = Units(f) \cup Rest /\ Units(f) \cap Rest = {}
  <2>1. Units(f) \subseteq Units(h)
    BY <1>1, <1>3
  <2>2. \A u \in Units(h) : u \in Units(f) <=> ~(u[2] > f[u[1]])
    BY <1>1, <1>3
  <2> QED
    BY <2>1, <2>2
<1>5. \A u \in Units(g) : m[u] \in Rest
  BY <1>2, <1>3
<1>6. \A v \in Rest : \E u \in Units(g) : m[u] = v
  <2> SUFFICES ASSUME NEW v \in Rest PROVE \E u \in Units(g) : m[u] = v
    OBVIOUS
  <2>a. PICK i \in D : \E j \in 1 .. (f[i] + g[i]) : v = <<i, j>> /\ j > f[i]
    BY <1>3
  <2>1. PICK j \in 1 .. (f[i] + g[i]) : v = <<i, j>> /\ j > f[i]
    BY <2>a
  <2>2. <<i, j - f[i]>> \in Units(g)
    BY <1>2, <2>1
  <2>3. m[<<i, j - f[i]>>] = v
    BY <2>1, <2>2
  <2> QED
    BY <2>2, <2>3
<1>7. \A u, v \in Units(g) : m[u] = m[v] => u = v
  BY <1>2
<1>8. m \in Bijection(Units(g), Rest)
  <2> HIDE DEF m
  <2>1. m \in [Units(g) -> Rest]
    BY <1>5 DEF m
  <2> QED
    BY <1>6, <1>7, <2>1 DEF Bijection, Injection, Surjection, IsInjective
<1>9. IsFiniteSet(Units(f)) /\ IsFiniteSet(Units(g))
  BY UnitsFinite
<1> HIDE DEF m, Rest, h
<1>10. IsFiniteSet(Rest) /\ Cardinality(Rest) = Cardinality(Units(g))
  BY <1>8, <1>9, FS_Bijection DEF ExistsBijection
<1>11. Total(h) = Total(f) + Total(g)
  <2>1. Cardinality(Units(f) \cup Rest) = Cardinality(Units(f)) + Cardinality(Rest) - Cardinality(Units(f) \cap Rest)
    BY <1>9, <1>10, FS_Union
  <2>2. Cardinality(Units(f) \cap Rest) = 0
    BY <1>4, FS_EmptySet
  <2> QED
    BY <1>4, <1>9, <1>10, <2>1, <2>2, FS_CardinalityType DEF Total
<1> QED
  BY <1>11 DEF h

(* A sum of smaller terms over fewer of them. *)
LEMMA SumMonotone ==
    ASSUME NEW f, NEW g, IsFiniteSet(DOMAIN g), \A i \in DOMAIN g : g[i] \in Int,
           \A i \in DOMAIN f : f[i] \in Int,
           \A i \in DOMAIN f : f[i] > 0 => i \in DOMAIN g /\ f[i] <= g[i]
    PROVE  Total(f) <= Total(g)
<1>1. Units(f) \subseteq Units(g)
  BY DEF Units
<1> QED
  BY <1>1, UnitsFinite, FS_Subset DEF Total

-----------------------------------------------------------------------------
(* What a set of coins is worth. *)

(* Finitely many coins are worth a natural number. *)
LEMMA ValueOfType ==
    ASSUME NEW S, IsFiniteSet(S), S \subseteq OutPoint
    PROVE  ValueOf(S) \in Nat
<1> DEFINE f == [o \in S |-> Value(o)]
<1>1. DOMAIN f = S /\ \A o \in DOMAIN f : f[o] \in Int
  BY ValueType
<1> HIDE DEF f
<1>2. Total(f) \in Nat
  BY <1>1, SumType
<1> QED
  BY <1>2 DEF ValueOf, f

(* Only the coins that carry value count. *)
LEMMA ValueOfMonotone ==
    ASSUME NEW S, NEW T, IsFiniteSet(T), T \subseteq OutPoint,
           S \subseteq OutPoint, Positive(S) \subseteq T
    PROVE  ValueOf(S) <= ValueOf(T)
<1> DEFINE f == [o \in S |-> Value(o)]
           g == [o \in T |-> Value(o)]
<1>1. /\ DOMAIN f = S /\ \A o \in DOMAIN f : f[o] \in Int
      /\ DOMAIN g = T /\ \A o \in DOMAIN g : g[o] \in Int
  BY ValueType
<1>2. \A o \in DOMAIN f : f[o] > 0 => o \in DOMAIN g /\ f[o] <= g[o]
  BY ValueType DEF Positive
<1> HIDE DEF f, g
<1>3. Total(f) <= Total(g)
  BY <1>1, <1>2, SumMonotone
<1> QED
  BY <1>3 DEF ValueOf, f, g

(* Coins in sets that share no value are worth what the sets are worth. *)
LEMMA ValueOfFamily ==
    ASSUME NEW D, IsFiniteSet(D), NEW X, DOMAIN X = D,
           \A k \in D : IsFiniteSet(X[k]) /\ X[k] \subseteq OutPoint
    PROVE  /\ IsFiniteSet(UNION {X[k] : k \in D})
           /\ UNION {X[k] : k \in D} \subseteq OutPoint
           /\ ValueOf(UNION {X[k] : k \in D}) <= Total([k \in D |-> ValueOf(X[k])])
           /\ (\A k, l \in D : k # l => Positive(X[k] \cap X[l]) = {})
                 => ValueOf(UNION {X[k] : k \in D}) = Total([k \in D |-> ValueOf(X[k])])
<1> DEFINE W(S) == [o \in S |-> Value(o)]
           Y == [k \in D |-> Units(W(X[k]))]
           S0 == UNION {X[k] : k \in D}
<1>1. \A S : /\ DOMAIN W(S) = S
             /\ S \subseteq OutPoint => \A o \in S : W(S)[o] \in Int
  BY ValueType
<1>2. \A S : ValueOf(S) = Cardinality(Units(W(S)))
  BY DEF ValueOf, Total
<1>3. \A S, u : u \in Units(W(S)) <=> u = <<u[1], u[2]>> /\ u[1] \in S /\ u[2] \in 1 .. Value(u[1])
  BY DEF Units
<1> HIDE DEF W
<1>4. DOMAIN Y = D /\ \A k \in D : IsFiniteSet(Y[k])
  BY <1>1, UnitsFinite
<1>5. Units(W(S0)) = UNION {Y[k] : k \in D}
  <2>1. \A u : u \in Units(W(S0)) <=> \E k \in D : u \in Units(W(X[k]))
    BY <1>3
  <2> QED
    BY <2>1
<1>6. ASSUME \A k, l \in D : k # l => Positive(X[k] \cap X[l]) = {}
      PROVE  \A k, l \in D : k # l => Y[k] \cap Y[l] = {}
  <2> SUFFICES ASSUME NEW k \in D, NEW l \in D, k # l, NEW u \in Units(W(X[k])),
                      u \in Units(W(X[l]))
               PROVE  FALSE
    BY DEF Y
  <2>1. u[1] \in X[k] \cap X[l] /\ u[2] \in 1 .. Value(u[1])
    BY <1>3
  <2>2. Value(u[1]) \in Int
    BY <2>1, ValueType
  <2>3. Value(u[1]) > 0
    BY <2>1, <2>2
  <2>4. Positive(X[k] \cap X[l]) = {}
    BY <1>6
  <2> QED
    BY <2>1, <2>3, <2>4 DEF Positive
<1>7. [k \in D |-> Cardinality(Y[k])] = [k \in D |-> ValueOf(X[k])]
  BY <1>2
<1> HIDE DEF Y
<1>9. /\ Cardinality(UNION {Y[k] : k \in D}) <= Total([k \in D |-> Cardinality(Y[k])])
      /\ (\A k, l \in D : k # l => Y[k] \cap Y[l] = {})
            => Cardinality(UNION {Y[k] : k \in D}) = Total([k \in D |-> Cardinality(Y[k])])
  BY <1>4, SumOfSizes
<1>10. IsFiniteSet(S0)
  <2>1. \A k \in D : IsFiniteSet(X[k])
    OBVIOUS
  <2>2. /\ IsFiniteSet(UNION {X[k] : k \in D})
        /\ Cardinality(UNION {X[k] : k \in D}) <= Total([k \in D |-> Cardinality(X[k])])
    BY <2>1, SumOfSizes
  <2> QED
    BY <2>2
<1>11. ValueOf(S0) = Cardinality(UNION {Y[k] : k \in D})
  BY <1>2, <1>5
<1> QED
  BY <1>6, <1>7, <1>9, <1>10, <1>11

(* Families that share no coin that carries value: the case of equality. *)
LEMMA ValueOfDisjointFamily ==
    ASSUME NEW D, IsFiniteSet(D), NEW X, DOMAIN X = D,
           \A k \in D : IsFiniteSet(X[k]) /\ X[k] \subseteq OutPoint,
           \A k, l \in D : k # l => Positive(X[k] \cap X[l]) = {}
    PROVE  ValueOf(UNION {X[k] : k \in D}) = Total([k \in D |-> ValueOf(X[k])])
  BY ValueOfFamily

(* Two sets of coins. *)
LEMMA ValueOfUnion ==
    ASSUME NEW S, NEW T, IsFiniteSet(S), IsFiniteSet(T), S \subseteq OutPoint, T \subseteq OutPoint
    PROVE  /\ ValueOf(S \cup T) <= ValueOf(S) + ValueOf(T)
           /\ Positive(S \cap T) = {} => ValueOf(S \cup T) = ValueOf(S) + ValueOf(T)
<1> DEFINE W(R) == [o \in R |-> Value(o)]
<1>1. \A R : /\ DOMAIN W(R) = R
             /\ R \subseteq OutPoint => \A o \in R : W(R)[o] \in Int
  BY ValueType
<1>2. \A R : ValueOf(R) = Cardinality(Units(W(R)))
  BY DEF ValueOf, Total
<1>3. \A R, u : u \in Units(W(R)) <=> u = <<u[1], u[2]>> /\ u[1] \in R /\ u[2] \in 1 .. Value(u[1])
  BY DEF Units
<1> HIDE DEF W
<1>4. IsFiniteSet(Units(W(S))) /\ IsFiniteSet(Units(W(T)))
  BY <1>1, UnitsFinite
<1>5. Units(W(S \cup T)) = Units(W(S)) \cup Units(W(T))
  BY <1>3
<1>6. ASSUME Positive(S \cap T) = {} PROVE Units(W(S)) \cap Units(W(T)) = {}
  <2> SUFFICES ASSUME NEW u \in Units(W(S)), u \in Units(W(T)) PROVE FALSE
    OBVIOUS
  <2>1. u[1] \in S \cap T /\ u[2] \in 1 .. Value(u[1])
    BY <1>3
  <2>2. Value(u[1]) > 0
    BY <2>1, ValueType
  <2> QED
    BY <1>6, <2>1, <2>2 DEF Positive
<1>7. /\ Cardinality(Units(W(S)) \cup Units(W(T)))
           = Cardinality(Units(W(S))) + Cardinality(Units(W(T)))
                - Cardinality(Units(W(S)) \cap Units(W(T)))
      /\ Cardinality(Units(W(S)) \cap Units(W(T))) \in Nat
      /\ Cardinality(Units(W(S))) \in Nat /\ Cardinality(Units(W(T))) \in Nat
  BY <1>4, FS_Union, FS_Intersection, FS_CardinalityType
<1>8. Positive(S \cap T) = {}
         => Cardinality(Units(W(S)) \cap Units(W(T))) = 0
  BY <1>6, FS_EmptySet
<1>9. Cardinality(Units(W(S \cup T)))
         = Cardinality(Units(W(S))) + Cardinality(Units(W(T)))
              - Cardinality(Units(W(S)) \cap Units(W(T)))
  BY <1>5, <1>7
<1>10. /\ ValueOf(S) = Cardinality(Units(W(S))) /\ ValueOf(T) = Cardinality(Units(W(T)))
       /\ ValueOf(S \cup T) = Cardinality(Units(W(S \cup T)))
  BY <1>2
<1>11. \A a, b, c \in Nat : a + b - c <= a + b /\ (c = 0 => a + b - c = a + b)
  OBVIOUS
<1> QED
  <2> DEFINE a == Cardinality(Units(W(S)))
             b == Cardinality(Units(W(T)))
             c == Cardinality(Units(W(S)) \cap Units(W(T)))
  <2>1. /\ a \in Nat /\ b \in Nat /\ c \in Nat /\ ValueOf(S) = a /\ ValueOf(T) = b
        /\ ValueOf(S \cup T) = a + b - c /\ (Positive(S \cap T) = {} => c = 0)
    BY <1>7, <1>8, <1>9, <1>10
  <2> HIDE DEF a, b, c
  <2> QED
    BY <1>11, <2>1

-----------------------------------------------------------------------------
(* What a transaction and a coinbase are worth. *)

(* The coins a list names, each once. *)
LEMMA ValueOfList ==
    ASSUME NEW D, IsFiniteSet(D), NEW r, DOMAIN r = D,
           \A i \in D : r[i] \in OutPoint,
           \A i, j \in D : r[i] = r[j] => i = j
    PROVE  /\ ValueOf({r[i] : i \in D}) = Total([i \in D |-> Value(r[i])])
           /\ IsFiniteSet({r[i] : i \in D})
<1> DEFINE S == {r[i] : i \in D}
           f == [i \in D |-> Value(r[i])]
           g == [o \in S |-> Value(o)]
           q == [i \in D |-> r[i]]
<1>1. /\ DOMAIN f = D /\ \A i \in DOMAIN f : f[i] \in Int
      /\ DOMAIN g = S
  BY ValueType
<1>2. /\ q \in [D -> S]
      /\ \A i, j \in D : q[i] = q[j] => i = j
      /\ \A d \in S : \E i \in D : q[i] = d
      /\ \A i \in D : g[q[i]] = f[i]
  OBVIOUS
<1>3. q \in Surjection(D, S)
  <2> HIDE DEF q, S
  <2> QED
    BY <1>2 DEF Surjection
<1>4. IsFiniteSet(S)
  <2> HIDE DEF q, S
  <2> QED
    BY <1>3, FS_Surjection
<1>5. Total(g) = Total(f)
  <2> HIDE DEF f, g, q, S
  <2> QED
    BY <1>1, <1>2, SumRenamed
<1> QED
  BY <1>4, <1>5 DEF ValueOf

(* The inputs of a transaction, if none is listed twice, are worth what
   GetValue::get_value adds up for them. *)
LEMMA ValueOfInputs ==
    ASSUME NEW t \in Tx, Inputs(t) \subseteq OutPoint,
           \A i, j \in DOMAIN TxInputs[t] : TxInputs[t][i] = TxInputs[t][j] => i = j
    PROVE  ValueOf(Inputs(t)) = ValueIn(t) /\ IsFiniteSet(Inputs(t))
<1> DEFINE D == DOMAIN TxInputs[t]
           r == TxInputs[t]
<1>1. IsFiniteSet(D) /\ DOMAIN r = D /\ \A i \in D : r[i] \in OutPoint
  BY TxAssumption, ListFinite DEF Inputs
<1> HIDE DEF D, r
<1>2. /\ ValueOf({r[i] : i \in D}) = Total([i \in D |-> Value(r[i])])
      /\ IsFiniteSet({r[i] : i \in D})
  <2>1. \A i, j \in D : r[i] = r[j] => i = j
    BY DEF D, r
  <2> QED
    BY <1>1, <2>1, ValueOfList
<1> QED
  BY <1>2 DEF ValueIn, Inputs, D, r

(* The outputs of a transaction are different coins. *)
LEMMA ValueOfOutputs ==
    ASSUME NEW t \in Tx
    PROVE  /\ ValueOf(TxOutPoints(t)) = ValueOut(t) /\ IsFiniteSet(TxOutPoints(t))
           /\ TxOutPoints(t) \subseteq OutPoint
<1> DEFINE D == DOMAIN TxOutputs[t]
           r == [i \in D |-> Regular(t, i)]
<1>1. TxOutPoints(t) \subseteq OutPoint
  BY DEF OutPoint
<1>2. /\ IsFiniteSet(D) /\ DOMAIN r = D /\ \A i \in D : r[i] \in OutPoint
      /\ \A i, j \in D : r[i] = r[j] => i = j
  BY <1>1, TxAssumption, ListFinite DEF TxOutPoints, Regular, IsOutputs
<1>3. \A i \in D : Value(r[i]) = TxOutputs[t][i].value
  BY DEF Value, OutputOf, Regular
<1>4. TxOutPoints(t) = {r[i] : i \in D}
  BY DEF TxOutPoints
<1>5. ValueOut(t) = Total([i \in D |-> Value(r[i])])
  <2>1. [i \in D |-> Value(r[i])] = [i \in D |-> TxOutputs[t][i].value]
    BY <1>3
  <2> QED
    BY <2>1 DEF ValueOut
<1> HIDE DEF D, r
<1>6. /\ ValueOf({r[i] : i \in D}) = Total([i \in D |-> Value(r[i])])
      /\ IsFiniteSet({r[i] : i \in D})
  BY <1>2, ValueOfList
<1> QED
  BY <1>1, <1>4, <1>5, <1>6

(* So are those of a coinbase. *)
LEMMA ValueOfCoinbase ==
    ASSUME NEW b \in Body
    PROVE  /\ ValueOf(CoinbaseOutPoints(b)) = CoinbaseValue(b) /\ IsFiniteSet(CoinbaseOutPoints(b))
           /\ CoinbaseOutPoints(b) \subseteq OutPoint
<1> DEFINE D == DOMAIN b.coinbase
           r == [i \in D |-> Coinbase(MerkleRoot(b), i)]
<1>1. CoinbaseOutPoints(b) \subseteq OutPoint
  BY DEF OutPoint
<1>2. /\ IsFiniteSet(D) /\ DOMAIN r = D /\ \A i \in D : r[i] \in OutPoint
      /\ \A i, j \in D : r[i] = r[j] => i = j
  BY <1>1, BodyAssumption, ListFinite DEF CoinbaseOutPoints, Coinbase, IsOutputs
<1>3. \A i \in D : Value(r[i]) = b.coinbase[i].value
  BY DEF Value, OutputOf, Coinbase, MerkleRoot
<1>4. CoinbaseOutPoints(b) = {r[i] : i \in D}
  BY DEF CoinbaseOutPoints
<1>5. CoinbaseValue(b) = Total([i \in D |-> Value(r[i])])
  <2>1. [i \in D |-> Value(r[i])] = [i \in D |-> b.coinbase[i].value]
    BY <1>3
  <2> QED
    BY <2>1 DEF CoinbaseValue
<1> HIDE DEF D, r
<1>6. /\ ValueOf({r[i] : i \in D}) = Total([i \in D |-> Value(r[i])])
      /\ IsFiniteSet({r[i] : i \in D})
  BY <1>2, ValueOfList
<1> QED
  BY <1>1, <1>4, <1>5, <1>6

-----------------------------------------------------------------------------
(* The collection fails only over the limits. *)

(* At most n terms of at most w each. *)
LEMMA SumBounded ==
    ASSUME NEW n \in Nat, NEW w \in Nat, NEW f, DOMAIN f \subseteq 1 .. n,
           \A i \in DOMAIN f : f[i] \in 0 .. w
    PROVE  Total(f) <= n * w
<1> DEFINE g == [i \in 1 .. n |-> w]
<1>1. DOMAIN g = 1 .. n /\ \A i \in DOMAIN g : g[i] = w
  OBVIOUS
<1>2. Units(g) = (1 .. n) \X (1 .. w)
  BY DEF Units
<1>3. \A m \in Nat : IsFiniteSet(1 .. m) /\ Cardinality(1 .. m) = m
  <2> TAKE m \in Nat
  <2>1. IsFiniteSet(1 .. m) /\ Cardinality(1 .. m) = IF 1 > m THEN 0 ELSE m - 1 + 1
    BY FS_Interval
  <2> QED
    BY <2>1
<1>4. Total(g) = n * w
  <2> DEFINE S == 1 .. n
             T == 1 .. w
  <2>1. IsFiniteSet(S) /\ Cardinality(S) = n /\ IsFiniteSet(T) /\ Cardinality(T) = w
    BY <1>3
  <2>2. Total(g) = Cardinality(S \X T)
    BY <1>2 DEF Total
  <2> HIDE DEF S, T, g
  <2>3. Cardinality(S \X T) = Cardinality(S) * Cardinality(T)
    BY <2>1, FS_Product
  <2> QED
    BY <2>1, <2>2, <2>3
<1> HIDE DEF g
<1>5. Total(f) <= Total(g)
  BY <1>1, <1>3, SumMonotone
<1> QED
  BY <1>4, <1>5

(* A bundle of MAX_BUNDLE_OUTPUTS outputs, none heavier than OUTPUT_WEIGHT, is
   within the weight limit: that is what the constant is computed for. *)
LEMMA LightBundle ==
    ASSUME NEW U, NEW h, NEW c \in Candidates(U, h), ~OverLimits(c)
    PROVE  Accepted(c)
<1> DEFINE A == {Aggregated(U, a) : a \in Destinations(U)}
           outputs == BundleOutputs(c.bundle)
           f == [i \in DOMAIN outputs |-> ScriptWeight[outputs[i].main_address]]
<1>1. PICK s \in SortOutcomes(A) :
          \E k : c = [bundle |-> Bundle(Taken(s), k, h), fits |-> BundleFits(Taken(s), U)]
  BY Zenon DEF Candidates
<1>2. s \in SetToSeqs(A)
  BY DEF SortOutcomes
<1>3. DOMAIN s = 1 .. Cardinality(A)
  <2> HIDE DEF A
  <2> QED
    BY <1>2 DEF SetToSeqs
<1>4. DOMAIN outputs = DOMAIN Taken(s)
  BY <1>1 DEF BundleOutputs, Bundle
<1>5. \A i \in DOMAIN outputs : i \in Int /\ 1 <= i
  <2> HIDE DEF A, outputs
  <2> QED
    BY <1>3, <1>4 DEF Taken
<1>6. \A i \in DOMAIN outputs :
          i <= MaxBundleOutputs /\ ScriptWeight[outputs[i].main_address] \in 0 .. OutputWeight
  <2>1. MaxBundleOutputs \in Int
    BY WeightAssumption DEF MaxBundleOutputs
  <2> QED
    BY <1>5, <2>1 DEF OverLimits
<1>7. /\ MaxBundleOutputs \in Nat
      /\ MaxBundleOutputs * OutputWeight <= MaxTxWeight - Bundle0Weight
  BY WeightAssumption DEF MaxBundleOutputs
<1>8. DOMAIN f \subseteq 1 .. MaxBundleOutputs /\ \A i \in DOMAIN f : f[i] \in 0 .. OutputWeight
  <2> HIDE DEF outputs
  <2> QED
    BY <1>5, <1>6, <1>7
<1>9. Weight(c.bundle) = Bundle0Weight + Total(f)
  BY DEF Weight
<1> HIDE DEF f, outputs
<1>10. Total(f) <= MaxBundleOutputs * OutputWeight
  BY <1>7, <1>8, SumBounded, WeightAssumption
<1>11. IsFiniteSet(DOMAIN f) /\ \A i \in DOMAIN f : f[i] \in Int
  BY <1>7, <1>8, FS_Interval, FS_Subset
<1>12. Total(f) \in Nat
  BY <1>11, SumType
<1>13. Weight(c.bundle) <= MaxTxWeight
  BY <1>7, <1>9, <1>10, <1>12, WeightAssumption
<1>14. c.fits
  BY DEF OverLimits
<1> QED
  BY <1>13, <1>14 DEF Accepted

(* So a collection that fails has come upon a bundle over the limits. *)
LEMMA FailsOverLimits ==
    ASSUME NEW U, CollectionMayFail(U)
    PROVE  CollectionOverLimits(U)
  BY LightBundle DEF CollectionMayFail, CollectionOverLimits

-----------------------------------------------------------------------------
(* Bundles pay the owners of the coins they take. *)

PaysItsOwners(b) ==
    LET outputs == BundleOutputs(b)
    IN  /\ \A i, j \in DOMAIN outputs :
              outputs[i].main_address = outputs[j].main_address => i = j
        /\ {outputs[i].main_address : i \in DOMAIN outputs} = Destinations(b.spent_utxos)
        /\ \A i \in DOMAIN outputs :
              outputs[i].value = ValueOf(CoinsTo(b.spent_utxos, outputs[i].main_address))

(* A bundle that collect_withdrawal_bundle makes has one output for each
   destination, with the value of the withdrawals to it. *)
LEMMA NewBundlePays ==
    ASSUME OverflowChecks, NEW U, IsFiniteSet(U), U \subseteq OutPoint, NEW h, NEW b \in Bundles(U, h)
    PROVE  PaysItsOwners(b) /\ IsFiniteSet(DOMAIN BundleOutputs(b))
<1> DEFINE A == {Aggregated(U, a) : a \in Destinations(U)}
           outputs == BundleOutputs(b)
<1>1. PICK x \in Candidates(U, h) : b = x.bundle /\ x.fits
  BY DEF Bundles, Accepted
<1>2. PICK s \in SortOutcomes(A) :
          \E k : x = [bundle |-> Bundle(Taken(s), k, h), fits |-> BundleFits(Taken(s), U)]
  BY <1>1, Zenon DEF Candidates
<1>3. s \in SetToSeqs(A)
  BY DEF SortOutcomes
<1>4. IsFiniteSet(A)
  <2>1. Destinations(U) = {MainAddress(o) : o \in Withdrawals(U)} /\ IsFiniteSet(Withdrawals(U))
    BY FS_Subset DEF Destinations, Withdrawals
  <2>2. IsFiniteSet(Destinations(U))
    <3> DEFINE W == Withdrawals(U)
               T == {MainAddress(o) : o \in W}
               g == [o \in W |-> MainAddress(o)]
    <3>1. g \in Surjection(W, T)
      BY DEF Surjection
    <3> HIDE DEF g, T, W
    <3>2. IsFiniteSet(T)
      BY <2>1, <3>1, FS_Surjection DEF W
    <3> QED
      BY <2>1, <3>2 DEF T, W
  <2> DEFINE D == Destinations(U)
             g == [a \in D |-> Aggregated(U, a)]
  <2>3. g \in Surjection(D, A)
    BY DEF Surjection
  <2> HIDE DEF g, A, D
  <2> QED
    BY <2>2, <2>3, FS_Surjection DEF D
<1>5. /\ \A i \in DOMAIN s : s[i] \in A
      /\ \A i, j \in DOMAIN s : s[i] = s[j] => i = j
      /\ IsFiniteSet(DOMAIN s)
  <2> HIDE DEF A
  <2>1. Cardinality(A) \in Nat
    BY <1>4, FS_CardinalityType
  <2>2. DOMAIN s = 1 .. Cardinality(A)
    BY <1>3 DEF SetToSeqs
  <2>3. IsFiniteSet(1 .. Cardinality(A))
    BY <2>1, FS_Interval
  <2> QED
    BY <1>3, <2>2, <2>3 DEF SetToSeqs
<1> DEFINE D == DOMAIN Taken(s)
<1>6. /\ D \subseteq DOMAIN s /\ \A i \in D : Taken(s)[i] = s[i]
      /\ IsFiniteSet(D)
  <2>1. D \subseteq DOMAIN s /\ \A i \in D : Taken(s)[i] = s[i]
    BY DEF Taken
  <2> QED
    BY <1>5, <2>1, FS_Subset
<1>7. /\ outputs = [i \in D |-> [value |-> Taken(s)[i].value, main_address |-> Taken(s)[i].main_address]]
      /\ b.spent_utxos = UNION {Taken(s)[i].spent_utxos : i \in D}
  <2>1. PICK k : b = Bundle(Taken(s), k, h)
    BY <1>1, <1>2
  <2>2. b.transaction.outputs = [i \in D |-> [value        |-> Taken(s)[i].value,
                                              main_address |-> Taken(s)[i].main_address]]
    BY <2>1 DEF Bundle
  <2>3. b.spent_utxos = UNION {Taken(s)[i].spent_utxos : i \in D}
    BY <2>1 DEF Bundle
  <2> QED
    BY <2>2, <2>3 DEF BundleOutputs
<1>8. BundleFits(Taken(s), U)
  BY <1>1, <1>2
<1>9. \A i \in D : \E a \in Destinations(U) : Taken(s)[i] = Aggregated(U, a)
  BY <1>5, <1>6
<1>10. \A a : /\ Aggregated(U, a).main_address = a
              /\ Aggregated(U, a).value = Wrap(ValueOf(CoinsTo(U, a)))
              /\ Aggregated(U, a).spent_utxos = CoinsTo(U, a)
  BY DEF Aggregated
<1>11. \A a \in Destinations(U) : Wrap(ValueOf(CoinsTo(U, a))) = ValueOf(CoinsTo(U, a))
  <2> SUFFICES ASSUME NEW a \in Destinations(U) PROVE Wrap(ValueOf(CoinsTo(U, a))) = ValueOf(CoinsTo(U, a))
    OBVIOUS
  <2>1. CoinsTo(U, a) \subseteq U
    BY DEF CoinsTo, Withdrawals
  <2>2. ValueOf(CoinsTo(U, a)) \in Nat
    BY <2>1, FS_Subset, ValueOfType
  <2> QED
    BY <1>8, <2>2, WrapFitting DEF BundleFits
<1> DEFINE to(i) == Taken(s)[i].main_address
<1>12. ASSUME NEW i \in D
       PROVE  /\ to(i) \in Destinations(U)
              /\ Taken(s)[i] = Aggregated(U, to(i))
              /\ Taken(s)[i].spent_utxos = CoinsTo(U, to(i))
              /\ outputs[i].main_address = to(i)
              /\ outputs[i].value = ValueOf(CoinsTo(U, to(i)))
  <2>1. PICK a \in Destinations(U) : Taken(s)[i] = Aggregated(U, a)
    BY <1>9
  <2>2. to(i) = a
    BY <1>10, <2>1
  <2>3. outputs[i].main_address = to(i) /\ outputs[i].value = Taken(s)[i].value
    BY <1>7
  <2> HIDE DEF to, outputs
  <2> QED
    BY <1>10, <1>11, <2>1, <2>2, <2>3
<1>13. DOMAIN outputs = D
  BY <1>7
<1> HIDE DEF to, outputs, A, D
<1>14. \A i, j \in D : to(i) = to(j) => i = j
  BY <1>5, <1>6, <1>12
<1>15. \A o : o \in b.spent_utxos <=> \E i \in D : o \in CoinsTo(U, to(i))
  BY <1>7, <1>12
<1>16. \A o, a : o \in CoinsTo(U, a) <=> o \in U /\ IsWithdrawal(o) /\ MainAddress(o) = a
  BY DEF CoinsTo, Withdrawals
<1>17. \A o, a : o \in CoinsTo(b.spent_utxos, a) <=> o \in b.spent_utxos /\ IsWithdrawal(o) /\ MainAddress(o) = a
  BY DEF CoinsTo, Withdrawals
<1>18. \A i \in D : CoinsTo(b.spent_utxos, to(i)) = CoinsTo(U, to(i))
  <2> SUFFICES ASSUME NEW i \in D
               PROVE  \A o : o \in CoinsTo(b.spent_utxos, to(i)) <=> o \in CoinsTo(U, to(i))
    BY Zenon
  <2> QED
    BY <1>15, <1>16, <1>17
<1>19. {outputs[i].main_address : i \in D} = Destinations(b.spent_utxos)
  <2>1. ASSUME NEW i \in D PROVE to(i) \in Destinations(b.spent_utxos)
    <3>1. PICK o \in CoinsTo(U, to(i)) : TRUE
      BY <1>12 DEF Destinations, CoinsTo
    <3> QED
      BY <1>15, <1>16, <3>1 DEF Destinations, Withdrawals
  <2>2. ASSUME NEW a \in Destinations(b.spent_utxos) PROVE \E i \in D : a = to(i)
    BY <1>15, <1>16 DEF Destinations, Withdrawals
  <2> QED
    BY <1>12, <2>1, <2>2
<1>20. PaysItsOwners(b)
  BY <1>12, <1>13, <1>14, <1>18, <1>19 DEF PaysItsOwners, outputs
<1> QED
  BY <1>6, <1>13, <1>20 DEF outputs, D

-----------------------------------------------------------------------------
(* A block makes no more value than it spends and is credited. *)

(* A body that is valid makes no value: no input is spent twice in it, each
   transaction has its fee, and the coinbase takes no more than the fees. *)
LEMMA BodyKeepsValue ==
    ASSUME OverflowChecks, TypeInv, NEW b \in Body, ValidBody(b)
    PROVE  /\ IsFiniteSet(Connected(b)) /\ IsFiniteSet(NewOutputs(b))
           /\ ValueOf(NewOutputs(b)) <= ValueOf(Connected(b))
<1> DEFINE txs == b.transactions
           D   == DOMAIN txs
           X   == [k \in D |-> Inputs(txs[k])]
           Y   == [k \in D |-> TxOutPoints(txs[k])]
           in  == [k \in D |-> ValueIn(txs[k])]
           out == [k \in D |-> ValueOut(txs[k])]
           fee == [k \in D |-> Fee(txs[k])]
           made == UNION {Y[k] : k \in D}
<1>1. IsFiniteSet(D)
  <2>1. IsList(txs)
    BY BodyAssumption DEF IsList
  <2> QED
    BY <2>1, ListFinite
<1>2. ASSUME NEW k \in D
      PROVE  /\ IsFiniteSet(X[k]) /\ X[k] \subseteq OutPoint /\ ValueOf(X[k]) = in[k]
             /\ IsFiniteSet(Y[k]) /\ Y[k] \subseteq OutPoint /\ ValueOf(Y[k]) = out[k]
             /\ in[k] \in Nat /\ out[k] \in Nat /\ fee[k] \in Nat /\ in[k] = fee[k] + out[k]
  <2>1. /\ txs[k] \in Tx /\ Inputs(txs[k]) \subseteq OutPoint /\ ValidTransaction(txs[k])
        /\ \A i, j \in DOMAIN TxInputs[txs[k]] :
              TxInputs[txs[k]][i] = TxInputs[txs[k]][j] => i = j
    BY BodyOutPoints DEF ValidBody, InputsExist, TypeInv, NoDoubleSpend
  <2>2. /\ ValueOf(Inputs(txs[k])) = ValueIn(txs[k]) /\ IsFiniteSet(Inputs(txs[k]))
        /\ ValueOf(TxOutPoints(txs[k])) = ValueOut(txs[k]) /\ IsFiniteSet(TxOutPoints(txs[k]))
        /\ TxOutPoints(txs[k]) \subseteq OutPoint
    BY <2>1, ValueOfInputs, ValueOfOutputs
  <2>3. ValueIn(txs[k]) \in Nat /\ ValueOut(txs[k]) \in Nat
    BY <2>1, ValueSums
  <2>4. Wrap(ValueIn(txs[k])) = ValueIn(txs[k]) /\ Wrap(ValueOut(txs[k])) = ValueOut(txs[k])
    BY <2>1, <2>3, WrapFitting DEF ValidTransaction
  <2>5. fee[k] = ValueIn(txs[k]) - ValueOut(txs[k]) /\ ValueOut(txs[k]) <= ValueIn(txs[k])
    BY <2>1, <2>4 DEF ValidTransaction, Fee
  <2> QED
    BY <2>1, <2>2, <2>3, <2>5
<1>3. \A k, l \in D : k # l => Positive(X[k] \cap X[l]) = {}
  <2> SUFFICES ASSUME NEW k \in D, NEW l \in D, k # l,
                      NEW o \in Inputs(txs[k]), o \in Inputs(txs[l])
               PROVE  FALSE
    BY DEF Positive
  <2>1. PICK i \in DOMAIN TxInputs[txs[k]] : o = TxInputs[txs[k]][i]
    BY DEF Inputs
  <2>2. PICK j \in DOMAIN TxInputs[txs[l]] : o = TxInputs[txs[l]][j]
    BY DEF Inputs
  <2> QED
    BY <2>1, <2>2 DEF ValidBody, NoDoubleSpend
<1>4. /\ Connected(b) = UNION {X[k] : k \in D}
      /\ NewOutputs(b) = CoinbaseOutPoints(b) \cup made
  BY DEF Connected, NewOutputs
<1>5. TotalFees(b) = Total(fee)
  BY DEF TotalFees
<1>6. DOMAIN X = D /\ DOMAIN Y = D /\ DOMAIN in = D /\ DOMAIN out = D /\ DOMAIN fee = D
  OBVIOUS
<1>7. in \in [D -> Nat] /\ out \in [D -> Nat] /\ fee \in [D -> Nat]
  BY <1>2
<1>8. in = [k \in D |-> fee[k] + out[k]]
  BY <1>2
<1>9. [k \in D |-> ValueOf(X[k])] = in /\ [k \in D |-> ValueOf(Y[k])] = out
  BY <1>2
<1> HIDE DEF D, X, Y, in, out, fee
<1>10. /\ IsFiniteSet(Connected(b))
       /\ ValueOf(Connected(b)) = Total(in)
  <2>1. \A k \in D : IsFiniteSet(X[k]) /\ X[k] \subseteq OutPoint
    BY <1>2
  <2>2. /\ IsFiniteSet(UNION {X[k] : k \in D})
        /\ UNION {X[k] : k \in D} \subseteq OutPoint
        /\ ValueOf(UNION {X[k] : k \in D}) <= Total([k \in D |-> ValueOf(X[k])])
    BY <1>1, <1>6, <2>1, ValueOfFamily
  <2>3. ValueOf(UNION {X[k] : k \in D}) = Total([k \in D |-> ValueOf(X[k])])
    BY <1>1, <1>3, <1>6, <2>1, ValueOfDisjointFamily
  <2> QED
    BY <1>4, <1>9, <2>2, <2>3
<1>11. /\ IsFiniteSet(made) /\ made \subseteq OutPoint
       /\ ValueOf(made) <= Total(out)
  <2>1. /\ IsFiniteSet(UNION {Y[k] : k \in D})
        /\ UNION {Y[k] : k \in D} \subseteq OutPoint
        /\ ValueOf(UNION {Y[k] : k \in D}) <= Total([k \in D |-> ValueOf(Y[k])])
    BY <1>1, <1>2, <1>6, ValueOfFamily
  <2> QED
    BY <1>9, <2>1
<1>12. Total(in) = Total(fee) + Total(out)
  BY <1>1, <1>7, <1>8, SumAdds
<1>13. Total(in) \in Nat /\ Total(fee) \in Nat /\ Total(out) \in Nat
  BY <1>1, <1>6, <1>7, SumType
<1>14. /\ ValueOf(CoinbaseOutPoints(b)) = CoinbaseValue(b) /\ IsFiniteSet(CoinbaseOutPoints(b))
       /\ CoinbaseOutPoints(b) \subseteq OutPoint
  BY ValueOfCoinbase
<1> HIDE DEF made
<1>15. CoinbaseValue(b) \in Nat /\ ValueOf(made) \in Nat
  BY <1>11, <1>14, ValueOfType
<1>16. CoinbaseValue(b) <= Total(fee)
  <2>1. Fits(CoinbaseValue(b)) /\ Fits(Total(fee)) /\ Wrap(CoinbaseValue(b)) <= Wrap(Total(fee))
    BY <1>5 DEF ValidBody, ValidFees
  <2> QED
    BY <1>13, <1>15, <2>1, WrapFitting
<1>17. /\ IsFiniteSet(NewOutputs(b))
       /\ ValueOf(NewOutputs(b)) <= CoinbaseValue(b) + ValueOf(made)
       /\ ValueOf(NewOutputs(b)) \in Nat
  <2> DEFINE C == CoinbaseOutPoints(b)
  <2>1. IsFiniteSet(C) /\ C \subseteq OutPoint /\ ValueOf(C) = CoinbaseValue(b)
    BY <1>14
  <2>2. NewOutputs(b) = C \cup made
    BY <1>4
  <2> HIDE DEF C
  <2>3. ValueOf(C \cup made) <= ValueOf(C) + ValueOf(made)
    BY <1>11, <2>1, ValueOfUnion
  <2>4. IsFiniteSet(C \cup made)
    BY <1>11, <2>1, FS_Union
  <2>5. ValueOf(C \cup made) \in Nat
    BY <1>11, <2>1, <2>4, ValueOfType
  <2> QED
    BY <2>1, <2>2, <2>3, <2>4, <2>5
<1> QED
  BY <1>10, <1>11, <1>12, <1>13, <1>15, <1>16, <1>17

(* The coins that deposits make are worth no more than what is credited. *)
LEMMA CreditsCoverDeposits ==
    ASSUME credited \in [DOMAIN DepositLog -> Nat], NEW end,
           CreditDeposits(last_deposit_block, end)
    PROVE  /\ IsFiniteSet(NewDepositsOf(end)) /\ NewDepositsOf(end) \subseteq OutPoint
           /\ Total(credited) \in Nat /\ Total(credited') \in Nat
           /\ Total(credited) + ValueOf(NewDepositsOf(end)) <= Total(credited')
<1> DEFINE D   == DOMAIN DepositLog
           new == DepositOutputs(DepositLog, last_deposit_block, end)
           worth(i) == DepositValue(DepositLog, last_deposit_block, end, i)
           inc == [i \in D |-> IF i \in new THEN worth(i) ELSE 0]
           r   == [i \in new |-> Deposit(i)]
           f   == [i \in new |-> Value(r[i])]
<1>1. IsFiniteSet(D) /\ \A i \in D : DepositLog[i].total \in Nat
  <2>1. IsList(DepositLog)
    BY DepositLogAssumption DEF IsDepositLog, IsList
  <2>2. IsFiniteSet(D)
    BY <2>1, ListFinite
  <2> QED
    BY <2>2, DepositLogFacts
<1>2. new \subseteq D /\ IsFiniteSet(new)
  <2>1. new \subseteq D
    BY DEF DepositOutputs, NewDeposits, ListDeposits
  <2> QED
    BY <1>1, <2>1, FS_Subset
<1>3. ASSUME NEW i \in new
      PROVE  worth(i) \in Nat /\ DepositIncrement(DepositLog, i) <= worth(i)
  <2> DEFINE list == ListDeposits(DepositLog, last_deposit_block, end)
             last == LastTotal(DepositLog, list, i)
  <2>1. list \subseteq D /\ i \in D
    BY <1>2 DEF ListDeposits
  <2>2. i - 1 \in list => i # 1 /\ last = DepositLog[i - 1].total /\ last \in Nat
    <3>1. D \subseteq Nat \ {0}
      BY DepositLogAssumption DEF IsDepositLog
    <3> QED
      BY <1>1, <2>1, <3>1 DEF LastTotal
  <2>3. i - 1 \notin list => last = 0
    BY DEF LastTotal
  <2>4. TotalBefore(DepositLog, i) \in Nat /\ last <= TotalBefore(DepositLog, i)
    <3>1. i # 1 => i - 1 \in D
      BY <2>1, DepositLogAssumption DEF IsDepositLog
    <3> HIDE DEF list, last
    <3> QED
      BY <1>1, <2>2, <2>3, <3>1 DEF TotalBefore
  <2>5. DepositLog[i].total >= last
    BY DEF DepositOutputs, NewDeposits
  <2>6. worth(i) = DepositLog[i].total - last
    BY DEF DepositValue
  <2>7. last \in Nat
    <3> HIDE DEF list, last
    <3> QED
      BY <2>2, <2>3
  <2> HIDE DEF last, worth
  <2> QED
    BY <1>1, <2>1, <2>4, <2>5, <2>6, <2>7 DEF DepositIncrement
<1>4. credited' = [i \in D |-> IF i \in new THEN credited[i] + worth(i) ELSE credited[i]]
  BY DEF CreditDeposits
<1>5. inc \in [D -> Nat]
  <2> HIDE DEF worth, new
  <2> QED
    BY <1>3
<1>6. credited' = [i \in D |-> credited[i] + inc[i]]
  <2> HIDE DEF worth, new, D
  <2>1. \A i \in D : credited[i] \in Nat
    BY DEF D
  <2> QED
    BY <1>4, <2>1
<1>7. \A i \in new : r[i] \in OutPoint /\ Value(r[i]) = DepositIncrement(DepositLog, i)
  <2>1. \A i \in D : Deposit(i) \in OutPoint
    BY DEF OutPoint
  <2>2. \A i : Value(Deposit(i)) = DepositIncrement(DepositLog, i)
    BY DEF Value, OutputOf, Deposit
  <2> QED
    BY <1>2, <2>1, <2>2
<1>8. \A i, j \in new : r[i] = r[j] => i = j
  BY DEF Deposit
<1>9. NewDepositsOf(end) = {r[i] : i \in new}
  BY DEF NewDepositsOf
<1>10. DOMAIN r = new /\ DOMAIN f = new /\ \A i \in new : f[i] = DepositIncrement(DepositLog, i)
  BY <1>7
<1>11. \A i \in new : f[i] \in Int /\ inc[i] = worth(i) /\ i \in D
  BY <1>2, <1>10, DepositLogFacts
<1>12. DOMAIN inc = D
  OBVIOUS
<1>13. f = [i \in new |-> Value(r[i])]
  OBVIOUS
<1> HIDE DEF D, new, worth, inc, r, f
<1>14. /\ ValueOf(NewDepositsOf(end)) = Total(f) /\ IsFiniteSet(NewDepositsOf(end))
       /\ NewDepositsOf(end) \subseteq OutPoint
  <2>1. /\ ValueOf({r[i] : i \in new}) = Total([i \in new |-> Value(r[i])])
        /\ IsFiniteSet({r[i] : i \in new})
    BY <1>2, <1>7, <1>8, <1>10, ValueOfList
  <2> QED
    BY <1>7, <1>9, <1>13, <2>1
<1>15. Total(f) <= Total(inc)
  <2>1. \A i \in D : inc[i] \in Int
    BY <1>5
  <2>2. \A i \in DOMAIN f : f[i] \in Int /\ i \in D /\ f[i] <= inc[i]
    BY <1>3, <1>10, <1>11
  <2> QED
    BY <1>1, <1>12, <2>1, <2>2, SumMonotone
<1>16. Total(credited') = Total(credited) + Total(inc)
  BY <1>1, <1>5, <1>6, SumAdds DEF D
<1>17. Total(credited) \in Nat /\ Total(inc) \in Nat /\ Total(f) \in Nat
  <2>1. /\ DOMAIN credited = D /\ \A i \in D : credited[i] \in Int
        /\ \A i \in D : inc[i] \in Int
    BY <1>5 DEF D
  <2> QED
    BY <1>1, <1>2, <1>10, <1>11, <1>12, <2>1, SumType
<1> QED
  BY <1>14, <1>15, <1>16, <1>17

-----------------------------------------------------------------------------
(* The coins that exist, and what they are worth together. *)

Held == utxos \cup Bundled \cup Paid

FundsInv ==
    /\ IsFiniteSet(Held)
    /\ IsFiniteSet(settled)
    /\ ValueOf(Held) <= Total(credited)
    /\ \A b \in AllBundles : PaysItsOwners(b) /\ IsFiniteSet(DOMAIN BundleOutputs(b))

(* What is held are coins. *)
LEMMA HeldOutPoints == TypeInv => Held \subseteq OutPoint
<1> SUFFICES ASSUME TypeInv PROVE Held \subseteq OutPoint
  OBVIOUS
<1>1. \A b \in AllBundles : b.spent_utxos \subseteq OutPoint
  BY DEF TypeInv, Withdrawals
<1> QED
  BY <1>1 DEF TypeInv, Held, Bundled, Paid, AllBundles

(* What a block makes is a finite set of outpoints. *)
LEMMA MadeIsFinite ==
    ASSUME OverflowChecks, TypeInv, credited \in [DOMAIN DepositLog -> Nat],
           NEW b \in Body, ValidBody(b), NEW end, CreditDeposits(last_deposit_block, end)
    PROVE  IsFiniteSet(Made(b, end)) /\ Made(b, end) \subseteq OutPoint
<1>1. IsFiniteSet(NewOutputs(b)) /\ NewOutputs(b) \subseteq OutPoint
  BY BodyKeepsValue, BodyOutPoints
<1>2. IsFiniteSet(NewDepositsOf(end)) /\ NewDepositsOf(end) \subseteq OutPoint
  BY CreditsCoverDeposits
<1>3. IsFiniteSet(NewOutputs(b) \cup NewDepositsOf(end))
  BY <1>1, <1>2, FS_Union
<1> QED
  BY <1>1, <1>2, <1>3 DEF Made

(* A block takes what it spends from the unspent coins, and adds what it makes
   and the deposits; a bundle moves what is held, and a failed one moves it back. *)
LEMMA ConnectKeepsFunds ==
    ASSUME OverflowChecks, TypeInv, BundleInv, CoinInv, FundsInv, last_deposit_block \in Nat,
           credited \in [DOMAIN DepositLog -> Nat],
           NEW b \in Body, NEW end \in 1 .. MaxMainHeight, ConnectBlock(b, last_deposit_block, end)
    PROVE  FundsInv'
<1> DEFINE S    == Connected(b)
           outs == NewOutputs(b)
           deps == NewDepositsOf(end)
           kept == Held \ S
<1>1. ValidBody(b) /\ CreditDeposits(last_deposit_block, end)
  BY DEF ConnectBlock
<1>2. PICK U, taken :
          /\ taken \subseteq U /\ Settlement(U, taken)
          /\ U \subseteq utxos \cup Made(b, end)
          /\ S \subseteq utxos
          /\ \A o : Value(o) > 0 =>
                /\ o \in U => o \notin S
                /\ o \in Bundled => o \notin S
                /\ o \in S => o \notin Paid
  BY BlockMoves
<1>3. /\ IsFiniteSet(outs) /\ outs \subseteq OutPoint
      /\ IsFiniteSet(deps) /\ deps \subseteq OutPoint
      /\ IsFiniteSet(S) /\ S \subseteq OutPoint
      /\ IsFiniteSet(kept) /\ kept \subseteq OutPoint
      /\ Held = kept \cup S /\ Positive(kept \cap S) = {}
  <2>1. S \subseteq Held /\ Held \subseteq OutPoint
    BY <1>2, HeldOutPoints DEF Held
  <2>2. IsFiniteSet(S) /\ IsFiniteSet(kept)
    BY <2>1, FS_Subset DEF FundsInv
  <2> QED
    BY <1>1, <2>1, <2>2, BodyKeepsValue, BodyOutPoints, CreditsCoverDeposits DEF Positive
<1>4. Held' \subseteq U \cup Bundled \cup Paid
  BY <1>2 DEF Settlement, Held
<1>5. Held' \subseteq Held \cup outs \cup deps /\ Positive(Held') \subseteq kept \cup outs \cup deps
  BY <1>2, <1>4 DEF Held, Made, Positive
<1> HIDE DEF S, outs, deps, kept
<1>6. /\ IsFiniteSet(kept \cup outs) /\ IsFiniteSet(kept \cup outs \cup deps)
      /\ IsFiniteSet(Held \cup outs \cup deps)
  BY <1>3, FS_Union DEF FundsInv
<1>7. IsFiniteSet(Held') /\ Held' \subseteq OutPoint
  <2>1. Held \cup outs \cup deps \subseteq OutPoint
    BY <1>3, HeldOutPoints
  <2> QED
    BY <1>5, <1>6, <2>1, FS_Subset
<1>8. ValueOf(Held') <= Total(credited')
  <2>1. ValueOf(Held') <= ValueOf(kept \cup outs \cup deps)
    BY <1>3, <1>5, <1>6, <1>7, ValueOfMonotone
  <2>2. ValueOf(kept \cup outs \cup deps) <= ValueOf(kept \cup outs) + ValueOf(deps)
    BY <1>3, <1>6, ValueOfUnion
  <2>3. ValueOf(kept \cup outs) <= ValueOf(kept) + ValueOf(outs)
    BY <1>3, ValueOfUnion
  <2>4. ValueOf(Held) = ValueOf(kept) + ValueOf(S)
    BY <1>3, ValueOfUnion
  <2>5. ValueOf(outs) <= ValueOf(S)
    BY <1>1, BodyKeepsValue DEF outs, S
  <2>6. /\ Total(credited) + ValueOf(deps) <= Total(credited')
        /\ Total(credited) \in Nat /\ Total(credited') \in Nat
    BY <1>1, CreditsCoverDeposits DEF deps
  <2>7. /\ ValueOf(Held') \in Nat /\ ValueOf(kept \cup outs \cup deps) \in Nat
        /\ ValueOf(kept \cup outs) \in Nat /\ ValueOf(kept) \in Nat
        /\ ValueOf(outs) \in Nat /\ ValueOf(deps) \in Nat /\ ValueOf(S) \in Nat
    <3>1. kept \cup outs \subseteq OutPoint /\ kept \cup outs \cup deps \subseteq OutPoint
      BY <1>3
    <3> QED
      BY <1>3, <1>6, <1>7, <3>1, ValueOfType
  <2>8. ValueOf(Held) <= Total(credited)
    BY DEF FundsInv
  <2> QED
    BY <2>1, <2>2, <2>3, <2>4, <2>5, <2>6, <2>7, <2>8
<1>9. IsFiniteSet(settled')
  <2>1. settled' = settled \/ \E x : settled' = settled \cup {x}
    BY <1>2 DEF Settlement
  <2> QED
    BY <2>1, FS_AddElement DEF FundsInv
<1>10. ASSUME NEW d \in AllBundles' PROVE PaysItsOwners(d) /\ IsFiniteSet(DOMAIN BundleOutputs(d))
  <2> DEFINE V == BeforeCollection(b, last_deposit_block, end)
  <2>1. IsFiniteSet(V) /\ V \subseteq OutPoint
    <3>1. V \subseteq Held \cup Made(b, end)
      BY AfterBodyFrom DEF BeforeCollection, Made, NewDepositsOf, Held
    <3>2. /\ IsFiniteSet(Held \cup Made(b, end))
          /\ Held \cup Made(b, end) \subseteq OutPoint
      BY <1>1, MadeIsFinite, HeldOutPoints, FS_Union DEF FundsInv
    <3> HIDE DEF V
    <3> QED
      BY <3>1, <3>2, FS_Subset
  <2>2. PICK c \in AfterCollection(V) : NoAnswer(c) \/ Failed(c) \/ Confirmed(c)
    BY DEF ConnectBlock
  <2> HIDE DEF V
  <2>3. \A e \in c.pending : e \in AllBundles \/ e \in Bundles(V, height + 1)
    BY DEF AfterCollection, AllBundles
  <2>4. d \in AllBundles \/ d \in c.pending
    <3>1. \/ pending_withdrawal_bundle' = c.pending /\ settled' = settled
          \/ \E e \in c.pending, answer \in {"Failed", "Confirmed"} :
                 /\ pending_withdrawal_bundle' = {}
                 /\ settled' = settled \cup
                       {[bundle |-> e, answer |-> answer, at |-> height + 1]}
      BY <2>2, AnswerMoves
    <3> QED
      BY <1>10, <3>1 DEF AllBundles
  <2> QED
    BY <2>1, <2>3, <2>4, NewBundlePays DEF FundsInv
<1>11. \A d \in AllBundles' : PaysItsOwners(d)' /\ IsFiniteSet(DOMAIN BundleOutputs(d))'
  BY <1>10
<1> QED
  BY <1>7, <1>8, <1>9, <1>11 DEF FundsInv

(* FundsInv is inductive, with TypeInv, BundleInv and CoinInv. *)
LEMMA FundsInvariant ==
    ASSUME OverflowChecks
    PROVE  Spec => []FundsInv
<1>1. Init => FundsInv
  <2> SUFFICES ASSUME Init PROVE FundsInv
    OBVIOUS
  <2>1. Held = {} /\ settled = {} /\ AllBundles = {}
    BY DEF Init, Held, Bundled, Paid, AllBundles
  <2>2. ValueOf({}) = 0
    BY FS_EmptySet DEF ValueOf, Total, Units
  <2>3. Total(credited) \in Nat
    <3>1. IsFiniteSet(DOMAIN DepositLog)
      BY DepositLogAssumption, ListFinite DEF IsDepositLog, IsList
    <3>2. DOMAIN credited = DOMAIN DepositLog /\ \A i \in DOMAIN credited : credited[i] \in Int
      BY DEF Init
    <3> QED
      BY <3>1, <3>2, SumType
  <2> QED
    BY <2>1, <2>2, <2>3, FS_EmptySet DEF FundsInv
<1>2. /\ TypeInv /\ BundleInv /\ CoinInv /\ FundsInv /\ [Next]_vars
      /\ last_deposit_block \in Nat /\ credited \in [DOMAIN DepositLog -> Nat]
      => FundsInv'
  <2> SUFFICES ASSUME TypeInv, BundleInv, CoinInv, FundsInv, [Next]_vars,
                      last_deposit_block \in Nat, credited \in [DOMAIN DepositLog -> Nat]
               PROVE  FundsInv'
    OBVIOUS
  <2>1. CASE Next
    BY <2>1, ConnectKeepsFunds DEF Next
  <2>2. CASE UNCHANGED vars
    BY <2>2 DEF vars, FundsInv, Held, Bundled, Paid, AllBundles
  <2> QED
    BY <2>1, <2>2
<1> QED
  BY <1>1, <1>2, TypeInvariant, BundleInvariant, ScanTypes, CoinInvariant, PTL DEF Spec

(* In a build with overflow checks a bundle has one output for each mainchain
   address it pays, worth exactly the withdrawals to it that the bundle takes,
   whatever the order of the sort and wherever the list was cut. *)
THEOREM BundlesPayOwners ==
    ASSUME OverflowChecks
    PROVE  Spec => []PaysOwners
<1>1. FundsInv => PaysOwners
  BY DEF FundsInv, PaysOwners, PaysItsOwners
<1> QED
  BY <1>1, FundsInvariant, PTL

(* What the outputs of a bundle are worth is what the coins it takes are. *)
LEMMA PayoutIsValue ==
    ASSUME NEW b, PaysItsOwners(b), IsFiniteSet(DOMAIN BundleOutputs(b)),
           IsFiniteSet(b.spent_utxos), b.spent_utxos \subseteq Withdrawals(OutPoint)
    PROVE  Payout(b) = ValueOf(b.spent_utxos)
<1> DEFINE outputs == BundleOutputs(b)
           D == DOMAIN outputs
           S == b.spent_utxos
           X == [i \in D |-> CoinsTo(S, outputs[i].main_address)]
<1>1. \A o, a : o \in CoinsTo(S, a) <=> o \in S /\ MainAddress(o) = a
  BY DEF CoinsTo, Withdrawals
<1>2. DOMAIN X = D /\ \A i \in D : IsFiniteSet(X[i]) /\ X[i] \subseteq OutPoint
  <2> SUFFICES ASSUME NEW i \in D PROVE IsFiniteSet(X[i]) /\ X[i] \subseteq OutPoint
    OBVIOUS
  <2>1. X[i] \subseteq S /\ S \subseteq OutPoint
    BY <1>1 DEF Withdrawals
  <2> QED
    BY <2>1, FS_Subset
<1>3. \A i, j \in D : i # j => Positive(X[i] \cap X[j]) = {}
  BY <1>1 DEF PaysItsOwners, Positive
<1>4. S = UNION {X[i] : i \in D}
  <2>1. \A o \in S : \E i \in D : outputs[i].main_address = MainAddress(o)
    BY DEF PaysItsOwners, Destinations, Withdrawals
  <2>2. \A o : o \in S <=> \E i \in D : o \in X[i]
    BY <1>1, <2>1
  <2> QED
    BY <2>2
<1>5. [i \in D |-> ValueOf(X[i])] = [i \in D |-> outputs[i].value]
  <2> SUFFICES ASSUME NEW i \in D PROVE ValueOf(X[i]) = outputs[i].value
    OBVIOUS
  <2>1. X[i] = CoinsTo(S, outputs[i].main_address)
    OBVIOUS
  <2> QED
    BY <2>1 DEF PaysItsOwners
<1>6. IsFiniteSet(D) /\ Payout(b) = Total([i \in D |-> outputs[i].value])
  BY DEF Payout
<1> HIDE DEF X, D, S
<1>7. ValueOf(UNION {X[k] : k \in D}) = Total([k \in D |-> ValueOf(X[k])])
  BY <1>2, <1>3, <1>6, ValueOfDisjointFamily
<1> QED
  BY <1>4, <1>5, <1>6, <1>7 DEF S

(* In a build with overflow checks the sidechain never owes more than was
   deposited: the unspent outputs, with what the pending bundle and the
   confirmed ones pay on the mainchain, are worth no more than the deposits
   credited. *)
THEOREM ValueIsConserved ==
    ASSUME OverflowChecks
    PROVE  Spec => []Conservation
<1>1. TypeInv /\ BundleInv /\ NoCoinTwice /\ FundsInv => Conservation
  <2> SUFFICES ASSUME TypeInv, BundleInv, NoCoinTwice, FundsInv PROVE Conservation
    OBVIOUS
  <2> DEFINE confirmed == {s \in settled : s.answer = "Confirmed"}
             bundles == pending_withdrawal_bundle \cup {r.bundle : r \in confirmed}
             X == [b \in bundles |-> b.spent_utxos]
             out == Bundled \cup Paid
  <2>1. IsFiniteSet(bundles)
    <3>1. IsFiniteSet(pending_withdrawal_bundle)
      <4>1. pending_withdrawal_bundle = {} \/ \E b : pending_withdrawal_bundle = {b}
        BY DEF BundleInv, PendingAfter
      <4> QED
        BY <4>1, FS_EmptySet, FS_Singleton
    <3> DEFINE T == {r.bundle : r \in confirmed}
               g == [r \in confirmed |-> r.bundle]
    <3>2. g \in Surjection(confirmed, T)
      BY DEF Surjection
    <3>3. IsFiniteSet(confirmed)
      BY FS_Subset DEF FundsInv
    <3> HIDE DEF g, T, confirmed
    <3>4. IsFiniteSet(T)
      BY <3>2, <3>3, FS_Surjection
    <3> QED
      BY <3>1, <3>4, FS_Union DEF T
  <2>2. \A b \in bundles : b \in AllBundles
    BY DEF AllBundles
  <2>3. \A b \in bundles : b.spent_utxos \subseteq Held
    BY DEF Held, Bundled, Paid
  <2>4. IsFiniteSet(Held) /\ Held \subseteq OutPoint
    BY HeldOutPoints DEF FundsInv
  <2>5. \A b \in bundles : IsFiniteSet(X[b]) /\ X[b] \subseteq OutPoint
    <3> HIDE DEF bundles
    <3> QED
      BY <2>3, <2>4, FS_Subset
  <2>6. \A b, c \in bundles : b # c => Positive(X[b] \cap X[c]) = {}
    <3> SUFFICES ASSUME NEW b \in bundles, NEW c \in bundles, b # c,
                        NEW o \in b.spent_utxos, o \in c.spent_utxos, Value(o) > 0
                 PROVE  FALSE
      BY DEF Positive
    <3>1. b \in pending_withdrawal_bundle => o \in Bundled
      BY DEF Bundled
    <3>2. c \in pending_withdrawal_bundle => o \in Bundled
      BY DEF Bundled
    <3>3. b \notin pending_withdrawal_bundle =>
              \E r \in settled : r.answer = "Confirmed" /\ r.bundle = b
      OBVIOUS
    <3>4. c \notin pending_withdrawal_bundle =>
              \E r \in settled : r.answer = "Confirmed" /\ r.bundle = c
      OBVIOUS
    <3>5. /\ b \notin pending_withdrawal_bundle => o \in Paid
          /\ c \notin pending_withdrawal_bundle => o \in Paid
      BY <3>3, <3>4, CoinsOf
    <3>6. o \in Bundled => o \notin Paid
      BY OnePlace
    <3>7. ~(b \in pending_withdrawal_bundle /\ c \in pending_withdrawal_bundle)
      BY DEF BundleInv, PendingAfter
    <3>8. ASSUME NEW r \in settled, NEW s \in settled, r.answer = "Confirmed", s.answer = "Confirmed",
                 r.bundle = b, s.bundle = c
          PROVE  FALSE
      BY <3>8 DEF NoCoinTwice, Positive
    <3> QED
      BY <3>1, <3>2, <3>3, <3>4, <3>5, <3>6, <3>7, <3>8
  <2>7. out = UNION {X[b] : b \in bundles}
    <3>1. \A o : o \in UNION {X[b] : b \in bundles} <=> \E b \in bundles : o \in b.spent_utxos
      OBVIOUS
    <3>2. \A o : o \in Bundled \cup Paid <=> \E b \in bundles : o \in b.spent_utxos
      BY CoinsOf
    <3> QED
      BY <3>1, <3>2
  <2>8. [b \in bundles |-> ValueOf(X[b])] = [b \in bundles |-> Payout(b)]
    <3> SUFFICES ASSUME NEW b \in bundles PROVE ValueOf(X[b]) = Payout(b)
      OBVIOUS
    <3>1. PaysItsOwners(b) /\ IsFiniteSet(DOMAIN BundleOutputs(b))
      BY <2>2 DEF FundsInv
    <3>2. IsFiniteSet(b.spent_utxos) /\ b.spent_utxos \subseteq Withdrawals(OutPoint)
      BY <2>2, <2>5 DEF TypeInv
    <3> QED
      BY <3>1, <3>2, PayoutIsValue
  <2>9. DOMAIN X = bundles
    OBVIOUS
  <2>10. Conservation <=>
             ValueOf(utxos) + Total([b \in bundles |-> Payout(b)]) <= Total(credited)
    BY DEF Conservation
  <2>11. Held = utxos \cup out
    BY DEF Held
  <2>12. Positive(utxos \cap out) = {}
    BY DEF NoCoinTwice, Positive
  <2> HIDE DEF bundles, X, out, confirmed
  <2>13. ValueOf(UNION {X[k] : k \in bundles}) = Total([k \in bundles |-> ValueOf(X[k])])
    BY <2>1, <2>5, <2>6, <2>9, ValueOfDisjointFamily
  <2>14. ValueOf(out) = Total([b \in bundles |-> Payout(b)])
    BY <2>7, <2>8, <2>13
  <2>15. ValueOf(Held) = ValueOf(utxos) + ValueOf(out)
    <3>1. /\ IsFiniteSet(utxos) /\ utxos \subseteq OutPoint
          /\ IsFiniteSet(out) /\ out \subseteq OutPoint
      BY <2>4, <2>11, FS_Subset
    <3> QED
      BY <2>11, <2>12, <3>1, ValueOfUnion
  <2> QED
    BY <2>10, <2>14, <2>15 DEF FundsInv
<1>2. CoinInv => NoCoinTwice
  BY DEF CoinInv
<1> QED
  BY <1>1, <1>2, TypeInvariant, BundleInvariant, CoinInvariant, FundsInvariant, PTL
=============================================================================
