-------------------------- MODULE WithdrawalBundle --------------------------
(***************************************************************************)
(* State::collect_withdrawal_bundle: the mainchain transaction that pays   *)
(* out withdrawal outputs, as a function of the unspent outputs, the block *)
(* height, and two choices the code leaves to its libraries: the order of  *)
(* a sort whose comparison is not an order, and the order in which a       *)
(* HashMap yields its keys.                                                *)
(***************************************************************************)
EXTENDS Types, SequencesExt

CONSTANTS
    MaxTxWeight,    \* MAX_STANDARD_TX_WEIGHT
    Bundle0Weight,  \* BUNDLE_0_WEIGHT, the weight of a bundle with 0 outputs
    OutputWeight,   \* OUTPUT_WEIGHT, what the code takes an output to weigh
    ScriptWeight,   \* main_address -> what an output to it really weighs
    KeyOrders       \* bound: the orders of a HashMap's keys told apart

ASSUME WeightAssumption ==
    /\ MaxTxWeight \in Nat /\ Bundle0Weight \in Nat /\ OutputWeight \in Nat \ {0}
    /\ Bundle0Weight <= MaxTxWeight
    /\ \A a \in DOMAIN ScriptWeight : ScriptWeight[a] \in Nat

ASSUME KeyOrdersAssumption == KeyOrders \in Nat \ {0}

MaxBundleOutputs == (MaxTxWeight - Bundle0Weight) \div OutputWeight

-----------------------------------------------------------------------------
(* Aggregation by destination. *)

Withdrawals(utxos)  == {o \in utxos : IsWithdrawal(o)}
MainAddress(o)      == OutputOf(o).main_address
Destinations(utxos) == {MainAddress(o) : o \in Withdrawals(utxos)}
CoinsTo(utxos, a)   == {o \in Withdrawals(utxos) : MainAddress(o) = a}

ValueOf(coins) == Total([o \in coins |-> Value(o)])

(* Mutant of Aggregated: a later withdrawal replaces the value so far. *)
AggregatedLastValue(utxos, a) ==
    LET coins == CoinsTo(utxos, a)
        fees  == {OutputOf(o).main_fee : o \in coins}
    IN  [main_address |-> a,
         value        |-> Value(CHOOSE o \in coins : TRUE),
         main_fee     |-> CHOOSE f \in fees : \A g \in fees : g <= f,
         spent_utxos  |-> coins]

Aggregated(utxos, a) ==
    LET coins == CoinsTo(utxos, a)
        fees  == {OutputOf(o).main_fee : o \in coins}
    IN  [main_address |-> a,
         value        |-> Wrap(ValueOf(coins)),
         main_fee     |-> CHOOSE f \in fees : \A g \in fees : g <= f,
         spent_utxos  |-> coins]

(* impl Ord for AggregatedWithdrawal: two withdrawals can each be Greater
   than the other. *)
Greater(x, y) ==
    \/ x.main_fee > y.main_fee
    \/ x.value > y.value
    \/ x.main_address > y.main_address

(* sort_by_key(Reverse): the descending order where there is one, and an
   unspecified order where the comparison is not a total order. *)
SortOutcomes(aggregated) ==
    LET descending ==
            {s \in SetToSeqs(aggregated) : \A i, j \in DOMAIN s :
                i < j => Greater(s[i], s[j]) /\ ~Greater(s[j], s[i])}
    IN  IF descending = {} THEN SetToSeqs(aggregated) ELSE descending

(* The loop stops once more than MAX_BUNDLE_OUTPUTS outputs are in. *)
Taken(sorted) == [i \in {k \in DOMAIN sorted : k <= MaxBundleOutputs + 1} |-> sorted[i]]

-----------------------------------------------------------------------------
(* The bundle and its transaction, whose contents stand for its txid.  The
   commitment hashes the coins in the order the map yields them, and the
   height. *)

Bundle(taken, order, block_height) ==
    LET coins == UNION {taken[i].spent_utxos : i \in DOMAIN taken}
    IN  [spent_utxos |-> coins,
         transaction |->
            [outputs    |-> [i \in DOMAIN taken |-> [value        |-> taken[i].value,
                                                     main_address |-> taken[i].main_address]],
             main_fee   |-> Wrap(Total([i \in DOMAIN taken |-> taken[i].main_fee])),
             commitment |-> [inputs       |-> coins,
                             order        |-> order,
                             block_height |-> block_height]]]

(* Mutant of Txid: the inputs commitment leaves the height out. *)
TxidWithoutHeight(bundle) == [bundle.transaction EXCEPT !.commitment.block_height = 0]

Txid(bundle)         == bundle.transaction
BundleOutputs(b)     == b.transaction.outputs
CollectedAt(b)       == b.transaction.commitment.block_height

Weight(b) ==
    Bundle0Weight + Total([i \in DOMAIN BundleOutputs(b) |->
                            ScriptWeight[BundleOutputs(b)[i].main_address]])

Orders(coins) == IF Cardinality(coins) = 1 THEN {1} ELSE 1 .. KeyOrders

(* The additions that would panic in a build with overflow checks. *)
BundleFits(taken, utxos) ==
    /\ \A a \in Destinations(utxos) : Fits(ValueOf(CoinsTo(utxos, a)))
    /\ Fits(Total([i \in DOMAIN taken |-> taken[i].main_fee]))

(* Every bundle the code may build.  It returns BundleTooHeavy for one over
   the weight limit, and panics where an addition does not fit. *)
Candidates(utxos, block_height) ==
    UNION {LET taken == Taken(s)
               coins == UNION {taken[i].spent_utxos : i \in DOMAIN taken}
           IN  {[bundle |-> Bundle(taken, k, block_height), fits |-> BundleFits(taken, utxos)] :
                   k \in Orders(coins)} :
           s \in SortOutcomes({Aggregated(utxos, a) : a \in Destinations(utxos)})}

Accepted(c) == c.fits /\ Weight(c.bundle) <= MaxTxWeight

Bundles(utxos, block_height) ==
    {c.bundle : c \in {x \in Candidates(utxos, block_height) : Accepted(x)}}
=============================================================================
