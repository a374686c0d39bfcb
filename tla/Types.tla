------------------------------- MODULE Types -------------------------------
(***************************************************************************)
(* The data of the sidechain: outpoints, outputs, transactions and block   *)
(* bodies (src/types), and u64 arithmetic.                                 *)
(*                                                                         *)
(* Txids and merkle roots are blake3 hashes of contents, and an outpoint   *)
(* names its output through one of them.  Hashes are taken to be           *)
(* collision free, so an element of Tx stands for a transaction's contents *)
(* and for its txid at once, and every outpoint determines the output it   *)
(* names.  The database `utxos : OutPoint -> Output' is then the set of    *)
(* its keys.                                                               *)
(***************************************************************************)
EXTENDS Drivechain

CONSTANTS
    Tx,             \* the transactions that can ever be built
    TxInputs,       \* [Tx -> Seq(OutPoint)]
    TxOutputs,      \* [Tx -> Seq(Output)]
    Body,           \* the block bodies that can ever be built
    DepositLog,     \* the mainchain's log of deposits to this sidechain
    U64,            \* 2^64, the number of values of a u64
    OverflowChecks  \* TRUE in a build that panics on overflow, FALSE in one that wraps

ASSUME DepositLogAssumption == IsDepositLog(DepositLog)

ASSUME ArithmeticAssumption == U64 \in Nat \ {0} /\ OverflowChecks \in BOOLEAN

(* Vectors, and vectors of outputs. *)
IsList(s)    == Len(s) \in Nat /\ DOMAIN s = 1 .. Len(s)
IsOutputs(s) == IsList(s) /\ \A i \in DOMAIN s : s[i].value \in Nat

ASSUME TxAssumption == \A t \in Tx : IsList(TxInputs[t]) /\ IsOutputs(TxOutputs[t])

ASSUME BodyAssumption == \A b \in Body : b.transactions \in Seq(Tx) /\ IsOutputs(b.coinbase)

-----------------------------------------------------------------------------
(* Outpoints. *)

Regular(t, i)     == [type |-> "Regular", txid |-> t, vout |-> i]
Coinbase(root, i) == [type |-> "Coinbase", merkle_root |-> root, vout |-> i]
Deposit(i)        == [type |-> "Deposit", entry |-> i]

(* The root hashes coinbase and transactions, and not the authorizations. *)
MerkleRoot(body) == [coinbase |-> body.coinbase, transactions |-> body.transactions]

(* The contents of the output an outpoint names. *)
OutputOf(o) ==
    CASE o.type = "Regular"  -> TxOutputs[o.txid][o.vout]
      [] o.type = "Coinbase" -> o.merkle_root.coinbase[o.vout]
      [] o.type = "Deposit"  -> [kind    |-> "Value",
                                 address |-> DepositLog[o.entry].strdest,
                                 value   |-> DepositIncrement(DepositLog, o.entry)]

Value(o)        == OutputOf(o).value
IsWithdrawal(o) == OutputOf(o).kind = "Withdrawal"

Inputs(t)             == {TxInputs[t][i] : i \in DOMAIN TxInputs[t]}
TxOutPoints(t)        == {Regular(t, i) : i \in DOMAIN TxOutputs[t]}
CoinbaseOutPoints(b)  == {Coinbase(MerkleRoot(b), i) : i \in DOMAIN b.coinbase}

-----------------------------------------------------------------------------
(* u64 sums.  The sum of a function is counted unit by unit, so that facts
   about finite sets are facts about sums. *)

Units(f) == UNION {{i} \X (1 .. f[i]) : i \in DOMAIN f}
Total(f) == Cardinality(Units(f))

(* A loop that adds up u64s: with overflow checks it panics when the sum
   does not fit, without them it keeps the low bits. *)
Fits(n) == OverflowChecks => n < U64
Wrap(n) == n % U64

(* FilledTransaction: value in, value out and the fee left to the miner. *)
ValueIn(t)  == Total([i \in DOMAIN TxInputs[t] |-> Value(TxInputs[t][i])])
ValueOut(t) == Total([i \in DOMAIN TxOutputs[t] |-> TxOutputs[t][i].value])
Fee(t)      == Wrap(ValueIn(t)) - Wrap(ValueOut(t))

CoinbaseValue(b) == Total([i \in DOMAIN b.coinbase |-> b.coinbase[i].value])
TotalFees(b)     == Total([i \in DOMAIN b.transactions |-> Fee(b.transactions[i])])
=============================================================================
