------------------------------- MODULE State -------------------------------
(***************************************************************************)
(* The consensus state of one node (src/state.rs) and the step that        *)
(* connects a block to it: the validations, the outputs created and spent, *)
(* the deposits credited, the withdrawal bundle collected, paid or         *)
(* returned.                                                               *)
(*                                                                         *)
(* submit_block does all of it in one database transaction, which an error *)
(* or a panic aborts: one action, and no action for a refused block.       *)
(***************************************************************************)
EXTENDS WithdrawalBundle

CONSTANTS
    FailureGap,     \* WITHDRAWAL_BUNDLE_FAILURE_GAP
    MaxMainHeight,  \* bound: the mainchain blocks a header may name
    MaxHeight       \* bound: the blocks connected

ASSUME HeightAssumption ==
    FailureGap \in Nat /\ MaxMainHeight \in Nat /\ MaxHeight \in Nat

VARIABLES
    utxos,                                  \* the outpoints in the database
    pending_withdrawal_bundle,              \* {} or {the bundle}
    last_withdrawal_bundle_failure_height,  \* 0 when never stored
    last_deposit_block,                     \* 0 when never stored
    height,                                 \* blocks connected (archive.get_height)
    spent,     \* history: the outpoints transactions have spent
    settled,   \* history: the bundles answered, with the answer and its height
    credited,  \* history: deposit entry -> the value ever put for it
    scanned    \* history: the newest mainchain block asked for

vars == <<utxos, pending_withdrawal_bundle, last_withdrawal_bundle_failure_height,
          last_deposit_block, height, spent, settled, credited, scanned>>

Init ==
    /\ utxos = {}
    /\ pending_withdrawal_bundle = {}
    /\ last_withdrawal_bundle_failure_height = 0
    /\ last_deposit_block = 0
    /\ height = 0
    /\ spent = {}
    /\ settled = {}
    /\ credited = [i \in DOMAIN DepositLog |-> 0]
    /\ scanned = 0

-----------------------------------------------------------------------------
(* validate_body. *)

(* The inputs of a body in order, each with the transaction that spends it. *)
SpentInputs(b) ==
    FlattenSeq([k \in DOMAIN b.transactions |->
        LET t == b.transactions[k]
        IN  [i \in DOMAIN TxInputs[t] |-> [outpoint |-> TxInputs[t][i], tx |-> t]]])

(* fill_transaction: every input exists before the block. *)
InputsExist(b) == \A k \in DOMAIN b.transactions : Inputs(b.transactions[k]) \subseteq utxos

(* Mutant of NoDoubleSpend: each transaction is only checked by itself. *)
NoDoubleSpendInside(b) ==
    \A k \in DOMAIN b.transactions :
        \A i, j \in DOMAIN TxInputs[b.transactions[k]] :
            TxInputs[b.transactions[k]][i] = TxInputs[b.transactions[k]][j] => i = j

NoDoubleSpend(b) ==
    \A k, l \in DOMAIN b.transactions :
        \A i \in DOMAIN TxInputs[b.transactions[k]], j \in DOMAIN TxInputs[b.transactions[l]] :
            TxInputs[b.transactions[k]][i] = TxInputs[b.transactions[l]][j] => k = l /\ i = j

(* validate_filled_transaction. *)
ValidTransaction(t) ==
    /\ Fits(ValueIn(t)) /\ Fits(ValueOut(t))
    /\ Wrap(ValueOut(t)) <= Wrap(ValueIn(t))

ValidFees(b) ==
    /\ Fits(CoinbaseValue(b)) /\ Fits(TotalFees(b))
    /\ Wrap(CoinbaseValue(b)) <= Wrap(TotalFees(b))

(* The authorizations are zipped with the spent outputs and verify_body zips
   them with the transactions to check the signatures: a list shorter than
   the inputs passes both, a longer one panics. *)
Authorized(b) ==
    LET inputs == SpentInputs(b)
    IN  /\ Len(b.authorizations) <= Len(inputs)
        /\ \A k \in DOMAIN b.authorizations :
              /\ b.authorizations[k].address = OutputOf(inputs[k].outpoint).address
              /\ b.authorizations[k].signed = inputs[k].tx

ValidBody(b) ==
    /\ InputsExist(b)
    /\ NoDoubleSpend(b)
    /\ \A k \in DOMAIN b.transactions : ValidTransaction(b.transactions[k])
    /\ ValidFees(b)
    /\ Authorized(b)

-----------------------------------------------------------------------------
(* connect_body: the coinbase outputs are put first; then each transaction
   deletes its inputs and puts its outputs.  The last writer of an outpoint
   decides. *)
AfterBody(b) ==
    LET txs == b.transactions
    IN  {o \in utxos \cup CoinbaseOutPoints(b) : \A k \in DOMAIN txs : o \notin Inputs(txs[k])}
        \cup UNION {{o \in TxOutPoints(txs[k]) :
                        \A l \in DOMAIN txs : l > k => o \notin Inputs(txs[l])} : k \in DOMAIN txs}

(* Mutant of CreditDeposits: the header's block is stored, deposit or not. *)
CreditDepositsStoringEnd(start, end) ==
    /\ credited' = [i \in DOMAIN DepositLog |->
                       IF i \in DepositOutputs(DepositLog, start, end)
                       THEN credited[i] + DepositValue(DepositLog, start, end, i)
                       ELSE credited[i]]
    /\ last_deposit_block' = end
    /\ scanned' = IF end > scanned THEN end ELSE scanned

(* connect_two_way_peg_data, deposits: `start' is the stored block as the
   submission read it, `end' the header's prev_main_hash. *)
CreditDeposits(start, end) ==
    /\ credited' = [i \in DOMAIN DepositLog |->
                       IF i \in DepositOutputs(DepositLog, start, end)
                       THEN credited[i] + DepositValue(DepositLog, start, end, i)
                       ELSE credited[i]]
    /\ \/ /\ NewDeposits(DepositLog, start, end) = {}
          /\ UNCHANGED last_deposit_block
       \/ /\ NewDeposits(DepositLog, start, end) # {}
          /\ IsDepositBlock(DepositLog, start, end, last_deposit_block')
    /\ scanned' = IF end > scanned THEN end ELSE scanned

(* Mutant of Due: >= for >. *)
DueOneEarly ==
    /\ (height + 1) - last_withdrawal_bundle_failure_height >= FailureGap
    /\ pending_withdrawal_bundle = {}

(* connect_two_way_peg_data, collection: enough blocks after the last failure
   and no bundle pending. *)
Due ==
    /\ (height + 1) - last_withdrawal_bundle_failure_height > FailureGap
    /\ pending_withdrawal_bundle = {}

(* Mutant of AfterCollection: the collected outputs are not deleted. *)
AfterCollectionKeeping(unspent) ==
    IF Due /\ Withdrawals(unspent) # {}
    THEN {[unspent |-> unspent, pending |-> {b}] : b \in Bundles(unspent, height + 1)}
    ELSE {[unspent |-> unspent, pending |-> pending_withdrawal_bundle]}

(* The unspent outputs and the pending bundle once the collection is over;
   none at all when every bundle is too heavy, and the block is refused. *)
AfterCollection(unspent) ==
    IF Due /\ Withdrawals(unspent) # {}
    THEN {[unspent |-> unspent \ b.spent_utxos, pending |-> {b}] :
             b \in Bundles(unspent, height + 1)}
    ELSE {[unspent |-> unspent, pending |-> pending_withdrawal_bundle]}

(* The collection fails, and with it the block. *)
CollectionMayFail(unspent) ==
    /\ Due /\ Withdrawals(unspent) # {}
    /\ \E c \in Candidates(unspent, height + 1) : ~Accepted(c)

(* What the mainchain may list for a bundle, whenever it was made: it never
   takes back an answer to a txid. *)
Answers(b) ==
    LET given == {r \in settled : Txid(r.bundle) = Txid(b)}
    IN  IF given = {} THEN {"Failed", "Confirmed"} ELSE {r.answer : r \in given}

Unanswered(pending) == \A b \in pending, r \in settled : Txid(r.bundle) # Txid(b)

(* connect_two_way_peg_data, statuses: only the one of the pending bundle
   matters, one collected in this block included. *)
NoAnswer(c) ==
    /\ Unanswered(c.pending)
    /\ utxos' = c.unspent
    /\ pending_withdrawal_bundle' = c.pending
    /\ UNCHANGED <<settled, last_withdrawal_bundle_failure_height>>

(* Mutants of Failed: the coins are not put back; the height stored is the
   one of the next collection. *)
FailedLosingCoins(c) ==
    \E b \in c.pending :
        /\ "Failed" \in Answers(b)
        /\ utxos' = c.unspent
        /\ pending_withdrawal_bundle' = {}
        /\ last_withdrawal_bundle_failure_height' = height + 1
        /\ settled' = settled \cup {[bundle |-> b, answer |-> "Failed", at |-> height + 1]}

FailedStoringNext(c) ==
    \E b \in c.pending :
        /\ "Failed" \in Answers(b)
        /\ utxos' = c.unspent \cup b.spent_utxos
        /\ pending_withdrawal_bundle' = {}
        /\ last_withdrawal_bundle_failure_height' = height + 1 + FailureGap
        /\ settled' = settled \cup {[bundle |-> b, answer |-> "Failed", at |-> height + 1]}

Failed(c) ==
    \E b \in c.pending :
        /\ "Failed" \in Answers(b)
        /\ utxos' = c.unspent \cup b.spent_utxos
        /\ pending_withdrawal_bundle' = {}
        /\ last_withdrawal_bundle_failure_height' = height + 1
        /\ settled' = settled \cup {[bundle |-> b, answer |-> "Failed", at |-> height + 1]}

(* Mutant of Confirmed: outputs are deleted by txid and not by outpoint. *)
ConfirmedByTxid(c) ==
    \E b \in c.pending :
        /\ "Confirmed" \in Answers(b)
        /\ utxos' = {o \in c.unspent : \A s \in b.spent_utxos :
                         o.type = "Regular" /\ s.type = "Regular" => o.txid # s.txid}
        /\ pending_withdrawal_bundle' = {}
        /\ settled' = settled \cup {[bundle |-> b, answer |-> "Confirmed", at |-> height + 1]}
        /\ UNCHANGED last_withdrawal_bundle_failure_height

Confirmed(c) ==
    \E b \in c.pending :
        /\ "Confirmed" \in Answers(b)
        /\ utxos' = c.unspent
        /\ pending_withdrawal_bundle' = {}
        /\ settled' = settled \cup {[bundle |-> b, answer |-> "Confirmed", at |-> height + 1]}
        /\ UNCHANGED last_withdrawal_bundle_failure_height

(* The unspent outputs when the collection looks for withdrawals. *)
BeforeCollection(b, start, end) ==
    AfterBody(b) \cup {Deposit(i) : i \in DepositOutputs(DepositLog, start, end)}

(* submit_block's write transaction. *)
ConnectBlock(b, start, end) ==
    /\ height < MaxHeight
    /\ height' = height + 1
    /\ ValidBody(b)
    /\ spent' = spent \cup UNION {Inputs(b.transactions[k]) : k \in DOMAIN b.transactions}
    /\ CreditDeposits(start, end)
    /\ \E c \in AfterCollection(BeforeCollection(b, start, end)) :
          NoAnswer(c) \/ Failed(c) \/ Confirmed(c)

(* One block at a time: the stored deposit block read is the current one. *)
Next ==
    \E b \in Body, end \in 1 .. MaxMainHeight : ConnectBlock(b, last_deposit_block, end)

Spec == Init /\ [][Next]_vars

-----------------------------------------------------------------------------
(* Properties. *)

OutPoint ==
    (UNION {TxOutPoints(t) : t \in Tx})
    \cup (UNION {CoinbaseOutPoints(b) : b \in Body})
    \cup {Deposit(i) : i \in DOMAIN DepositLog}

Paid == UNION {r.bundle.spent_utxos : r \in {s \in settled : s.answer = "Confirmed"}}
Bundled == UNION {b.spent_utxos : b \in pending_withdrawal_bundle}
AllBundles == pending_withdrawal_bundle \cup {r.bundle : r \in settled}

TypeOK ==
    /\ utxos \subseteq OutPoint
    /\ Cardinality(pending_withdrawal_bundle) <= 1
    /\ \A b \in AllBundles : /\ b.spent_utxos \subseteq Withdrawals(OutPoint)
                             /\ CollectedAt(b) \in 1 .. height
    /\ last_withdrawal_bundle_failure_height \in 0 .. height
    /\ last_deposit_block \in Nat
    /\ height \in 0 .. MaxHeight
    /\ spent \subseteq OutPoint
    /\ \A r \in settled : r.answer \in {"Failed", "Confirmed"} /\ r.at \in 1 .. height
    /\ credited \in [DOMAIN DepositLog -> Nat]
    /\ scanned \in 0 .. MaxMainHeight

(* A coin that carries value is in one place: unspent, held by the pending
   bundle, spent, or paid out by one bundle; so it is never spent twice, paid
   twice, or both, and a bundle that fails brings back only coins that nobody
   used meanwhile.  (An outpoint worth nothing can be made again: a
   transaction without inputs may be connected any number of times.) *)
Positive(S) == {o \in S : Value(o) > 0}

NoCoinTwice ==
    /\ Positive(utxos \cap (Bundled \cup spent \cup Paid)) = {}
    /\ Positive(Bundled \cap (spent \cup Paid)) = {}
    /\ Positive(spent \cap Paid) = {}
    /\ \A r, s \in settled : r.answer = "Confirmed" /\ s.answer = "Confirmed" /\ r # s
            => Positive(r.bundle.spent_utxos \cap s.bundle.spent_utxos) = {}

(* connect_body, the collection and the two answers move every coin along its
   life cycle, and along nothing else: in particular a spent coin and a paid
   coin stay so, and a coin appears once. *)
StageOf(o) ==
    CASE o \in utxos   -> "Unspent"
      [] o \in Bundled -> "Bundled"
      [] o \in spent   -> "Spent"
      [] o \in Paid    -> "Paid"
      [] OTHER         -> "Unborn"

PositiveOutPoint == Positive(OutPoint)

Coins == INSTANCE CoinLifecycle
            WITH Coin <- PositiveOutPoint, stage <- [o \in PositiveOutPoint |-> StageOf(o)]

CoinsFollowLifecycle == Coins!CoinSpec

(* The sidechain owes no more than was deposited: what is unspent, what the
   pending bundle pays and what confirmed bundles have paid, together, are
   within the deposits credited.  The bundle's side is counted by the outputs
   the mainchain pays, and without the mainchain fee. *)
Payout(b) == Total([i \in DOMAIN BundleOutputs(b) |-> BundleOutputs(b)[i].value])

Conservation ==
    LET bundles == pending_withdrawal_bundle
                   \cup {r.bundle : r \in {s \in settled : s.answer = "Confirmed"}}
    IN  ValueOf(utxos) + Total([b \in bundles |-> Payout(b)]) <= Total(credited)

(* A bundle has one output for each mainchain address it pays, worth exactly
   the withdrawals to that address that it takes from the unspent outputs,
   however the sort fell out and wherever the list was cut. *)
PaysOwners ==
    \A b \in AllBundles :
        LET outputs == BundleOutputs(b)
        IN  /\ \A i, j \in DOMAIN outputs :
                  outputs[i].main_address = outputs[j].main_address => i = j
            /\ {outputs[i].main_address : i \in DOMAIN outputs} = Destinations(b.spent_utxos)
            /\ \A i \in DOMAIN outputs :
                  outputs[i].value = ValueOf(CoinsTo(b.spent_utxos, outputs[i].main_address))

(* No bundle is collected while another is pending, nor within FailureGap
   blocks of a failure: a bundle's blocks end before the next one's begin. *)
BundlesApart ==
    \A r \in settled, b \in AllBundles : b # r.bundle =>
        \/ CollectedAt(b) < CollectedAt(r.bundle)
        \/ CollectedAt(b) > r.at + (IF r.answer = "Failed" THEN FailureGap ELSE 0)

(* A bundle has at most MAX_BUNDLE_OUTPUTS outputs, the number computed so
   that a bundle stays under the weight limit. *)
BundleWithinMax == \A b \in AllBundles : Len(BundleOutputs(b)) <= MaxBundleOutputs

(* What can make a collection fail: a bundle with more outputs than that, or with
   one heavier than OUTPUT_WEIGHT, or a sum that panics. *)
OverLimits(c) ==
    \/ ~c.fits
    \/ \E i \in DOMAIN BundleOutputs(c.bundle) :
          \/ i > MaxBundleOutputs
          \/ ScriptWeight[BundleOutputs(c.bundle)[i].main_address] \notin 0 .. OutputWeight

CollectionOverLimits(unspent) ==
    Due /\ \E c \in Candidates(unspent, height + 1) : OverLimits(c)

(* One answer of the mainchain settles one bundle: coins returned by a failed
   bundle and collected again come under a new txid, which the old answer,
   still listed, does not fit. *)
EachAnswerOnce ==
    \A r, s \in settled : Txid(r.bundle) = Txid(s.bundle) => r = s

(* The deposits credited along the chain are those of the incremental scan,
   which DepositScan shows to credit each once. *)
Scan == INSTANCE DepositScan WITH log <- DepositLog, Logs <- {DepositLog}

DepositsScanned == Scan!ScanSpec
DepositsExact == Scan!DepositsExact
=============================================================================
