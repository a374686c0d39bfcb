------------------------------- MODULE Wallet -------------------------------
(***************************************************************************)
(* The wallet (src/wallet.rs): a seed, the addresses derived from it, the  *)
(* wallet's unspent outputs, and the calls that build transactions from    *)
(* them.  Every access is a database transaction of its own, so a call of  *)
(* create_transaction or create_withdrawal, which selects coins in one and *)
(* makes each new address in another, interleaves with everything else.    *)
(***************************************************************************)
EXTENDS Integers, SequencesExt, FiniteSetsExt

CONSTANTS
    Seed,
    MaxIndex,   \* bound: the addresses made from one seed
    Coin,       \* bound: the outpoints the wallet may be told of
    OutputAt,   \* [Coin -> output]: [address, kind, value]
    Caller,     \* the concurrent calls of create_* and authorize
    Payment,    \* bound: the arguments of create_*: [kind, value, fee, main_fee]
    U64         \* 2^64

(* get_keypair, then get_address: an address is what it is derived from. *)
Address == Seed \X (1 .. MaxIndex)

ASSUME MaxIndexAssumption == MaxIndex \in Nat
ASSUME CoinAssumption ==
    /\ IsFiniteSet(Coin)
    /\ \A c \in Coin : OutputAt[c].address \in Address /\ OutputAt[c].value \in Nat
ASSUME PaymentAssumption ==
    \A p \in Payment : p.value \in Nat /\ p.fee \in Nat /\ p.main_fee \in Nat

VARIABLES
    seed,              \* {} or {seed}
    index_to_address,
    address_to_index,
    utxos,             \* the wallet's coins
    call,              \* caller -> its call
    given              \* history: the addresses get_new_address gave out since set_seed

walletVars == <<seed, index_to_address, address_to_index, utxos, call, given>>

Idle == [phase |-> "idle"]

WalletInit ==
    /\ seed = {}
    /\ index_to_address = <<>>
    /\ address_to_index = <<>>
    /\ utxos = {}
    /\ call = [c \in Caller |-> Idle]
    /\ given = <<>>

-----------------------------------------------------------------------------
(* set_seed, put_utxos and delete_utxos. *)

(* Mutant of SetSeed: address_to_index is not cleared. *)
SetSeedKeepingIndices(s) ==
    /\ seed' = {s}
    /\ index_to_address' = <<>> /\ utxos' = {} /\ given' = <<>>
    /\ UNCHANGED <<address_to_index, call>>

SetSeed(s) ==
    /\ seed' = {s}
    /\ index_to_address' = <<>> /\ address_to_index' = <<>> /\ utxos' = {}
    /\ given' = <<>>
    /\ UNCHANGED call

PutUtxos(S) ==
    /\ utxos' = utxos \cup S
    /\ UNCHANGED <<seed, index_to_address, address_to_index, call, given>>

DeleteUtxos(S) ==
    /\ utxos' = utxos \ S
    /\ UNCHANGED <<seed, index_to_address, address_to_index, call, given>>

-----------------------------------------------------------------------------
(* select_coins. *)

(* What coins are worth together, counted unit by unit. *)
ValueOf(S) == Cardinality(UNION {{c} \X (1 .. OutputAt[c].value) : c \in S})
Spendable(S) == {c \in S : OutputAt[c].kind # "Withdrawal"}

(* The orders an unstable sort by value may leave the coins in. *)
Sorted(S) ==
    {q \in SetToSeqs(S) : \A i, j \in DOMAIN q : i < j => OutputAt[q[i]].value <= OutputAt[q[j]].value}

(* Mutant of Taken: it takes one coin less. *)
TakenTooFew(q, value) ==
    {q[i] : i \in {j \in DOMAIN q : ValueOf({q[k] : k \in 1 .. j}) <= value}}

(* The loop takes coins until the total is above the value: a coin is taken
   when those before it add up to no more. *)
Taken(q, value) ==
    {q[i] : i \in {j \in DOMAIN q : ValueOf({q[k] : k \in 1 .. j - 1}) <= value}}

(* What it may select; nothing when the funds are not enough. *)
Selections(S, value) ==
    {T \in {Taken(q, value) : q \in Sorted(Spendable(S))} : ValueOf(T) >= value}

-----------------------------------------------------------------------------
(* get_new_address. *)

(* Mutant of NextIndex: the last index again. *)
LastIndex == IF index_to_address = <<>> THEN 1 ELSE Len(index_to_address)

NextIndex == Len(index_to_address) + 1

Put(db, key, value) ==
    [k \in DOMAIN db \cup {key} |-> IF k = key THEN value ELSE db[k]]

TakeNewAddress ==
    /\ seed # {}
    /\ \E s \in seed :
        LET index == NextIndex
            address == <<s, index>>
        IN  /\ index <= MaxIndex
            /\ index_to_address' = Put(index_to_address, index, address)
            /\ address_to_index' = Put(address_to_index, address, index)
            /\ given' = Append(given, address)

GetNewAddress ==
    /\ TakeNewAddress
    /\ UNCHANGED <<seed, utxos, call>>

-----------------------------------------------------------------------------
(* create_transaction and create_withdrawal. *)

(* What the coins must be worth.  A sum that does not fit panics. *)
Target(p) == p.value + p.fee + p.main_fee

Select(c, p) ==
    /\ call[c] = Idle
    /\ Target(p) < U64
    /\ \E T \in Selections(utxos, Target(p)) :
        /\ ValueOf(T) < U64
        /\ call' = [call EXCEPT ![c] =
                [phase |-> "selected", payment |-> p, inputs |-> T, addresses |-> <<>>]]
    /\ UNCHANGED <<seed, index_to_address, address_to_index, utxos, given>>

(* The new addresses a call makes: for the change, and before it for the
   withdrawal, which goes to the wallet itself if the bundle fails. *)
AddressesNeeded(p) == IF p.kind = "Withdrawal" THEN 2 ELSE 1

CallNewAddress(c) ==
    /\ call[c].phase = "selected"
    /\ Len(call[c].addresses) < AddressesNeeded(call[c].payment)
    /\ TakeNewAddress
    /\ call' = [call EXCEPT ![c].addresses = Append(@, Last(given'))]
    /\ UNCHANGED <<seed, utxos>>

(* The wallet has no seed: the call returns NoSeed. *)
CallFails(c) ==
    /\ call[c].phase = "selected" /\ seed = {}
    /\ call' = [call EXCEPT ![c] = Idle]
    /\ UNCHANGED <<seed, index_to_address, address_to_index, utxos, given>>

Change(p, inputs) == ValueOf(inputs) - p.value - p.fee

(* The outputs: the payment, and the change to the last address. *)
Outputs(p, inputs, addresses) ==
    << [kind |-> p.kind, value |-> p.value],
       [kind |-> "Value", value |-> Change(p, inputs), address |-> Last(addresses)] >>

Create(c) ==
    /\ call[c].phase = "selected"
    /\ Len(call[c].addresses) = AddressesNeeded(call[c].payment)
    /\ call' = [call EXCEPT ![c] =
        [phase |-> "created", payment |-> call[c].payment, inputs |-> call[c].inputs,
         outputs |-> Outputs(call[c].payment, call[c].inputs, call[c].addresses)]]
    /\ UNCHANGED <<seed, index_to_address, address_to_index, utxos, given>>

-----------------------------------------------------------------------------
(* authorize: in one read transaction, the key of each input's address.  An
   input that is not a coin of the wallet, or has no index, is an error. *)
Authorizable(inputs) ==
    /\ inputs \subseteq utxos
    /\ \A i \in inputs : OutputAt[i].address \in DOMAIN address_to_index
    /\ inputs # {} => seed # {}

Authorize(c) ==
    /\ call[c].phase = "created"
    /\ \/ /\ ~Authorizable(call[c].inputs)
          /\ call' = [call EXCEPT ![c] = Idle]
       \/ /\ Authorizable(call[c].inputs)
          /\ call' = [call EXCEPT ![c] =
                [phase |-> "authorized", inputs |-> call[c].inputs,
                 keys |-> [i \in call[c].inputs |->
                    <<CHOOSE s \in seed : TRUE, address_to_index[OutputAt[i].address]>>]]]
    /\ UNCHANGED <<seed, index_to_address, address_to_index, utxos, given>>

(* The application takes the result, and the caller is free. *)
Return(c) ==
    /\ call[c].phase \in {"created", "authorized"}
    /\ call' = [call EXCEPT ![c] = Idle]
    /\ UNCHANGED <<seed, index_to_address, address_to_index, utxos, given>>

WalletNext ==
    \/ \E s \in Seed : SetSeed(s)
    \/ \E S \in SUBSET Coin : PutUtxos(S) \/ DeleteUtxos(S)
    \/ GetNewAddress
    \/ \E c \in Caller :
        \/ \E p \in Payment : Select(c, p)
        \/ CallNewAddress(c) \/ CallFails(c) \/ Create(c) \/ Authorize(c) \/ Return(c)

WalletSpec == WalletInit /\ [][WalletNext]_walletVars

-----------------------------------------------------------------------------
(* Properties. *)

(* The two tables are inverse, without gaps, and of the current seed; with no
   seed they are empty. *)
TablesOfSeed ==
    /\ DOMAIN index_to_address = 1 .. Len(index_to_address)
    /\ \A i \in DOMAIN index_to_address :
          seed = {index_to_address[i][1]} /\ index_to_address[i][2] = i
    /\ address_to_index = [a \in {index_to_address[i] : i \in DOMAIN index_to_address} |-> a[2]]

(* However calls interleave, no address is given out twice while the seed
   stays: a change output shares its address with no other. *)
AddressesFresh == \A i, j \in DOMAIN given : given[i] = given[j] => i = j

(* A selection is enough, and fails to be made only if all coins that may be
   spent are not; no coin left over is worth less than one selected; and all
   but the largest selected together are not above what is asked for. *)
SelectionExact ==
    \A p \in Payment :
        /\ Selections(utxos, Target(p)) = {} <=> ValueOf(Spendable(utxos)) < Target(p)
        /\ \A T \in Selections(utxos, Target(p)) :
            /\ ValueOf(T) >= Target(p)
            /\ \A t \in T, u \in Spendable(utxos) \ T : OutputAt[t].value <= OutputAt[u].value
            /\ T # {} => \E t \in T : ValueOf(T \ {t}) <= Target(p)

(* Each input is authorized with the key of the address that owns it, although
   seed, tables and coins may all have changed since it was selected. *)
OwnersAuthorize ==
    \A c \in Caller : call[c].phase = "authorized" =>
        \A i \in call[c].inputs : call[c].keys[i] = OutputAt[i].address
=============================================================================
