--------------------------- MODULE LibrariesProof ---------------------------
(***************************************************************************)
(* Theorems about the libraries that an application uses beside the node:  *)
(* the miner, the wallet and the verification of authorizations.  Their    *)
(* specifications share nothing, and are proved about one after the other. *)
(***************************************************************************)
EXTENDS Miner, Wallet, Authorization, Lists

-----------------------------------------------------------------------------
(* Miner. *)

(* A mainchain that grows takes nothing back: what is mined stays mined. *)
LEMMA MinedStays ==
    ASSUME MinerTypeOK, NEW h \in Header, Mined(h),
           main' = main \/ \E S \in SUBSET Header : main' = Append(main, S)
    PROVE  Mined(h)'
<1>0. Len(main) \in Nat /\ DOMAIN main = 1 .. Len(main) /\ PrevMain[h] \in Nat
  BY HeaderAssumption DEF MinerTypeOK
<1>1. CASE main' = main
  BY <1>1 DEF Mined, HasNextBlock
<1>2. CASE \E S \in SUBSET Header : main' = Append(main, S)
  <2>1. PICK S \in SUBSET Header : main' = Append(main, S)
    BY <1>2
  <2>2. Len(main') = Len(main) + 1 /\ \A n \in 1 .. Len(main) : main'[n] = main[n]
    <3>1. main \in Seq(SUBSET Header)
      BY DEF MinerTypeOK
    <3>2. QED
      BY <2>1, <3>1, AppendProperties
  <2>3. PrevMain[h] + 1 \in 1 .. Len(main) /\ h \in main[PrevMain[h] + 1]
    BY <1>0 DEF Mined, HasNextBlock
  <2>4. PrevMain[h] < Len(main') /\ h \in main'[PrevMain[h] + 1]
    BY <1>0, <2>2, <2>3
  <2>5. QED
    BY <2>4 DEF Mined, HasNextBlock
<1>3. QED
  BY <1>1, <1>2

(* The type invariant: one block for each miner at most, all of them bid for,
   and a confirmation that awaits the mainchain has a block to return. *)
THEOREM MinerTypeCorrect == MinerSpec => []MinerTypeOK
<1>1. MinerInit => MinerTypeOK
  BY DEF MinerInit, MinerTypeOK
<1>2. MinerTypeOK /\ [MinerNext]_minerVars => MinerTypeOK'
  <2> SUFFICES ASSUME MinerTypeOK, [MinerNext]_minerVars PROVE MinerTypeOK'
    OBVIOUS
  <2>1. CASE MainBlock
    <3>1. PICK S \in SUBSET UNION {bids[m] : m \in Miners} :
              (\A g, h \in S : g = h) /\ main' = Append(main, S)
      BY <2>1 DEF MainBlock
    <3>2. S \in SUBSET Header
      BY DEF MinerTypeOK
    <3>3. main' \in Seq(SUBSET Header) /\ \A n \in DOMAIN main' : \A g, h \in main'[n] : g = h
      BY <3>1, <3>2 DEF MinerTypeOK
    <3>4. QED
      BY <2>1, <3>3 DEF MainBlock, MinerTypeOK
  <2>2. ASSUME NEW m \in Miners, NEW h \in Header, AttemptBmm(m, h) PROVE MinerTypeOK'
    BY <2>2 DEF AttemptBmm, MinerTypeOK, Free
  <2>3. ASSUME NEW m \in Miners, AttemptKeeps(m) PROVE MinerTypeOK'
    BY <2>3 DEF AttemptKeeps, MinerTypeOK
  <2>4. ASSUME NEW m \in Miners, AttemptFails(m) PROVE MinerTypeOK'
    BY <2>4 DEF AttemptFails, MinerTypeOK
  <2>5. ASSUME NEW m \in Miners, ConfirmBmm(m) PROVE MinerTypeOK'
    BY <2>5 DEF ConfirmBmm, MinerTypeOK, Free
  <2>6. ASSUME NEW m \in Miners, ConfirmReturns(m) PROVE MinerTypeOK'
    BY <2>6 DEF ConfirmReturns, MinerTypeOK
  <2>7. ASSUME NEW m \in Miners, ConfirmFails(m) PROVE MinerTypeOK'
    BY <2>7 DEF ConfirmFails, MinerTypeOK
  <2>8. CASE UNCHANGED minerVars
    BY <2>8 DEF minerVars, MinerTypeOK
  <2>9. QED
    BY <2>1, <2>2, <2>3, <2>4, <2>5, <2>6, <2>7, <2>8 DEF MinerNext
<1>3. QED
  BY <1>1, <1>2, PTL DEF MinerSpec

(* The mainchain stays as it is or gets one more block. *)
LEMMA MainGrows ==
    ASSUME MinerTypeOK, [MinerNext]_minerVars
    PROVE  main' = main \/ \E S \in SUBSET Header : main' = Append(main, S)
<1>1. CASE MainBlock
  BY <1>1 DEF MainBlock, MinerTypeOK
<1>2. CASE ~MainBlock
  BY <1>2 DEF MinerNext, minerVars, AttemptBmm, AttemptKeeps, AttemptFails, ConfirmBmm,
              ConfirmReturns, ConfirmFails
<1>3. QED
  BY <1>1, <1>2

(* What confirm_bmm returns was mined when it was verified, and stays so. *)
THEOREM ReturnedAreMined == MinerSpec => []ReturnedWereMined
<1>1. MinerInit => ReturnedWereMined
  BY DEF MinerInit, ReturnedWereMined
<1>2. MinerTypeOK /\ ReturnedWereMined /\ [MinerNext]_minerVars => ReturnedWereMined'
  <2> SUFFICES ASSUME MinerTypeOK, ReturnedWereMined, [MinerNext]_minerVars,
                      NEW m \in Miners, NEW h \in returned'[m]
               PROVE  Mined(h)'
    BY DEF ReturnedWereMined
  <2>1. h \in Header /\ Mined(h)
    <3>1. CASE \E n \in Miners : ConfirmReturns(n)
      BY <3>1 DEF ConfirmReturns, MinerTypeOK, ReturnedWereMined
    <3>2. CASE ~\E n \in Miners : ConfirmReturns(n)
      <4>1. returned' = returned
        BY <3>2 DEF MinerNext, minerVars, MainBlock, AttemptBmm, AttemptKeeps, AttemptFails,
                    ConfirmBmm, ConfirmFails
      <4>2. QED
        BY <4>1 DEF MinerTypeOK, ReturnedWereMined
    <3>3. QED
      BY <3>1, <3>2
  <2>2. QED
    BY <2>1, MainGrows, MinedStays
<1>3. QED
  BY <1>1, <1>2, MinerTypeCorrect, PTL DEF MinerSpec

(* Two headers returned for one mainchain block were both taken by it. *)
THEOREM OneBlockForEachMainBlock == MinerSpec => []OneBlockPerMainBlock
<1>1. MinerTypeOK /\ ReturnedWereMined => OneBlockPerMainBlock
  <2> SUFFICES ASSUME MinerTypeOK, ReturnedWereMined,
                      NEW m \in Miners, NEW n \in Miners,
                      NEW g \in returned[m], NEW h \in returned[n], PrevMain[g] = PrevMain[h]
               PROVE  g = h
    BY DEF OneBlockPerMainBlock
  <2>1. Mined(g) /\ Mined(h) /\ g \in Header
    BY DEF ReturnedWereMined, MinerTypeOK
  <2>2. PrevMain[g] + 1 \in DOMAIN main
    BY <2>1, HeaderAssumption DEF Mined, HasNextBlock, MinerTypeOK
  <2>3. QED
    BY <2>1, <2>2 DEF Mined, MinerTypeOK
<1>2. QED
  BY <1>1, MinerTypeCorrect, ReturnedAreMined, PTL

(* Stronger, and inductive: every bid is accounted for, mined or not. *)
BidsAccountedFor ==
    \A m \in Miners : bids[m] \subseteq attempt[m] \cup block[m] \cup returned[m] \cup lost[m]

(* A header that the mainchain took is kept, confirmed, or lost by one of the two ways the code
   has: a later attempt, or a bid whose answer failed. *)
THEOREM WinnersStayAccountedFor == MinerSpec => []WinnersAccountedFor
<1>1. MinerInit => BidsAccountedFor
  BY DEF MinerInit, BidsAccountedFor
<1>2. MinerTypeOK /\ BidsAccountedFor /\ [MinerNext]_minerVars => BidsAccountedFor'
  <2> SUFFICES ASSUME MinerTypeOK, BidsAccountedFor, [MinerNext]_minerVars
               PROVE  BidsAccountedFor'
    OBVIOUS
  <2>1. ASSUME NEW m \in Miners, NEW h \in Header, AttemptBmm(m, h) PROVE BidsAccountedFor'
    BY <2>1 DEF AttemptBmm, Free, MinerTypeOK, BidsAccountedFor
  <2>2. ASSUME NEW m \in Miners, AttemptKeeps(m) PROVE BidsAccountedFor'
    BY <2>2 DEF AttemptKeeps, MinerTypeOK, BidsAccountedFor
  <2>3. ASSUME NEW m \in Miners, AttemptFails(m) PROVE BidsAccountedFor'
    BY <2>3 DEF AttemptFails, MinerTypeOK, BidsAccountedFor
  <2>4. ASSUME NEW m \in Miners, ConfirmReturns(m) PROVE BidsAccountedFor'
    BY <2>4 DEF ConfirmReturns, MinerTypeOK, BidsAccountedFor
  <2>5. CASE MainBlock \/ (\E m \in Miners : ConfirmBmm(m) \/ ConfirmFails(m)) \/ UNCHANGED minerVars
    BY <2>5 DEF MainBlock, ConfirmBmm, ConfirmFails, minerVars, BidsAccountedFor
  <2>6. QED
    BY <2>1, <2>2, <2>3, <2>4, <2>5 DEF MinerNext
<1>3. BidsAccountedFor => WinnersAccountedFor
  BY DEF BidsAccountedFor, WinnersAccountedFor
<1>4. QED
  BY <1>1, <1>2, <1>3, MinerTypeCorrect, PTL DEF MinerSpec

-----------------------------------------------------------------------------
(* Wallet. *)

(* There is one seed at most, and what get_new_address has given out is what
   the table holds. *)
TablesInv ==
    /\ \A s, t \in seed : s = t
    /\ seed \subseteq Seed
    /\ index_to_address \in Seq(Address)
    /\ TablesOfSeed
    /\ given = index_to_address

(* get_new_address gives out the next index, which is in neither table. *)
LEMMA NewAddressKeepsTables ==
    ASSUME TablesInv, TakeNewAddress, UNCHANGED seed
    PROVE  TablesInv'
<1>1. PICK s \in seed :
        LET index == NextIndex
            address == <<s, index>>
        IN  /\ index <= MaxIndex
            /\ index_to_address' = Put(index_to_address, index, address)
            /\ address_to_index' = Put(address_to_index, address, index)
            /\ given' = Append(given, address)
  BY DEF TakeNewAddress
<1> DEFINE n == Len(index_to_address)
           a == <<s, n + 1>>
<1>2. /\ n \in Nat /\ n + 1 \in 1 .. MaxIndex /\ a \in Address
      /\ DOMAIN index_to_address = 1 .. n
      /\ index_to_address' = Put(index_to_address, n + 1, a)
      /\ address_to_index' = Put(address_to_index, a, n + 1)
      /\ given' = Append(index_to_address, a)
  BY <1>1, MaxIndexAssumption DEF NextIndex, TablesInv, Address
<1> HIDE DEF a, n
<1>3. /\ DOMAIN index_to_address' = 1 .. n + 1
      /\ index_to_address'[n + 1] = a
      /\ \A i \in 1 .. n : index_to_address'[i] = index_to_address[i]
  BY <1>2 DEF Put
<1>4. index_to_address' = Append(index_to_address, a) /\ index_to_address' \in Seq(Address)
  <2>1. /\ Append(index_to_address, a) \in Seq(Address)
        /\ Len(Append(index_to_address, a)) = n + 1
        /\ \A i \in 1 .. n : Append(index_to_address, a)[i] = index_to_address[i]
        /\ Append(index_to_address, a)[n + 1] = a
    BY <1>2, AppendProperties DEF TablesInv, n
  <2>2. index_to_address' = [i \in 1 .. n + 1 |-> index_to_address'[i]]
    BY <1>2, <1>3 DEF Put
  <2>3. Append(index_to_address, a) = [i \in 1 .. n + 1 |-> Append(index_to_address, a)[i]]
    <3>1. Append(index_to_address, a) \in [1 .. n + 1 -> Address]
      BY <2>1, LenProperties
    <3>2. QED
      BY <3>1
  <2>4. \A i \in 1 .. n + 1 : index_to_address'[i] = Append(index_to_address, a)[i]
    BY <1>2, <1>3, <2>1
  <2>5. QED
    BY <2>1, <2>2, <2>3, <2>4
<1>5. Len(index_to_address') = n + 1
  BY <1>2, <1>3, <1>4
<1>6. \A i \in 1 .. n + 1 : seed = {index_to_address'[i][1]} /\ index_to_address'[i][2] = i
  <2>1. seed = {s} /\ a[1] = s /\ a[2] = n + 1
    BY <1>1 DEF TablesInv, a
  <2>2. \A i \in 1 .. n : seed = {index_to_address[i][1]} /\ index_to_address[i][2] = i
    BY <1>2 DEF TablesInv, TablesOfSeed
  <2>3. index_to_address'[n + 1][1] = s /\ index_to_address'[n + 1][2] = n + 1
    BY <1>3, <2>1
  <2>4. \A i \in 1 .. n + 1 : i \in 1 .. n \/ i = n + 1
    BY <1>2
  <2>5. QED
    BY <1>3, <2>1, <2>2, <2>3, <2>4
<1>7. address_to_index' =
        [b \in {index_to_address'[i] : i \in DOMAIN index_to_address'} |-> b[2]]
  <2>1. {index_to_address'[i] : i \in 1 .. n + 1}
            = {index_to_address[i] : i \in 1 .. n} \cup {a}
    BY <1>2, <1>3
  <2>2. address_to_index = [b \in {index_to_address[i] : i \in 1 .. n} |-> b[2]]
    BY <1>2 DEF TablesInv, TablesOfSeed
  <2>3. a[2] = n + 1
    BY DEF a
  <2>4. QED
    BY <1>2, <1>3, <2>1, <2>2, <2>3 DEF Put
<1>8. QED
  BY <1>2, <1>3, <1>4, <1>5, <1>6, <1>7 DEF TablesInv, TablesOfSeed

(* TablesInv is inductive. *)
LEMMA TablesInvariant == WalletSpec => []TablesInv
<1>1. WalletInit => TablesInv
  BY DEF WalletInit, TablesInv, TablesOfSeed
<1>2. TablesInv /\ [WalletNext]_walletVars => TablesInv'
  <2> SUFFICES ASSUME TablesInv, [WalletNext]_walletVars PROVE TablesInv'
    OBVIOUS
  <2>1. ASSUME NEW s \in Seed, SetSeed(s) PROVE TablesInv'
    BY <2>1 DEF SetSeed, TablesInv, TablesOfSeed
  <2>2. CASE GetNewAddress
    BY <2>2, NewAddressKeepsTables DEF GetNewAddress
  <2>3. ASSUME NEW c \in Caller, CallNewAddress(c) PROVE TablesInv'
    BY <2>3, NewAddressKeepsTables DEF CallNewAddress
  <2>4. CASE UNCHANGED <<seed, index_to_address, address_to_index, given>>
    BY <2>4 DEF TablesInv, TablesOfSeed
  <2>5. QED
    BY <2>1, <2>2, <2>3, <2>4 DEF WalletNext, walletVars, PutUtxos, DeleteUtxos, Select,
       CallFails, Create, Authorize, Return
<1>3. QED
  BY <1>1, <1>2, PTL DEF WalletSpec

(* Whatever calls interleave, the tables are those of the seed. *)
THEOREM TablesAreOfSeed == WalletSpec => []TablesOfSeed
<1>1. TablesInv => TablesOfSeed
  BY DEF TablesInv
<1>2. QED
  BY <1>1, TablesInvariant, PTL

(* An address contains its index, and every index is used once. *)
THEOREM AddressesStayFresh == WalletSpec => []AddressesFresh
<1>1. TablesInv => AddressesFresh
  BY DEF TablesInv, TablesOfSeed, AddressesFresh
<1>2. QED
  BY <1>1, TablesInvariant, PTL

(* authorize looks up address and seed in one transaction, and the tables are of
   the seed it finds: the key it signs with is that of the input's address. *)
KeysInv ==
    /\ call = [c \in Caller |-> call[c]]
    /\ \A c \in Caller : call[c].phase = "selected" =>
          call[c] = [phase |-> "selected", payment |-> call[c].payment,
                     inputs |-> call[c].inputs, addresses |-> call[c].addresses]
    /\ utxos \subseteq Coin
    /\ OwnersAuthorize

(* An address with an index in the tables is of the current seed, and the key is its owner's. *)
LEMMA FoundKeyIsOwners ==
    ASSUME TablesInv, NEW i \in Coin, OutputAt[i].address \in DOMAIN address_to_index
    PROVE  <<CHOOSE s \in seed : TRUE, address_to_index[OutputAt[i].address]>> = OutputAt[i].address
<1> DEFINE a == OutputAt[i].address
<1>1. a \in Seed \X (1 .. MaxIndex)
  BY CoinAssumption DEF Address
<1>2. PICK j \in DOMAIN index_to_address : a = index_to_address[j]
  BY DEF TablesInv, TablesOfSeed
<1>3. seed = {a[1]} /\ address_to_index[a] = a[2]
  BY <1>2 DEF TablesInv, TablesOfSeed
<1>4. (CHOOSE s \in seed : TRUE) = a[1]
  BY <1>3
<1>5. a = <<a[1], a[2]>>
  BY <1>1
<1>6. QED
  BY <1>3, <1>4, <1>5

(* authorize looks up the key of an input's address in the tables as they are now, so it fails or
   signs with the owner's key, whatever set_seed and delete_utxos did since the selection. *)
THEOREM OwnersDoAuthorize == WalletSpec => []OwnersAuthorize
<1>1. WalletInit => KeysInv
  BY DEF WalletInit, KeysInv, OwnersAuthorize, Idle
<1>2. TablesInv /\ KeysInv /\ [WalletNext]_walletVars => KeysInv'
  <2> SUFFICES ASSUME TablesInv, KeysInv, [WalletNext]_walletVars PROVE KeysInv'
    OBVIOUS
  <2>1. utxos' \subseteq Coin
    BY DEF WalletNext, walletVars, KeysInv, SetSeed, PutUtxos, DeleteUtxos, GetNewAddress, Select,
       CallNewAddress, CallFails, Create, Authorize, Return
  <2>2. CASE UNCHANGED call
    BY <2>1, <2>2 DEF KeysInv, OwnersAuthorize
  <2>3. ASSUME NEW c \in Caller, NEW p \in Payment, Select(c, p) PROVE KeysInv'
    BY <2>1, <2>3 DEF Select, KeysInv, OwnersAuthorize
  <2>4. ASSUME NEW c \in Caller, CallNewAddress(c) PROVE KeysInv'
    <3> DEFINE q == Append(call[c].addresses, Last(given'))
    <3>1. call' = [call EXCEPT ![c].addresses = q]
      BY <2>4 DEF CallNewAddress
    <3> HIDE DEF q
    <3>2. call[c] = [phase |-> "selected", payment |-> call[c].payment,
                     inputs |-> call[c].inputs, addresses |-> call[c].addresses]
      BY <2>4 DEF CallNewAddress, KeysInv
    <3> DEFINE r == [phase |-> "selected", payment |-> call[c].payment,
                     inputs |-> call[c].inputs, addresses |-> q]
    <3>3. r = [call[c] EXCEPT !.addresses = q]
      BY <3>2
    <3>4. call' = [d \in Caller |-> IF d = c THEN r ELSE call[d]]
      BY <3>1, <3>3 DEF KeysInv
    <3>5. /\ r.phase = "selected"
          /\ r = [phase |-> "selected", payment |-> r.payment,
                  inputs |-> r.inputs, addresses |-> r.addresses]
      OBVIOUS
    <3> HIDE DEF r
    <3>6. QED
      BY <2>1, <3>4, <3>5 DEF KeysInv, OwnersAuthorize
  <2>5. ASSUME NEW c \in Caller, call' = [call EXCEPT ![c] = Idle] PROVE KeysInv'
    BY <2>1, <2>5 DEF KeysInv, OwnersAuthorize, Idle
  <2>6. ASSUME NEW c \in Caller, Create(c) PROVE KeysInv'
    BY <2>1, <2>6 DEF Create, KeysInv, OwnersAuthorize
  <2>7. ASSUME NEW c \in Caller, Authorize(c), Authorizable(call[c].inputs) PROVE KeysInv'
    <3> DEFINE T == call[c].inputs
               keys == [i \in T |->
                    <<CHOOSE s \in seed : TRUE, address_to_index[OutputAt[i].address]>>]
               r == [phase |-> "authorized", inputs |-> T, keys |-> keys]
    <3>1. \A i \in T : keys[i] = OutputAt[i].address
      BY <2>7, FoundKeyIsOwners DEF Authorizable, KeysInv
    <3>2. call' = [call EXCEPT ![c] = r]
      BY <2>7 DEF Authorize
    <3> HIDE DEF keys
    <3>3. r.phase = "authorized" /\ r.inputs = T /\ r.keys = keys
      OBVIOUS
    <3> HIDE DEF r, T
    <3>4. QED
      BY <2>1, <3>1, <3>2, <3>3 DEF KeysInv, OwnersAuthorize
  <2>8. QED
    BY <2>2, <2>3, <2>4, <2>5, <2>6, <2>7 DEF WalletNext, walletVars, SetSeed, PutUtxos,
       DeleteUtxos, GetNewAddress, CallFails, Authorize, Return
<1>3. KeysInv => OwnersAuthorize
  BY DEF KeysInv
<1>4. QED
  BY <1>1, <1>2, <1>3, TablesInvariant, PTL DEF WalletSpec

(* The wallet is told of outpoints only. *)
LEMMA WalletCoins == WalletSpec => [](utxos \subseteq Coin)
<1>1. WalletInit => utxos \subseteq Coin
  BY DEF WalletInit
<1>2. utxos \subseteq Coin /\ [WalletNext]_walletVars => (utxos \subseteq Coin)'
  BY DEF WalletNext, walletVars, SetSeed, PutUtxos, DeleteUtxos, GetNewAddress, Select,
         CallNewAddress, CallFails, Create, Authorize, Return
<1> QED
  BY <1>1, <1>2, PTL DEF WalletSpec

(* More coins are worth no less. *)
LEMMA CoinsAreWorth ==
    ASSUME NEW S \in SUBSET Coin, NEW T \in SUBSET S
    PROVE  ValueOf(T) \in Nat /\ ValueOf(S) \in Nat /\ ValueOf(T) <= ValueOf(S)
<1> DEFINE units(c) == {c} \X (1 .. OutputAt[c].value)
           all(R)   == UNION {units(c) : c \in R}
<1>1. IsFiniteSet(all(S))
  <2> DEFINE g == [c \in S |-> units(c)]
  <2>1. g \in Surjection(S, {units(c) : c \in S})
    BY DEF Surjection
  <2>2. IsFiniteSet(S)
    BY CoinAssumption, FS_Subset
  <2>3. IsFiniteSet({units(c) : c \in S})
    <3> HIDE DEF g, units
    <3> QED
      BY <2>1, <2>2, FS_Surjection
  <2>4. ASSUME NEW c \in S PROVE IsFiniteSet(units(c))
    <3>1. IsFiniteSet({c})
      BY FS_Singleton
    <3>2. IsFiniteSet(1 .. OutputAt[c].value)
      BY CoinAssumption, FS_Interval
    <3> QED
      BY <3>1, <3>2, FS_Product
  <2> HIDE DEF units
  <2> QED
    BY <2>3, <2>4, FS_UNION
<1>2. all(T) \subseteq all(S)
  OBVIOUS
<1>3. ValueOf(S) = Cardinality(all(S)) /\ ValueOf(T) = Cardinality(all(T))
  BY DEF ValueOf
<1> HIDE DEF all
<1>4. IsFiniteSet(all(T)) /\ Cardinality(all(T)) <= Cardinality(all(S))
  BY <1>1, <1>2, FS_Subset
<1> QED
  BY <1>1, <1>3, <1>4, FS_CardinalityType

(* The loop of select_coins takes a beginning of the sorted coins: all of
   them, or those up to the first that puts the total above the value. *)
StopsAt(q, S, value, m) ==
    /\ Cardinality(S) \in Nat
    /\ DOMAIN q = 1 .. Cardinality(S)
    /\ {q[k] : k \in DOMAIN q} = S
    /\ \A k, l \in DOMAIN q : q[k] = q[l] => k = l
    /\ Taken(q, value) = {q[k] : k \in 1 .. m}
    /\ m > 0 => ValueOf({q[k] : k \in 1 .. m - 1}) <= value
    /\ m < Cardinality(S) => ValueOf({q[k] : k \in 1 .. m}) > value

LEMMA TakenIsPrefix ==
    ASSUME NEW S \in SUBSET Coin, NEW value \in Nat, NEW q \in Sorted(S)
    PROVE  \E m \in 0 .. Cardinality(S) : StopsAt(q, S, value, m)
<1> DEFINE n == Cardinality(S)
           first(j) == {q[k] : k \in 1 .. j}
<1>1. IsFiniteSet(S) /\ n \in Nat
  BY CoinAssumption, FS_Subset, FS_CardinalityType
<1>2. q \in [1 .. n -> S] /\ \A k, l \in 1 .. n : k # l => q[k] # q[l]
  BY DEF Sorted, SetToSeqs
<1>3. {q[k] : k \in 1 .. n} = S
  <2>1. q \in Bijection(1 .. n, {q[k] : k \in 1 .. n})
    BY <1>2 DEF Bijection, Injection, Surjection, IsInjective
  <2>2. IsFiniteSet(1 .. n) /\ Cardinality(1 .. n) = n
    BY <1>1, FS_Interval
  <2>3. Cardinality({q[k] : k \in 1 .. n}) = n
    BY <2>1, <2>2, FS_Bijection DEF ExistsBijection
  <2>4. {q[k] : k \in 1 .. n} \in SUBSET S
    BY <1>2
  <2> QED
    BY <1>1, <2>3, <2>4, FS_Subset
<1>4. \A j \in 0 .. n : \A i \in 0 .. j : ValueOf(first(i)) \in Nat /\ ValueOf(first(i)) <= ValueOf(first(j))
  <2> SUFFICES ASSUME NEW j \in 0 .. n, NEW i \in 0 .. j
               PROVE  ValueOf(first(i)) \in Nat /\ ValueOf(first(i)) <= ValueOf(first(j))
    OBVIOUS
  <2>1. first(j) \in SUBSET Coin /\ first(i) \in SUBSET first(j)
    BY <1>1, <1>2
  <2> HIDE DEF first
  <2> QED
    BY <2>1, CoinsAreWorth
<1> DEFINE stops == {j \in 0 .. n : ValueOf(first(j)) > value}
<1>5. Taken(q, value) = {q[i] : i \in {j \in 1 .. n : ValueOf(first(j - 1)) <= value}}
  BY <1>2 DEF Taken
<1> HIDE DEF first
<1>6. CASE stops = {}
  <2>1. {j \in 1 .. n : ValueOf(first(j - 1)) <= value} = 1 .. n
    <3> SUFFICES ASSUME NEW j \in 1 .. n PROVE ValueOf(first(j - 1)) <= value
      OBVIOUS
    <3>1. j - 1 \in 0 .. n /\ j - 1 \in 0 .. j - 1
      BY <1>1
    <3> QED
      BY <1>4, <1>6, <3>1
  <2>2. Taken(q, value) = {q[k] : k \in 1 .. n}
    BY <1>5, <2>1
  <2>3. n > 0 => ValueOf(first(n - 1)) <= value
    BY <1>1, <1>4, <1>6
  <2>4. StopsAt(q, S, value, n)
    BY <1>1, <1>2, <1>3, <2>2, <2>3 DEF StopsAt, first
  <2> QED
    BY <1>1, <2>4
<1>7. CASE stops # {}
  <2>1. PICK m \in stops : \A j \in stops : m <= j
    <3>1. stops \subseteq Nat
      OBVIOUS
    <3> HIDE DEF stops
    <3> QED
      BY <1>7, <3>1, LeastNat
  <2>2. {j \in 1 .. n : ValueOf(first(j - 1)) <= value} = 1 .. m
    <3>1. ASSUME NEW j \in 1 .. m
          PROVE  j \in 1 .. n /\ ValueOf(first(j - 1)) <= value
      <4>1. j - 1 \in 0 .. n /\ j - 1 < m /\ j \in 1 .. n
        BY <1>1, <2>1
      <4>2. ValueOf(first(j - 1)) \in Nat /\ j - 1 \notin stops
        BY <1>4, <2>1, <4>1
      <4> QED
        BY <4>1, <4>2
    <3>2. ASSUME NEW j \in 1 .. n, ValueOf(first(j - 1)) <= value
          PROVE  j \in 1 .. m
      <4>1. CASE j > m
        <5>1. j - 1 \in 0 .. n /\ m \in 0 .. j - 1
          BY <4>1, <1>1, <2>1
        <5>2. ValueOf(first(m)) <= ValueOf(first(j - 1)) /\ ValueOf(first(m)) \in Nat
              /\ ValueOf(first(j - 1)) \in Nat
          BY <5>1, <1>4
        <5> QED
          BY <5>2, <3>2, <2>1
      <4> QED
        BY <4>1, <2>1
    <3> QED
      BY <3>1, <3>2
  <2>3. Taken(q, value) = {q[k] : k \in 1 .. m}
    BY <1>5, <2>2
  <2>4. m > 0 => ValueOf(first(m - 1)) <= value
    <3> SUFFICES ASSUME m > 0 PROVE ValueOf(first(m - 1)) <= value
      OBVIOUS
    <3>1. m - 1 \in 0 .. n /\ ~(m <= m - 1)
      BY <1>1, <2>1
    <3>2. m - 1 \notin stops
      BY <2>1, <3>1
    <3>3. ValueOf(first(m - 1)) \in Nat
      BY <1>4, <3>1
    <3> QED
      BY <3>1, <3>2, <3>3
  <2>5. ValueOf(first(m)) > value /\ m \in 0 .. n
    BY <2>1
  <2>6. StopsAt(q, S, value, m)
    BY <1>1, <1>2, <1>3, <2>3, <2>4, <2>5 DEF StopsAt, first
  <2> QED
    BY <2>5, <2>6
<1> QED
  BY <1>6, <1>7

(* For any coins and any payment a selection is enough, takes the smallest
   coins first and no coin after it has enough, and is refused only if all
   the coins together are too few. *)
THEOREM SelectionsAreExact == WalletSpec => []SelectionExact
<1>1. ASSUME utxos \subseteq Coin PROVE SelectionExact
  <2> SUFFICES ASSUME NEW p \in Payment
               PROVE  LET v == Target(p)
                          C == Spendable(utxos)
                      IN  /\ Selections(utxos, v) = {} <=> ValueOf(C) < v
                          /\ \A T \in Selections(utxos, v) :
                               /\ ValueOf(T) >= v
                               /\ \A t \in T, u \in C \ T : OutputAt[t].value <= OutputAt[u].value
                               /\ T # {} => \E t \in T : ValueOf(T \ {t}) <= v
    BY DEF SelectionExact
  <2> DEFINE v == Target(p)
             C == Spendable(utxos)
             n == Cardinality(C)
  <2>1. v \in Nat /\ C \in SUBSET Coin
    BY <1>1, PaymentAssumption DEF Target, Spendable
  <2>2. Selections(utxos, v) = {T \in {Taken(q, v) : q \in Sorted(C)} : ValueOf(T) >= v}
    BY DEF Selections
  <2> HIDE DEF v, C
  <2>3. ASSUME NEW q \in Sorted(C)
        PROVE  /\ Taken(q, v) \in SUBSET C
               /\ ValueOf(Taken(q, v)) \in Nat /\ ValueOf(C) \in Nat
               /\ ValueOf(Taken(q, v)) <= ValueOf(C)
               /\ ValueOf(C) >= v => ValueOf(Taken(q, v)) >= v
               /\ \A t \in Taken(q, v), u \in C \ Taken(q, v) : OutputAt[t].value <= OutputAt[u].value
               /\ Taken(q, v) # {} => \E t \in Taken(q, v) : ValueOf(Taken(q, v) \ {t}) <= v
    <3>0. PICK m \in 0 .. Cardinality(C) : StopsAt(q, C, v, m)
      BY <2>1, TakenIsPrefix
    <3>1. /\ n \in Nat /\ DOMAIN q = 1 .. n
          /\ {q[k] : k \in DOMAIN q} = C
          /\ \A k, l \in DOMAIN q : q[k] = q[l] => k = l
          /\ Taken(q, v) = {q[k] : k \in 1 .. m}
          /\ m > 0 => ValueOf({q[k] : k \in 1 .. m - 1}) <= v
          /\ m < n => ValueOf({q[k] : k \in 1 .. m}) > v
      BY <3>0 DEF StopsAt
    <3> DEFINE T == {q[k] : k \in 1 .. m}
    <3>2. T \in SUBSET C
      BY <3>1
    <3>3. ValueOf(T) \in Nat /\ ValueOf(C) \in Nat /\ ValueOf(T) <= ValueOf(C)
      BY <2>1, <3>2, CoinsAreWorth
    <3>4. ValueOf(C) >= v => ValueOf(T) >= v
      <4>1. CASE m = n
        <5>1. T = C
          BY <4>1, <3>1
        <5> QED
          BY <5>1
      <4>2. CASE m < n
        BY <4>2, <3>1, <3>3, <2>1
      <4> QED
        BY <4>1, <4>2, <3>1
    <3>5. ASSUME NEW t \in T, NEW u \in C \ T
          PROVE  OutputAt[t].value <= OutputAt[u].value
      <4>1. PICK i \in 1 .. m : t = q[i]
        OBVIOUS
      <4>2. PICK j \in DOMAIN q : u = q[j]
        BY <3>1
      <4>3. i \in DOMAIN q /\ i < j
        BY <4>1, <4>2, <3>1
      <4>4. \A k, l \in DOMAIN q : k < l => OutputAt[q[k]].value <= OutputAt[q[l]].value
        BY DEF Sorted
      <4> QED
        BY <4>1, <4>2, <4>3, <4>4
    <3>6. ASSUME T # {} PROVE \E t \in T : ValueOf(T \ {t}) <= v
      <4>1. m > 0 /\ m \in DOMAIN q /\ q[m] \in T
        BY <3>1, <3>6
      <4>2. T \ {q[m]} = {q[k] : k \in 1 .. m - 1}
        BY <3>1, <4>1
      <4>3. ValueOf(T \ {q[m]}) <= v
        BY <3>1, <4>1, <4>2
      <4> QED
        BY <4>1, <4>3
    <3>7. T = Taken(q, v)
      BY <3>1
    <3> HIDE DEF T
    <3> QED
      BY <3>2, <3>3, <3>4, <3>5, <3>6, <3>7
  <2>4. Sorted(C) # {}
    <3> DEFINE w == [c \in Coin |-> OutputAt[c].value]
    <3>1. IsFiniteSet(C) /\ \A c \in C : w[c] \in Nat
      BY <2>1, CoinAssumption, FS_Subset
    <3>2. PICK q \in SetToSeqs(C) : \A i, j \in DOMAIN q : i < j => w[q[i]] <= w[q[j]]
      BY <3>1, SortedListExists
    <3>3. \A i \in DOMAIN q : q[i] \in Coin
      BY <2>1, <3>2 DEF SetToSeqs
    <3>4. \A i, j \in DOMAIN q : i < j => OutputAt[q[i]].value <= OutputAt[q[j]].value
      BY <3>2, <3>3
    <3> QED
      BY <3>2, <3>4 DEF Sorted
  <2>5. PICK q \in Sorted(C) : TRUE
    BY <2>4
  <2>6. Selections(utxos, v) = {} <=> ValueOf(C) < v
    <3>1. ASSUME ValueOf(C) >= v PROVE Selections(utxos, v) # {}
      BY <2>2, <2>3, <2>5, <3>1
    <3>2. ASSUME NEW T \in Selections(utxos, v) PROVE ~(ValueOf(C) < v)
      BY <2>1, <2>2, <2>3, <3>2
    <3>3. ValueOf(C) \in Nat
      BY <2>3, <2>5
    <3> QED
      BY <2>1, <3>1, <3>2, <3>3
  <2>7. ASSUME NEW T \in Selections(utxos, v)
        PROVE  /\ ValueOf(T) >= v
               /\ \A t \in T, u \in C \ T : OutputAt[t].value <= OutputAt[u].value
               /\ T # {} => \E t \in T : ValueOf(T \ {t}) <= v
    <3>1. PICK r \in Sorted(C) : T = Taken(r, v) /\ ValueOf(T) >= v
      BY <2>2
    <3> QED
      BY <3>1, <2>3
  <2> QED
    BY <2>6, <2>7 DEF v, C
<1> QED
  BY <1>1, WalletCoins, PTL

-----------------------------------------------------------------------------
(* Authorization. *)

(* The packages filled so far take the pairs one after the other. *)
PackagesUpTo(n) ==
    /\ UNION {packages[k] : k \in DOMAIN packages} = 1 .. n
    /\ \A k, l \in DOMAIN packages : k # l => packages[k] \cap packages[l] = {}

PackedInv ==
    /\ body \in Body /\ num_threads \in Nat \ {0} /\ packages \in Seq(SUBSET Nat)
    /\ Len(packages) <= num_threads
    /\ result \in {"packing", "verifying", "accepted", "rejected", "panicked"}
    /\ result = "packing" => /\ PackagesUpTo(Len(packages) * PackageSize)
                              /\ Len(packages) * PackageSize <= NumPairs(body)
    /\ result \in {"verifying", "accepted", "rejected"} => NumPairs(body) = Len(body.authorizations)
    /\ result = "panicked" => NumPairs(body) < Len(body.authorizations)
    /\ EachPairPacked

(* The message of each authorization is the transaction of the input it
   stands for, and there are as many messages as inputs. *)
LEMMA MessagesAreInputs ==
    ASSUME NEW b \in Body
    PROVE  /\ Len(Messages(b)) \in Nat /\ DOMAIN Messages(b) = 1 .. Len(Messages(b))
           /\ Len(Messages(b)) = NumInputs(b)
           /\ \A k \in DOMAIN b.transactions : \A i \in 1 .. InputNumber[b.transactions[k]] :
                 /\ Position(b, k, i) \in DOMAIN Messages(b)
                 /\ Messages(b)[Position(b, k, i)] = b.transactions[k]
           /\ \A p \in DOMAIN Messages(b) :
                 \E k \in DOMAIN b.transactions : \E i \in 1 .. InputNumber[b.transactions[k]] :
                    p = Position(b, k, i)
<1> DEFINE row(k) == [i \in 1 .. InputNumber[b.transactions[k]] |-> b.transactions[k]]
           s == [k \in DOMAIN b.transactions |-> row(k)]
<1>1. b.transactions \in Seq(Transaction) /\ \A t \in Transaction : InputNumber[t] \in Nat
  BY BodyAssumption
<1>2. /\ DOMAIN b.transactions = 1 .. Len(b.transactions) /\ Len(b.transactions) \in Nat
      /\ \A k \in DOMAIN b.transactions : b.transactions[k] \in Transaction
  BY <1>1
<1>3. \A k \in DOMAIN b.transactions :
          /\ row(k) \in Seq(Transaction)
          /\ DOMAIN row(k) = 1 .. InputNumber[b.transactions[k]]
          /\ \A i \in DOMAIN row(k) : row(k)[i] = b.transactions[k]
  BY <1>1, <1>2
<1> HIDE DEF row
<1>4. s \in Seq(Seq(Transaction)) /\ Len(s) = Len(b.transactions)
  BY <1>2, <1>3
<1>5. \A k \in DOMAIN b.transactions : s[k] = row(k)
  OBVIOUS
<1>6. DOMAIN s = DOMAIN b.transactions
  OBVIOUS
<1>7. Messages(b) = FlattenSeq(s)
  BY DEF Messages, row
<1> HIDE DEF s
<1>8. \A n \in 0 .. Len(b.transactions) : Cells(s, n) = InputsOf(b, 1 .. n)
  <2> SUFFICES ASSUME NEW n \in 0 .. Len(b.transactions)
               PROVE  Cells(s, n) = InputsOf(b, 1 .. n)
    OBVIOUS
  <2>1. ASSUME NEW l \in 1 .. n
        PROVE  {l} \X DOMAIN s[l] = {l} \X (1 .. InputNumber[b.transactions[l]])
    <3>1. l \in DOMAIN b.transactions
      BY <1>2
    <3> QED
      BY <3>1, <1>3, <1>5
  <2> QED
    BY <2>1 DEF Cells, InputsOf
<1>9. \A k \in DOMAIN b.transactions : \A i : Before(s, k) + i = Position(b, k, i)
  <2> SUFFICES ASSUME NEW k \in DOMAIN b.transactions PROVE Cells(s, k - 1) = InputsOf(b, 1 .. k - 1)
    BY DEF Before, Position
  <2>1. k - 1 \in 0 .. Len(b.transactions)
    BY <1>2
  <2> QED
    BY <2>1, <1>8
<1>10. Cardinality(Cells(s, Len(s))) = NumInputs(b)
  BY <1>2, <1>4, <1>8 DEF NumInputs
<1>11. /\ FlattenSeq(s) \in Seq(Transaction)
       /\ Len(FlattenSeq(s)) = Cardinality(Cells(s, Len(s)))
       /\ \A k \in DOMAIN s : \A i \in DOMAIN s[k] :
             /\ Before(s, k) + i \in DOMAIN FlattenSeq(s)
             /\ FlattenSeq(s)[Before(s, k) + i] = s[k][i]
       /\ \A p \in DOMAIN FlattenSeq(s) :
             \E k \in DOMAIN s : \E i \in DOMAIN s[k] : p = Before(s, k) + i
  BY <1>4, FlattenIsJoined
<1>12. /\ Len(Messages(b)) \in Nat /\ DOMAIN Messages(b) = 1 .. Len(Messages(b))
  BY <1>7, <1>11
<1>13. Len(Messages(b)) = NumInputs(b)
  BY <1>7, <1>10, <1>11
<1>14. ASSUME NEW k \in DOMAIN b.transactions, NEW i \in 1 .. InputNumber[b.transactions[k]]
       PROVE  /\ Position(b, k, i) \in DOMAIN Messages(b)
              /\ Messages(b)[Position(b, k, i)] = b.transactions[k]
  <2>1. i \in DOMAIN s[k] /\ s[k][i] = b.transactions[k] /\ k \in DOMAIN s
    BY <1>3, <1>5, <1>6
  <2> QED
    BY <2>1, <1>7, <1>9, <1>11
<1>15. ASSUME NEW p \in DOMAIN Messages(b)
       PROVE  \E k \in DOMAIN b.transactions : \E i \in 1 .. InputNumber[b.transactions[k]] :
                 p = Position(b, k, i)
  <2>1. PICK k \in DOMAIN s : \E i \in DOMAIN s[k] : p = Before(s, k) + i
    BY <1>7, <1>11
  <2>2. k \in DOMAIN b.transactions /\ DOMAIN s[k] = 1 .. InputNumber[b.transactions[k]]
    BY <1>3, <1>5, <1>6
  <2> QED
    BY <2>1, <2>2, <1>9
<1> QED
  BY <1>12, <1>13, <1>14, <1>15

(* There are as many pairs as authorizations, or as inputs if those are fewer. *)
LEMMA NumPairsBound ==
    ASSUME NEW b \in Body
    PROVE  /\ Len(b.authorizations) \in Nat /\ NumInputs(b) \in Nat
           /\ NumPairs(b) \in {Len(b.authorizations), NumInputs(b)}
           /\ NumPairs(b) <= Len(b.authorizations) /\ NumPairs(b) <= NumInputs(b)
<1> DEFINE S == {Len(b.authorizations), Len(Messages(b))}
<1>1. Len(b.authorizations) \in Nat /\ Len(Messages(b)) \in Nat /\ Len(Messages(b)) = NumInputs(b)
  BY BodyAssumption, MessagesAreInputs
<1>2. \E x \in S : \A y \in S : x <= y
  BY <1>1
<1>3. NumPairs(b) = CHOOSE x \in S : \A y \in S : x <= y
  BY DEF NumPairs, Min
<1>4. NumPairs(b) \in S /\ \A y \in S : NumPairs(b) <= y
  BY <1>2, <1>3
<1>5. QED
  BY <1>1, <1>4

(* The quotient by the number of threads is a natural number. *)
LEMMA PackageSizeNat == ASSUME body \in Body, num_threads \in Nat \ {0} PROVE PackageSize \in Nat
<1>1. Len(body.authorizations) \in Nat
  BY BodyAssumption
<1>2. \A x \in Nat, y \in Nat \ {0} : x \div y \in Nat
  OBVIOUS
<1>3. QED
  BY <1>1, <1>2 DEF PackageSize

(* As many packages as there are threads do not exceed the authorizations. *)
LEMMA PackagesFit ==
    ASSUME Len(body.authorizations) \in Nat, num_threads \in Nat \ {0},
           NEW n \in Nat, n < num_threads
    PROVE  n * PackageSize + PackageSize <= Len(body.authorizations)
<1> DEFINE a == Len(body.authorizations)
           q == PackageSize
<1>1. q \in Nat /\ num_threads * q <= a
  <2>1. \A x \in Nat, y \in Nat \ {0} : x \div y \in Nat /\ y * (x \div y) <= x
    OBVIOUS
  <2> QED
    BY <2>1 DEF PackageSize
<1> HIDE DEF a, q
<1>2. PICK d \in Nat : num_threads = n + 1 + d
  <2>1. num_threads - n - 1 \in Nat
    OBVIOUS
  <2>2. num_threads = n + 1 + (num_threads - n - 1)
    OBVIOUS
  <2> QED
    BY <2>1, <2>2
<1>3. num_threads * q = n * q + q + d * q /\ d * q \in Nat /\ n * q \in Nat
  BY <1>1, <1>2
<1>4. a \in Nat
  BY DEF a
<1>5. n * q + q <= a
  BY <1>1, <1>3, <1>4
<1> QED
  BY <1>5 DEF a, q

(* Packages that share no position hold as many signatures as positions. *)
LEMMA PackedNumber ==
    ASSUME NEW s, NEW n \in Nat,
           UNION {s[k] : k \in DOMAIN s} = 1 .. n,
           \A k, l \in DOMAIN s : k # l => s[k] \cap s[l] = {}
    PROVE  Cardinality(Packed(s)) = n
<1> DEFINE f == [p \in 1 .. n |-> <<CHOOSE k \in DOMAIN s : p \in s[k], p>>]
<1>1. \A p \in 1 .. n : \E k \in DOMAIN s : p \in s[k]
  OBVIOUS
<1>2. \A p \in 1 .. n : (CHOOSE k \in DOMAIN s : p \in s[k]) \in DOMAIN s
                        /\ p \in s[CHOOSE k \in DOMAIN s : p \in s[k]]
  BY <1>1
<1>3. \A p \in 1 .. n : f[p] \in Packed(s)
  BY <1>2 DEF Packed
<1>4. \A p, q \in 1 .. n : f[p] = f[q] => p = q
  OBVIOUS
<1>5. ASSUME NEW x \in Packed(s) PROVE \E p \in 1 .. n : f[p] = x
  <2>1. PICK k \in DOMAIN s : x \in {k} \X s[k]
    BY DEF Packed
  <2>2. x = <<k, x[2]>> /\ x[2] \in s[k]
    BY <2>1
  <2>3. x[2] \in 1 .. n
    BY <2>2
  <2>4. (CHOOSE l \in DOMAIN s : x[2] \in s[l]) = k
    BY <1>2, <2>2, <2>3
  <2>5. f[x[2]] = x
    BY <2>2, <2>3, <2>4
  <2>6. QED
    BY <2>3, <2>5
<1>6. f \in Bijection(1 .. n, Packed(s))
  <2> HIDE DEF f
  <2>1. f \in [1 .. n -> Packed(s)]
    BY <1>3 DEF f
  <2>2. QED
    BY <2>1, <1>4, <1>5 DEF Bijection, Injection, IsInjective, Surjection
<1>7. QED
  <2>1. ExistsBijection(1 .. n, Packed(s))
    BY <1>6 DEF ExistsBijection
  <2>2. QED
    BY <2>1, FS_CountingElements

(* PackedInv is inductive. *)
LEMMA PackedInvariant == VerifySpec => []PackedInv
<1>1. VerifyInit => PackedInv
  <2> SUFFICES ASSUME VerifyInit PROVE PackedInv
    OBVIOUS
  <2>1. /\ body \in Body /\ num_threads \in Nat \ {0} /\ packages = <<>> /\ result = "packing"
    BY ThreadsAssumption DEF VerifyInit
  <2>2. PackageSize \in Nat /\ NumPairs(body) \in Nat
    BY <2>1, PackageSizeNat, NumPairsBound
  <2>3. Len(packages) = 0 /\ DOMAIN packages = {} /\ packages \in Seq(SUBSET Nat)
    BY <2>1
  <2>4. PackagesUpTo(0)
    BY <2>3 DEF PackagesUpTo
  <2>5. Len(packages) * PackageSize = 0
    BY <2>2, <2>3
  <2>6. QED
    BY <2>1, <2>2, <2>3, <2>4, <2>5 DEF PackedInv, EachPairPacked
<1>2. PackedInv /\ [VerifyNext]_verifyVars => PackedInv'
  <2> SUFFICES ASSUME PackedInv, [VerifyNext]_verifyVars PROVE PackedInv'
    OBVIOUS
  <2> DEFINE n == Len(packages)
             N == NumPairs(body)
  <2>1. /\ PackageSize \in Nat /\ N \in Nat /\ N <= Len(body.authorizations)
        /\ n \in Nat /\ DOMAIN packages = 1 .. n /\ num_threads \in Nat \ {0}
        /\ Len(body.authorizations) \in Nat
    BY PackageSizeNat, NumPairsBound, BodyAssumption DEF PackedInv
  <2>2. CASE FillPackage
    <3>1. CASE /\ n * PackageSize + PackageSize > N
               /\ result' = "panicked" /\ UNCHANGED packages
      <4>1. n < num_threads /\ UNCHANGED <<body, num_threads>>
        BY <2>2 DEF FillPackage
      <4>2. n * PackageSize + PackageSize <= Len(body.authorizations)
        BY <2>1, <4>1, PackagesFit
      <4>3. (NumPairs(body) < Len(body.authorizations))'
        BY <2>1, <3>1, <4>1, <4>2
      <4> QED
        BY <3>1, <4>1, <4>3 DEF PackedInv, EachPairPacked
    <3>2. CASE /\ n * PackageSize + PackageSize <= N
               /\ packages' = Append(packages, n * PackageSize + 1 .. n * PackageSize + PackageSize)
               /\ result' = result
      <4>1. /\ result = "packing" /\ n < num_threads
            /\ UNCHANGED <<body, num_threads>>
        BY <2>2 DEF FillPackage
      <4> DEFINE first == n * PackageSize
                 new == first + 1 .. first + PackageSize
      <4>2. first \in Nat
        BY <2>1
      <4> HIDE DEF first
      <4>3. (n + 1) * PackageSize = first + PackageSize
        BY <2>1 DEF first
      <4>4. packages' = Append(packages, new) /\ first + PackageSize <= N
        BY <3>2 DEF first
      <4>5. new \in SUBSET Nat /\ packages \in Seq(SUBSET Nat)
        BY <2>1, <4>2 DEF PackedInv
      <4>6. /\ packages' \in Seq(SUBSET Nat) /\ Len(packages') = n + 1
            /\ DOMAIN packages' = 1 .. n + 1
            /\ packages'[n + 1] = new
            /\ \A k \in 1 .. n : packages'[k] = packages[k]
        BY <4>4, <4>5, <2>1, AppendProperties
      <4>7. PackagesUpTo(first)
        BY <4>1 DEF PackedInv, first
      <4>8. UNION {packages'[k] : k \in DOMAIN packages'}
               = (UNION {packages[k] : k \in DOMAIN packages}) \cup new
        <5>1. DOMAIN packages' = DOMAIN packages \cup {n + 1}
          BY <2>1, <4>6
        <5> HIDE DEF new
        <5>2. QED
          BY <5>1, <4>6, <2>1
      <4>9. UNION {packages'[k] : k \in DOMAIN packages'} = 1 .. first + PackageSize
        <5>1. (1 .. first) \cup new = 1 .. first + PackageSize
          BY <2>1, <4>2
        <5>2. QED
          BY <5>1, <4>7, <4>8 DEF PackagesUpTo
      <4>10. \A k, l \in DOMAIN packages' : k # l => packages'[k] \cap packages'[l] = {}
        <5>1. \A k \in 1 .. n : packages[k] \subseteq 1 .. first
          BY <4>7, <2>1 DEF PackagesUpTo
        <5>2. (1 .. first) \cap new = {}
          BY <2>1, <4>2
        <5>3. \A k \in 1 .. n : packages[k] \cap new = {}
          BY <5>1, <5>2
        <5>4. \A k, l \in 1 .. n : k # l => packages[k] \cap packages[l] = {}
          BY <4>7, <2>1 DEF PackagesUpTo
        <5>5. \A k \in DOMAIN packages' : k \in 1 .. n \/ k = n + 1
          BY <4>6, <2>1
        <5> HIDE DEF new
        <5>6. QED
          BY <5>3, <5>4, <5>5, <4>6
      <4>11. PackageSize' = PackageSize /\ NumPairs(body)' = N
        BY <4>1 DEF PackageSize
      <4>12. PackagesUpTo(Len(packages) * PackageSize)'
        <5>1. Len(packages') * PackageSize' = first + PackageSize
          BY <4>3, <4>6, <4>11
        <5>2. QED
          BY <5>1, <4>9, <4>10 DEF PackagesUpTo
      <4>13. (Len(packages) * PackageSize <= NumPairs(body))'
        BY <4>3, <4>4, <4>6, <4>11
      <4>14. Len(packages') <= num_threads'
        BY <4>1, <4>6, <2>1
      <4>15. QED
        BY <4>1, <3>2, <4>6, <4>12, <4>13, <4>14 DEF PackedInv, EachPairPacked
    <3>3. QED
      BY <2>2, <3>1, <3>2 DEF FillPackage
  <2>3. CASE FillRest
    <3> DEFINE first == n * PackageSize
               rest == first + 1 .. N
    <3>1. result = "packing" /\ n = num_threads /\ UNCHANGED <<body, num_threads>>
      BY <2>3 DEF FillRest
    <3>2. first \in Nat
      BY <2>1
    <3>3. PackagesUpTo(first) /\ first <= N
      BY <3>1 DEF PackedInv
    <3>4. packages' = [packages EXCEPT ![n] = @ \cup rest]
      BY <2>3, <3>1 DEF FillRest
    <3> HIDE DEF first
    <3>5. packages \in Seq(SUBSET Nat) /\ n \in 1 .. n
      BY <2>1, <3>1 DEF PackedInv
    <3>6. /\ packages' \in Seq(SUBSET Nat) /\ Len(packages') = n /\ DOMAIN packages' = 1 .. n
          /\ packages'[n] = packages[n] \cup rest
          /\ \A k \in 1 .. n : k # n => packages'[k] = packages[k]
      <4>1. rest \in SUBSET Nat
        BY <2>1, <3>2
      <4>2. packages[n] \in SUBSET Nat
        BY <3>5
      <4>3. packages[n] \cup rest \in SUBSET Nat
        BY <4>1, <4>2
      <4> HIDE DEF rest
      <4>4. /\ DOMAIN packages' = 1 .. n
            /\ packages'[n] = packages[n] \cup rest
            /\ \A k \in 1 .. n : k # n => packages'[k] = packages[k]
        BY <3>4, <3>5, <2>1
      <4>5. packages' \in [1 .. n -> SUBSET Nat]
        <5>1. \A k \in 1 .. n : packages[k] \in SUBSET Nat
          BY <3>5
        <5>2. packages' = [k \in 1 .. n |-> packages'[k]]
          BY <3>4, <2>1
        <5>3. \A k \in 1 .. n : packages'[k] \in SUBSET Nat
          BY <5>1, <4>3, <4>4
        <5>4. QED
          BY <5>2, <5>3
      <4>6. packages' \in Seq(SUBSET Nat) /\ Len(packages') = n
        BY <4>5, <2>1
      <4>7. QED
        BY <4>4, <4>6
    <3>7. \A k \in 1 .. n : packages[k] \subseteq 1 .. first
      BY <3>3, <2>1 DEF PackagesUpTo
    <3>8. UNION {packages'[k] : k \in DOMAIN packages'} = 1 .. N
      <4>1. UNION {packages'[k] : k \in DOMAIN packages'}
               = (UNION {packages[k] : k \in DOMAIN packages}) \cup rest
        <5> HIDE DEF rest
        <5>1. QED
          BY <3>5, <3>6, <2>1
      <4>2. (1 .. first) \cup rest = 1 .. N
        BY <2>1, <3>2, <3>3
      <4>3. QED
        BY <4>1, <4>2, <3>3 DEF PackagesUpTo
    <3>9. \A k, l \in DOMAIN packages' : k # l => packages'[k] \cap packages'[l] = {}
      <4>1. (1 .. first) \cap rest = {}
        BY <2>1, <3>2
      <4>2. \A k \in 1 .. n : packages[k] \cap rest = {}
        BY <3>7, <4>1
      <4>3. \A k, l \in 1 .. n : k # l => packages[k] \cap packages[l] = {}
        BY <3>3, <2>1 DEF PackagesUpTo
      <4> HIDE DEF rest
      <4>4. QED
        BY <4>2, <4>3, <3>6
    <3>10. Cardinality(Packed(packages')) = N
      BY <3>8, <3>9, <2>1, PackedNumber
    <3>11. /\ EachPairPacked' /\ result' \in {"verifying", "panicked"}
           /\ result' = "verifying" => NumPairs(body)' = Len(body'.authorizations)
           /\ result' = "panicked" => NumPairs(body)' < Len(body'.authorizations)
      <4>0. body' = body /\ NumPairs(body)' = N
        BY <3>1
      <4>1. CASE N = Len(body.authorizations)
        <5>1. result' = "verifying"
          BY <4>1, <2>3, <3>10 DEF FillRest
        <5>2. QED
          BY <5>1, <4>0, <4>1, <3>8, <3>9 DEF EachPairPacked
      <4>2. CASE N # Len(body.authorizations)
        <5>1. result' = "panicked"
          BY <4>2, <2>3, <3>10 DEF FillRest
        <5>2. QED
          BY <5>1, <4>0, <4>2, <2>1 DEF EachPairPacked
      <4>3. QED
        BY <4>1, <4>2
    <3>12. QED
      BY <3>1, <3>6, <3>11, <2>1 DEF PackedInv
  <2>4. ASSUME NEW k \in DOMAIN packages, VerifyPackage(k) PROVE PackedInv'
    BY <2>4 DEF VerifyPackage, PackedInv, EachPairPacked
  <2>5. CASE Accept
    BY <2>5 DEF Accept, PackedInv, EachPairPacked
  <2>6. CASE UNCHANGED verifyVars
    BY <2>6 DEF verifyVars, PackedInv, EachPairPacked, PackagesUpTo, PackageSize
  <2>7. QED
    BY <2>2, <2>3, <2>4, <2>5, <2>6 DEF VerifyNext
<1>3. QED
  BY <1>1, <1>2, PTL DEF VerifySpec

(* Whatever the number of threads and of authorizations, no pair escapes
   verification and none is verified, or counted, twice. *)
THEOREM EveryPairIsPacked == VerifySpec => []EachPairPacked
  BY PackedInvariant, PTL DEF PackedInv

(* What has been verified, package by package. *)
SignedInv ==
    /\ verified \subseteq DOMAIN packages
    /\ result = "packing" => verified = {}
    /\ \A k \in verified : Signed(body, packages[k])
    /\ result = "accepted" => verified = DOMAIN packages
    /\ result = "rejected" => \E k \in DOMAIN packages : ~Signed(body, packages[k])

(* SignedInv is inductive. *)
LEMMA SignedInvariant == VerifySpec => []SignedInv
<1>1. VerifyInit => SignedInv
  BY DEF VerifyInit, SignedInv
<1>2. PackedInv /\ SignedInv /\ [VerifyNext]_verifyVars => SignedInv'
  <2> SUFFICES ASSUME PackedInv, SignedInv, [VerifyNext]_verifyVars PROVE SignedInv'
    OBVIOUS
  <2>1. CASE FillPackage \/ FillRest
    <3>1. verified = {} /\ verified' = {} /\ result' \in {"packing", "verifying", "panicked"}
      BY <2>1 DEF FillPackage, FillRest, SignedInv
    <3> QED
      BY <3>1 DEF SignedInv
  <2>2. ASSUME NEW k \in DOMAIN packages, VerifyPackage(k) PROVE SignedInv'
    <3>1. result = "verifying" /\ UNCHANGED <<body, packages>>
      BY <2>2 DEF VerifyPackage
    <3>2. CASE Signed(body, packages[k]) /\ verified' = verified \cup {k} /\ result' = result
      BY <3>1, <3>2 DEF SignedInv, Signed, Messages
    <3>3. CASE ~Signed(body, packages[k]) /\ result' = "rejected" /\ verified' = verified
      BY <3>1, <3>3 DEF SignedInv, Signed, Messages
    <3> QED
      BY <2>2, <3>2, <3>3 DEF VerifyPackage
  <2>3. CASE Accept
    BY <2>3 DEF Accept, SignedInv, Signed, Messages
  <2>4. CASE UNCHANGED verifyVars
    BY <2>4 DEF verifyVars, SignedInv, Signed, Messages
  <2> QED
    BY <2>1, <2>2, <2>3, <2>4 DEF VerifyNext
<1> QED
  BY <1>1, <1>2, PackedInvariant, PTL DEF VerifySpec

(* For every block and any number of threads the call accepts only if each
   authorization signs the transaction of its input, rejects only if one does
   not, and panics exactly if there are more authorizations than inputs. *)
THEOREM VerdictsAreExact == VerifySpec => []VerdictExact
<1>1. ASSUME PackedInv, SignedInv PROVE VerdictExact
  <2> DEFINE auths == body.authorizations
             msgs == Messages(body)
  <2>1. body \in Body
    BY <1>1 DEF PackedInv
  <2>2. DOMAIN auths = 1 .. Len(auths) /\ Len(auths) \in Nat
    BY <2>1, BodyAssumption
  <2>3. /\ DOMAIN msgs = 1 .. NumInputs(body) /\ NumInputs(body) \in Nat
        /\ \A k \in DOMAIN body.transactions : \A i \in 1 .. InputNumber[body.transactions[k]] :
              msgs[Position(body, k, i)] = body.transactions[k]
        /\ \A p \in DOMAIN msgs :
              \E k \in DOMAIN body.transactions : \E i \in 1 .. InputNumber[body.transactions[k]] :
                 p = Position(body, k, i)
    BY <2>1, MessagesAreInputs
  <2>4. /\ NumPairs(body) \in {Len(auths), NumInputs(body)}
        /\ NumPairs(body) <= Len(auths) /\ NumPairs(body) <= NumInputs(body)
    BY <2>1, NumPairsBound
  <2>5. result \in {"accepted", "rejected"} =>
            UNION {packages[k] : k \in DOMAIN packages} = 1 .. Len(auths)
    BY <1>1 DEF PackedInv, EachPairPacked
  <2>6. result \in {"accepted", "rejected"} => Len(auths) <= NumInputs(body)
    BY <1>1, <2>4 DEF PackedInv
  <2>7. result = "panicked" => Len(auths) > NumInputs(body)
    BY <1>1, <2>2, <2>3, <2>4 DEF PackedInv
  <2> HIDE DEF auths, msgs
  <2>8. ASSUME result = "accepted" PROVE SignsItsInput(body)
    <3>1. \A p \in 1 .. Len(auths) : auths[p] = msgs[p]
      <4>1. \A k \in DOMAIN packages : \A p \in packages[k] : auths[p] = msgs[p]
        BY <1>1, <2>8 DEF SignedInv, Signed, auths, msgs
      <4> QED
        BY <4>1, <2>5, <2>8
    <3> QED
      BY <3>1, <2>2, <2>3 DEF SignsItsInput, auths
  <2>9. ASSUME result = "rejected" PROVE ~SignsItsInput(body)
    <3>1. PICK k \in DOMAIN packages : \E p \in packages[k] : auths[p] # msgs[p]
      BY <1>1, <2>9 DEF SignedInv, Signed, auths, msgs
    <3>2. PICK p \in packages[k] : auths[p] # msgs[p]
      BY <3>1
    <3>3. p \in 1 .. Len(auths) /\ p \in DOMAIN msgs
      <4>1. p \in 1 .. Len(auths)
        BY <2>5, <2>9, <3>2
      <4> QED
        BY <4>1, <2>2, <2>3, <2>6, <2>9
    <3>4. PICK t \in DOMAIN body.transactions : \E i \in 1 .. InputNumber[body.transactions[t]] :
              p = Position(body, t, i)
      BY <2>3, <3>3
    <3>5. msgs[p] = body.transactions[t] /\ p \in DOMAIN auths
      BY <2>2, <2>3, <3>3, <3>4
    <3> QED
      BY <3>2, <3>4, <3>5 DEF SignsItsInput, auths
  <2> QED
    BY <2>6, <2>7, <2>8, <2>9 DEF VerdictExact, auths
<1> QED
  BY <1>1, PackedInvariant, SignedInvariant, PTL

=============================================================================
