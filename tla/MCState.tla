------------------------------ MODULE MCState ------------------------------
(***************************************************************************)
(* A small economy for State: two deposits with a payout and an unparsable *)
(* destination between them, two withdrawals to two mainchain addresses    *)
(* that the bundle's comparison finds each greater than the other, a       *)
(* transaction that conflicts with a withdrawal and pays a fee, one that   *)
(* takes an unbundled withdrawal back, one without inputs, and bodies that *)
(* must be refused.                                                        *)
(***************************************************************************)
EXTENDS State

MCAddress == {"alice", "bob"}
MCStrdest == MCAddress \cup {"garbage"}

MCDepositLog ==
    << [block |-> 1, total |-> 3, strdest |-> "alice"],
       [block |-> 2, total |-> 1, strdest |-> "alice"],
       [block |-> 2, total |-> 2, strdest |-> "garbage"],
       [block |-> 3, total |-> 3, strdest |-> "bob"] >>

PayTo(a, v) == [kind |-> "Value", address |-> a, value |-> v]
WithdrawTo(a, v, main, fee) ==
    [kind |-> "Withdrawal", address |-> a, value |-> v, main_address |-> main, main_fee |-> fee]

MCTx == {"withdraw_alice", "withdraw_bob", "cancel", "pay", "empty", "overspend"}

MCTxInputs ==
    [t \in MCTx |->
        CASE t = "withdraw_alice" -> <<Deposit(1)>>
          [] t = "withdraw_bob"   -> <<Deposit(4)>>
          [] t = "cancel"         -> <<Regular("withdraw_alice", 1)>>
          [] t = "pay"            -> <<Deposit(1)>>
          [] t = "empty"          -> <<>>
          [] t = "overspend"      -> <<Deposit(4)>>]

MCTxOutputs ==
    [t \in MCTx |->
        CASE t = "withdraw_alice" -> <<WithdrawTo("alice", 2, 1, 0), WithdrawTo("alice", 1, 1, 1)>>
          [] t = "withdraw_bob"   -> <<WithdrawTo("bob", 1, 2, 2)>>
          [] t = "cancel"         -> <<PayTo("alice", 2)>>
          [] t = "pay"            -> <<PayTo("bob", 2)>>
          [] t = "empty"          -> <<WithdrawTo("bob", 0, 2, 0)>>
          [] t = "overspend"      -> <<PayTo("bob", 7), PayTo("bob", 2)>>]

Sign(a, t) == [address |-> a, signed |-> t]
BodyOf(coinbase, txs, auths) ==
    [coinbase |-> coinbase, transactions |-> txs, authorizations |-> auths]

EmptyBody == BodyOf(<<>>, <<>>, <<>>)
WithdrawAlice == BodyOf(<<>>, <<"withdraw_alice">>, <<Sign("alice", "withdraw_alice")>>)
WithdrawBoth ==
    BodyOf(<<>>, <<"withdraw_alice", "withdraw_bob">>,
           <<Sign("alice", "withdraw_alice"), Sign("bob", "withdraw_bob")>>)
WithdrawBob == BodyOf(<<>>, <<"withdraw_bob">>, <<Sign("bob", "withdraw_bob")>>)
Cancel == BodyOf(<<>>, <<"cancel">>, <<Sign("alice", "cancel")>>)
PayWithFee == BodyOf(<<PayTo("bob", 1)>>, <<"pay">>, <<Sign("alice", "pay")>>)
FreeCoin == BodyOf(<<>>, <<"empty">>, <<>>)

Conflict ==
    BodyOf(<<>>, <<"withdraw_alice", "pay">>,
           <<Sign("alice", "withdraw_alice"), Sign("alice", "pay")>>)
Overspend == BodyOf(<<>>, <<"overspend">>, <<Sign("bob", "overspend")>>)
GreedyMiner == BodyOf(<<PayTo("bob", 2)>>, <<"pay">>, <<Sign("alice", "pay")>>)

MCBody ==
    {EmptyBody, WithdrawAlice, WithdrawBob, WithdrawBoth, Cancel, PayWithFee, FreeCoin,
     Conflict, Overspend, GreedyMiner}

(* Pay-to-script-hash and pay-to-witness-key-hash outputs. *)
MCScriptWeight == <<128, 124>>
MCLightScripts == <<124, 124>>
=============================================================================
