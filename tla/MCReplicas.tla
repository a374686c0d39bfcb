----------------------------- MODULE MCReplicas -----------------------------
(***************************************************************************)
(* One deposit, two withdrawals to one mainchain address made of it, a     *)
(* payment beside them, of which a withdrawal to another address is made,  *)
(* and a transaction that spends a withdrawal back.                        *)
(***************************************************************************)
EXTENDS Replicas

MCAddress == {"alice", "bob"}
MCDepositLog == <<[block |-> 1, total |-> 4, strdest |-> "alice"]>>

PayTo(a, v) == [kind |-> "Value", address |-> a, value |-> v]
WithdrawTo(a, v, main, fee) ==
    [kind |-> "Withdrawal", address |-> a, value |-> v, main_address |-> main, main_fee |-> fee]

MCTx == {"withdraw", "cancel", "pay"}
MCTxInputs ==
    [t \in MCTx |->
        CASE t = "withdraw" -> <<Deposit(1)>>
          [] t = "cancel"   -> <<Regular("withdraw", 1)>>
          [] t = "pay"      -> <<Regular("withdraw", 3)>>]
MCTxOutputs ==
    [t \in MCTx |->
        CASE t = "withdraw" -> <<WithdrawTo("alice", 1, 1, 1), WithdrawTo("alice", 1, 1, 1),
                                 PayTo("bob", 2)>>
          [] t = "cancel"   -> <<PayTo("alice", 1)>>
          [] t = "pay"      -> <<PayTo("alice", 1), WithdrawTo("bob", 1, 2, 1)>>]

Sign(a, t) == <<[address |-> a, signed |-> t]>>
BodyOf(txs, auths) == [coinbase |-> <<>>, transactions |-> txs, authorizations |-> auths]

MCBody ==
    {BodyOf(<<>>, <<>>),
     BodyOf(<<"withdraw">>, Sign("alice", "withdraw")),
     BodyOf(<<"cancel">>, Sign("alice", "cancel")),
     BodyOf(<<"pay">>, Sign("bob", "pay"))}

MCScriptWeight == <<128, 128>>
=============================================================================
