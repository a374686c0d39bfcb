------------------------------- MODULE MCNode -------------------------------
(***************************************************************************)
(* A node with a tree of headers: two first blocks, a withdrawal on one of *)
(* them, its cancellation against an empty block, and the blocks in which  *)
(* the bundle is collected and may be returned.  The mainchain blocks they *)
(* name carry two deposits.                                                *)
(***************************************************************************)
EXTENDS Node

MCAddress == {"alice", "bob"}
MCStrdest == MCAddress

MCDepositLog ==
    << [block |-> 1, total |-> 2, strdest |-> "alice"],
       [block |-> 2, total |-> 3, strdest |-> "bob"] >>

PayTo(a, v) == [kind |-> "Value", address |-> a, value |-> v]
WithdrawTo(a, v, main, fee) ==
    [kind |-> "Withdrawal", address |-> a, value |-> v, main_address |-> main, main_fee |-> fee]

MCTx == {"withdraw", "pay", "cancel", "both"}

MCTxInputs ==
    [t \in MCTx |->
        CASE t = "withdraw" -> <<Deposit(1)>>
          [] t = "pay"      -> <<Deposit(1)>>
          [] t = "cancel"   -> <<Regular("withdraw", 1)>>
          [] t = "both"     -> <<Deposit(2), Regular("withdraw", 1)>>]

MCTxOutputs ==
    [t \in MCTx |->
        CASE t = "withdraw" -> <<WithdrawTo("alice", 2, 1, 1)>>
          [] t = "pay"      -> <<PayTo("bob", 1)>>
          [] t = "cancel"   -> <<PayTo("alice", 2)>>
          [] t = "both"     -> <<PayTo("bob", 3)>>]

Sign(a, t) == [address |-> a, signed |-> t]

Auths ==
    [t \in MCTx |->
        CASE t = "both" -> <<Sign("bob", "both"), Sign("alice", "both")>>
          [] OTHER      -> <<Sign("alice", t)>>]

MCAuthorizedTx == {[tx |-> t, authorizations |-> Auths[t]] : t \in MCTx}
NoTransactions == {}

BodyOf(coinbase, txs, auths) ==
    [coinbase |-> coinbase, transactions |-> txs, authorizations |-> auths]

EmptyBody == BodyOf(<<>>, <<>>, <<>>)
WithdrawBody == BodyOf(<<>>, <<"withdraw">>, Auths["withdraw"])
PayBody == BodyOf(<<PayTo("bob", 1)>>, <<"pay">>, Auths["pay"])
CancelBody == BodyOf(<<>>, <<"cancel">>, Auths["cancel"])
MCBody == {EmptyBody, WithdrawBody, PayBody, CancelBody}

(* name |-> <<previous, body, mainchain block>> *)
Blocks ==
    [a1 |-> <<"zero", EmptyBody, 1>>,
     b1 |-> <<"zero", EmptyBody, 2>>,
     a2 |-> <<"a1", WithdrawBody, 1>>,
     c2 |-> <<"a1", PayBody, 2>>,
     a3 |-> <<"a2", EmptyBody, 2>>,
     d3 |-> <<"a2", CancelBody, 1>>,
     a4 |-> <<"a3", EmptyBody, 2>>]

MCHeader == DOMAIN Blocks
MCHeaderRoot == [h \in MCHeader |-> MerkleRoot(Blocks[h][2])]
MCPrevSideHash == [h \in MCHeader |-> Blocks[h][1]]
MCPrevMainHash == [h \in MCHeader |-> Blocks[h][3]]
MCHeaderHeight ==
    [h \in MCHeader |-> CASE h \in {"a1", "b1"} -> 1 [] h \in {"a2", "c2"} -> 2
                          [] h \in {"a3", "d3"} -> 3 [] h = "a4" -> 4]

(* Every header with its body, and one with another's. *)
MCBlock == {<<h, Blocks[h][2]>> : h \in MCHeader} \cup {<<"a2", PayBody>>}

(* Each header with its body; not the other first block. *)
MCPoolBlock == {<<h, Blocks[h][2]>> : h \in MCHeader \ {"b1"}}

MCScriptWeight == <<128>>
=============================================================================
