---------------------------- MODULE MCLibraries ----------------------------
(***************************************************************************)
(* The parts of the library that a node does not call: a behaviour is one  *)
(* of the miner, of the wallet or of verify_authorizations, and the other  *)
(* two stay as they began.                                                 *)
(***************************************************************************)
EXTENDS Miner, Wallet, Authorization, TLC

VARIABLE library

vars == <<library, minerVars, walletVars, verifyVars>>

-----------------------------------------------------------------------------
(* Two headers for the first mainchain block, one for the second; the miners
   are alike. *)
MinerSymmetry == Permutations(Miners)

MCHeader == {"a", "b", "c"}
MCPrevMain == [h \in MCHeader |-> IF h = "c" THEN 1 ELSE 0]

(* Two seeds; coins of both, two of equal value, and a withdrawal, which may
   not be spent; a payment that takes a coin exactly, a withdrawal, and a
   payment whose sum does not fit. *)
MCCoin == {"first", "second", "third", "withdrawal"}
MCOutputAt ==
    [c \in MCCoin |->
        CASE c = "first"      -> [address |-> <<"s1", 1>>, kind |-> "Value", value |-> 2]
          [] c = "second"     -> [address |-> <<"s1", 2>>, kind |-> "Value", value |-> 2]
          [] c = "third"      -> [address |-> <<"s2", 1>>, kind |-> "Value", value |-> 4]
          [] c = "withdrawal" -> [address |-> <<"s1", 1>>, kind |-> "Withdrawal", value |-> 1]]

MCPayment ==
    { [kind |-> "Value", value |-> 1, fee |-> 1, main_fee |-> 0],
      [kind |-> "Withdrawal", value |-> 2, fee |-> 0, main_fee |-> 1],
      [kind |-> "Value", value |-> 7, fee |-> 1, main_fee |-> 0],
      [kind |-> "Value", value |-> 15, fee |-> 1, main_fee |-> 0] }

(* Every block of up to two transactions, with none, one or two inputs, and up
   to five authorizations. *)
MCTransaction == {"none", "one", "two"}
MCInputNumber ==
    [t \in MCTransaction |-> CASE t = "none" -> 0 [] t = "one" -> 1 [] t = "two" -> 2]
MCBody == [transactions   : UNION {[1 .. n -> MCTransaction] : n \in 0 .. 2},
           authorizations : UNION {[1 .. n -> {"one", "two"}] : n \in 0 .. 5}]

EmptyBody == [transactions |-> <<>>, authorizations |-> <<>>]

-----------------------------------------------------------------------------
LibrariesInit ==
    /\ library \in {"miner", "wallet", "authorization"}
    /\ MinerInit /\ WalletInit /\ VerifyInit
    /\ library # "authorization" => body = EmptyBody /\ num_threads = 1

LibrariesNext ==
    /\ UNCHANGED library
    /\ \/ library = "miner" /\ MinerNext /\ UNCHANGED <<walletVars, verifyVars>>
       \/ library = "wallet" /\ WalletNext /\ UNCHANGED <<minerVars, verifyVars>>
       \/ library = "authorization" /\ VerifyNext /\ UNCHANGED <<minerVars, walletVars>>

LibrariesSpec == LibrariesInit /\ [][LibrariesNext]_vars
=============================================================================
