--------------------------- MODULE CoinLifecycle ---------------------------
(***************************************************************************)
(* What the state promises about one coin, a transaction output or deposit *)
(* that carries value: it comes into being once, is spent or paid out at   *)
(* most once, and comes back from a withdrawal bundle only while the       *)
(* bundle has not been paid.  A step moves any number of coins, and a coin *)
(* any number of times; the moves that last are the pairs below.           *)
(***************************************************************************)
CONSTANT Coin

VARIABLE stage  \* [Coin -> Stage]

Stage == {"Unborn", "Unspent", "Bundled", "Spent", "Paid"}

Moves ==
    (({"Unborn"} \X {"Unspent", "Bundled", "Paid"})
     \cup ({"Unspent"} \X {"Spent", "Bundled", "Paid"}))
    \cup ({"Bundled"} \X {"Unspent", "Paid"})

CoinInit == stage = [c \in Coin |-> "Unborn"]

Follows(after, before) ==
    /\ after \in [Coin -> Stage]
    /\ \A c \in Coin : after[c] = before[c] \/ <<before[c], after[c]>> \in Moves

CoinNext == Follows(stage', stage)

CoinSpec == CoinInit /\ [][CoinNext]_stage
=============================================================================
