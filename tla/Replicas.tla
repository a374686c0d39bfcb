------------------------------ MODULE Replicas ------------------------------
(***************************************************************************)
(* Two nodes that connect the same blocks, each at its own pace, and the   *)
(* mainchain that answers the bundles they broadcast.                      *)
(*                                                                         *)
(* A block carries neither the bundle it makes the nodes collect nor the   *)
(* answers to earlier ones.  Each node builds the bundle itself, with the  *)
(* order of its own HashMap, and asks for the answers when it connects the *)
(* block: the step of State is taken with whatever is listed by then.      *)
(*                                                                         *)
(* The variables of State are this node's; those that end in 2 the other's.*)
(***************************************************************************)
EXTENDS State

VARIABLES
    utxos2, pending2, failure_height2, deposit_block2, height2,
    spent2, settled2, credited2, scanned2,
    chain,     \* the blocks the mainchain has committed to, in order
    received,  \* the txids of the bundles broadcast to the mainchain
    listed     \* the mainchain's answers, [txid, answer]

Other == INSTANCE State
    WITH utxos <- utxos2, pending_withdrawal_bundle <- pending2,
         last_withdrawal_bundle_failure_height <- failure_height2,
         last_deposit_block <- deposit_block2, height <- height2,
         spent <- spent2, settled <- settled2, credited <- credited2, scanned <- scanned2

otherVars == <<utxos2, pending2, failure_height2, deposit_block2, height2,
               spent2, settled2, credited2, scanned2>>
replicaVars == <<vars, otherVars, chain, received, listed>>

ReplicasInit == Init /\ Other!Init /\ chain = <<>> /\ received = {} /\ listed = {}

-----------------------------------------------------------------------------
(* A node that has connected every block may make the next one. *)
NextBlocks(h) ==
    IF h < Len(chain) THEN {chain[h + 1]} ELSE [body : Body, end : 1 .. MaxMainHeight]

Grow(h, block) == chain' = IF h < Len(chain) THEN chain ELSE Append(chain, block)

(* get_withdrawal_bundle_statuses: the whole list as it is when asked. *)
Statuses(txid) == {s.answer : s \in {l \in listed : l.txid = txid}}

(* The pending bundle is settled as listed, and stays pending if it is not. *)
AsListed(before, after, pending) ==
    /\ \A r \in after \ before : r.answer \in Statuses(Txid(r.bundle))
    /\ \A b \in pending : Statuses(Txid(b)) = {}

(* broadcast_withdrawal_bundle, after the commit: its error is ignored, and a
   crash may come before it. *)
Broadcast(pending) ==
    \E sent \in SUBSET pending : received' = received \cup {Txid(b) : b \in sent}

ConnectHere ==
    \E block \in NextBlocks(height) :
        /\ ConnectBlock(block.body, last_deposit_block, block.end)
        /\ AsListed(settled, settled', pending_withdrawal_bundle')
        /\ Grow(height, block)
        /\ Broadcast(pending_withdrawal_bundle')
        /\ UNCHANGED <<otherVars, listed>>

ConnectThere ==
    \E block \in NextBlocks(height2) :
        /\ Other!ConnectBlock(block.body, deposit_block2, block.end)
        /\ AsListed(settled2, settled2', pending2')
        /\ Grow(height2, block)
        /\ Broadcast(pending2')
        /\ UNCHANGED <<vars, listed>>

(* The mainchain answers a bundle it has received, once. *)
MainchainAnswers ==
    \E txid \in received, a \in {"Failed", "Confirmed"} :
        /\ Statuses(txid) = {}
        /\ listed' = listed \cup {[txid |-> txid, answer |-> a]}
        /\ UNCHANGED <<vars, otherVars, chain, received>>

ReplicasNext == ConnectHere \/ ConnectThere \/ MainchainAnswers

ReplicasSpec == ReplicasInit /\ [][ReplicasNext]_replicaVars

-----------------------------------------------------------------------------
(* Properties. *)

(* connect_body and the deposits are functions of the blocks.  However the
   nodes differ over bundles and answers, after the same blocks they have
   credited the same deposits and spent the same outputs, and a coin that
   carries value and exists for one (unspent, bundled or paid) exists for the
   other; where it differs in being unspent, it is a withdrawal. *)
SameCoins ==
    height = height2 =>
        /\ credited = credited2 /\ last_deposit_block = deposit_block2
        /\ spent = spent2
        /\ Positive(utxos \cup Bundled \cup Paid)
              = Positive(utxos2 \cup Other!Bundled \cup Other!Paid)
        /\ \A o \in Positive((utxos \ utxos2) \cup (utxos2 \ utxos)) : IsWithdrawal(o)

(* submit_block refuses the block: its body, or the collection that comes with
   it (the headers of the chain always fit). *)
Refuses(block) ==
    \/ ~ValidBody(block.body)
    \/ CollectionMayFail(BeforeCollection(block.body, last_deposit_block, block.end))

OtherRefuses(block) ==
    \/ ~Other!ValidBody(block.body)
    \/ Other!CollectionMayFail(Other!BeforeCollection(block.body, deposit_block2, block.end))

SpendsWithdrawal(b) ==
    \E k \in DOMAIN b.transactions : \E o \in Inputs(b.transactions[k]) : IsWithdrawal(o)

(* A node that is behind refuses a block connected elsewhere over withdrawals
   only: for one that the block spends, or because a bundle is due here, as it
   need not have been there, and this node's withdrawals make one over the
   limits.  Payments and deposits never part the nodes. *)
RefusedForWithdrawals ==
    /\ height < Len(chain) =>
          LET block == chain[height + 1]
          IN  Refuses(block) =>
                \/ SpendsWithdrawal(block.body)
                \/ CollectionOverLimits(
                        BeforeCollection(block.body, last_deposit_block, block.end))
    /\ height2 < Len(chain) =>
          LET block == chain[height2 + 1]
          IN  OtherRefuses(block) =>
                \/ SpendsWithdrawal(block.body)
                \/ Other!CollectionOverLimits(
                        Other!BeforeCollection(block.body, deposit_block2, block.end))
=============================================================================
