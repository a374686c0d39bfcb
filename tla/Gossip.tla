------------------------------- MODULE Gossip -------------------------------
(***************************************************************************)
(* The propagation of transactions between nodes (src/node.rs).            *)
(*                                                                         *)
(* A node that takes a transaction, from its application or from a peer,   *)
(* pushes it to its other peers one after the other, and awaits the answer *)
(* of each before it turns to the next; a pushed transaction is answered   *)
(* only when all of that is done.  One listener for each connection        *)
(* handles that connection's requests in turn, and any error ends it.      *)
(*                                                                         *)
(* Connections stay open: each end sends a heartbeat every second.         *)
(***************************************************************************)
EXTENDS Integers, Sequences, FiniteSets

CONSTANTS
    Node,
    Tx,         \* the transactions
    Origin,     \* [Tx -> Node], whose application submits it
    Network     \* bound: the networks, records of
                \*   link       the connections: pairs of nodes, in both directions
                \*   valid      [Node -> SUBSET Tx], what validate_transaction accepts
                \*   conflicts  pairs of transactions that spend the same output

ASSUME TxAssumption == Tx \cap Node = {} /\ Origin \in [Tx -> Node]
ASSUME NetworkAssumption ==
    \A w \in Network :
        /\ w.link \subseteq Node \X Node
        /\ \A n, m \in Node : <<n, m>> \in w.link => n # m /\ <<m, n>> \in w.link
        /\ w.valid \in [Node -> SUBSET Tx]
        /\ w.conflicts \subseteq Tx \X Tx /\ \A t \in Tx : <<t, t>> \in w.conflicts

(* The tasks of node k[1]: the call that submits the transaction k[2], and the
   listener of the connection with the node k[2]. *)
Call(t) == <<Origin[t], t>>
Calls == {Call(t) : t \in Tx}
Link == UNION {w.link : w \in Network}
Task == Calls \cup Link

VARIABLES
    network,       \* the network, which does not change
    transactions,  \* node -> its mempool
    job,           \* task -> what it is doing
    inbox          \* listener -> the tasks whose requests it has still to accept

gossipVars == <<network, transactions, job, inbox>>

Peers(n) == {p \in Node : <<n, p>> \in network.link}

Idle == [phase |-> "idle"]
Ended == [phase |-> "ended"]   \* a listener after an error
Ok == [phase |-> "ok"]         \* a call that has returned
Err == [phase |-> "err"]

(* Pushing tx to the peers in left; asked is the peer whose answer is awaited,
   from the task whose request is being handled (the call itself in a call). *)
Pushing(tx, from, left) ==
    [phase |-> "pushing", tx |-> tx, from |-> from, left |-> left, asked |-> {}]

IsPushing(k) == job[k].phase = "pushing"

GossipInit ==
    /\ network \in Network
    /\ transactions = [n \in Node |-> {}]
    /\ job = [k \in Task |-> Idle]
    /\ inbox = [l \in Link |-> <<>>]

(* Response::TransactionAccepted or TransactionRejected arrives, or nothing
   that deserializes: the stream of a handler that failed is closed empty. *)
Answered(jobs, k) == [jobs EXCEPT ![k].asked = {}]
Failed(jobs, k) == [jobs EXCEPT ![k].phase = "failing"]

-----------------------------------------------------------------------------
(* validate_transaction, then MemPool::put. *)
Puts(n, t) == /\ t \in network.valid[n]
              /\ \A u \in transactions[n] : <<t, u>> \notin network.conflicts

TakeInto(n, t) == transactions' = [transactions EXCEPT ![n] = @ \cup {t}]

(* submit_transaction, its database transaction. *)
Submit(t) ==
    /\ job[Call(t)] = Idle
    /\ \/ /\ Puts(Origin[t], t)
          /\ TakeInto(Origin[t], t)
          /\ job' = [job EXCEPT ![Call(t)] = Pushing(t, Call(t), Peers(Origin[t]))]
       \/ /\ ~Puts(Origin[t], t)
          /\ job' = [job EXCEPT ![Call(t)] = Err]
          /\ UNCHANGED transactions
    /\ UNCHANGED <<network, inbox>>

(* Peer::request: the peer's listener will find the request. *)
Ask(k) ==
    /\ IsPushing(k) /\ job[k].asked = {}
    /\ \E p \in job[k].left :
        /\ job' = [job EXCEPT ![k].asked = {p}, ![k].left = @ \ {p}]
        /\ inbox' = [inbox EXCEPT ![<<p, k[1]>>] = Append(@, k)]
    /\ UNCHANGED <<network, transactions>>

(* Mutant of Receivers: the transaction is pushed back to its sender too. *)
AllPeers(l) == Peers(l[1])

(* peer_listen skips the peer that the transaction came from. *)
Receivers(l) == Peers(l[1]) \ {l[2]}

(* peer_listen accepts the next request: the transaction is refused and the
   sender told, or cannot be put and the sender is not told, and either way
   the listener ends; or it is put and pushed on. *)
Accept(l) ==
    /\ job[l] = Idle /\ inbox[l] # <<>>
    /\ inbox' = [inbox EXCEPT ![l] = Tail(@)]
    /\ LET k == Head(inbox[l])
           t == job[k].tx
       IN  \/ /\ t \notin network.valid[l[1]]
              /\ job' = Answered([job EXCEPT ![l] = Ended], k)
              /\ UNCHANGED transactions
           \/ /\ t \in network.valid[l[1]] /\ ~Puts(l[1], t)
              /\ job' = Failed([job EXCEPT ![l] = Ended], k)
              /\ UNCHANGED transactions
           \/ /\ Puts(l[1], t)
              /\ TakeInto(l[1], t)
              /\ job' = [job EXCEPT ![l] = Pushing(t, k, Receivers(l))]
    /\ UNCHANGED network

(* Mutant of Finish: the answer is not waited for. *)
FinishEarly(k) ==
    /\ IsPushing(k) /\ job[k].left = {}
    /\ job' = IF k \in Calls THEN [job EXCEPT ![k] = Ok]
              ELSE Answered([job EXCEPT ![k] = Idle], job[k].from)
    /\ UNCHANGED <<network, transactions, inbox>>

(* Every peer has answered: the call returns, the listener answers. *)
Finish(k) ==
    /\ IsPushing(k) /\ job[k].left = {} /\ job[k].asked = {}
    /\ job' = IF k \in Calls THEN [job EXCEPT ![k] = Ok]
              ELSE Answered([job EXCEPT ![k] = Idle], job[k].from)
    /\ UNCHANGED <<network, transactions, inbox>>

(* A request returned an error, and `?' passes it on: the peers that are left
   are not asked. *)
GiveUp(k) ==
    /\ job[k].phase = "failing"
    /\ job' = IF k \in Calls THEN [job EXCEPT ![k] = Err]
              ELSE Failed([job EXCEPT ![k] = Ended], job[k].from)
    /\ UNCHANGED <<network, transactions, inbox>>

GossipNext ==
    \/ \E t \in Tx : Submit(t)
    \/ \E k \in Task : Ask(k) \/ Finish(k) \/ GiveUp(k)
    \/ \E l \in Link : Accept(l)

GossipSpec == GossipInit /\ [][GossipNext]_gossipVars

(* The runtime schedules every task that is ready; applications need not
   submit anything. *)
FairGossipSpec ==
    /\ GossipSpec
    /\ \A k \in Task : WF_gossipVars(Ask(k)) /\ WF_gossipVars(Finish(k)) /\ WF_gossipVars(GiveUp(k))
    /\ \A l \in Link : WF_gossipVars(Accept(l))

-----------------------------------------------------------------------------
(* Properties. *)

Active(k) == job[k].phase \in {"pushing", "failing"}

GossipTypeOK ==
    /\ transactions \in [Node -> SUBSET Tx]
    /\ \A k \in Task : job[k].phase \in {"idle", "pushing", "failing", "ended", "ok", "err"}
    /\ \A l \in Link : \A i \in DOMAIN inbox[l] :
          IsPushing(inbox[l][i]) /\ job[inbox[l][i]].asked = {l[1]}
    /\ \A k \in Task : Active(k) =>
          /\ job[k].tx \in transactions[k[1]]
          /\ job[k].left \cup job[k].asked \subseteq Peers(k[1])
          /\ k \in Link => Active(job[k].from)

(* submit_transaction returns without an error only when the push is over: the
   transaction is in the pool of every node that a node with it is connected
   to, unless that node refused it as invalid.  On a network with a cycle of
   nodes that accept it, it therefore never returns so. *)
OkMeansEverywhere ==
    \A t \in Tx : job[Call(t)] = Ok =>
        \A l \in network.link : t \in transactions[l[1]] =>
            t \in transactions[l[2]] \/ t \notin network.valid[l[2]]

(* The networks without cycles: in every set of listeners there is one whose
   transactions are pushed on to no other of the set. *)
Tree ==
    {w \in Network : \A S \in SUBSET w.link : S # {} =>
        \E l \in S : \A p \in Node \ {l[2]} : <<p, l[1]>> \notin S}

Acyclic == network \in Tree

(* Every node finds every transaction valid, and none conflicts with another. *)
Agreed == /\ \A n \in Node : network.valid[n] = Tx
          /\ \A t, u \in Tx : <<t, u>> \in network.conflicts => t = u

(* On a network without cycles no listeners wait for each other in a ring,
   whatever is submitted where and whoever refuses it. *)
NoWaitCycle ==
    Acyclic => \A S \in SUBSET {l \in network.link : Active(l)} : S # {} =>
        \E l \in S : \A p \in job[l].asked : <<p, l[1]>> \notin S

(* A transaction that one node takes is taken by all, on a network without
   cycles whose nodes agree.  On a cycle it is not: the transaction comes back
   to a node that has it, and that ends the listener. *)
Propagates ==
    Acyclic /\ Agreed =>
        \A t \in Tx :
            (t \in transactions[Origin[t]]) ~> (\A n \in Node : t \in transactions[n])

(* On such a network every push is over at some time: its call returns, its
   listener goes on. *)
PushesEnd ==
    Acyclic /\ Agreed => \A k \in Task : Active(k) ~> ~Active(k)
=============================================================================
