------------------------------ MODULE MemPool ------------------------------
(***************************************************************************)
(* The mempool of one node (src/mempool.rs): the waiting transactions, and *)
(* the outpoints they spend, each marked once and never unmarked.          *)
(***************************************************************************)
EXTENDS Types

CONSTANT AuthorizedTx  \* the authorized transactions that can ever be sent:
                       \* records [tx, authorizations]

ASSUME AuthorizedTxAssumption ==
    \A a \in AuthorizedTx :
        a.tx \in Tx /\ a.authorizations \in Seq({a.authorizations[k] : k \in DOMAIN a.authorizations})

VARIABLES
    transactions,  \* the waiting transactions, at most one for each txid
    spent_utxos    \* the outpoints marked as spent

mempoolVars == <<transactions, spent_utxos>>

MemPoolInit == transactions = {} /\ spent_utxos = {}

DistinctInputs(t) == \A i, j \in DOMAIN TxInputs[t] : TxInputs[t][i] = TxInputs[t][j] => i = j

(* Mutant of put: only waiting transactions' txids are compared. *)
put_unmarked(a) ==
    /\ DistinctInputs(a.tx)
    /\ a.tx \notin {x.tx : x \in transactions}
    /\ spent_utxos' = spent_utxos \cup Inputs(a.tx)
    /\ transactions' = transactions \cup {a}

(* put marks the inputs one by one and fails at one that is marked, by another
   transaction or by an earlier input of this one; the caller's transaction
   then takes the marks back.  The same txid with other authorizations gets
   this far only without inputs, and replaces the first. *)
put(a) ==
    /\ DistinctInputs(a.tx)
    /\ Inputs(a.tx) \cap spent_utxos = {}
    /\ spent_utxos' = spent_utxos \cup Inputs(a.tx)
    /\ transactions' = {x \in transactions : x.tx # a.tx} \cup {a}

(* delete leaves the marks. *)
delete(txids) ==
    /\ transactions' = {x \in transactions : x.tx \notin txids}
    /\ UNCHANGED spent_utxos

MemPoolNext == (\E a \in AuthorizedTx : put(a)) \/ (\E txids \in SUBSET Tx : delete(txids))

MemPoolSpec == MemPoolInit /\ [][MemPoolNext]_mempoolVars

-----------------------------------------------------------------------------
MemPoolTypeOK ==
    /\ transactions \subseteq AuthorizedTx
    /\ spent_utxos \subseteq UNION {Inputs(a.tx) : a \in AuthorizedTx}

(* Waiting transactions never compete for an output: two that are in the pool
   at once share no input, after any history of arrivals and removals, and the
   marks that enforce it cover every one of them. *)
PoolConflictFree ==
    /\ \A x, y \in transactions : x # y => x.tx # y.tx /\ Inputs(x.tx) \cap Inputs(y.tx) = {}
    /\ \A x \in transactions : Inputs(x.tx) \subseteq spent_utxos
=============================================================================
