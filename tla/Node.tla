-------------------------------- MODULE Node --------------------------------
(***************************************************************************)
(* One node (src/node.rs): the state, the archive and the mempool in one   *)
(* database, and the tasks that share it.                                  *)
(*                                                                         *)
(* submit_block is called by the application and by the task that requests *)
(* missing blocks.  It reads the stored deposit block in one database      *)
(* transaction, awaits the mainchain, and writes everything in another, so *)
(* submissions interleave.  peer_listen validates a pushed transaction in  *)
(* one database transaction and puts it in the pool in another.  A crash   *)
(* loses the tasks and keeps what was committed.                           *)
(***************************************************************************)
EXTENDS State, Archive, MemPool

CONSTANTS
    PrevMainHash,  \* [Header -> 1 .. MaxMainHeight], prev_main_hash
    Block,         \* bound: the pairs <<header, body>> that are submitted
    App,           \* the application's concurrent calls of submit_block
    Listener,      \* the connections whose peer_listen is running
    Outages,       \* whether calls to the mainchain and to peers may fail
    MaxTake        \* bound: the transactions get_transactions is asked for

ASSUME PrevMainHashAssumption == PrevMainHash \in [Header -> 1 .. MaxMainHeight]
ASSUME BlockAssumption == Block \subseteq Header \X Body
ASSUME OutagesAssumption == Outages \in BOOLEAN
ASSUME MaxTakeAssumption == MaxTake \in Nat

Sync == "sync"
Task == App \cup {Sync}

VARIABLES
    submissions,  \* task -> the submit_block it is in (onto is history)
    asked,        \* the height the sync task has requested a block for, or 0
    sync_alive,   \* whether the sync task still runs
    pushed        \* listener -> {} or {the transaction it has validated}

taskVars == <<submissions, asked, sync_alive, pushed>>
nodeVars == <<vars, archiveVars, mempoolVars, taskVars>>

Idle == [phase |-> "idle"]
Fetching(header, body, start, onto) ==
    [phase |-> "fetching", header |-> header, body |-> body, start |-> start, onto |-> onto]

IsFetching(t) == submissions[t].phase = "fetching"

TasksInit ==
    /\ submissions = [t \in Task |-> Idle]
    /\ asked = 0
    /\ sync_alive = TRUE
    /\ pushed = [l \in Listener |-> {}]

NodeInit == Init /\ ArchiveInit /\ MemPoolInit /\ TasksInit

-----------------------------------------------------------------------------
(* submit_block. *)

(* The chain's headers, and the hash before the first. *)
Archived == {ZeroHash} \cup {headers[k] : k \in DOMAIN headers}

(* The read transaction, before the mainchain is awaited.  The best hash of that
   moment is kept for the properties; the code does not look at it. *)
BeginSubmit(t, header, body) ==
    /\ submissions[t] = Idle
    /\ submissions' = [submissions EXCEPT
                          ![t] = Fetching(header, body, last_deposit_block, get_best_hash)]
    /\ UNCHANGED <<vars, archiveVars, mempoolVars, pushed, sync_alive>>

(* The application builds a header on the best hash it has read, and submits
   it once the mainchain has accepted it, which takes any number of blocks. *)
AppSubmit ==
    \E t \in App, block \in Block :
        /\ PrevSideHash[block[1]] \in Archived
        /\ BeginSubmit(t, block[1], block[2])
        /\ UNCHANGED asked

(* The call ends with an error; the sync task unwraps it. *)
Fail(t) ==
    /\ submissions' = [submissions EXCEPT ![t] = Idle]
    /\ sync_alive' = (sync_alive /\ t # Sync)
    /\ UNCHANGED <<vars, archiveVars, mempoolVars, pushed, asked>>

(* The mainchain's RPC fails. *)
FetchFails == Outages /\ \E t \in Task : IsFetching(t) /\ Fail(t)

(* Mutant of Commit: the archive is written in a transaction of its own, which
   a crash may lose. *)
CommitStateOnly(t) ==
    LET s == submissions[t]
    IN  /\ IsFetching(t)
        /\ PrevSideHash[s.header] = get_best_hash
        /\ ConnectBlock(s.body, s.start, PrevMainHash[s.header])
        /\ submissions' = [submissions EXCEPT ![t] = Idle]
        /\ UNCHANGED <<archiveVars, mempoolVars, asked, sync_alive, pushed>>

(* The write transaction: all of it or nothing.  The deposits fetched are
   those between the block read at the beginning and the header's. *)
Commit(t) ==
    LET s == submissions[t]
    IN  /\ IsFetching(t)
        /\ ConnectBlock(s.body, s.start, PrevMainHash[s.header])
        /\ append_header(s.header)
        /\ put_body(s.header, s.body, hash_to_height')
        /\ delete({s.body.transactions[k] : k \in DOMAIN s.body.transactions})
        /\ submissions' = [submissions EXCEPT ![t] = Idle]
        /\ UNCHANGED <<asked, sync_alive, pushed>>

(* Any of its steps may refuse the block. *)
Refused(s) ==
    \/ ~ValidBody(s.body)
    \/ CollectionMayFail(BeforeCollection(s.body, s.start, PrevMainHash[s.header]))
    \/ PrevSideHash[s.header] # get_best_hash
    \/ HeaderRoot[s.header] # MerkleRoot(s.body)

Refuse == \E t \in Task : IsFetching(t) /\ Refused(submissions[t]) /\ Fail(t)

-----------------------------------------------------------------------------
(* The task that requests missing blocks: the peers' heights and the blocks
   they answer with are the environment's. *)

SyncReady == sync_alive /\ submissions[Sync] = Idle

(* Mutant of SyncAsk: counting from the block asked for. *)
SyncAskNext ==
    /\ SyncReady /\ asked = 0
    /\ asked' = height + 2
    /\ UNCHANGED <<vars, archiveVars, mempoolVars, submissions, sync_alive, pushed>>

SyncAsk ==
    /\ SyncReady /\ asked = 0
    /\ asked' = height + 1
    /\ UNCHANGED <<vars, archiveVars, mempoolVars, submissions, sync_alive, pushed>>

(* The peer answers with a block: whichever it is, it is submitted. *)
SyncBlock ==
    \E block \in Block :
        /\ SyncReady /\ asked # 0
        /\ asked' = 0
        /\ BeginSubmit(Sync, block[1], block[2])

SyncNoBlock ==
    /\ SyncReady /\ asked # 0
    /\ asked' = 0
    /\ UNCHANGED <<vars, archiveVars, mempoolVars, submissions, sync_alive, pushed>>

(* The request itself fails: the task unwraps that error too. *)
SyncRequestFails ==
    /\ Outages
    /\ SyncReady /\ asked # 0
    /\ asked' = 0
    /\ sync_alive' = FALSE
    /\ UNCHANGED <<vars, archiveVars, mempoolVars, submissions, pushed>>

-----------------------------------------------------------------------------
(* Transactions. *)

(* validate_transaction: authorizations and spent outputs are zipped, and
   every signature is over this transaction. *)
ValidateTransaction(a) ==
    /\ Inputs(a.tx) \subseteq utxos
    /\ \A k \in DOMAIN a.authorizations \cap DOMAIN TxInputs[a.tx] :
          a.authorizations[k].address = OutputOf(TxInputs[a.tx][k]).address
    /\ \A k \in DOMAIN a.authorizations : a.authorizations[k].signed = a.tx
    /\ ValidTransaction(a.tx)

(* submit_transaction validates and puts in one database transaction. *)
SubmitTransaction ==
    \E a \in AuthorizedTx :
        /\ ValidateTransaction(a)
        /\ put(a)
        /\ UNCHANGED <<vars, archiveVars, taskVars>>

(* peer_listen, PushTransaction. *)
PushValidate ==
    \E l \in Listener, a \in AuthorizedTx :
        /\ pushed[l] = {}
        /\ ValidateTransaction(a)
        /\ pushed' = [pushed EXCEPT ![l] = {a}]
        /\ UNCHANGED <<vars, archiveVars, mempoolVars, submissions, asked, sync_alive>>

PushPut ==
    \E l \in Listener : \E a \in pushed[l] :
        /\ put(a)
        /\ pushed' = [pushed EXCEPT ![l] = {}]
        /\ UNCHANGED <<vars, archiveVars, submissions, asked, sync_alive>>

PushRefused ==
    \E l \in Listener : \E a \in pushed[l] :
        /\ ~(DistinctInputs(a.tx) /\ Inputs(a.tx) \cap spent_utxos = {})
        /\ pushed' = [pushed EXCEPT ![l] = {}]
        /\ UNCHANGED <<vars, archiveVars, mempoolVars, submissions, asked, sync_alive>>

(* get_transactions looks at the first transactions of the pool, in the order
   of their txids. *)
Looked ==
    UNION {SetToSeqs(S) : S \in {P \in SUBSET transactions :
                                    Cardinality(P) <= MaxTake}}

(* Mutant of Returned: transactions are not validated again. *)
ReturnedUnchecked(s) ==
    CHOOSE R \in SUBSET DOMAIN s :
        \A k \in DOMAIN s : k \in R <=>
            \A j \in R : j < k => Inputs(s[j].tx) \cap Inputs(s[k].tx) = {}

(* Those it returns: valid now, and sharing no input with one it returns
   already.  The others are deleted. *)
Returned(s) ==
    CHOOSE R \in SUBSET DOMAIN s :
        \A k \in DOMAIN s : k \in R <=>
            /\ ValidateTransaction(s[k])
            /\ \A j \in R : j < k => Inputs(s[j].tx) \cap Inputs(s[k].tx) = {}

GetTransactions ==
    \E s \in Looked :
        /\ delete({s[k].tx : k \in DOMAIN s \ Returned(s)})
        /\ UNCHANGED <<vars, archiveVars, taskVars>>

-----------------------------------------------------------------------------
(* The process ends; its tasks are lost and the database is what it was. *)
Crash ==
    /\ submissions' = [t \in Task |-> Idle]
    /\ asked' = 0
    /\ sync_alive' = TRUE
    /\ pushed' = [l \in Listener |-> {}]
    /\ UNCHANGED <<vars, archiveVars, mempoolVars>>

SubmitNext == AppSubmit \/ FetchFails \/ (\E t \in Task : Commit(t)) \/ Refuse
SyncNext == SyncAsk \/ SyncBlock \/ SyncNoBlock \/ SyncRequestFails
PoolNext == SubmitTransaction \/ PushValidate \/ PushPut \/ PushRefused \/ GetTransactions

NodeNext == SubmitNext \/ SyncNext \/ PoolNext \/ Crash

NodeSpec == NodeInit /\ [][NodeNext]_nodeVars
-----------------------------------------------------------------------------
(* Properties. *)

(* The types.  What the tasks have in hand comes from this chain: the height
   asked for is not beyond the next block, and a submission has read the best
   hash and the deposit block that some block of the chain left. *)
NodeTypeOK ==
    /\ ArchiveTypeOK
    /\ MemPoolTypeOK
    /\ \A t \in Task : \/ submissions[t] = Idle
                       \/ /\ submissions[t].phase = "fetching"
                          /\ <<submissions[t].header, submissions[t].body>> \in Block
                          /\ submissions[t].start \in 0 .. scanned
                          /\ submissions[t].onto \in Archived
    /\ asked \in 0 .. Len(headers) + 1
    /\ sync_alive \in BOOLEAN
    /\ \A l \in Listener : pushed[l] \subseteq AuthorizedTx /\ Cardinality(pushed[l]) <= 1

(* A submission is begun in turn if its block follows the chain's last one then.
   Nobody sees to it for the block of a peer: one that is answered with the
   block after the next is submitted with today's deposit block. *)
InTurn(s) == PrevSideHash[s.header] = s.onto

OutOfTurnCommit ==
    \E t \in Task : IsFetching(t) /\ ~InTurn(submissions[t]) /\ Commit(t)

(* Whatever submissions were in flight, the deposits a block credits are those
   since the block before it, if it was submitted in turn: one that has read an
   older deposit block is refused for its header. *)
StaleStartRefused ==
    \A t \in Task : IsFetching(t) /\ InTurn(submissions[t]) =>
        \/ submissions[t].start = last_deposit_block
        \/ PrevSideHash[submissions[t].header] # get_best_hash

(* So the tasks together make the steps of State, one block at a time, except
   where a block that was submitted before its turn commits in it: the deposits
   of the block between are then credited by both. *)
NodeImplementsState == Init /\ [][Next \/ OutOfTurnCommit]_vars

(* The premise under which a node's state is State's. *)
EveryCommitInTurn == [][~OutOfTurnCommit]_nodeVars

(* It is met if peers answer as peer_listen does: with the block that their own
   chain has at the height asked for. *)
AsAsked == SyncBlock => HeaderHeight[submissions'[Sync].header] = asked

AnswersAsAsked == [][AsAsked]_nodeVars

(* The archive holds exactly the blocks the state was computed from: one body
   for each header, their inputs spent, their mainchain blocks scanned.  A
   block is never half connected, by whatever interleaving, error or crash. *)
ArchiveExplainsState ==
    /\ height = Len(headers)
    /\ DOMAIN bodies = DOMAIN headers
    /\ spent = UNION {UNION {Inputs(bodies[k].transactions[i]) :
                                i \in DOMAIN bodies[k].transactions} : k \in DOMAIN bodies}
    /\ \A k \in DOMAIN headers : PrevMainHash[headers[k]] <= scanned
    /\ height > 0 => \E k \in DOMAIN headers : PrevMainHash[headers[k]] = scanned

(* Positions, from the first to the last. *)
Ascending(R) ==
    CHOOSE q \in SetToSeqs(R) : \A i, j \in DOMAIN q : i < j => q[i] < q[j]

(* Body::new on what get_transactions returned, the fees going to one coinbase
   output. *)
TemplateBody(s) ==
    LET R     == Returned(s)
        order == Ascending(R)
        fee   == Total([k \in R |-> Fee(s[k].tx)])
    IN  [coinbase       |-> <<[kind    |-> "Value",
                               address |-> CHOOSE a \in Address : TRUE,
                               value   |-> fee]>>,
         transactions   |-> [i \in DOMAIN order |-> s[order[i]].tx],
         authorizations |-> FlattenSeq([i \in DOMAIN order |-> s[order[i]].authorizations])]

(* A block made of what get_transactions returns is valid on the state it was
   returned from, fees and all, whatever became of the pool's transactions
   since they were accepted.  The premise is what the code relies on and does
   not check: an authorization for each input. *)
FullyAuthorized(a) == Len(a.authorizations) = Len(TxInputs[a.tx])

TemplateValid ==
    (\A a \in transactions : FullyAuthorized(a)) => \A s \in Looked : ValidBody(TemplateBody(s))

(* A put refused as a double spend has a double spend for a reason: an unspent
   output that is marked is the input of a waiting transaction, or of one that a
   block has spent it in. *)
MarksHaveSpenders ==
    \A o \in (spent_utxos \cap utxos) \ spent : \E a \in transactions : o \in Inputs(a.tx)

(* The task that requests missing headers goes on requesting them. *)
MissingHeadersRequested == []<>(asked # 0 \/ submissions[Sync] # Idle)

(* The runtime schedules the sync task, and the mainchain and the peers answer,
   as they are asked, or fail.  It is more than the code sees to: what is
   refuted under it fails with peers that are beyond reproach. *)
SyncStep == SyncBlock \/ SyncNoBlock \/ SyncRequestFails
FairNodeSpec ==
    /\ NodeInit /\ [][NodeNext /\ AsAsked]_nodeVars
    /\ WF_nodeVars(SyncAsk)
    /\ WF_nodeVars(SyncStep)
    /\ WF_nodeVars(Commit(Sync))
=============================================================================
