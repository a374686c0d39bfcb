# ddk: a TLA+ development

`ddk` is a kit for Drivechain sidechains (BIP300/BIP301): a node that keeps a
UTXO set, an archive of blocks and a mempool in one LMDB database, follows the
mainchain's deposits and withdrawal answers over RPC, and exchanges blocks and
transactions with peers over QUIC.  This directory models the parts that carry
its logic, checks them with TLC on small instances, and proves some of the
results for every instance with TLAPS.

Paths below are relative to `src/src/`, the crate's own source directory.

## 1. The system

| component | state | operations | interacts with |
|---|---|---|---|
| `types` | none | outpoints, outputs, `Body::new`, `compute_merkle_root`, values and fees | everything |
| `drivechain` | none of its own; the mainchain's log of deposits and answers | `get_two_way_peg_data`, `broadcast_withdrawal_bundle`, `verify_bmm` | called by `node` and `miner`, over RPC |
| `state` | `utxos`, `pending_withdrawal_bundle`, `last_withdrawal_bundle_failure_height`, `last_deposit_block` | `validate_*`, `connect_body`, `connect_two_way_peg_data`, `collect_withdrawal_bundle` | called by `node` inside its database transactions |
| `archive` | `headers`, `bodies`, `hash_to_height` | `append_header`, `put_body` and reads | called by `node` |
| `mempool` | `transactions`, `spent_utxos` | `put`, `delete`, `take` | called by `node` |
| `node` | the tasks in flight; the database is shared | `submit_block`, `submit_transaction`, `get_transactions`, `peer_listen`, the heartbeat task, the task that requests missing headers | the application, the mainchain, the peers |
| `net` | the table of peers | `connect`, `disconnect`, `request`, `heart_beat` | `node`'s tasks, behind one `RwLock` |
| `miner` | the block being blind-merge-mined | `attempt_bmm`, `confirm_bmm` | the mainchain |
| `wallet` | a seed, addresses and their indices, the wallet's UTXOs | `create_*`, `select_coins`, `authorize`, `put_utxos`, `delete_utxos` | the application |
| `authorization` | none | signing, `verify_body` split over threads | `state`, `wallet` |

**What is hard.**  Everything in the database is transactional, so a single
handler is seldom the problem.  The problems sit between transactions:
`submit_block` reads `last_deposit_block`, *awaits the mainchain*, and applies
the answer in a later transaction; several submissions can be in flight (the
application's and the sync task's); `peer_listen` validates a transaction in one
database transaction and puts it in the pool in another; the pool's transactions
outlive the outputs they were checked against; and a crash may fall between any
two of these.  Within one block the difficulty is the history: deposits are
differences of running totals, resumed in the middle of a log; withdrawals are
taken out of the UTXO set, and put back many blocks later if the mainchain
rejects the bundle; the mainchain's answers are its whole history, listed again
with every block.

**What makes each component correct.**

* `drivechain`: each deposit is credited once, with what it added to the
  sidechain's balance, wherever the scans stopped and resumed.
* `state`: no coin is used twice, the sidechain owes at most what was deposited,
  a bundle pays the owners of the coins it took, bundles do not overlap in time,
  one answer settles one bundle, a bundle stays within the mainchain's limits.
* `archive`: one chain, an index that is the inverse of the chain, bodies at the
  heights of the headers that commit to them.
* `mempool`: waiting transactions do not conflict; what the pool offers a miner
  makes a valid block; a mark that refuses a transaction has a reason.
* `node`: submissions in flight have the effect of one block at a time, each with the
  deposits since the one before, archive and state never disagree, missing headers go
  on being requested.
* Two nodes on the same blocks: the same coins, and each other's blocks accepted,
  as far as the protocol allows.
* Nodes that gossip: a transaction that one takes reaches all; nobody waits for an
  answer that cannot come.
* `net`: one entry for each connection and one connection for each address; a closed
  peer leaves the table; the table's lock is not held against anybody for ever.
* `miner`: what is confirmed was mined, and what was mined is not forgotten.
* `wallet`: tables that agree with each other and with the seed, no address given out
  twice, selections that are enough, signatures by the owners of the inputs.
* `authorization`: the verdict of many threads is that of one.

`PROJECT.json` lists the hazards at their lines, with the properties that cover
each and, for the two that none covers, why.

## 2. The modules

```
Drivechain <- DepositScan <- DepositScanProof
    ^
  Types <- WithdrawalBundle <- State <- StateProof
    ^--- Archive, MemPool

  State, Archive, MemPool       <- Node
  Node, StateProof              <- NodeProof
  State, State again            <- Replicas
  Replicas, StateProof twice    <- ReplicasProof

  Gossip                        <- GossipProof
  Net                           <- NetProof
  Miner, Wallet, Authorization  <- LibrariesProof

  Lists                         <- StateProof, LibrariesProof

State implements the abstract specifications CoinLifecycle and DepositScan.
Node implements State.  Replicas is two of State on one chain.
```

| module | models | how |
|---|---|---|
| `Drivechain` | `drivechain/mod.rs`, `get_deposit_outputs` | The loop over the log as definitions over positions: which entries are new, the total before each, what is credited, which block is stored. |
| `DepositScan` | the deposit side of `get_two_way_peg_data` and `connect_two_way_peg_data` | One action, `Fetch`: a scan from the stored block to any requested block. The abstract specification of deposit crediting. |
| `Types` | `types/types.rs`, `types/mod.rs` | Constant operators: outpoints, the outputs they name, roots, u64 sums. |
| `WithdrawalBundle` | `collect_withdrawal_bundle` | The set of bundles a call may make from a UTXO set at a height: aggregation by destination, the sort's possible results, the cut at the output limit, the weight check. |
| `CoinLifecycle` | (abstract) | What may happen to one coin: unborn, unspent, spent, bundled, paid. |
| `State` | `state.rs` | One action, `ConnectBlock`: validation, `connect_body`, deposits, collection and the answer of the mainchain, all in the order of the code. |
| `Archive` | `archive.rs` | `append_header`, `put_body`, as operators that `Node` uses and as actions of their own. |
| `MemPool` | `mempool.rs` | `put`, `delete`, likewise. |
| `Node` | `node.rs` | The composition: submissions with their two transactions, the sync task, transactions from the application and from peers, crashes. |
| `Replicas` | two nodes, `broadcast_withdrawal_bundle`, `get_withdrawal_bundle_statuses` | Two instances of `State` that connect the same blocks, each at its pace and with its order of map keys, and the mainchain that answers what was broadcast. |
| `Gossip` | `submit_transaction`, `peer_listen`, `Peer::request`, in several nodes | One task for each call and for each end of a connection; a request waits in the inbox of the listener it is meant for. |
| `Net` | `net.rs`, and the tasks of `node.rs` that use the table of peers | The lock as a queue of tasks; each step is what a task does between two awaits. |
| `Miner` | `miner.rs`, `verify_bmm` | Bids, their answers, the mainchain's choice, and the two answers of a confirmation, as steps of their own. |
| `Wallet` | `wallet.rs` | Each database transaction a step: calls of `create_*` select in one and make each address in another. |
| `Authorization` | `verify_authorizations` | The packing loop round by round, then the threads. |

`MC*` modules give the constants of the runs; `*Proof` modules hold theorems,
and `Lists` the facts about lists that they share.
`MCLibraries` puts `Miner`, `Wallet` and `Authorization` side by side: they share no
state, so a behaviour of the run is a behaviour of one of them.

### State and code

* `utxos` is the database's set of keys.  An outpoint names a transaction, a
  merkle root or a deposit by hash, hashes are taken to be collision free, and so
  the outpoint determines the output (`OutputOf`): the values of the database add
  nothing.  For the same reason an element of `Tx` is a transaction and its txid
  at once, an element of `Header` a header and its hash.
* `pending_withdrawal_bundle` is the empty set or a singleton, the database's key
  0 absent or present; the other two single-key databases hold 0 when absent.
  (`last_deposit_block` is a hash in the code; here it is the height of that
  mainchain block, and 0 is "none".)
* `height` is `archive.get_height`; `State` counts it itself because the archive
  is another component, and `Node` shows the two equal (`ArchiveExplainsState`).
* `spent`, `settled`, `credited`, `scanned` are history: no guard of an action
  reads them, except that the mainchain, which is environment, does not take an
  answer back (`Answers`).
* A block that is refused changes nothing, since an error or a panic drops the
  database transaction: `State` has no action for it, and `Node` has one (`Refuse`)
  because there the caller's fate matters.
* `Node.submissions[t]` is a call of `submit_block` between its two database
  transactions.  Its `onto` is history: the best hash when it began, which the code does
  not look at.  A block is submitted *in turn* (`InTurn`) if its header follows that
  hash.  The application submits headers built on a hash of the chain, old or new
  (`AppSubmit`); the sync task submits any block, since the code does not compare the
  block a peer answers with to the height it asked for (`node.rs:514`).
  `pushed[l]` is a transaction that `peer_listen` has validated and not
  yet put; `asked` the height that the sync task has requested a block for.
* In `Replicas` the variables of `State` are one node's and those that end in `2` the
  other's.  `chain` is the list of blocks the mainchain has committed to: a node that
  has connected all of it may make the next block, one that is behind connects what is
  there.  `received` and `listed` are the mainchain's: the bundles that reached it, and
  its answers.  `State` lets a block's answer be any that the mainchain could
  give; `AsListed` restricts it to what is listed when the block is connected.
* In `Gossip` a task is a pair: `<<n, t>>` is the call that submits `t` at node `n`,
  `<<n, p>>` the listener in `n` of its connection with `p`.  `job[k]` is where the
  task is in its loop over the peers: `left` are those still to ask, `asked` the one
  whose answer it awaits, `from` the task whose request it handles.  A handler that
  fails drops its stream, which the other side reads as an empty answer that does not
  deserialize (`Failed`); a listener that has ended answers nothing, and whoever asks
  it waits.
* In `Net` a connection is one value for both the QUIC connection and the `Peer` in
  the table.  `link` says what became of the connection, `peers` what the table says.
  `beside` is history: the other calls of `connect` that were in flight when a call
  looked for its address.  `listener[c]` is where `heart_beat_listen` is: reading a
  datagram, storing the state it carried, ended by one that it cannot read (`node.rs:338`;
  the peer then stays in the table), or waiting to remove the peer of a closed
  connection.  The lock of a peer's `state` is that stage: the sync task holds it for
  reading during a request (`StateHeld`), and begins none behind a listener that waits
  to write.
* In `Miner`, `bids`, `returned` and `lost` are history; `block` is `Miner::block`.  An
  `attempt_bmm` is two steps because the bid is made before its answer is read, and
  the root is asserted only then.
* In `Wallet` an address is the seed and the index it is derived from, and a key
  likewise: two are equal only if both are.  `given` is history.
* In `Authorization` an authorization is the transaction it signs, and a package the
  set of positions it takes from the list of pairs.
* An overflow panic in a build with overflow checks is an error like another: the
  transaction is dropped.  `OverflowChecks = FALSE` is the release build, where
  sums keep their low bits.

### What is abstracted

* **Weights.**  A bundle's weight is `Bundle0Weight` plus each output's weight by
  its script (`ScriptWeight`); the growth of the varint that counts the outputs is
  left out.
* **The sort.**  `AggregatedWithdrawal::cmp` is not a total order, so
  `SortOutcomes` is the descending order where every pair agrees on one, and any
  permutation where none does.
* **The inputs commitment** hashes a `HashMap`'s keys in iteration order.
  `KeyOrders` is the number of orders; 1 in the runs of one node, because there the
  order changes the txid and nothing else, and 2 in `replicas`.
* **The custom state**, a trait of the sidechain built on the kit, accepts
  everything.
* **Signatures** are pairs of an address and the transaction signed.
* **The broadcast** of a bundle after the commit has no effect on the node's state
  and its error is ignored: in `State` and `Node` the mainchain answers any bundle it
  could have seen, at any later block.  In `Replicas` it is part of the step, may be
  lost, and the mainchain answers only what it received.
* **Sizes**: `READ_LIMIT` and the database's map size are not modelled.  A request
  that fails for any reason, with the connection open or closed, is `SyncRequestFails` in
  `Node` and `AskFails` in `Net`, and ends the sync task.  So does, in `AskFails`, a
  block that is answered and then refused.
* **Validity in `Gossip`** is a constant of each node and transaction, and a conflict a
  relation between transactions: what they depend on is `State`'s and `MemPool`'s
  business, and the nodes' chains do not move while transactions spread.
* **The heights** that heartbeats carry are not kept in `Net`.  What a peer claims and
  answers is the environment's choice in `Node`.
* **Keys and signatures** are the library's: batch verification accepts a package iff
  every signature in it is of the message it is paired with.
* There is **no reorganisation** in the code ("Handle reorgs" is a to-do of the
  repository's README), and none in the models: the mainchain's log only grows,
  which a fixed log scanned up to any block in any order stands for.

## 3. The runs

| run | instance | shows |
|---|---|---|
| `deposit_scan` | every log of up to 3 entries over 3 blocks and totals 0..2, two destinations of which one does not parse | `DepositsExact`, `ResumePoint` |
| `state` | 4 log entries (deposit, payout, unparsable, deposit), 6 transactions, 10 bodies of which 3 must be refused, 8 blocks, gap 2 | the safety of one chain, the two refinements |
| `bundle_limit` | the same economy, outputs to witness addresses | finding: one output over the limit |
| `wrap` | the same, no overflow checks | finding: sums wrap |
| `node` | a tree of 7 blocks with two forks, 3 concurrent submissions, outages and crashes | `Node` implements `State`; the archive's invariants, and that it explains the state |
| `pool` | the same tree without one first block, each header with its own body; 4 transactions that conflict over a withdrawal, one peer, one submission | pool and block templates |
| `pool_marks` | the same | finding: stale marks |
| `sync` | one submission of the application beside the sync task, no outages | finding: the sync task ends |
| `replicas` | one deposit, two withdrawals to one destination, a payment, a third withdrawal to another, a transaction that spends a withdrawal; an output limit of 1; 6 blocks, 2 orders of keys | what two nodes on one chain have in common, and for what they refuse blocks |
| `gossip` | 4 nodes as a star that agrees and as a triangle with a node beside it that does not; 3 transactions, two of them in conflict | propagation, the end of every push, no ring of listeners |
| `net` | two of: two calls of `connect` to one address, two arrivals from one address; heartbeat, sync task, one `disconnect` | the table of peers and its lock |
| `libraries` | 2 miners on 2 mainchain blocks; a wallet with 2 seeds and 4 coins; every block of at most 2 transactions and 5 authorizations on 1 to 4 threads | miner, wallet and authorization |

**Why the bounds are enough.**

* *Deposits.*  What the scan does with an entry depends on the stored block, on the
  entry and on the one listed before it.  Three entries over three blocks give
  every combination of an entry before, in and after the stored block, an increase,
  a decrease and no change, and two entries of one block.  `DepositScanProof`
  removes the bound.
* *State.*  A collection is due from the third block after the last failure
  (`FailureGap = 2`; the code's constant is 4).  `MaxHeight = 8` fits two
  collections, a failure, the gap, and a collection of the returned coins.  The two
  destinations compare each greater than the other, so the sort has two outcomes.
  The list of withdrawals is not cut in any run: the loop takes one more than the
  limit, and no run has more destinations than that.  That a bundle pays the owners
  of what it takes wherever the list is cut is proved (`BundlesPayOwners`, from
  `NewBundlePays`) and not checked.  The two withdrawals
  to one destination exercise the aggregation, the worthless output the cases where
  an outpoint is made again.
* *Archive.*  Its invariants are checked where its operators are used, in `node`: the
  tree of headers has siblings at two heights and headers that would skip one.
  `ArchiveSpec`, with headers and bodies in any order, is what `NodeProof` proves
  about and no run explores.
* *Node.*  Two application submissions and the sync task cover every pair of
  overlapping calls and a third that arrives between them; the forks make a loser;
  the deposits lie in different mainchain blocks so that a stale read would credit
  one twice; four blocks reach a bundle that is collected, failed and returned.  A peer
  answers with any block of the tree, of whatever height: so a block is submitted before
  its turn, and commits in it.
* *Replicas.*  With `FailureGap = 1` six blocks fit a bundle that fails at one node
  before the other has collected it, the second bundle of the same coins, and the
  transaction that spends a withdrawal one node has returned and the other has not.
  The output limit is 1, of which the loop takes two: withdrawals to both destinations make
  a bundle too heavy.  A bundle can thus be due and over the limits at one node while the
  other, whose bundle is pending or whose last failure is recent, accepts the block.
  Two nodes are every pair of nodes: they meet only in the chain and the mainchain.
* *Gossip.*  The star is the smallest network in which a listener has more than one
  peer to push to; the triangle the smallest cycle.  Three transactions make two pushes
  on one connection behind one another and a third against them.
* *Net.*  Races on the table are between two connections of one address, or two tasks
  that name one connection; the sets in `Together` are the pairs: two outgoing, two
  incoming, one of each.  `disconnect` names one of them (`Dropped`), an accepted one,
  whose listeners run on; what it does to the table and the lock does not depend on who
  made the connection.  One requester is enough to hold the lock, since what others wait for
  is that `readers` is empty.
* *Libraries.*  Two headers for one mainchain block, one for the next, and two miners
  (alike, hence the symmetry, which is sound: no property of the run is temporal and
  none names a miner) make every race of bids.  Three addresses of each seed give a call
  of `create_withdrawal` its two and the application one between them; the calls of
  other callers differ from the application's own steps by the coins they hold, which
  nobody else reads, so one caller beside it is enough.  Five authorizations on four
  threads give packages of one and a rest, on two packages of two and a rest, and fewer than threads packages of none.

Every property has a mutant in `PROJECT.json`: a definition changed as a plausible
bug would change it (a dropped guard, `>=` for `>`, coins not put back, an index one
height early, a second database transaction), with which the run reports the
property violated.

## 4. The properties

* **`DepositsExact`**, **`ResumePoint`**: after any sequence of scans each
  parsable increase up to the newest block scanned has been credited exactly its
  increment, all others nothing; the next scan will see exactly the uncredited ones.
* **`NoCoinTwice`**: a coin worth something is in at most one of unspent, bundled,
  spent, paid.  *Worth something*, because a transaction without inputs may be
  connected twice and then makes the same outpoint again.
* **`CoinsFollowLifecycle`**: every step of `State` moves every such coin along
  `CoinLifecycle`: a coin appears once, returns only from a failed bundle, and
  never leaves "spent" or "paid".
* **`Conservation`**: unspent + pending + paid is at most the deposits credited.
  The mainchain fee of a withdrawal is not counted: the bundle's outputs leave it
  out, and the wallet returns it to the sender as change (hazard at `wallet.rs:68`).
* **`PaysOwners`**: one output for each destination whose coins were taken, worth
  those coins.
* **`BundlesApart`**, **`EachAnswerOnce`**: bundles follow each other with the gap
  after a failure; an answer listed again never settles a later bundle of the same
  coins, because the height is in the commitment and so in the txid.
* **`ChainLinked`**, **`IndexExact`**, **`BodiesMatch`** for the archive.
* **`StaleStartRefused`**: a submission begun in turn that read an old
  `last_deposit_block` has a header that the archive refuses.  This is what makes the
  unguarded read-await-write of `submit_block` safe, and nothing in the code says so.
  *In turn*, because it does not protect a block submitted too early: the node is at
  height h, asks for h+1 and is answered with the block at h+2; during the await of
  `node.rs:258` the application connects h+1; the block at h+2 then passes
  `append_header`, with the deposits since the block at h, and those of h+1 are credited
  again.  Honest peers answer with the block asked for (`node.rs:358`); that the answer is
  one is not checked (`node.rs:514`).
* **`NodeImplementsState`**: the concurrent node makes the steps of `State`, and
  besides them only commits of blocks submitted before their turn (`OutOfTurnCommit`).
* **`ArchiveExplainsState`**: heights, bodies and spent outputs agree after every
  crash and error.
* **`PoolConflictFree`**, **`TemplateValid`**: the pool never holds a conflict, and
  `Body::new` on what `get_transactions` returns is valid on that state, although
  the pool's transactions are not checked when blocks are connected.  Its premise,
  an authorization for each input, is not checked by the code (hazard at
  `node.rs:106`).
* **`SameCoins`**, **`RefusedForWithdrawals`**: what two nodes on one chain agree on.
  They need not agree on the UTXO set.  A node builds the bundle itself, with the order
  of its own `HashMap` in the commitment (`state.rs:183`), and never sees the answer to
  a transaction of another txid; and it asks for the answers when it connects the block
  (`drivechain/mod.rs:117`), so one that connects it later knows more.  The properties
  say how far this goes: deposits, spent outputs and all coins that carry value are the
  same, and a coin unspent for one only is a withdrawal.  A node that is behind refuses a
  block, for its body or for the collection that comes with it (`state.rs:214`), only if
  the block spends a withdrawal, or if a bundle is due and this node's own withdrawals make
  one over the limits: more outputs than `MAX_BUNDLE_OUTPUTS`, one heavier than
  `OUTPUT_WEIGHT`, or a sum that panics.  Payments and deposits never part them.
* **`OkMeansEverywhere`**: when `submit_transaction` succeeds, every peer of a node with
  the transaction has it or found it invalid.  On a cycle of nodes that accept it, it
  therefore never succeeds: the transaction comes back, is `UtxoDoubleSpent`, and the
  error ends that listener (`node.rs:394`) and, one node after the other, every push it
  is part of.
* **`NoWaitCycle`**, **`Propagates`**, **`PushesEnd`**: on a network without cycles no
  listeners wait for each other, and if the nodes agree on what is valid every push ends
  and every transaction reaches all.  Without the first premise none of it holds
  (`node.rs:405`); without the second a node that refuses a transaction stops listening
  to the peer that sent it, and later pushes to it wait for ever.
* **`NetTypeOK`**: a task waits in the queue at most once, and exactly while it is at a
  point where it waits; an answer is awaited only from a peer in the table, by a task
  that holds the lock.
* **`AcceptedApart`**, **`ConnectedApart`**: accepted peers have different addresses,
  although the check and the insertion are apart.  For `connect` that is so only
  of calls that were not in flight together (`net.rs:103`): two that are both pass the
  check, and the table then has the address twice.
* **`ClosedPeersLeave`**: the peer of a closed connection leaves the table, if requests
  end.  There are two exceptions: an accepted peer whose connection closed, and whose
  listener removed it, before it was inserted (`node.rs:475`), and a peer whose listener
  was ended by a datagram that does not deserialize (`node.rs:338`).  Such a peer stays,
  and makes the heartbeat task fail (`node.rs:493`).
* **`EveryoneServed`**: whoever waits for the table gets it, if requests end, although the
  sync task and pushes await the network while they hold it (`node.rs:503`).
* The premise of both, **`RequestsEnd`**, is that no request is awaited for ever.  The code
  does not see to it: `read_to_end` (`net.rs:56`) has no time limit, and a peer whose
  `peer_listen` has ended (`node.rs:388`, `394`) or waits in a ring (`node.rs:405`) keeps
  its connection and its heartbeats and does not answer.  Then the table stays locked
  against `connect`, `disconnect` and every listener that has a peer to remove.
* **`ReturnedWereMined`**, **`WinnersAccountedFor`**: what `confirm_bmm` returns was
  taken by the mainchain, and a header that was taken is not forgotten, but for the
  two ways the code has of dropping one: a later attempt replaces it (`miner.rs:66`),
  or its own attempt failed after the bid was made (`miner.rs:65`).
* **`TablesOfSeed`**, **`AddressesFresh`**: the wallet's tables are inverse and of the
  current seed, and no address is given out twice, with calls of `create_*` that make
  their addresses one by one.
* **`SelectionExact`**: a selection is enough, takes the smallest coins, could do
  without its largest only if the others do not exceed what is asked for, and fails only
  if all coins together are too few.  (*Not exceed*: with the exact sum the code takes one
  more coin, `wallet.rs:123`.)
* **`OwnersAuthorize`**: whatever happened to seed, tables and coins since the
  selection, `authorize` fails or signs with the keys of the owners.
* **`EachPairPacked`**, **`VerdictExact`**: packages divide the list of pairs, and the
  verdict is that of a check of one authorization after the other; with more
  authorizations than inputs the assertion ends the call.

## 5. Findings

1. `bundle_limit` (`state.rs:143`): the loop takes `MAX_BUNDLE_OUTPUTS + 1` outputs.
2. `wrap` (`state.rs:243`): without overflow checks outputs that add up past 2^64
   pass for less than the inputs.
3. `pool_marks` (`mempool.rs:48`): `delete` keeps the marks, so an output that a
   failed bundle returns can be unspendable through this node's pool.
4. `sync` (`node.rs:517`): the task that requests missing headers unwraps
   `submit_block`, and ends when another submission connects a block first (in the run,
   the application's), as it does for a block of a chain that parts from this node's.

## 6. Fairness

Invariants need none.  `FairNodeSpec`, for `sync`, assumes weak fairness of the
sync task's own step (the runtime schedules a spawned task that is ready; its loop
sleeps one second), of the answer to its request (the peer answers or the connection
fails, `SyncBlock \/ SyncNoBlock \/ SyncRequestFails`), and of its commit (the
mainchain answers).  It also has peers answer with a block of the height asked for
(`AsAsked`).  The code guarantees neither this nor that a request ends; since the property is
refuted, what is assumed says only that no misbehaviour is needed for it to fail.
Nothing is assumed of the application, and nothing of crashes.  The counterexample
needs no failure: `Outages` is FALSE.

`FairGossipSpec` assumes weak fairness of each task's steps: tokio schedules a task that
is ready, a request that is sent arrives, and an answer, empty or not, comes back.
Connections stay open, because each end sends a heartbeat every second and nothing
closes them; a listener that has ended leaves its connection open, and answers nothing:
nothing is assumed of its answers.  Applications need not submit.

`FairNetSpec` assumes weak fairness of the steps of tasks that are ready, which includes
that the lock is handed on in order of arrival: tokio's `RwLock` is documented to be
fair.  A handshake ends.  Nothing makes a connection arrive or close, a call be made, or
a request end: there is no fairness of `Answer` and `AskFails`.  That requests end is
`RequestsEnd`, a premise that the two liveness properties state.  The fairness is strong
in two places.  For the end of an iteration over the table: while a requester goes from
peer to peer, `RequestsDone` is enabled between two requests and disabled during each,
and the iteration is over a finite table that cannot change while the lock is held.  And
for a listener to see that its connection has closed (`ListenerWait`): it may still read
the datagrams that came before, and there is a last one.

## 7. Proofs

TLC's results hold for the instances above.  These hold for every value of the
constants that satisfies the modules' assumptions.

**Deposits** (`DepositScanProof`).  `DepositsExact` alone is not inductive: the
amount of a deposit is computed from the listed part of the log, and is right only
if the entry before it is listed too.  `ResumePoint` adds what is missing, the stored
block is the block of an entry and no increase up to the newest block scanned lies
after it, so every entry a scan credits comes with its predecessor
(`ListedWithPredecessor`) and none that was credited is seen again.  Assumed: the log
is in block order, the running totals are naturals.

**State** (`StateProof`).  `StateImplementsScan` maps every block to one scan, and so
`ChainDepositsExact` follows from the theorem above.  For bundles the invariant
(`BundleInv`) gives each bundle a time, from the block that collects it to the one that
answers it and, after a failure, to the end of the gap: the times of settled bundles do
not overlap, the pending one begins after all of them, and a failure is never later than
the stored failure height, which is what the collection compares.  `BundlesStayApart`
is read off it; `AnswersSettleOnce` follows because a txid commits to the height of
collection.

**Coins** (`StateProof`).  `TypeCorrect` is the type invariant; the scan's part of it
comes from `DepositScanProof`, the bundle's from `BundleInv`.  `NoCoinIsUsedTwice` is
less obvious than it looks, because nothing in the code refuses a transaction or a body
that was connected before: outpoints can be made again, and if a coin that was paid out
were made again it could be paid again.  The invariant (`CoinInv`) adds to `NoCoinTwice`
that what a known coin was made from is used up: the inputs of its transaction, or of
every transaction of its body for a coinbase output, are spent, and its deposit lies at
or before the stored block.  Then (`MadeIsNew`) a coin that a block makes and that
carries value is new: its transaction has an input that carries value
(`ValueHasSource`), which is unspent because the block is valid, and would be spent if
the coin were known.  A coinbase output has its value from fees, and so from such a
transaction; a deposit that is credited lies after the stored block.  The rest is
bookkeeping (`BlockMoves`, `Settlement`), from which `StateImplementsLifecycle` follows
too.  Assumed: `OverflowChecks`, without which a sum of outputs that wraps makes value
of nothing; the values in transactions and bodies are naturals, and a transaction and
a body are lists (`TxAssumption`, `BodyAssumption`).  The order of the sort, the cut of
the list and the order of the keys play no part.

**Value** (`StateProof`).  A sum is defined as the number of units its terms are made
of (`Types!Total`), so the worth of a union of sets is the size of a union.  From the
library's facts on cardinalities follow the two that the argument is made of: coins in
sets that share no coin of value are together worth the sum of what the sets are worth
(`ValueOfDisjointFamily`), and in any case at most that (`ValueOfFamily`).  A valid body spends
no input twice, each of its transactions makes no more than its inputs and its coinbase
no more than the fees, so it makes no value (`BodyKeepsValue`); deposits make what is credited
(`CreditsCoverDeposits`).  The invariant (`FundsInv`) bounds what is *held*, that is
unspent, bundled or paid, as one set, and says that every bundle pays its owners;
`Conservation` counts the three by themselves, and they are apart by `NoCoinTwice`.  A
block only adds to what is held the coins it makes, and takes away those it spends, so
the order of the sort and what the mainchain answers play no part.  `BundlesPayOwners` is about the
bundle when it is made: an aggregated withdrawal is one for each destination
(`NewBundlePays`), and a bundle never changes.  Assumed: `OverflowChecks`, since a sum
that wraps pays less than it takes, as the run `wrap` shows for transactions.

**Archive** (`NodeProof`).  A header contains its parent's hash and so has one height
(`HeaderHeight`, an assumption on the constants that says hashes have no cycles).
`append_header` accepts it only on top of the last, so the header at height k has
`HeaderHeight` k; the header appended is therefore not among the earlier ones, and its
index entry overwrites none.

**Mempool** (`NodeProof`).  The inputs of every waiting transaction are marked, `put`
takes unmarked inputs only, `delete` removes no mark.  `TemplatesAreValid` is about the
pool, the chain and `Body::new` together.  `get_transactions` takes the pool's
transactions one by one and leaves out those that are not valid now or share an input
with one it has taken (`ReturnedExists`, `ReturnedFit`).  `Body::new` rearranges what
belongs to them: each transaction of the body is one of those returned, and each once (`TemplateTakes`),
the body's authorizations are their authorizations joined as their inputs are
(`TemplateAuthorized`), and its coinbase takes no more than their fees (`TemplateFees`).
That the fees fit a u64 (`TemplateFeesFit`) is a fact about the whole history:
they come from different coins that the sidechain holds, and `FundsInv` bounds those
by the deposits.  Hence the premise `OverflowChecks => Deposited < U64`: if all deposits of
the mainchain together did not fit, a sum of fees could overflow and
`get_transactions` would panic.  (With bitcoin's supply they fit.)  The other premise,
`FullyAuthorized`, is the property's own: the pool checks signatures and not that there
is one for each input.

**Node** (`NodeProof`).  The invariant says of a submission that awaits the mainchain
that the best hash of the moment when it began is one of the chain's, and that if it is
still the best, the deposit block read then is still the stored one (`InFlight`).  A commit
moves the best hash to a header that was not archived before (`ArchiveInv`: a header has one height), so no
submission in flight was begun on it.  Hence `StaleStartsAreRefused`: a submission in turn
whose header the archive would accept was begun on the best hash.  With it follows
`NodeDoesImplementState`: a commit in turn has read the deposit block of the block before,
and is a step of `State`; every other step leaves state and archive alone
(`OnlyCommitWrites`), but for a commit out of turn, which the theorem names.
`ArchiveAlwaysExplainsState` needs the archive's invariant, to know that `put_body` stores
at the height just appended, and holds of commits out of turn too.

What is proved of every chain is carried over to the node under the premise
`EveryCommitInTurn`, since a commit out of turn credits deposits twice: `NodeKeepsPromises`,
`NodeUsesNoCoinTwice`, `NodeConservesValue`, and `TemplatesAreValid`, whose fees are bounded by
the deposits.  `CommitsComeInTurn` reduces the premise to one about peers, `AnswersAsAsked`: if each
answers with a block of the height asked for, no submission in flight is for a height beyond the
next block's (`TurnInv`), those for the next were begun on the best hash, and so every commit
is in turn.  The application needs no such premise, because it builds on hashes of the chain.

**Libraries** (`LibrariesProof`).  *Miner*: a mainchain that grows takes nothing back
(`MinedStays`), so what was verified when it was returned stays so, and
`OneBlockForEachMainBlock` follows since a mainchain block takes one bid.  The type
invariant says that a confirmation that awaits the mainchain still has its block, which
needs the exclusive reference that both calls take.  *Wallet*: `TablesInv` adds to
`TablesOfSeed` that the addresses given out are the table, in order, so that the next
index is new; it holds for any number of concurrent calls because a new address is one
database transaction.  `OwnersDoAuthorize` follows (`FoundKeyIsOwners`): an address with
an index in the current tables is of the current seed.  *Authorization*: the packages
filled so far are the first pairs, in order and apart (`PackagesUpTo`), so that the last
one, with the rest, completes them; `PackedNumber` counts the signatures of packages
that share none, which is what the code asserts.
*Exactness*: whatever order the sort leaves equal values in, what `select_coins` takes is the
shortest beginning of the sorted coins that is worth more than was asked for, or all of them
(`StopsAt`, `TakenIsPrefix`); `SelectionsAreExact` is read off it, with sums as cardinalities.  For
`VerdictsAreExact` the flattened list of messages has the transaction of input number
k at position k (`MessagesAreInputs`), the pairs are those of the shorter of the two lists,
and every pair is in a package; so all packages verify iff each authorization signs for its input.

**Lists** (`Lists`).  Facts about lists of any length need induction, and the library's
induction theorems take an operator as a parameter.  What can be cited is that strict
inclusion among the finite subsets of a set is well founded: from it follows that a
set of naturals that is not empty has a least member (`LeastNat`), and an induction is then a
proof that a set of counterexamples has none.  So it is proved that every finite set
can be listed in ascending order of any measure (`SortedListExists`), and that
flattening a list of lists joins them in order (`JoinsExists`, `FlattenIsJoined`).

**Gossip** (`GossipProof`).  `GossipInv` says that a task that awaits an answer is in
exactly one place: its request is in the inbox of the listener it asked, once, or is
what that listener handles.  So an answer, and the end of a listener, change one other
task (`Told`), and the other tasks and inboxes keep what they had (`Others`,
`SameInbox`).  `NoRingOfListeners` is then the observation that a listener asks only
peers other than the one it listens to, which on a network without cycles no ring can do.
`OkReachesEverybody` is about every network, with cycles too.  The invariant (`PushInv`)
has three parts: a listener that is active handles the transaction of the task that sent it
(`SameTx`); each hangs, from requester to requester, on the call that made the
transaction (`Rooted`); and at a node with the transaction, of the peers that lack it and
would take it, all are still to be asked by one task of that node or have been, or some task of that
transaction is failing, or the call has returned an error (`Covered`).
When the call has returned without one, no task hangs on it any more, so
nobody is left to ask.
Four theorems are about *every* network without cycles whose nodes agree, where
`Propagates` and `PushesEnd` are checked on one.  Without one of its connections such a network has two
sides (`SideExists`, again by a least counterexample: `Tree` gives it), and a transaction
from elsewhere enters a side only over that connection.  Once some node of the side has it,
it has crossed (`Sides`): it will not be asked for there again, nor sent back, so whoever is
asked does not have what it is asked to take (`Fresh`).  Hence nobody fails
(`NobodyEverFails`).  Whoever awaits an answer is in the inbox of the listener it asked or is
what that listener works for (`Reached`), and the listeners that are awaited form no ring, so
somebody can go on (`SomebodyAlwaysGoesOn`).  Every step takes a transaction, asks a peer or ends a
push for the first time, and undoes nothing (`StepsAreProgress`): with finitely many
nodes and transactions the steps come to an end, and then connected nodes have the same
transactions (`SettledNodesDoAgree`).  What is missing for the two liveness properties is
the fairness that makes a task that can go on do so.

**Net** (`NetProof`).  `NetInv` says of each task that it is in the queue exactly while it
is at a point where it waits, so joining is by a task that is not in it and leaving removes
the only entry (`QueueInv`); how far each connection has come (`ConnInv`); and that
a peer whose answer is awaited is in the table, which holds because whoever awaits holds the
lock for reading and `disconnect`, like every other removal, needs it for writing
(`AskedInv`).  The addresses (`ApartInv`) are checked in one critical section and inserted
in another.  For accepted peers this is safe because one task does both, and nobody else
inserts such a peer: what it found absent is still absent.  For `connect` a
call that has passed its check is in the table or still in flight (`Passed`), so a later
call either finds it or has it `beside` itself.
Two more theorems are what the liveness properties rest on: `EveryPeerIsHeard`, a peer in the
table has a listener that will see its connection close, or is one of the two exceptions that
`ClosedPeersLeave` makes; and `FirstCanAlwaysGo`, whoever the lock is handed to has use for
it, so that nobody blocks those behind.

**Replicas** (`ReplicasProof`).  `SameCoins` relates two nodes that agree on
neither their unspent outputs nor their bundles.  What they do share is defined in
`StateProof`: `Decided` is the part of a node's state that blocks alone decide (what is
credited, the deposit block, the spent coins, the unspent coins that are not withdrawals and, with
overflow checks, the coins that carry value and exist at all, be it unspent, bundled or
paid), and `DecidedAfter` is that part after one more block, a function of
the part before (`ConnectIsDecided`) and of nothing else.  So there is one course of it
along the chain, and each node is on it at its own height (`CourseInvariant`).
`NodesHaveSameCoins` is the course read off at equal heights.  *Exist* is where
overflow checks are needed: a coin of value that a node has paid must not be made again by a
block, or the nodes would differ by it.  `PaymentsNeverPart` does not need that.  It has two
parts: what is asked of a body that spends no withdrawal is about the course only
(`DecidedSuffices`), so the body is as valid as it was where the block was made; and a bundle within
the limits is light enough (`LightBundle`: its weight is a sum of as many outputs as the
limit allows, none heavier than `OUTPUT_WEIGHT`), so a collection that fails is one that goes
over them (`FailsOverLimits`).  `StateProof` is instantiated once more for the other
node's variables; the lemmas `SameData` to `SameFate` show that this instance and the one in
`Replicas` say the same.  `EachNodeIsAChain` carries every theorem about one chain to
both nodes.

**Only model-checked**: the liveness properties, that is `Propagates`, `PushesEnd`,
`ClosedPeersLeave` and `EveryoneServed`, because fairness is out of the prover's reach; what
they rest on and does not need fairness is proved (**Gossip**, **Net**).
Every invariant and action property that a passing run checks is a theorem, and so are
the refinements.  No module of the project uses `RECURSIVE`, which the prover cannot
follow: sums are cardinalities of sets of units (`Types!Total`) so that facts about finite
sets are facts about sums.

## 8. What is left

* The heights of heartbeats in `Net`, with the sync task's choice of a peer by height,
  composed with `Node`.
* Requests of `Gossip` composed with `Net`, to derive `RequestsEnd` for networks without
  cycles whose nodes agree instead of assuming it.

**Not modelled.**  The RPC client (`drivechain/client.rs`) is bindings without state;
amounts (`drivechain/amount.rs`) are in a module that nothing includes; the formatting of
addresses (`types/address.rs`) matters only through whether a destination parses
(`Strdest`); hash newtypes have no behaviour.  QUIC and TLS configuration is I/O.
Sizes, that is `READ_LIMIT` (`net.rs:10`) and the map size of the database
(`node.rs:58`), are limits on encodings that the models do not have: a request or a
commit that fails because of them is among those that fail for any reason.  The custom
state is a trait whose implementations are elsewhere.
