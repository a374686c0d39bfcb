----------------------------- MODULE NodeProof -----------------------------
(***************************************************************************)
(* The archive, the mempool, and the node that they and the state are      *)
(* parts of: what holds for any number of tasks, any headers and blocks    *)
(* and any transactions.                                                   *)
(***************************************************************************)
EXTENDS Node, StateProof

(***************************************************************************)
(* The archive's invariants, for every tree of headers.                    *)
(*                                                                         *)
(* The argument: a header contains the hash of its parent, so it has one   *)
(* height (HeaderHeight).  append_header accepts a header only on top of   *)
(* the last one, so the one at height k has HeaderHeight k; hence the      *)
(* header appended is not among the earlier ones, its entry in the index   *)
(* overwrites none, and put_body finds the height where the header is.     *)
(***************************************************************************)

(* The part of the invariant that append_header alone keeps. *)
HeadersInv ==
    /\ headers \in Seq(Header)
    /\ DOMAIN hash_to_height \subseteq Header
    /\ ChainLinked
    /\ IndexExact

ArchiveInv == HeadersInv /\ ArchiveTypeOK /\ BodiesMatch

(* A header on top of the last one is a header for the next height. *)
LEMMA NextHeight ==
    ASSUME HeadersInv, NEW h \in Header, PrevSideHash[h] = get_best_hash
    PROVE  HeaderHeight[h] = Len(headers) + 1
<1>1. CASE headers = <<>>
  BY <1>1, HeaderAssumption DEF get_best_hash
<1>2. CASE headers # <<>>
  <2>1. /\ Len(headers) \in DOMAIN headers
        /\ headers[Len(headers)] \in Header
    BY <1>2 DEF HeadersInv
  <2>2. HeaderHeight[headers[Len(headers)]] = Len(headers)
    BY <2>1 DEF HeadersInv, ChainLinked
  <2>3. PrevSideHash[h] = headers[Len(headers)]
    BY <1>2 DEF get_best_hash
  <2> QED
    BY <2>1, <2>2, <2>3, HeaderAssumption
<1> QED
  BY <1>1, <1>2

(* append_header keeps the chain and its index. *)
LEMMA AppendHeaderKeepsChain ==
    ASSUME HeadersInv, NEW h \in Header, append_header(h)
    PROVE  /\ HeadersInv'
           /\ Len(headers') = Len(headers) + 1
           /\ \A k \in DOMAIN headers : k \in DOMAIN headers' /\ headers'[k] = headers[k]
           /\ headers'[Len(headers) + 1] = h
           /\ hash_to_height'[h] = Len(headers) + 1
<1> DEFINE n == Len(headers) + 1
<1>1. /\ headers \in Seq(Header)
      /\ headers' = Append(headers, h)
      /\ hash_to_height' = Put(hash_to_height, h, n)
      /\ PrevSideHash[h] = get_best_hash
  BY DEF HeadersInv, append_header, get_height
<1>2. /\ headers' \in Seq(Header)
      /\ Len(headers') = n
      /\ DOMAIN headers = 1 .. Len(headers) /\ DOMAIN headers' = 1 .. n
      /\ Len(headers) \in Nat
      /\ \A k \in DOMAIN headers : k \in DOMAIN headers' /\ headers'[k] = headers[k]
      /\ headers'[n] = h
  BY <1>1
<1>3. HeaderHeight[h] = n
  BY <1>1, NextHeight
<1>4. \A k \in DOMAIN headers : headers[k] # h
  BY <1>2, <1>3 DEF HeadersInv, ChainLinked
<1>5. ChainLinked'
  <2> SUFFICES ASSUME NEW k \in DOMAIN headers'
               PROVE  /\ PrevSideHash[headers'[k]] = IF k = 1 THEN ZeroHash ELSE headers'[k - 1]
                      /\ HeaderHeight[headers'[k]] = k
    BY DEF ChainLinked
  <2>1. CASE k \in DOMAIN headers
    <3>1. k - 1 \in DOMAIN headers \/ k = 1
      BY <1>2, <2>1
    <3> QED
      BY <1>2, <2>1, <3>1 DEF HeadersInv, ChainLinked
  <2>2. CASE k = n
    <3>1. CASE headers = <<>>
      BY <1>1, <1>2, <1>3, <2>2, <3>1 DEF get_best_hash
    <3>2. CASE headers # <<>>
      <4>1. Len(headers) \in DOMAIN headers /\ k # 1 /\ k - 1 = Len(headers)
        BY <1>1, <1>2, <2>2, <3>2
      <4> QED
        BY <1>1, <1>2, <1>3, <2>2, <3>2, <4>1 DEF get_best_hash
    <3> QED
      BY <3>1, <3>2
  <2> QED
    BY <1>2, <2>1, <2>2
<1>6. IndexExact'
  <2>1. DOMAIN hash_to_height' = {headers'[k] : k \in DOMAIN headers'}
    <3>1. DOMAIN hash_to_height' = {headers[k] : k \in DOMAIN headers} \cup {h}
      BY <1>1 DEF Put, HeadersInv, IndexExact
    <3>2. DOMAIN headers' = DOMAIN headers \cup {n}
      BY <1>2
    <3> QED
      BY <1>2, <3>1, <3>2
  <2>2. ASSUME NEW k \in DOMAIN headers' PROVE hash_to_height'[headers'[k]] = k
    <3>1. CASE k \in DOMAIN headers
      <4>1. headers[k] \in DOMAIN hash_to_height /\ hash_to_height[headers[k]] = k
        BY <3>1 DEF HeadersInv, IndexExact
      <4>2. headers'[k] = headers[k] /\ headers[k] # h
        BY <1>2, <1>4, <3>1
      <4> QED
        BY <1>1, <4>1, <4>2 DEF Put
    <3>2. CASE k = n
      BY <1>1, <1>2, <3>2 DEF Put
    <3> QED
      BY <1>2, <3>1, <3>2
  <2> QED
    BY <2>1, <2>2 DEF IndexExact
<1>7. DOMAIN hash_to_height' \subseteq Header /\ hash_to_height'[h] = n
  BY <1>1 DEF Put, HeadersInv
<1> QED
  BY <1>2, <1>5, <1>6, <1>7 DEF HeadersInv

(* A body stored by the index of the new chain is at its header's height, and
   the bodies that matched still do. *)
LEMMA PutBodyKeepsMatching ==
    ASSUME HeadersInv', NEW h \in Header, NEW body \in Body,
           put_body(h, body, hash_to_height'),
           \A j \in DOMAIN bodies : /\ j \in DOMAIN headers'
                                    /\ bodies[j] \in Body
                                    /\ MerkleRoot(bodies[j]) = HeaderRoot[headers'[j]]
    PROVE  \A j \in DOMAIN bodies' : /\ j \in DOMAIN headers'
                                     /\ bodies'[j] \in Body
                                     /\ MerkleRoot(bodies'[j]) = HeaderRoot[headers'[j]]
<1>1. PICK k \in DOMAIN headers' : headers'[k] = h
  BY DEF put_body, HeadersInv, IndexExact
<1>2. hash_to_height'[h] = k
  BY <1>1 DEF HeadersInv, IndexExact
<1>3. bodies' = Put(bodies, k, body) /\ MerkleRoot(body) = HeaderRoot[h]
  BY <1>2 DEF put_body
<1> SUFFICES ASSUME NEW j \in DOMAIN bodies'
             PROVE  /\ j \in DOMAIN headers'
                    /\ bodies'[j] \in Body
                    /\ MerkleRoot(bodies'[j]) = HeaderRoot[headers'[j]]
  OBVIOUS
<1>4. CASE j = k
  <2>1. bodies'[j] = body
    BY <1>3, <1>4 DEF Put
  <2> QED
    BY <1>1, <1>3, <1>4, <2>1
<1>5. CASE j # k
  <2>1. j \in DOMAIN bodies /\ bodies'[j] = bodies[j]
    BY <1>3, <1>5 DEF Put
  <2> QED
    BY <2>1
<1> QED
  BY <1>4, <1>5

-----------------------------------------------------------------------------

(* The archive begins with no block. *)
LEMMA ArchiveInitInv == ArchiveInit => ArchiveInv
<1> SUFFICES ASSUME ArchiveInit PROVE ArchiveInv
  OBVIOUS
<1>1. headers = <<>> /\ bodies = <<>> /\ hash_to_height = <<>>
  BY DEF ArchiveInit
<1>2. headers \in Seq(Header) /\ DOMAIN headers = {} /\ DOMAIN bodies = {} /\ DOMAIN hash_to_height = {}
  BY <1>1
<1> QED
  BY <1>2 DEF ArchiveInv, HeadersInv, ArchiveTypeOK, ChainLinked, IndexExact, BodiesMatch

(* append_header and put_body keep ArchiveInv. *)
LEMMA ArchiveNextInv == ArchiveInv /\ [ArchiveNext]_archiveVars => ArchiveInv'
<1> SUFFICES ASSUME ArchiveInv, [ArchiveNext]_archiveVars PROVE ArchiveInv'
  OBVIOUS
<1>1. CASE AppendHeader
  <2>1. PICK h \in Header : append_header(h)
    BY <1>1 DEF AppendHeader
  <2>2. bodies' = bodies
    BY <1>1 DEF AppendHeader
  <2>3. /\ HeadersInv'
        /\ \A k \in DOMAIN headers : k \in DOMAIN headers' /\ headers'[k] = headers[k]
    BY <2>1, AppendHeaderKeepsChain DEF ArchiveInv
  <2>4. BodiesMatch' /\ \A k \in DOMAIN bodies' : bodies'[k] \in Body
    BY <2>2, <2>3 DEF ArchiveInv, BodiesMatch, ArchiveTypeOK
  <2>5. ArchiveTypeOK'
    BY <2>3, <2>4 DEF HeadersInv, BodiesMatch, ArchiveTypeOK
  <2> QED
    BY <2>3, <2>4, <2>5 DEF ArchiveInv
<1>2. CASE PutBody
  <2>1. PICK h \in Header, body \in Body : put_body(h, body, hash_to_height)
    BY <1>2 DEF PutBody
  <2>2. headers' = headers /\ hash_to_height' = hash_to_height
    BY <1>2 DEF PutBody
  <2>3. HeadersInv'
    BY <2>2 DEF ArchiveInv, HeadersInv, ChainLinked, IndexExact
  <2>4. \A j \in DOMAIN bodies' : /\ j \in DOMAIN headers'
                                  /\ bodies'[j] \in Body
                                  /\ MerkleRoot(bodies'[j]) = HeaderRoot[headers'[j]]
    BY <2>1, <2>2, <2>3, PutBodyKeepsMatching DEF ArchiveInv, ArchiveTypeOK, BodiesMatch
  <2> QED
    BY <2>3, <2>4 DEF ArchiveInv, ArchiveTypeOK, BodiesMatch, HeadersInv
<1>3. CASE UNCHANGED archiveVars
  BY <1>3 DEF archiveVars, ArchiveInv, HeadersInv, ArchiveTypeOK, ChainLinked, IndexExact, BodiesMatch
<1> QED
  BY <1>1, <1>2, <1>3 DEF ArchiveNext

(* ArchiveInv is inductive. *)
LEMMA ArchiveInvariant == ArchiveSpec => []ArchiveInv
  BY ArchiveInitInv, ArchiveNextInv, PTL DEF ArchiveSpec

(* Heights hold headers and bodies, and only heights that were appended. *)
THEOREM ArchiveTypeCorrect == ArchiveSpec => []ArchiveTypeOK
  BY ArchiveInvariant, PTL DEF ArchiveInv

(* The headers archived are one chain, whatever headers are offered. *)
THEOREM ChainIsLinked == ArchiveSpec => []ChainLinked
  BY ArchiveInvariant, PTL DEF ArchiveInv, HeadersInv

(* hash_to_height stays the inverse of the chain: a header is never archived
   twice, because its height is in its contents. *)
THEOREM IndexIsExact == ArchiveSpec => []IndexExact
  BY ArchiveInvariant, PTL DEF ArchiveInv, HeadersInv

(* Bodies stay with the headers that commit to them, whatever the order of the
   two operations. *)
THEOREM BodiesDoMatch == ArchiveSpec => []BodiesMatch
  BY ArchiveInvariant, PTL DEF ArchiveInv

-----------------------------------------------------------------------------
(***************************************************************************)
(* The mempool never holds two transactions that share an input, for every *)
(* set of transactions.  The argument: put accepts unmarked inputs only    *)
(* and marks them, the inputs of every waiting transaction are marked, and *)
(* delete takes no mark away.                                              *)
(***************************************************************************)

PoolInv ==
    /\ MemPoolTypeOK
    /\ PoolConflictFree
    /\ IsFiniteSet(transactions)
    /\ \A x \in transactions : DistinctInputs(x.tx)

(* The pool begins empty. *)
LEMMA MemPoolInitInv == MemPoolInit => PoolInv
  BY FS_EmptySet DEF MemPoolInit, PoolInv, MemPoolTypeOK, PoolConflictFree

(* put takes a transaction only if its inputs are unmarked, and marks them. *)
LEMMA PutKeepsPool ==
    ASSUME PoolInv, NEW a \in AuthorizedTx, put(a)
    PROVE  PoolInv'
<1>1. /\ Inputs(a.tx) \cap spent_utxos = {}
      /\ spent_utxos' = spent_utxos \cup Inputs(a.tx)
      /\ transactions' = {x \in transactions : x.tx # a.tx} \cup {a}
  BY DEF put
<1>2. MemPoolTypeOK'
  BY <1>1 DEF PoolInv, MemPoolTypeOK
<1>3. \A x \in transactions' : Inputs(x.tx) \subseteq spent_utxos'
  BY <1>1 DEF PoolInv, PoolConflictFree
<1>4. ASSUME NEW x \in transactions', NEW y \in transactions', x # y
      PROVE  x.tx # y.tx /\ Inputs(x.tx) \cap Inputs(y.tx) = {}
  <2>1. CASE x \in transactions /\ y \in transactions /\ x.tx # a.tx /\ y.tx # a.tx
    BY <1>4, <2>1 DEF PoolInv, PoolConflictFree
  <2>2. CASE y = a
    <3>1. x \in transactions /\ x.tx # a.tx
      BY <1>1, <1>4, <2>2
    <3>2. Inputs(x.tx) \subseteq spent_utxos
      BY <3>1 DEF PoolInv, PoolConflictFree
    <3> QED
      BY <1>1, <2>2, <3>1, <3>2
  <2>3. CASE x = a
    <3>1. y \in transactions /\ y.tx # a.tx
      BY <1>1, <1>4, <2>3
    <3>2. Inputs(y.tx) \subseteq spent_utxos
      BY <3>1 DEF PoolInv, PoolConflictFree
    <3> QED
      BY <1>1, <2>3, <3>1, <3>2
  <2> QED
    BY <1>1, <2>1, <2>2, <2>3
<1>5. IsFiniteSet(transactions')
  <2>1. IsFiniteSet({x \in transactions : x.tx # a.tx})
    BY FS_Subset DEF PoolInv
  <2> QED
    BY <1>1, <2>1, FS_AddElement
<1>6. \A x \in transactions' : DistinctInputs(x.tx)
  BY <1>1 DEF put, PoolInv
<1> QED
  BY <1>2, <1>3, <1>4, <1>5, <1>6 DEF PoolInv, PoolConflictFree, DistinctInputs

(* delete takes transactions away and no mark. *)
LEMMA DeleteKeepsPool ==
    ASSUME PoolInv, NEW txids, delete(txids)
    PROVE  PoolInv'
<1>1. transactions' \subseteq transactions /\ UNCHANGED spent_utxos
  BY DEF delete
<1>2. IsFiniteSet(transactions')
  BY <1>1, FS_Subset DEF PoolInv
<1> QED
  BY <1>1, <1>2 DEF PoolInv, MemPoolTypeOK, PoolConflictFree, DistinctInputs

(* PoolInv is inductive. *)
LEMMA MemPoolInvariant == MemPoolSpec => []PoolInv
<1>1. PoolInv /\ [MemPoolNext]_mempoolVars => PoolInv'
  <2> SUFFICES ASSUME PoolInv, [MemPoolNext]_mempoolVars PROVE PoolInv'
    OBVIOUS
  <2>1. CASE \E a \in AuthorizedTx : put(a)
    BY <2>1, PutKeepsPool
  <2>2. CASE \E txids \in SUBSET Tx : delete(txids)
    BY <2>2, DeleteKeepsPool
  <2>3. CASE UNCHANGED mempoolVars
    BY <2>3 DEF mempoolVars, PoolInv, MemPoolTypeOK, PoolConflictFree
  <2> QED
    BY <2>1, <2>2, <2>3 DEF MemPoolNext
<1> QED
  BY <1>1, MemPoolInitInv, PTL DEF MemPoolSpec

(* However transactions come and go, no two in the pool spend one output, and
   all they spend is marked. *)
THEOREM PoolIsConflictFree == MemPoolSpec => []PoolConflictFree
  BY MemPoolInvariant, PTL DEF PoolInv

-----------------------------------------------------------------------------
(***************************************************************************)
(* The node: concurrent submissions implement one block at a time, and the *)
(* archive explains the state.                                             *)
(*                                                                         *)
(* The argument: a submission in flight has read the deposit block that    *)
(* went with the best hash of that moment (InFlight).  A commit makes a    *)
(* best hash that no submission in flight has read, because the heights of *)
(* headers only grow; so one that still finds the best hash it has read    *)
(* finds the deposit block it has read.  A block submitted in turn follows *)
(* the best hash its submission has read, and is refused otherwise.        *)
(***************************************************************************)

(* What a submission holds, and one that awaits the mainchain. *)
Submission == [phase : {"fetching"}, header : Header, body : Body, start : 0 .. MaxMainHeight,
         onto : Header \cup {ZeroHash}]

InFlight(s) ==
    /\ s \in Submission
    /\ <<s.header, s.body>> \in Block
    /\ s.start <= scanned
    /\ s.onto \in Archived
    /\ s.onto = get_best_hash => s.start = last_deposit_block

SubmissionsInv ==
    /\ submissions \in [Task -> {Idle} \cup Submission]
    /\ \A t \in Task : IsFetching(t) => InFlight(submissions[t])

(* The state and the archive agree. *)
ChainStateInv ==
    /\ ArchiveInv
    /\ ArchiveExplainsState
    /\ height \in 0 .. MaxHeight
    /\ last_deposit_block \in 0 .. MaxMainHeight
    /\ last_deposit_block <= scanned
    /\ scanned \in 0 .. MaxMainHeight
    /\ height = 0 => scanned = 0

(* What the tasks have in hand. *)
TasksInv ==
    /\ asked \in 0 .. height + 1
    /\ sync_alive \in BOOLEAN
    /\ pushed \in [Listener -> SUBSET AuthorizedTx]
    /\ \A l \in Listener : pushed[l] = {} \/ \E a \in AuthorizedTx : pushed[l] = {a}

NodeInv ==
    /\ ChainStateInv
    /\ SubmissionsInv
    /\ TasksInv
    /\ PoolInv

(* The node begins with nothing in flight. *)
LEMMA NodeInitInv == NodeInit => NodeInv
<1> SUFFICES ASSUME NodeInit PROVE NodeInv
  OBVIOUS
<1>1. /\ Init /\ ArchiveInit /\ MemPoolInit /\ TasksInit
  BY DEF NodeInit
<1>2. ArchiveInv /\ PoolInv
  BY <1>1, ArchiveInitInv, MemPoolInitInv
<1>3. headers = <<>> /\ bodies = <<>> /\ DOMAIN headers = {} /\ DOMAIN bodies = {} /\ Len(headers) = 0
  BY <1>1 DEF ArchiveInit
<1>4. height = 0 /\ scanned = 0 /\ last_deposit_block = 0 /\ spent = {}
  BY <1>1 DEF Init
<1>5. ArchiveExplainsState
  BY <1>3, <1>4 DEF ArchiveExplainsState
<1>6. ChainStateInv
  BY <1>2, <1>4, <1>5, HeightAssumption DEF ChainStateInv
<1>7. SubmissionsInv
  BY <1>1 DEF TasksInit, SubmissionsInv, IsFetching, Idle
<1> QED
  BY <1>1, <1>2, <1>4, <1>6, <1>7 DEF NodeInv, TasksInv, TasksInit

-----------------------------------------------------------------------------
(* The commit. *)

LEMMA FetchingFacts ==
    ASSUME SubmissionsInv, NEW t \in Task, IsFetching(t)
    PROVE  /\ submissions[t].header \in Header
           /\ submissions[t].body \in Body
           /\ submissions[t].start \in 0 .. MaxMainHeight
           /\ PrevMainHash[submissions[t].header] \in 1 .. MaxMainHeight
           /\ InFlight(submissions[t])
<1>1. InFlight(submissions[t])
  BY DEF SubmissionsInv
<1> QED
  BY <1>1, PrevMainHashAssumption DEF InFlight, Submission

(* A block credits up to its header's mainchain block, and stores a block of
   the log that is not above it. *)
LEMMA ConnectFacts ==
    ASSUME NEW b, NEW start \in 0 .. MaxMainHeight, NEW end \in 1 .. MaxMainHeight,
           last_deposit_block \in 0 .. MaxMainHeight, scanned \in 0 .. MaxMainHeight,
           last_deposit_block <= scanned,
           ConnectBlock(b, start, end)
    PROVE  /\ height < MaxHeight
           /\ height' = height + 1
           /\ spent' = spent \cup UNION {Inputs(b.transactions[k]) : k \in DOMAIN b.transactions}
           /\ scanned' = IF end > scanned THEN end ELSE scanned
           /\ last_deposit_block' \in 0 .. MaxMainHeight
           /\ last_deposit_block' <= scanned'
           /\ scanned <= scanned'
<1>1. /\ height < MaxHeight
      /\ height' = height + 1
      /\ spent' = spent \cup UNION {Inputs(b.transactions[k]) : k \in DOMAIN b.transactions}
      /\ CreditDeposits(start, end)
  BY DEF ConnectBlock
<1>2. scanned' = IF end > scanned THEN end ELSE scanned
  BY <1>1 DEF CreditDeposits
<1>3. last_deposit_block' \in 0 .. MaxMainHeight /\ last_deposit_block' <= scanned'
  <2>1. CASE UNCHANGED last_deposit_block
    BY <1>2, <2>1
  <2>2. CASE \E i \in NewDeposits(DepositLog, start, end) : last_deposit_block' = DepositLog[i].block
    <3>1. PICK i \in NewDeposits(DepositLog, start, end) : last_deposit_block' = DepositLog[i].block
      BY <2>2
    <3>2. i \in DOMAIN DepositLog /\ DepositLog[i].block <= end
      BY <3>1 DEF NewDeposits, ListDeposits
    <3>3. DepositLog[i].block \in Nat
      <4> DEFINE Entry == [block : Nat \ {0}, total : Nat, strdest : Strdest]
      <4>1. DepositLog \in Seq(Entry)
        BY DepositLogAssumption DEF IsDepositLog
      <4>2. DepositLog[i] \in Entry
        <5> HIDE DEF Entry
        <5> QED
          BY <3>2, <4>1
      <4> QED
        BY <4>2
    <3> QED
      BY <1>2, <3>1, <3>2, <3>3, HeightAssumption
  <2> QED
    BY <1>1, <2>1, <2>2 DEF CreditDeposits, IsDepositBlock
<1>4. scanned <= scanned'
  BY <1>2
<1> QED
  BY <1>1, <1>2, <1>3, <1>4

(* The transaction of submit_block keeps state and archive together. *)
LEMMA CommitKeepsChainState ==
    ASSUME NodeInv, NEW t \in Task, Commit(t)
    PROVE  /\ ChainStateInv'
           /\ height' = height + 1
           /\ scanned <= scanned'
           /\ Archived \subseteq Archived'
           /\ get_best_hash' \notin Archived
<1> DEFINE header == submissions[t].header
           body   == submissions[t].body
           n      == Len(headers) + 1
<1>1. /\ IsFetching(t)
      /\ ConnectBlock(body, submissions[t].start, PrevMainHash[header])
      /\ append_header(header)
      /\ put_body(header, body, hash_to_height')
  BY DEF Commit
<1>2. /\ header \in Header /\ body \in Body
      /\ submissions[t].start \in 0 .. MaxMainHeight
      /\ PrevMainHash[header] \in 1 .. MaxMainHeight
  BY <1>1, FetchingFacts DEF NodeInv
<1>3. /\ HeadersInv /\ ArchiveTypeOK /\ BodiesMatch /\ ArchiveExplainsState
      /\ height \in 0 .. MaxHeight
      /\ last_deposit_block \in 0 .. MaxMainHeight
      /\ last_deposit_block <= scanned
      /\ scanned \in 0 .. MaxMainHeight
      /\ height = 0 => scanned = 0
      /\ height = Len(headers)
  BY DEF NodeInv, ChainStateInv, ArchiveInv, ArchiveExplainsState
<1>4. /\ height < MaxHeight
      /\ height' = height + 1
      /\ spent' = spent \cup UNION {Inputs(body.transactions[k]) : k \in DOMAIN body.transactions}
      /\ scanned' = IF PrevMainHash[header] > scanned THEN PrevMainHash[header] ELSE scanned
      /\ last_deposit_block' \in 0 .. MaxMainHeight
      /\ last_deposit_block' <= scanned'
      /\ scanned <= scanned'
  BY <1>1, <1>2, <1>3, ConnectFacts
<1>5. /\ HeadersInv'
      /\ Len(headers') = n
      /\ \A k \in DOMAIN headers : k \in DOMAIN headers' /\ headers'[k] = headers[k]
      /\ headers'[n] = header
      /\ hash_to_height'[header] = n
  BY <1>1, <1>2, <1>3, AppendHeaderKeepsChain
<1>6. DOMAIN headers = 1 .. Len(headers) /\ DOMAIN headers' = 1 .. n /\ Len(headers) \in Nat
  BY <1>3, <1>5 DEF HeadersInv
<1>7. DOMAIN headers' = DOMAIN headers \cup {n} /\ n \notin DOMAIN headers
  BY <1>6
<1>8. ArchiveInv'
  <2>1. \A j \in DOMAIN bodies : /\ j \in DOMAIN headers'
                                 /\ bodies[j] \in Body
                                 /\ MerkleRoot(bodies[j]) = HeaderRoot[headers'[j]]
    BY <1>3, <1>5 DEF ArchiveTypeOK, BodiesMatch
  <2>2. \A j \in DOMAIN bodies' : /\ j \in DOMAIN headers'
                                  /\ bodies'[j] \in Body
                                  /\ MerkleRoot(bodies'[j]) = HeaderRoot[headers'[j]]
    BY <1>1, <1>2, <1>5, <2>1, PutBodyKeepsMatching
  <2> QED
    BY <1>5, <2>2 DEF ArchiveInv, ArchiveTypeOK, BodiesMatch, HeadersInv
<1>9. /\ DOMAIN bodies' = DOMAIN bodies \cup {n}
      /\ bodies'[n] = body
      /\ \A k \in DOMAIN bodies : bodies'[k] = bodies[k]
  <2>1. bodies' = Put(bodies, n, body)
    BY <1>1, <1>5 DEF put_body
  <2>2. \A k \in DOMAIN bodies : k # n
    BY <1>3, <1>7 DEF BodiesMatch
  <2> QED
    BY <2>1, <2>2 DEF Put
<1>10. ArchiveExplainsState'
  <2>1. height' = Len(headers') /\ DOMAIN bodies' = DOMAIN headers'
    BY <1>3, <1>4, <1>5, <1>7, <1>9 DEF ArchiveExplainsState
  <2> DEFINE SpentBy(b) == UNION {Inputs(b.transactions[i]) : i \in DOMAIN b.transactions}
  <2>2. spent = UNION {SpentBy(bodies[k]) : k \in DOMAIN bodies}
    BY <1>3 DEF ArchiveExplainsState
  <2>3. spent' = spent \cup SpentBy(body)
    BY <1>4
  <2>4. spent' = UNION {SpentBy(bodies'[k]) : k \in DOMAIN bodies'}
    <3> HIDE DEF SpentBy
    <3> QED
      BY <1>9, <2>2, <2>3
  <2>5. \A k \in DOMAIN headers : PrevMainHash[headers[k]] \in 1 .. MaxMainHeight
    BY <1>3, PrevMainHashAssumption DEF HeadersInv
  <2>6. \A k \in DOMAIN headers' : PrevMainHash[headers'[k]] <= scanned'
    BY <1>2, <1>3, <1>4, <1>5, <1>7, <2>5 DEF ArchiveExplainsState
  <2>7. \E k \in DOMAIN headers' : PrevMainHash[headers'[k]] = scanned'
    <3>1. CASE PrevMainHash[header] > scanned
      BY <1>4, <1>5, <1>7, <3>1
    <3>2. CASE ~(PrevMainHash[header] > scanned)
      BY <1>2, <1>3, <1>4, <1>5, <1>7, <3>2 DEF ArchiveExplainsState
    <3> QED
      BY <3>1, <3>2
  <2> QED
    BY <2>1, <2>4, <2>6, <2>7 DEF ArchiveExplainsState
<1>11. ChainStateInv'
  <2>1. height' \in 0 .. MaxHeight /\ height' # 0
    BY <1>3, <1>4, HeightAssumption
  <2>2. scanned' \in 0 .. MaxMainHeight
    BY <1>2, <1>3, <1>4
  <2> QED
    BY <1>4, <1>8, <1>10, <2>1, <2>2 DEF ChainStateInv
<1>12. get_best_hash' = header
  BY <1>5, <1>6 DEF get_best_hash
<1>13. get_best_hash' \notin Archived
  <2>1. HeaderHeight[header] = n
    BY <1>1, <1>2, <1>3, NextHeight DEF append_header
  <2>2. \A k \in DOMAIN headers : headers[k] # header
    BY <1>3, <1>6, <2>1 DEF HeadersInv, ChainLinked
  <2>3. header # ZeroHash
    BY <1>2, HeaderAssumption
  <2> QED
    BY <1>12, <2>2, <2>3 DEF Archived
<1>14. Archived \subseteq Archived'
  BY <1>5 DEF Archived
<1> QED
  BY <1>4, <1>11, <1>13, <1>14

(* The submissions still in flight after a commit have not read its best hash. *)
LEMMA CommitKeepsSubmissions ==
    ASSUME NodeInv, NEW t \in Task, Commit(t)
    PROVE  SubmissionsInv'
<1>1. submissions' = [submissions EXCEPT ![t] = Idle]
  BY DEF Commit
<1>2. /\ scanned <= scanned' /\ scanned \in Nat /\ scanned' \in Nat
      /\ Archived \subseteq Archived'
      /\ get_best_hash' \notin Archived
  <2>1. ChainStateInv /\ ChainStateInv'
    BY CommitKeepsChainState DEF NodeInv
  <2> QED
    BY <2>1, CommitKeepsChainState, HeightAssumption DEF ChainStateInv
<1>3. submissions' \in [Task -> {Idle} \cup Submission]
  BY <1>1 DEF NodeInv, SubmissionsInv
<1>4. ASSUME NEW u \in Task, submissions'[u].phase = "fetching"
      PROVE  InFlight(submissions[u])'
  <2>1. u # t
    BY <1>1, <1>4 DEF NodeInv, SubmissionsInv, Idle
  <2>2. submissions'[u] = submissions[u]
    BY <1>1, <2>1 DEF NodeInv, SubmissionsInv
  <2>3. InFlight(submissions[u])
    BY <1>4, <2>2 DEF NodeInv, SubmissionsInv, IsFetching
  <2>4. /\ submissions[u].start \in Nat
        /\ submissions[u].onto \in Archived'
        /\ submissions[u].onto # get_best_hash'
    BY <1>2, <2>3 DEF InFlight, Submission
  <2>5. submissions[u].start <= scanned'
    BY <1>2, <2>3, <2>4 DEF InFlight
  <2> QED
    BY <2>2, <2>3, <2>4, <2>5 DEF InFlight
<1> QED
  BY <1>3, <1>4 DEF SubmissionsInv, IsFetching

(* A commit keeps NodeInv: chain, submissions and tasks. *)
LEMMA CommitInv ==
    ASSUME NodeInv, NEW t \in Task, Commit(t)
    PROVE  NodeInv'
<1>1. ChainStateInv' /\ height' = height + 1 /\ SubmissionsInv'
  BY CommitKeepsChainState, CommitKeepsSubmissions
<1>2. TasksInv'
  <2>1. asked' = asked /\ sync_alive' = sync_alive /\ pushed' = pushed
    BY DEF Commit
  <2> QED
    BY <1>1, <2>1 DEF NodeInv, ChainStateInv, TasksInv
<1>3. PoolInv'
  BY DeleteKeepsPool DEF Commit, NodeInv
<1> QED
  BY <1>1, <1>2, <1>3 DEF NodeInv

-----------------------------------------------------------------------------
(* Every other step. *)

(* Only a commit writes the state and the archive. *)
LEMMA OnlyCommitWrites ==
    ASSUME NodeNext, \A t \in Task : ~Commit(t)
    PROVE  UNCHANGED <<vars, archiveVars>>
<1>1. CASE SubmitNext
  BY <1>1 DEF SubmitNext, AppSubmit, BeginSubmit, FetchFails, Refuse, Fail
<1>2. CASE SyncNext
  BY <1>2 DEF SyncNext, SyncAsk, SyncBlock, BeginSubmit, SyncNoBlock, SyncRequestFails
<1>3. CASE PoolNext
  BY <1>3 DEF PoolNext, SubmitTransaction, PushValidate, PushPut, PushRefused, GetTransactions
<1>4. CASE Crash
  BY <1>4 DEF Crash
<1> QED
  BY <1>1, <1>2, <1>3, <1>4 DEF NodeNext

(* A step that leaves state and archive alone keeps what is said of them. *)
LEMMA UnchangedChainState ==
    ASSUME ChainStateInv, UNCHANGED <<vars, archiveVars>>
    PROVE  /\ ChainStateInv'
           /\ height' = height /\ scanned' = scanned
           /\ get_best_hash' = get_best_hash /\ Archived' = Archived
<1>1. UNCHANGED <<height, spent, scanned, last_deposit_block, headers, bodies, hash_to_height>>
  BY DEF vars, archiveVars
<1>2. ArchiveInv'
  BY <1>1 DEF ChainStateInv, ArchiveInv, HeadersInv, ArchiveTypeOK, ChainLinked, IndexExact, BodiesMatch
<1>3. ArchiveExplainsState'
  BY <1>1 DEF ChainStateInv, ArchiveExplainsState
<1> QED
  BY <1>1, <1>2, <1>3 DEF ChainStateInv, get_best_hash, Archived

(* Pool steps keep the pool free of conflicts. *)
LEMMA OthersKeepPool ==
    ASSUME PoolInv, NodeNext, \A t \in Task : ~Commit(t),
           TasksInv
    PROVE  PoolInv'
<1>1. CASE UNCHANGED mempoolVars
  BY <1>1 DEF mempoolVars, PoolInv, MemPoolTypeOK, PoolConflictFree
<1>2. CASE SubmitTransaction
  BY <1>2, PutKeepsPool DEF SubmitTransaction
<1>3. CASE PushPut
  BY <1>3, PutKeepsPool DEF PushPut, TasksInv
<1>4. CASE GetTransactions
  BY <1>4, DeleteKeepsPool DEF GetTransactions
<1>5. CASE SubmitNext
  BY <1>1, <1>5 DEF SubmitNext, AppSubmit, BeginSubmit, FetchFails, Refuse, Fail
<1>6. CASE SyncNext
  BY <1>1, <1>6 DEF SyncNext, SyncAsk, SyncBlock, BeginSubmit, SyncNoBlock, SyncRequestFails
<1>7. CASE PushValidate \/ PushRefused \/ Crash
  BY <1>1, <1>7 DEF PushValidate, PushRefused, Crash
<1> QED
  BY <1>2, <1>3, <1>4, <1>5, <1>6, <1>7 DEF NodeNext, PoolNext

(* While the chain stays, a submission stays sound that is as it was, ends, or has just read the
   deposit block. *)
LEMMA SubmissionsStep ==
    ASSUME SubmissionsInv,
           scanned' = scanned, last_deposit_block' = last_deposit_block,
           get_best_hash' = get_best_hash, Archived' = Archived,
           submissions' \in [Task -> {Idle} \cup Submission],
           \A u \in Task : \/ submissions'[u] = submissions[u]
                           \/ submissions'[u] = Idle
                           \/ InFlight(submissions'[u])
    PROVE  SubmissionsInv'
<1>1. ASSUME NEW u \in Task, submissions'[u].phase = "fetching"
      PROVE  InFlight(submissions[u])'
  <2>1. InFlight(submissions'[u])
    BY <1>1 DEF SubmissionsInv, IsFetching, Idle
  <2> QED
    BY <2>1 DEF InFlight
<1> QED
  BY <1>1 DEF SubmissionsInv, IsFetching

(* A submission begins with the deposit block and the best hash of the moment. *)
LEMMA BeginKeepsSubmissions ==
    ASSUME NodeInv, NEW t \in Task, NEW block \in Block,
           BeginSubmit(t, block[1], block[2])
    PROVE  SubmissionsInv'
<1> DEFINE new == Fetching(block[1], block[2], last_deposit_block, get_best_hash)
<1>1. get_best_hash \in Archived /\ Archived \subseteq Header \cup {ZeroHash}
  <2>1. headers \in Seq(Header)
    BY DEF NodeInv, ChainStateInv, ArchiveInv, HeadersInv
  <2>2. headers # <<>> => Len(headers) \in DOMAIN headers
    BY <2>1
  <2>3. \A k \in DOMAIN headers : headers[k] \in Header
    BY <2>1
  <2> QED
    BY <2>2, <2>3 DEF get_best_hash, Archived
<1>2. new \in Submission /\ InFlight(new)
  <2>1. block[1] \in Header /\ block[2] \in Body /\ <<block[1], block[2]>> = block
    BY BlockAssumption
  <2>2. last_deposit_block \in 0 .. MaxMainHeight /\ last_deposit_block <= scanned
    BY DEF NodeInv, ChainStateInv
  <2> QED
    BY <1>1, <2>1, <2>2 DEF InFlight, Submission, Fetching
<1> HIDE DEF new
<1>3. submissions' = [submissions EXCEPT ![t] = new] /\ UNCHANGED <<vars, archiveVars>>
  BY DEF BeginSubmit, new
<1>4. /\ scanned' = scanned /\ last_deposit_block' = last_deposit_block
      /\ get_best_hash' = get_best_hash /\ Archived' = Archived
  BY <1>3, UnchangedChainState DEF NodeInv, vars
<1> QED
  BY <1>2, <1>3, <1>4, SubmissionsStep DEF NodeInv, SubmissionsInv

(* Every step but a commit keeps the submissions sound. *)
LEMMA OthersKeepSubmissions ==
    ASSUME NodeInv, NodeNext, \A t \in Task : ~Commit(t)
    PROVE  SubmissionsInv'
<1>1. /\ scanned' = scanned /\ last_deposit_block' = last_deposit_block
      /\ get_best_hash' = get_best_hash /\ Archived' = Archived
  BY OnlyCommitWrites, UnchangedChainState DEF NodeInv, vars
<1>2. SubmissionsInv
  BY DEF NodeInv
<1>3. CASE UNCHANGED submissions
  BY <1>1, <1>2, <1>3, SubmissionsStep DEF SubmissionsInv
<1>4. CASE AppSubmit
  BY <1>4, BeginKeepsSubmissions DEF AppSubmit, Task
<1>5. CASE SyncBlock
  BY <1>5, BeginKeepsSubmissions DEF SyncBlock, Task
<1>6. ASSUME NEW t \in Task, Fail(t) PROVE SubmissionsInv'
  BY <1>1, <1>2, <1>6, SubmissionsStep DEF SubmissionsInv, Fail
<1>7. CASE Crash
  BY <1>1, <1>2, <1>7, SubmissionsStep DEF Crash
<1>8. CASE SubmitNext
  BY <1>4, <1>6, <1>8 DEF SubmitNext, FetchFails, Refuse
<1>9. CASE SyncNext
  BY <1>3, <1>5, <1>9 DEF SyncNext, SyncAsk, SyncNoBlock, SyncRequestFails
<1>10. CASE PoolNext
  BY <1>3, <1>10
  DEF PoolNext, SubmitTransaction, PushValidate, PushPut, PushRefused, GetTransactions, taskVars
<1> QED
  BY <1>7, <1>8, <1>9, <1>10 DEF NodeNext

(* And the other tasks. *)
LEMMA OthersKeepTasks ==
    ASSUME NodeInv, NodeNext, \A t \in Task : ~Commit(t)
    PROVE  TasksInv'
<1>1. height' = height /\ height \in Nat
  BY OnlyCommitWrites, HeightAssumption DEF NodeInv, ChainStateInv, vars
<1>2. TasksInv
  BY DEF NodeInv
<1>3. asked' \in 0 .. height' + 1
  <2>1. CASE SyncNext
    BY <1>1, <1>2, <2>1
    DEF SyncNext, SyncAsk, SyncBlock, SyncNoBlock, SyncRequestFails, TasksInv
  <2>2. CASE SubmitNext
    BY <1>1, <1>2, <2>2 DEF SubmitNext, AppSubmit, FetchFails, Refuse, Fail, TasksInv
  <2>3. CASE PoolNext
    BY <1>1, <1>2, <2>3
    DEF PoolNext, SubmitTransaction, PushValidate, PushPut, PushRefused, GetTransactions,
        taskVars, TasksInv
  <2>4. CASE Crash
    BY <1>1, <2>4 DEF Crash
  <2> QED
    BY <2>1, <2>2, <2>3, <2>4 DEF NodeNext
<1>4. sync_alive' \in BOOLEAN
  <2>1. CASE SyncNext
    BY <1>2, <2>1
    DEF SyncNext, SyncAsk, SyncBlock, BeginSubmit, SyncNoBlock, SyncRequestFails, TasksInv
  <2>2. CASE SubmitNext
    BY <1>2, <2>2 DEF SubmitNext, AppSubmit, BeginSubmit, FetchFails, Refuse, Fail, TasksInv
  <2>3. CASE PoolNext
    BY <1>2, <2>3
    DEF PoolNext, SubmitTransaction, PushValidate, PushPut, PushRefused, GetTransactions,
        taskVars, TasksInv
  <2>4. CASE Crash
    BY <2>4 DEF Crash
  <2> QED
    BY <2>1, <2>2, <2>3, <2>4 DEF NodeNext
<1>5. /\ pushed' \in [Listener -> SUBSET AuthorizedTx]
      /\ \A l \in Listener : pushed'[l] = {} \/ \E a \in AuthorizedTx : pushed'[l] = {a}
  <2>1. CASE UNCHANGED pushed
    BY <1>2, <2>1 DEF TasksInv
  <2>2. CASE PushValidate
    BY <1>2, <2>2 DEF PushValidate, TasksInv
  <2>3. CASE PushPut \/ PushRefused
    BY <1>2, <2>3 DEF PushPut, PushRefused, TasksInv
  <2>4. CASE Crash
    BY <2>4 DEF Crash
  <2>5. CASE SyncNext
    BY <2>1, <2>5 DEF SyncNext, SyncAsk, SyncBlock, BeginSubmit, SyncNoBlock, SyncRequestFails
  <2>6. CASE SubmitNext
    BY <2>1, <2>6 DEF SubmitNext, AppSubmit, BeginSubmit, FetchFails, Refuse, Fail
  <2>7. CASE SubmitTransaction \/ GetTransactions
    BY <2>1, <2>7 DEF SubmitTransaction, GetTransactions, taskVars
  <2> QED
    BY <2>2, <2>3, <2>4, <2>5, <2>6, <2>7 DEF NodeNext, PoolNext
<1> QED
  BY <1>3, <1>4, <1>5 DEF TasksInv

-----------------------------------------------------------------------------
(* The invariant, and what follows from it. *)

LEMMA NodeNextInv == NodeInv /\ [NodeNext]_nodeVars => NodeInv'
<1> SUFFICES ASSUME NodeInv, [NodeNext]_nodeVars PROVE NodeInv'
  OBVIOUS
<1>1. CASE \E t \in Task : Commit(t)
  BY <1>1, CommitInv
<1>2. CASE NodeNext /\ \A t \in Task : ~Commit(t)
  <2>1. ChainStateInv'
    BY <1>2, OnlyCommitWrites, UnchangedChainState DEF NodeInv
  <2>2. SubmissionsInv' /\ TasksInv' /\ PoolInv'
    BY <1>2, OthersKeepSubmissions, OthersKeepTasks, OthersKeepPool DEF NodeInv
  <2> QED
    BY <2>1, <2>2 DEF NodeInv
<1>3. CASE UNCHANGED nodeVars
  <2>1. UNCHANGED <<vars, archiveVars, mempoolVars, submissions, asked, sync_alive, pushed>>
    BY <1>3 DEF nodeVars, taskVars
  <2>2. /\ ChainStateInv' /\ height' = height /\ scanned' = scanned
        /\ get_best_hash' = get_best_hash /\ Archived' = Archived
    BY <2>1, UnchangedChainState DEF NodeInv
  <2>3. SubmissionsInv'
    BY <2>1, <2>2, SubmissionsStep DEF NodeInv, SubmissionsInv, vars
  <2>4. TasksInv'
    BY <2>1, <2>2 DEF NodeInv, TasksInv
  <2>5. PoolInv'
    BY <2>1 DEF NodeInv, mempoolVars, PoolInv, MemPoolTypeOK, PoolConflictFree
  <2> QED
    BY <2>2, <2>3, <2>4, <2>5 DEF NodeInv
<1> QED
  BY <1>1, <1>2, <1>3

(* NodeInv is inductive. *)
LEMMA NodeInvariant == NodeSpec => []NodeInv
  BY NodeInitInv, NodeNextInv, PTL DEF NodeSpec

(* The types, and that what the tasks have in hand comes from the chain: no
   height is asked for that is beyond the next block, whatever was connected or
   lost meanwhile, and what a submission has read some block of the chain left. *)
THEOREM NodeTypeCorrect == NodeSpec => []NodeTypeOK
<1>1. NodeInv => NodeTypeOK
  <2> SUFFICES ASSUME NodeInv PROVE NodeTypeOK
    OBVIOUS
  <2>1. ArchiveTypeOK /\ MemPoolTypeOK
    BY DEF NodeInv, ChainStateInv, ArchiveInv, PoolInv
  <2>2. asked \in 0 .. Len(headers) + 1 /\ sync_alive \in BOOLEAN
    BY DEF NodeInv, TasksInv, ChainStateInv, ArchiveExplainsState
  <2>3. ASSUME NEW l \in Listener PROVE pushed[l] \subseteq AuthorizedTx /\ Cardinality(pushed[l]) <= 1
    <3>1. CASE pushed[l] = {}
      BY <3>1, FS_EmptySet
    <3>2. CASE \E a \in AuthorizedTx : pushed[l] = {a}
      BY <3>2, FS_Singleton
    <3> QED
      BY <3>1, <3>2 DEF NodeInv, TasksInv
  <2>4. ASSUME NEW t \in Task, submissions[t] # Idle
        PROVE  /\ submissions[t].phase = "fetching"
               /\ <<submissions[t].header, submissions[t].body>> \in Block
               /\ submissions[t].start \in 0 .. scanned
               /\ submissions[t].onto \in Archived
    <3>1. IsFetching(t)
      BY <2>4 DEF NodeInv, SubmissionsInv, IsFetching, Submission
    <3>2. InFlight(submissions[t]) /\ scanned \in 0 .. MaxMainHeight
      BY <3>1 DEF NodeInv, SubmissionsInv, ChainStateInv
    <3> QED
      BY <3>1, <3>2, HeightAssumption DEF InFlight, Submission, IsFetching
  <2> QED
    BY <2>1, <2>2, <2>3, <2>4 DEF NodeTypeOK
<1> QED
  BY <1>1, NodeInvariant, PTL

(* Of the submissions begun in turn, one whose header the archive would accept
   has read the deposit block the last commit stored, whatever was committed
   while it awaited the mainchain, and by whom. *)
THEOREM StaleStartsAreRefused == NodeSpec => []StaleStartRefused
<1>1. NodeInv => StaleStartRefused
  BY DEF NodeInv, SubmissionsInv, InFlight, InTurn, StaleStartRefused
<1> QED
  BY <1>1, NodeInvariant, PTL

(* Archive, blocks and state agree after every step, error and crash. *)
THEOREM ArchiveAlwaysExplainsState == NodeSpec => []ArchiveExplainsState
  BY NodeInvariant, PTL DEF NodeInv, ChainStateInv

(* The pool of a node is free of conflicts, with listeners that put what they
   validated earlier. *)
THEOREM NodePoolConflictFree == NodeSpec => []PoolConflictFree
  BY NodeInvariant, PTL DEF NodeInv, PoolInv

(* The node implements State: its tasks together connect one block at a time,
   with the deposits since the block before, except for the blocks submitted
   before their turn. *)
THEOREM NodeDoesImplementState == NodeSpec => NodeImplementsState
<1>1. NodeInit => Init
  BY DEF NodeInit
<1>2. NodeInv /\ [NodeNext]_nodeVars => [Next \/ OutOfTurnCommit]_vars
  <2> SUFFICES ASSUME NodeInv, [NodeNext]_nodeVars
               PROVE  (Next \/ OutOfTurnCommit) \/ UNCHANGED vars
    OBVIOUS
  <2>1. CASE \E t \in Task : Commit(t)
    <3>1. PICK t \in Task : Commit(t)
      BY <2>1
    <3> DEFINE s == submissions[t]
    <3>2. IsFetching(t) /\ ConnectBlock(s.body, s.start, PrevMainHash[s.header])
      BY <3>1 DEF Commit
    <3>3. s.body \in Body /\ PrevMainHash[s.header] \in 1 .. MaxMainHeight /\ InFlight(s)
      BY <3>2, FetchingFacts DEF NodeInv
    <3>4. CASE InTurn(s)
      <4>1. s.start = last_deposit_block
        BY <3>1, <3>3, <3>4 DEF Commit, append_header, InFlight, InTurn
      <4> QED
        BY <3>2, <3>3, <4>1 DEF Next
    <3>5. CASE ~InTurn(s)
      BY <3>1, <3>2, <3>5 DEF OutOfTurnCommit
    <3> QED
      BY <3>4, <3>5
  <2>2. CASE NodeNext /\ \A t \in Task : ~Commit(t)
    BY <2>2, OnlyCommitWrites
  <2>3. CASE UNCHANGED nodeVars
    BY <2>3 DEF nodeVars
  <2> QED
    BY <2>1, <2>2, <2>3
<1> QED
  BY <1>1, <1>2, NodeInvariant, PTL DEF NodeSpec, NodeImplementsState

(* Where every block commits in turn, the node is State. *)
LEMMA InTurnItIsState == NodeSpec /\ EveryCommitInTurn => Spec
<1>1. [Next \/ OutOfTurnCommit]_vars /\ [~OutOfTurnCommit]_nodeVars => [Next]_vars
  BY DEF nodeVars
<1>2. NodeSpec => Init /\ [][Next \/ OutOfTurnCommit]_vars
  BY NodeDoesImplementState DEF NodeImplementsState
<1> QED
  BY <1>1, <1>2, PTL DEF EveryCommitInTurn, Spec

-----------------------------------------------------------------------------
(***************************************************************************)
(* Blocks commit in turn if peers answer as they are asked.  The argument: *)
(* the height asked for is at most the next one, and the application       *)
(* builds on a hash of the chain, so a submission is never for a header    *)
(* beyond the next; and one for the next header that may still commit has  *)
(* seen no commit since it was begun.                                      *)
(***************************************************************************)

NextOrBefore(s) ==
    /\ HeaderHeight[s.header] <= height + 1
    /\ HeaderHeight[s.header] = height + 1 => s.onto = get_best_hash

TurnInv == \A t \in Task : IsFetching(t) => NextOrBefore(submissions[t])

(* A header that follows a header of the chain is of its height plus one. *)
LEMMA FollowerHeight ==
    ASSUME NodeInv, NEW h \in Header, PrevSideHash[h] \in Archived
    PROVE  HeaderHeight[h] <= height + 1
<1>1. /\ HeadersInv /\ height = Len(headers) /\ height \in Nat
  BY HeightAssumption DEF NodeInv, ChainStateInv, ArchiveInv, ArchiveExplainsState
<1>2. CASE PrevSideHash[h] = ZeroHash
  BY <1>1, <1>2, HeaderAssumption
<1>3. CASE \E k \in DOMAIN headers : PrevSideHash[h] = headers[k]
  <2>1. PICK k \in DOMAIN headers : PrevSideHash[h] = headers[k]
    BY <1>3
  <2>2. headers[k] \in Header /\ HeaderHeight[headers[k]] = k /\ k \in 1 .. height
    BY <1>1, <2>1 DEF HeadersInv, ChainLinked
  <2>3. PrevSideHash[h] # ZeroHash
    BY <2>1, <2>2, HeaderAssumption
  <2>4. HeaderHeight[h] = k + 1
    BY <2>1, <2>2, <2>3, HeaderAssumption
  <2> QED
    BY <1>1, <2>2, <2>4
<1> QED
  BY <1>2, <1>3 DEF Archived

(* A commit leaves the others a height behind. *)
LEMMA CommitKeepsTurns ==
    ASSUME NodeInv, TurnInv, NEW t \in Task, Commit(t)
    PROVE  TurnInv'
<1>1. submissions' = [submissions EXCEPT ![t] = Idle] /\ height' = height + 1 /\ height \in Nat
  <2>1. submissions' = [submissions EXCEPT ![t] = Idle]
    BY DEF Commit
  <2>2. height \in Nat
    BY HeightAssumption DEF NodeInv, ChainStateInv
  <2> QED
    BY <2>1, <2>2, CommitKeepsChainState
<1>2. ASSUME NEW u \in Task, submissions'[u].phase = "fetching"
      PROVE  NextOrBefore(submissions[u])'
  <2>1. u # t
    BY <1>1, <1>2 DEF NodeInv, SubmissionsInv, Idle
  <2>2. submissions'[u] = submissions[u]
    BY <1>1, <2>1 DEF NodeInv, SubmissionsInv
  <2>3. IsFetching(u)
    BY <1>2, <2>2 DEF IsFetching
  <2>4. HeaderHeight[submissions[u].header] <= height + 1
    BY <2>3 DEF TurnInv, NextOrBefore
  <2>5. HeaderHeight[submissions[u].header] \in Nat
    BY <2>3, FetchingFacts, HeaderAssumption DEF NodeInv
  <2> QED
    BY <1>1, <2>2, <2>4, <2>5 DEF NextOrBefore
<1> QED
  BY <1>2 DEF TurnInv, IsFetching

(* Nor do the other steps, if peers answer as asked, begin a submission for a
   header beyond the next. *)
LEMMA OthersKeepTurns ==
    ASSUME NodeInv, TurnInv, NodeNext, AsAsked, \A t \in Task : ~Commit(t)
    PROVE  TurnInv'
<1>1. height' = height /\ get_best_hash' = get_best_hash
  BY OnlyCommitWrites, UnchangedChainState DEF NodeInv
<1>2. ASSUME NEW t \in Task, NEW block \in Block, BeginSubmit(t, block[1], block[2]),
             HeaderHeight[block[1]] <= height + 1
      PROVE  TurnInv'
  <2>1. submissions' = [submissions EXCEPT
                          ![t] = Fetching(block[1], block[2], last_deposit_block, get_best_hash)]
    BY <1>2 DEF BeginSubmit
  <2>2. ASSUME NEW u \in Task, submissions'[u].phase = "fetching"
        PROVE  NextOrBefore(submissions[u])'
    <3>1. CASE u = t
      <4>1. submissions'[u] = Fetching(block[1], block[2], last_deposit_block, get_best_hash)
        BY <2>1, <3>1 DEF NodeInv, SubmissionsInv
      <4> QED
        BY <1>1, <1>2, <4>1 DEF NextOrBefore, Fetching
    <3>2. CASE u # t
      <4>1. submissions'[u] = submissions[u]
        BY <2>1, <3>2 DEF NodeInv, SubmissionsInv
      <4>2. NextOrBefore(submissions[u])
        BY <2>2, <4>1 DEF TurnInv, IsFetching
      <4> QED
        BY <1>1, <4>1, <4>2 DEF NextOrBefore
    <3> QED
      BY <3>1, <3>2
  <2> QED
    BY <2>2 DEF TurnInv, IsFetching
<1>3. ASSUME \A u \in Task : submissions'[u] = submissions[u] \/ submissions'[u] = Idle
      PROVE  TurnInv'
  <2>1. ASSUME NEW u \in Task, submissions'[u].phase = "fetching"
        PROVE  NextOrBefore(submissions[u])'
    <3>1. submissions'[u] = submissions[u]
      BY <1>3, <2>1 DEF Idle
    <3>2. NextOrBefore(submissions[u])
      BY <2>1, <3>1 DEF TurnInv, IsFetching
    <3> QED
      BY <1>1, <3>1, <3>2 DEF NextOrBefore
  <2> QED
    BY <2>1 DEF TurnInv, IsFetching
<1>4. CASE AppSubmit
  <2>1. PICK t \in App, block \in Block :
            PrevSideHash[block[1]] \in Archived /\ BeginSubmit(t, block[1], block[2])
    BY <1>4 DEF AppSubmit
  <2>2. block[1] \in Header /\ t \in Task
    BY BlockAssumption DEF Task
  <2>3. HeaderHeight[block[1]] <= height + 1
    BY <2>1, <2>2, FollowerHeight
  <2> QED
    BY <1>2, <2>1, <2>2, <2>3
<1>5. CASE SyncBlock
  <2>1. PICK block \in Block : BeginSubmit(Sync, block[1], block[2])
    BY <1>5 DEF SyncBlock
  <2>2. Sync \in Task
    BY DEF Task
  <2>3. submissions'[Sync].header = block[1]
    BY <2>1, <2>2 DEF BeginSubmit, Fetching, NodeInv, SubmissionsInv
  <2>4. HeaderHeight[block[1]] = asked
    BY <1>5, <2>3 DEF AsAsked
  <2>5. HeaderHeight[block[1]] <= height + 1
    BY <2>4 DEF NodeInv, TasksInv
  <2> QED
    BY <1>2, <2>1, <2>2, <2>5
<1>6. ASSUME NEW t \in Task, Fail(t) PROVE TurnInv'
  BY <1>3, <1>6 DEF Fail, NodeInv, SubmissionsInv
<1>7. CASE Crash
  BY <1>3, <1>7 DEF Crash
<1>8. CASE UNCHANGED submissions
  BY <1>3, <1>8
<1>9. CASE SubmitNext
  BY <1>4, <1>6, <1>9 DEF SubmitNext, FetchFails, Refuse
<1>10. CASE SyncNext
  BY <1>5, <1>8, <1>10 DEF SyncNext, SyncAsk, SyncNoBlock, SyncRequestFails
<1>11. CASE PoolNext
  BY <1>8, <1>11
  DEF PoolNext, SubmitTransaction, PushValidate, PushPut, PushRefused, GetTransactions, taskVars
<1> QED
  BY <1>7, <1>9, <1>10, <1>11 DEF NodeNext

(* Peers that answer with the block at the height asked for are enough: then
   every block commits in turn, whatever the application submits on hashes of
   the chain, and however the submissions interleave, fail and are lost. *)
THEOREM CommitsComeInTurn == NodeSpec /\ AnswersAsAsked => EveryCommitInTurn
<1>1. NodeInit => TurnInv
  BY DEF NodeInit, TasksInit, TurnInv, IsFetching, Idle
<1>2. NodeInv /\ TurnInv /\ [NodeNext]_nodeVars /\ [AsAsked]_nodeVars => TurnInv'
  <2> SUFFICES ASSUME NodeInv, TurnInv, [NodeNext]_nodeVars, [AsAsked]_nodeVars PROVE TurnInv'
    OBVIOUS
  <2>1. CASE \E t \in Task : Commit(t)
    BY <2>1, CommitKeepsTurns
  <2>2. CASE UNCHANGED nodeVars
    <3>1. UNCHANGED <<vars, archiveVars, submissions>>
      BY <2>2 DEF nodeVars, taskVars
    <3>2. height' = height /\ get_best_hash' = get_best_hash
      BY <3>1, UnchangedChainState DEF NodeInv
    <3> QED
      BY <3>1, <3>2 DEF TurnInv, NextOrBefore, IsFetching
  <2>3. CASE NodeNext /\ AsAsked /\ \A t \in Task : ~Commit(t)
    BY <2>3, OthersKeepTurns
  <2> QED
    BY <2>1, <2>2, <2>3
<1>3. NodeInv /\ TurnInv => [~OutOfTurnCommit]_nodeVars
  <2> SUFFICES ASSUME NodeInv, TurnInv, OutOfTurnCommit PROVE FALSE
    OBVIOUS
  <2>1. PICK t \in Task : IsFetching(t) /\ ~InTurn(submissions[t]) /\ Commit(t)
    BY DEF OutOfTurnCommit
  <2> DEFINE h == submissions[t].header
  <2>2. PrevSideHash[h] = get_best_hash /\ h \in Header
    BY <2>1, FetchingFacts DEF Commit, append_header, NodeInv
  <2>3. HeaderHeight[h] = height + 1
    BY <2>2, NextHeight DEF NodeInv, ChainStateInv, ArchiveInv, ArchiveExplainsState
  <2>4. submissions[t].onto = get_best_hash
    BY <2>1, <2>3 DEF TurnInv, NextOrBefore
  <2> QED
    BY <2>1, <2>2, <2>4 DEF InTurn
<1> QED
  BY <1>1, <1>2, <1>3, NodeInvariant, PTL DEF NodeSpec, AnswersAsAsked, EveryCommitInTurn

-----------------------------------------------------------------------------
(* What State promises of a chain, a node keeps where its blocks commit in turn,
   whatever else its tasks do: deposits credited exactly, bundles apart, one
   answer for each. *)
THEOREM NodeKeepsPromises ==
    NodeSpec /\ EveryCommitInTurn => [](DepositsExact /\ BundlesApart /\ EachAnswerOnce)
  BY InTurnItIsState, ChainDepositsExact, BundlesStayApart, AnswersSettleOnce, PTL

(* And in a build with overflow checks no coin is used twice, however the
   tasks interleave and fail, where blocks commit in turn. *)
THEOREM NodeUsesNoCoinTwice ==
    ASSUME OverflowChecks
    PROVE  NodeSpec /\ EveryCommitInTurn => []NoCoinTwice /\ CoinsFollowLifecycle
  BY InTurnItIsState, NoCoinIsUsedTwice, StateImplementsLifecycle, PTL

(* Nor does the node pay out more than its deposits were worth, or pay others
   than those whose coins a bundle took, where blocks commit in turn. *)
THEOREM NodeConservesValue ==
    ASSUME OverflowChecks
    PROVE  NodeSpec /\ EveryCommitInTurn => [](Conservation /\ PaysOwners)
  BY InTurnItIsState, ValueIsConserved, BundlesPayOwners, PTL

-----------------------------------------------------------------------------
(***************************************************************************)
(* Blocks made from the pool.                                              *)
(*                                                                         *)
(* The argument: what get_transactions returns is determined one by one    *)
(* (ReturnedExists), each valid now and none sharing an input with another.*)
(* The body's order, its sum of fees and its list of authorizations        *)
(* rearrange what belongs to those transactions: the sum is the same along *)
(* the order, and the authorizations are joined in the way that the inputs *)
(* are.  The fees fit because they come from different coins that the      *)
(* sidechain holds, which are worth no more than was deposited.            *)
(***************************************************************************)

(* R is what get_transactions returns of the first n transactions. *)
IsReturned(s, R, n) ==
    /\ R \subseteq 1 .. n
    /\ \A k \in 1 .. n : k \in R <=>
          /\ ValidateTransaction(s[k])
          /\ \A j \in R : j < k => Inputs(s[j].tx) \cap Inputs(s[k].tx) = {}

(* The transactions returned are determined one after the other. *)
LEMMA ReturnedExists ==
    ASSUME NEW s
    PROVE  \A n \in Nat : \E R : IsReturned(s, R, n)
<1> DEFINE P == {n \in Nat : \E R : IsReturned(s, R, n)}
<1>1. 0 \in P
  <2>1. IsReturned(s, {}, 0)
    BY DEF IsReturned
  <2> QED
    BY <2>1
<1>2. ASSUME NEW n \in Nat, n \in P
      PROVE  n + 1 \in P
  <2>1. PICK R : IsReturned(s, R, n)
    BY <1>2
  <2> DEFINE taken == /\ ValidateTransaction(s[n + 1])
                      /\ \A j \in R : Inputs(s[j].tx) \cap Inputs(s[n + 1].tx) = {}
             Q == IF taken THEN R \cup {n + 1} ELSE R
  <2>2. R \subseteq 1 .. n /\ Q \subseteq 1 .. n + 1 /\ \A k \in 1 .. n : k \in Q <=> k \in R
    BY <2>1 DEF IsReturned
  <2>3. ASSUME NEW k \in 1 .. n + 1
        PROVE  k \in Q <=> /\ ValidateTransaction(s[k])
                           /\ \A j \in Q : j < k => Inputs(s[j].tx) \cap Inputs(s[k].tx) = {}
    <3>1. CASE k \in 1 .. n
      <4>1. \A j \in Q : j < k => j \in R
        BY <2>2, <3>1
      <4>2. R \subseteq Q
        OBVIOUS
      <4>3. k \in R <=> /\ ValidateTransaction(s[k])
                        /\ \A j \in R : j < k => Inputs(s[j].tx) \cap Inputs(s[k].tx) = {}
        BY <2>1, <3>1 DEF IsReturned
      <4> HIDE DEF Q
      <4> QED
        BY <2>2, <3>1, <4>1, <4>2, <4>3
    <3>2. CASE k = n + 1
      <4>1. k \in Q <=> taken
        BY <2>2, <3>2
      <4>2. \A j : j \in R <=> j \in Q /\ j < n + 1
        <5> HIDE DEF Q
        <5>1. ASSUME NEW j \in R PROVE j \in Q /\ j < n + 1
          BY <2>2
        <5>2. ASSUME NEW j \in Q, j < n + 1 PROVE j \in R
          BY <2>2, <5>2
        <5> QED
          BY <5>1, <5>2
      <4>3. (\A j \in R : Inputs(s[j].tx) \cap Inputs(s[n + 1].tx) = {})
            <=> (\A j \in Q : j < n + 1 => Inputs(s[j].tx) \cap Inputs(s[n + 1].tx) = {})
        <5> HIDE DEF Q
        <5> QED
          BY <4>2
      <4> QED
        BY <3>2, <4>1, <4>3
    <3> QED
      BY <3>1, <3>2
  <2>4. IsReturned(s, Q, n + 1)
    <3> HIDE DEF Q
    <3> QED
      BY <2>2, <2>3 DEF IsReturned
  <2> QED
    BY <2>4
<1>3. Nat \subseteq P
  <2> HIDE DEF P
  <2> QED
    BY <1>1, <1>2, EveryNat
<1> QED
  BY <1>3

(* What is returned: transactions of the pool, valid now, that share no input. *)
Fit(s, R) ==
    /\ R \subseteq DOMAIN s /\ IsFiniteSet(R) /\ R \subseteq Nat
    /\ \A k \in R : /\ s[k] \in transactions /\ s[k].tx \in Tx
                    /\ ValidateTransaction(s[k]) /\ DistinctInputs(s[k].tx)
    /\ \A j, k \in R : j # k => Inputs(s[j].tx) \cap Inputs(s[k].tx) = {}

(* What get_transactions returns fits, whichever transactions it looks at. *)
LEMMA ReturnedFit ==
    ASSUME PoolInv, NEW s \in Looked
    PROVE  Fit(s, Returned(s))
<1>1. PICK S \in SUBSET transactions : s \in SetToSeqs(S)
  BY DEF Looked
<1>2. IsFiniteSet(S) /\ Cardinality(S) \in Nat
  BY FS_Subset, FS_CardinalityType DEF PoolInv
<1>3. s \in [1 .. Cardinality(S) -> S]
  BY <1>1 DEF SetToSeqs
<1>4. DOMAIN s = 1 .. Cardinality(S) /\ \A k \in DOMAIN s : s[k] \in transactions
  BY <1>3
<1>5. PICK R : IsReturned(s, R, Cardinality(S))
  BY <1>2, ReturnedExists
<1>6. R \in SUBSET DOMAIN s
      /\ \A k \in DOMAIN s : k \in R <=>
            /\ ValidateTransaction(s[k])
            /\ \A j \in R : j < k => Inputs(s[j].tx) \cap Inputs(s[k].tx) = {}
  BY <1>4, <1>5 DEF IsReturned
<1> DEFINE Q == Returned(s)
<1>7. Q \in SUBSET DOMAIN s
      /\ \A k \in DOMAIN s : k \in Q <=>
            /\ ValidateTransaction(s[k])
            /\ \A j \in Q : j < k => Inputs(s[j].tx) \cap Inputs(s[k].tx) = {}
  BY <1>6 DEF Returned
<1> HIDE DEF Q
<1>8. IsFiniteSet(Q) /\ Q \subseteq Nat
  <2>1. IsFiniteSet(1 .. Cardinality(S))
    BY <1>2, FS_Interval
  <2> QED
    BY <1>2, <1>4, <1>7, <2>1, FS_Subset
<1>9. ASSUME NEW k \in Q
      PROVE  /\ s[k] \in transactions /\ s[k].tx \in Tx
             /\ ValidateTransaction(s[k]) /\ DistinctInputs(s[k].tx)
  <2>1. s[k] \in transactions /\ ValidateTransaction(s[k])
    BY <1>4, <1>7
  <2>2. s[k] \in AuthorizedTx /\ DistinctInputs(s[k].tx)
    BY <2>1 DEF PoolInv, MemPoolTypeOK
  <2> QED
    BY <2>1, <2>2, AuthorizedTxAssumption
<1>10. ASSUME NEW j \in Q, NEW k \in Q, j # k
       PROVE  Inputs(s[j].tx) \cap Inputs(s[k].tx) = {}
  <2>1. CASE j < k
    BY <1>7, <2>1
  <2>2. CASE k < j
    BY <1>7, <2>2
  <2> QED
    BY <1>8, <1>10, <2>1, <2>2
<1>11. Fit(s, Q)
  BY <1>7, <1>8, <1>9, <1>10 DEF Fit
<1> QED
  BY <1>11 DEF Q

(* Finitely many positions can be listed from the first to the last. *)
LEMMA AscendingLists ==
    ASSUME NEW R, IsFiniteSet(R), R \subseteq Nat
    PROVE  /\ DOMAIN Ascending(R) = 1 .. Cardinality(R) /\ Cardinality(R) \in Nat
           /\ Ascending(R) \in [1 .. Cardinality(R) -> R]
           /\ \A i, j \in DOMAIN Ascending(R) : Ascending(R)[i] = Ascending(R)[j] => i = j
           /\ \A k \in R : \E i \in DOMAIN Ascending(R) : Ascending(R)[i] = k
<1> DEFINE v == [x \in R |-> x]
<1>1. \A x \in R : v[x] \in Nat
  OBVIOUS
<1>2. PICK q \in SetToSeqs(R) : \A i, j \in DOMAIN q : i < j => v[q[i]] <= v[q[j]]
  <2> HIDE DEF v
  <2> QED
    BY <1>1, SortedListExists
<1>3. Cardinality(R) \in Nat
  BY FS_CardinalityType
<1>4. q \in [1 .. Cardinality(R) -> R]
      /\ \A i, j \in 1 .. Cardinality(R) : i # j => q[i] # q[j]
  BY DEF SetToSeqs
<1>5. \A i, j \in DOMAIN q : i < j => q[i] < q[j]
  <2> SUFFICES ASSUME NEW i \in DOMAIN q, NEW j \in DOMAIN q, i < j PROVE q[i] < q[j]
    OBVIOUS
  <2>1. q[i] \in R /\ q[j] \in R /\ q[i] # q[j]
    BY <1>3, <1>4
  <2>2. q[i] <= q[j]
    BY <1>2, <2>1
  <2>3. q[i] \in Nat /\ q[j] \in Nat
    BY <2>1
  <2> QED
    BY <2>1, <2>2, <2>3
<1>6. Ascending(R) \in SetToSeqs(R)
  BY <1>5 DEF Ascending
<1> DEFINE a == Ascending(R)
<1>7. a \in [1 .. Cardinality(R) -> R]
      /\ \A i, j \in 1 .. Cardinality(R) : i # j => a[i] # a[j]
  BY <1>6 DEF SetToSeqs
<1>8. \A k \in R : \E i \in 1 .. Cardinality(R) : a[i] = k
  <2> HIDE DEF a
  <2>1. a \in Injection(1 .. Cardinality(R), R)
    BY <1>7 DEF Injection, IsInjective
  <2>2. IsFiniteSet(1 .. Cardinality(R)) /\ Cardinality(1 .. Cardinality(R)) = Cardinality(R)
    BY <1>3, FS_Interval
  <2>3. a \in Surjection(1 .. Cardinality(R), R)
    BY <2>1, <2>2, FS_Injection
  <2> QED
    BY <2>3 DEF Surjection
<1> QED
  BY <1>3, <1>7, <1>8

(* The transactions of a block made from the pool: its i-th one is at position
   q[i] of what get_transactions looked at. *)
Takes(b, s, R, q) ==
    /\ Fit(s, R)
    /\ Cardinality(R) \in Nat
    /\ q \in [1 .. Cardinality(R) -> R]
    /\ \A i, j \in DOMAIN q : q[i] = q[j] => i = j
    /\ \A k \in R : \E i \in DOMAIN q : q[i] = k
    /\ b.coinbase = <<[kind    |-> "Value",
                       address |-> CHOOSE a \in Address : TRUE,
                       value   |-> Total([k \in R |-> Fee(s[k].tx)])]>>
    /\ b.transactions = [i \in DOMAIN q |-> s[q[i]].tx]
    /\ b.authorizations = FlattenSeq([i \in DOMAIN q |-> s[q[i]].authorizations])

(* A block made from the pool takes what is returned, in its order. *)
LEMMA TemplateTakes ==
    ASSUME PoolInv, NEW s \in Looked
    PROVE  Takes(TemplateBody(s), s, Returned(s), Ascending(Returned(s)))
<1> DEFINE R == Returned(s)
<1>1. Fit(s, R)
  BY ReturnedFit
<1> HIDE DEF R
<1>2. IsFiniteSet(R) /\ R \subseteq Nat
  BY <1>1 DEF Fit
<1>3. TemplateBody(s) =
        [coinbase       |-> <<[kind    |-> "Value",
                               address |-> CHOOSE a \in Address : TRUE,
                               value   |-> Total([k \in R |-> Fee(s[k].tx)])]>>,
         transactions   |-> [i \in DOMAIN Ascending(R) |-> s[Ascending(R)[i]].tx],
         authorizations |-> FlattenSeq([i \in DOMAIN Ascending(R) |-> s[Ascending(R)[i]].authorizations])]
  BY DEF TemplateBody, R
<1>4. /\ Cardinality(R) \in Nat
      /\ Ascending(R) \in [1 .. Cardinality(R) -> R]
      /\ \A i, j \in DOMAIN Ascending(R) : Ascending(R)[i] = Ascending(R)[j] => i = j
      /\ \A k \in R : \E i \in DOMAIN Ascending(R) : Ascending(R)[i] = k
  BY <1>2, AscendingLists
<1> DEFINE coinbase == <<[kind    |-> "Value",
                          address |-> CHOOSE a \in Address : TRUE,
                          value   |-> Total([k \in R |-> Fee(s[k].tx)])]>>
           taken == [i \in DOMAIN Ascending(R) |-> s[Ascending(R)[i]].tx]
           signed == FlattenSeq([i \in DOMAIN Ascending(R) |-> s[Ascending(R)[i]].authorizations])
<1>5. /\ TemplateBody(s).coinbase = coinbase
      /\ TemplateBody(s).transactions = taken
      /\ TemplateBody(s).authorizations = signed
  <2> HIDE DEF coinbase, taken, signed
  <2>1. TemplateBody(s) =
            [coinbase |-> coinbase, transactions |-> taken, authorizations |-> signed]
    BY <1>3 DEF coinbase, taken, signed
  <2> QED
    BY <2>1
<1>6. Takes(TemplateBody(s), s, R, Ascending(R))
  BY <1>1, <1>4, <1>5 DEF Takes
<1> QED
  BY <1>6 DEF R

(* Its inputs exist and are spent once, and each of its transactions is valid. *)
LEMMA TemplateSpends ==
    ASSUME NEW b, NEW s, NEW R, NEW q, Takes(b, s, R, q)
    PROVE  /\ InputsExist(b) /\ NoDoubleSpend(b)
           /\ \A k \in DOMAIN b.transactions : ValidTransaction(b.transactions[k])
<1>1. ASSUME NEW k \in DOMAIN b.transactions
      PROVE  /\ q[k] \in R /\ k \in DOMAIN q /\ b.transactions[k] = s[q[k]].tx
             /\ ValidateTransaction(s[q[k]]) /\ DistinctInputs(s[q[k]].tx)
  BY DEF Takes, Fit
<1>2. InputsExist(b)
  BY <1>1 DEF InputsExist, ValidateTransaction
<1>3. \A k \in DOMAIN b.transactions : ValidTransaction(b.transactions[k])
  BY <1>1 DEF ValidateTransaction
<1>4. ASSUME NEW k \in DOMAIN b.transactions, NEW l \in DOMAIN b.transactions,
             NEW i \in DOMAIN TxInputs[b.transactions[k]],
             NEW j \in DOMAIN TxInputs[b.transactions[l]],
             TxInputs[b.transactions[k]][i] = TxInputs[b.transactions[l]][j]
      PROVE  k = l /\ i = j
  <2>1. CASE k # l
    <3>1. q[k] # q[l]
      BY <1>1, <2>1 DEF Takes
    <3>2. Inputs(s[q[k]].tx) \cap Inputs(s[q[l]].tx) = {}
      BY <1>1, <3>1 DEF Takes, Fit
    <3> QED
      BY <1>1, <1>4, <3>2 DEF Inputs
  <2>2. CASE k = l
    BY <1>1, <1>4, <2>2 DEF DistinctInputs
  <2> QED
    BY <2>1, <2>2
<1>5. NoDoubleSpend(b)
  BY <1>4 DEF NoDoubleSpend
<1> QED
  BY <1>2, <1>3, <1>5

(* The fees of what is taken, which are worth no more than its inputs. *)
LEMMA TemplateFees ==
    ASSUME utxos \subseteq OutPoint, NEW b, NEW s, NEW R, NEW q, Takes(b, s, R, q)
    PROVE  /\ \A k \in R : Fee(s[k].tx) \in Nat
           /\ CoinbaseValue(b) = Total([k \in R |-> Fee(s[k].tx)])
           /\ TotalFees(b) = Total([k \in R |-> Fee(s[k].tx)])
           /\ Total([k \in R |-> Fee(s[k].tx)]) \in Nat
<1> DEFINE F == [k \in R |-> Fee(s[k].tx)]
           G == [i \in DOMAIN b.transactions |-> Fee(b.transactions[i])]
<1>1. ASSUME NEW k \in R
      PROVE  Fee(s[k].tx) \in Nat
  <2>1. s[k].tx \in Tx /\ ValidTransaction(s[k].tx)
    BY DEF Takes, Fit, ValidateTransaction
  <2>2. Wrap(ValueOut(s[k].tx)) <= Wrap(ValueIn(s[k].tx))
    BY <2>1 DEF ValidTransaction
  <2>3. Wrap(ValueOut(s[k].tx)) \in Nat /\ Wrap(ValueIn(s[k].tx)) \in Nat
    <3>1. Inputs(s[k].tx) \subseteq OutPoint
      BY DEF Takes, Fit, ValidateTransaction
    <3>2. ValueIn(s[k].tx) \in Nat /\ ValueOut(s[k].tx) \in Nat
      BY <2>1, <3>1, ValueSums
    <3> QED
      BY <3>2, WrapType
  <2> QED
    BY <2>2, <2>3 DEF Fee
<1>2. IsFiniteSet(R)
  BY DEF Takes, Fit
<1>3. DOMAIN F = R /\ \A k \in R : F[k] \in Nat
  BY <1>1
<1>4. Total(F) \in Nat
  <2> HIDE DEF F
  <2> QED
    BY <1>2, <1>3, SumType
<1>5. /\ DOMAIN G = 1 .. Cardinality(R) /\ q \in [DOMAIN G -> DOMAIN F]
      /\ \A i, j \in DOMAIN G : q[i] = q[j] => i = j
      /\ \A k \in DOMAIN F : \E i \in DOMAIN G : q[i] = k
  BY DEF Takes
<1>6. \A i \in DOMAIN G : F[q[i]] = G[i] /\ G[i] \in Nat
  BY <1>1, <1>5 DEF Takes
<1>7. IsFiniteSet(DOMAIN G)
  BY <1>5, FS_Interval DEF Takes
<1>8. Total(F) = Total(G)
  <2> HIDE DEF F, G
  <2>1. \A i \in DOMAIN G : G[i] \in Int
    BY <1>6
  <2>2. \A i \in DOMAIN G : F[q[i]] = G[i]
    BY <1>6
  <2>3. q \in [DOMAIN G -> DOMAIN F]
    BY <1>5
  <2>4. \A i, j \in DOMAIN G : q[i] = q[j] => i = j
    BY <1>5
  <2>5. \A k \in DOMAIN F : \E i \in DOMAIN G : q[i] = k
    BY <1>5
  <2> QED
    BY <1>7, <2>1, <2>2, <2>3, <2>4, <2>5, SumRenamed
<1>9. TotalFees(b) = Total(G)
  BY DEF TotalFees
<1> DEFINE C == [i \in DOMAIN b.coinbase |-> b.coinbase[i].value]
<1>10. DOMAIN C = {1} /\ C[1] = Total(F)
  BY DEF Takes
<1>11. Total(C) = Total(F)
  <2> DEFINE m == Total(F)
  <2>1. Units(C) = {1} \X (1 .. m)
    BY <1>10 DEF Units
  <2> HIDE DEF m, C, F
  <2>2. m \in Nat
    BY <1>4 DEF m
  <2>3. IsFiniteSet({1}) /\ Cardinality({1}) = 1
    BY FS_Singleton
  <2>4. IsFiniteSet(1 .. m) /\ Cardinality(1 .. m) = m
    BY <2>2, FS_Interval
  <2>5. Cardinality({1} \X (1 .. m)) = 1 * m
    <3>1. Cardinality({1} \X (1 .. m)) = Cardinality({1}) * Cardinality(1 .. m)
      BY <2>3, <2>4, FS_Product, Zenon
    <3> QED
      BY <2>3, <2>4, <3>1
  <2> QED
    BY <2>1, <2>2, <2>5 DEF Total, m
<1>12. CoinbaseValue(b) = Total(C)
  BY DEF CoinbaseValue
<1> HIDE DEF C, G
<1> QED
  BY <1>1, <1>4, <1>8, <1>9, <1>11, <1>12

(* All the deposits ever made to this sidechain, together. *)
Deposited == Total([i \in DOMAIN DepositLog |-> DepositIncrement(DepositLog, i)])

(* What is credited is among them. *)
LEMMA CreditedIsDeposited ==
    ASSUME DepositsExact
    PROVE  Total(credited) \in Nat /\ Deposited \in Nat /\ Total(credited) <= Deposited
<1> DEFINE g == [i \in DOMAIN DepositLog |-> DepositIncrement(DepositLog, i)]
<1>1. IsFiniteSet(DOMAIN DepositLog) /\ \A i \in DOMAIN g : g[i] \in Int
  <2>1. Len(DepositLog) \in Nat /\ DOMAIN DepositLog = 1 .. Len(DepositLog)
        /\ \A i \in DOMAIN DepositLog : DepositLog[i].total \in Nat
    <3> DEFINE T == [block : Nat \ {0}, total : Nat, strdest : Strdest]
    <3>1. DepositLog \in Seq(T)
      BY DepositLogAssumption DEF IsDepositLog
    <3>2. \A x \in T : x.total \in Nat
      OBVIOUS
    <3> HIDE DEF T
    <3>3. Len(DepositLog) \in Nat /\ DOMAIN DepositLog = 1 .. Len(DepositLog)
          /\ \A i \in DOMAIN DepositLog : DepositLog[i] \in T
      BY <3>1
    <3> QED
      BY <3>2, <3>3
  <2>2. IsFiniteSet(DOMAIN DepositLog)
    BY <2>1, FS_Interval
  <2>3. ASSUME NEW i \in DOMAIN DepositLog PROVE DepositIncrement(DepositLog, i) \in Int
    <3>1. CASE i = 1
      BY <2>1, <3>1 DEF DepositIncrement, TotalBefore
    <3>2. CASE i # 1
      <4>1. i - 1 \in DOMAIN DepositLog
        BY <2>1, <3>2
      <4> QED
        BY <2>1, <3>2, <4>1 DEF DepositIncrement, TotalBefore
    <3> QED
      BY <3>1, <3>2
  <2> QED
    BY <2>2, <2>3
<1>2. /\ DOMAIN credited = DOMAIN g
      /\ \A i \in DOMAIN credited : credited[i] \in Int /\ (credited[i] > 0 => credited[i] <= g[i])
  <2>1. /\ DOMAIN credited = DOMAIN DepositLog
        /\ \A i \in DOMAIN DepositLog : credited[i] = g[i] \/ credited[i] = 0
    BY DEF DepositsExact, Scan!DepositsExact, DepositIncrement, Scan!DepositIncrement,
           TotalBefore, Scan!TotalBefore
  <2> HIDE DEF g
  <2>2. DOMAIN g = DOMAIN DepositLog
    BY DEF g
  <2> QED
    BY <1>1, <2>1, <2>2
<1>3. DOMAIN g = DOMAIN DepositLog
  OBVIOUS
<1>4. Total(credited) <= Total(g)
  <2> HIDE DEF g
  <2>1. \A i \in DOMAIN credited : credited[i] > 0 => i \in DOMAIN g /\ credited[i] <= g[i]
    BY <1>2
  <2>2. \A i \in DOMAIN credited : credited[i] \in Int
    BY <1>2
  <2>3. IsFiniteSet(DOMAIN g)
    BY <1>1, <1>3
  <2> QED
    BY <1>1, <2>1, <2>2, <2>3, SumMonotone
<1>5. Total(g) \in Nat /\ Total(credited) \in Nat
  <2> HIDE DEF g
  <2> QED
    BY <1>1, <1>2, <1>3, SumType
<1> QED
  BY <1>4, <1>5 DEF Deposited

(* The fees do not overflow: they are worth no more than the inputs, which are
   different coins of those held. *)
LEMMA TemplateFeesFit ==
    ASSUME OverflowChecks, TypeInv, FundsInv, DepositsExact, Deposited < U64,
           NEW b, NEW s, NEW R, NEW q, Takes(b, s, R, q)
    PROVE  Total([k \in R |-> Fee(s[k].tx)]) < U64
<1> DEFINE F == [k \in R |-> Fee(s[k].tx)]
           X == [k \in R |-> Inputs(s[k].tx)]
           V == [k \in R |-> ValueOf(X[k])]
           I == UNION {X[k] : k \in R}
<1>1. ASSUME NEW k \in R
      PROVE  /\ X[k] \subseteq utxos /\ X[k] \subseteq OutPoint /\ IsFiniteSet(X[k])
             /\ ValueOf(X[k]) \in Nat /\ Fee(s[k].tx) \in Nat /\ Fee(s[k].tx) <= ValueOf(X[k])
  <2>1. /\ s[k].tx \in Tx /\ ValidTransaction(s[k].tx) /\ DistinctInputs(s[k].tx)
        /\ Inputs(s[k].tx) \subseteq utxos
    BY DEF Takes, Fit, ValidateTransaction
  <2>2. Inputs(s[k].tx) \subseteq OutPoint
    BY <2>1 DEF TypeInv
  <2>3. ValueOf(Inputs(s[k].tx)) = ValueIn(s[k].tx) /\ IsFiniteSet(Inputs(s[k].tx))
    BY <2>1, <2>2, ValueOfInputs DEF DistinctInputs
  <2>4. ValueIn(s[k].tx) \in Nat /\ ValueOut(s[k].tx) \in Nat
    BY <2>1, <2>2, ValueSums
  <2>5. Wrap(ValueIn(s[k].tx)) = ValueIn(s[k].tx) /\ Wrap(ValueOut(s[k].tx)) = ValueOut(s[k].tx)
    BY <2>1, <2>4, WrapFitting DEF ValidTransaction
  <2>6. ValueOut(s[k].tx) <= ValueIn(s[k].tx)
    BY <2>1, <2>5 DEF ValidTransaction
  <2>7. Fee(s[k].tx) = ValueIn(s[k].tx) - ValueOut(s[k].tx)
    BY <2>5 DEF Fee
  <2> QED
    BY <2>1, <2>2, <2>3, <2>4, <2>6, <2>7
<1>2. IsFiniteSet(R)
  BY DEF Takes, Fit
<1>3. \A k, l \in R : k # l => X[k] \cap X[l] = {}
  BY DEF Takes, Fit
<1>4. I \subseteq utxos /\ I \subseteq OutPoint
  BY <1>1
<1>5. ValueOf(I) = Total(V)
  <2>1. \A k, l \in R : k # l => Positive(X[k] \cap X[l]) = {}
    BY <1>3 DEF Positive
  <2>2. DOMAIN X = R
    OBVIOUS
  <2>3. \A k \in R : IsFiniteSet(X[k]) /\ X[k] \subseteq OutPoint
    BY <1>1
  <2> HIDE DEF X
  <2> QED
    BY <1>2, <2>1, <2>2, <2>3, ValueOfDisjointFamily
<1>6. Total(F) <= Total(V)
  <2>1. DOMAIN F = R /\ DOMAIN V = R /\ \A k \in R : F[k] \in Nat /\ V[k] \in Nat /\ F[k] <= V[k]
    BY <1>1
  <2> HIDE DEF F, V
  <2>2. \A i \in DOMAIN F : F[i] > 0 => i \in DOMAIN V /\ F[i] <= V[i]
    BY <2>1
  <2> QED
    BY <1>2, <2>1, <2>2, SumMonotone
<1>7. ValueOf(I) <= ValueOf(Held)
  <2>1. I \subseteq Held /\ Positive(I) \subseteq Held
    BY <1>4 DEF Held, Positive
  <2>2. IsFiniteSet(Held) /\ Held \subseteq OutPoint
    BY HeldOutPoints DEF FundsInv
  <2> HIDE DEF I
  <2> QED
    BY <1>4, <2>1, <2>2, ValueOfMonotone
<1>8. ValueOf(Held) <= Total(credited) /\ Total(credited) <= Deposited
  BY CreditedIsDeposited DEF FundsInv
<1>9. /\ Total(F) \in Nat /\ Total(V) \in Nat /\ ValueOf(Held) \in Nat
      /\ Total(credited) \in Nat /\ Deposited \in Nat
  <2>1. DOMAIN F = R /\ DOMAIN V = R /\ \A k \in R : F[k] \in Int /\ V[k] \in Int
    BY <1>1
  <2>2. Total(F) \in Nat /\ Total(V) \in Nat
    <3> HIDE DEF F, V
    <3> QED
      BY <1>2, <2>1, SumType
  <2>3. ValueOf(Held) \in Nat
    BY ValueOfType, HeldOutPoints DEF FundsInv
  <2> QED
    BY <2>2, <2>3, CreditedIsDeposited
<1> QED
  BY <1>5, <1>6, <1>7, <1>8, <1>9, ArithmeticAssumption

(* Each authorization is of the input it stands for: the two lists are joined
   from lists of the same lengths. *)
LEMMA TemplateAuthorized ==
    ASSUME PoolInv, \A a \in transactions : FullyAuthorized(a),
           NEW b, NEW s, NEW R, NEW q, Takes(b, s, R, q)
    PROVE  Authorized(b)
<1> DEFINE n == Cardinality(R)
           txs == [i \in 1 .. n |-> s[q[i]].tx]
           A == [k \in 1 .. n |-> s[q[k]].authorizations]
           I == [k \in 1 .. n |-> [i \in DOMAIN TxInputs[txs[k]] |->
                    [outpoint |-> TxInputs[txs[k]][i], tx |-> txs[k]]]]
           SA == UNION {{s[q[k]].authorizations[i] : i \in DOMAIN s[q[k]].authorizations} : k \in 1 .. n}
           SI == UNION {{I[k][i] : i \in DOMAIN I[k]} : k \in 1 .. n}
<1>1. /\ n \in Nat /\ DOMAIN q = 1 .. n /\ \A k \in 1 .. n : q[k] \in R
      /\ b.transactions = txs /\ b.authorizations = FlattenSeq(A)
  BY DEF Takes
<1>2. SpentInputs(b) = FlattenSeq(I)
  BY <1>1 DEF SpentInputs
<1>3. ASSUME NEW k \in 1 .. n
      PROVE  /\ s[q[k]] \in AuthorizedTx /\ txs[k] = s[q[k]].tx /\ txs[k] \in Tx
             /\ ValidateTransaction(s[q[k]])
             /\ A[k] \in Seq(SA) /\ I[k] \in Seq(SI)
             /\ DOMAIN A[k] = DOMAIN TxInputs[txs[k]] /\ DOMAIN I[k] = DOMAIN TxInputs[txs[k]]
  <2> DEFINE a == s[q[k]]
  <2>1. a \in transactions /\ ValidateTransaction(a) /\ a.tx \in Tx /\ FullyAuthorized(a)
    BY <1>1 DEF Takes, Fit
  <2>2. a \in AuthorizedTx /\ a.authorizations \in Seq({a.authorizations[i] : i \in DOMAIN a.authorizations})
    BY <2>1, AuthorizedTxAssumption DEF PoolInv, MemPoolTypeOK
  <2>3. A[k] = a.authorizations /\ txs[k] = a.tx
    OBVIOUS
  <2>4. Len(TxInputs[txs[k]]) \in Nat /\ DOMAIN TxInputs[txs[k]] = 1 .. Len(TxInputs[txs[k]])
    BY <2>1, <2>3, TxAssumption DEF IsList
  <2>5. I[k] = [i \in 1 .. Len(TxInputs[txs[k]]) |->
                    [outpoint |-> TxInputs[txs[k]][i], tx |-> txs[k]]]
    BY <2>4
  <2>6. DOMAIN I[k] = 1 .. Len(TxInputs[txs[k]]) /\ \A i \in DOMAIN I[k] : I[k][i] \in SI
    <3>1. DOMAIN I[k] = 1 .. Len(TxInputs[txs[k]])
      BY <2>5
    <3> HIDE DEF I, txs, n
    <3> QED
      BY <3>1
  <2>7. I[k] \in Seq(SI)
    <3> HIDE DEF I, SI, txs
    <3>1. I[k] \in [1 .. Len(TxInputs[txs[k]]) -> SI]
      BY <2>5, <2>6
    <3> QED
      BY <2>4, <3>1
  <2>8. {a.authorizations[i] : i \in DOMAIN a.authorizations} \subseteq SA
    OBVIOUS
  <2>9. A[k] \in Seq(SA)
    <3> HIDE DEF SA, A, a
    <3> QED
      BY <2>2, <2>3, <2>8
  <2>10. DOMAIN A[k] = 1 .. Len(A[k])
    <3> HIDE DEF SA, A
    <3> QED
      BY <2>9
  <2>11. Len(A[k]) = Len(TxInputs[txs[k]])
    BY <2>1, <2>3 DEF FullyAuthorized
  <2> HIDE DEF A, I, SA, SI, txs
  <2> QED
    BY <2>1, <2>2, <2>3, <2>4, <2>6, <2>7, <2>9, <2>10, <2>11 DEF a
<1>4. A \in Seq(Seq(SA)) /\ Len(A) = n /\ DOMAIN A = 1 .. n
  <2>1. A \in [1 .. n -> Seq(SA)]
    BY <1>3
  <2> HIDE DEF A, SA, n
  <2> QED
    BY <1>1, <2>1
<1>5. I \in Seq(Seq(SI)) /\ Len(I) = n /\ DOMAIN I = 1 .. n
  <2>1. DOMAIN I = 1 .. n /\ \A k \in 1 .. n : I[k] \in Seq(SI)
    BY <1>3
  <2>2. I = [k \in 1 .. n |-> I[k]]
    OBVIOUS
  <2> HIDE DEF I, SI, n
  <2>3. I \in [1 .. n -> Seq(SI)]
    BY <2>1, <2>2
  <2> QED
    BY <1>1, <2>3
<1>6. \A m \in 0 .. n : Cells(A, m) = Cells(I, m)
  <2>1. \A k \in 1 .. n : DOMAIN A[k] = DOMAIN I[k]
    BY <1>3
  <2> HIDE DEF A, I, n
  <2> QED
    BY <1>1, <2>1 DEF Cells
<1>7. \A k \in 1 .. n : Before(A, k) = Before(I, k)
  <2> HIDE DEF A, I, n
  <2> QED
    BY <1>1, <1>6 DEF Before
<1> HIDE DEF A, I, SA, SI, n
<1>8. /\ FlattenSeq(A) \in Seq(SA)
      /\ Len(FlattenSeq(A)) = Cardinality(Cells(A, n))
      /\ \A k \in 1 .. n : \A i \in DOMAIN A[k] :
            /\ Before(A, k) + i \in DOMAIN FlattenSeq(A)
            /\ FlattenSeq(A)[Before(A, k) + i] = A[k][i]
      /\ \A p \in DOMAIN FlattenSeq(A) :
            \E k \in 1 .. n : \E i \in DOMAIN A[k] : p = Before(A, k) + i
  <2>1. /\ FlattenSeq(A) \in Seq(SA)
        /\ Len(FlattenSeq(A)) = Cardinality(Cells(A, Len(A)))
        /\ \A k \in DOMAIN A : \A i \in DOMAIN A[k] :
              /\ Before(A, k) + i \in DOMAIN FlattenSeq(A)
              /\ FlattenSeq(A)[Before(A, k) + i] = A[k][i]
        /\ \A p \in DOMAIN FlattenSeq(A) :
              \E k \in DOMAIN A : \E i \in DOMAIN A[k] : p = Before(A, k) + i
    BY <1>4, FlattenIsJoined
  <2> QED
    BY <1>4, <2>1
<1>9. /\ FlattenSeq(I) \in Seq(SI)
      /\ Len(FlattenSeq(I)) = Cardinality(Cells(I, n))
      /\ \A k \in 1 .. n : \A i \in DOMAIN I[k] :
            /\ Before(I, k) + i \in DOMAIN FlattenSeq(I)
            /\ FlattenSeq(I)[Before(I, k) + i] = I[k][i]
      /\ \A p \in DOMAIN FlattenSeq(I) :
            \E k \in 1 .. n : \E i \in DOMAIN I[k] : p = Before(I, k) + i
  <2>1. /\ FlattenSeq(I) \in Seq(SI)
        /\ Len(FlattenSeq(I)) = Cardinality(Cells(I, Len(I)))
        /\ \A k \in DOMAIN I : \A i \in DOMAIN I[k] :
              /\ Before(I, k) + i \in DOMAIN FlattenSeq(I)
              /\ FlattenSeq(I)[Before(I, k) + i] = I[k][i]
        /\ \A p \in DOMAIN FlattenSeq(I) :
              \E k \in DOMAIN I : \E i \in DOMAIN I[k] : p = Before(I, k) + i
    BY <1>5, FlattenIsJoined
  <2> QED
    BY <1>5, <2>1
<1>10. ASSUME NEW p \in DOMAIN FlattenSeq(A)
      PROVE  /\ FlattenSeq(A)[p].address = OutputOf(FlattenSeq(I)[p].outpoint).address
             /\ FlattenSeq(A)[p].signed = FlattenSeq(I)[p].tx
  <2>1. PICK k \in 1 .. n : \E i \in DOMAIN A[k] : p = Before(A, k) + i
    BY <1>8
  <2>2. PICK i \in DOMAIN A[k] : p = Before(A, k) + i
    BY <2>1
  <2>3. i \in DOMAIN I[k] /\ i \in DOMAIN TxInputs[txs[k]]
    BY <1>3, <2>2
  <2>4. FlattenSeq(A)[p] = A[k][i]
    BY <1>8, <2>2
  <2>5. FlattenSeq(I)[p] = I[k][i]
    <3>1. p = Before(I, k) + i
      BY <1>7, <2>2
    <3> QED
      BY <1>9, <2>3, <3>1
  <2>6. A[k][i] = s[q[k]].authorizations[i]
    BY DEF A
  <2>7. I[k][i].outpoint = TxInputs[txs[k]][i] /\ I[k][i].tx = txs[k]
    BY <2>3 DEF I
  <2>8. ValidateTransaction(s[q[k]]) /\ txs[k] = s[q[k]].tx /\ i \in DOMAIN s[q[k]].authorizations
    <3>1. A[k] = s[q[k]].authorizations
      BY DEF A
    <3> QED
      BY <1>3, <2>2, <3>1
  <2>9. /\ s[q[k]].authorizations[i].address = OutputOf(TxInputs[txs[k]][i]).address
        /\ s[q[k]].authorizations[i].signed = txs[k]
    BY <2>3, <2>8 DEF ValidateTransaction
  <2> QED
    BY <2>4, <2>5, <2>6, <2>7, <2>9
<1>11. Len(FlattenSeq(A)) \in Nat /\ Len(FlattenSeq(A)) <= Len(FlattenSeq(I))
  <2>1. Cells(A, n) = Cells(I, n)
    BY <1>1, <1>6
  <2>2. Len(FlattenSeq(A)) \in Nat
    BY <1>8
  <2> QED
    BY <1>8, <1>9, <2>1, <2>2
<1> QED
  BY <1>1, <1>2, <1>10, <1>11 DEF Authorized

(* A block made from the pool is valid. *)
LEMMA TemplateIsValid ==
    ASSUME PoolInv, TypeInv, OverflowChecks => FundsInv /\ DepositsExact /\ Deposited < U64,
           \A a \in transactions : FullyAuthorized(a), NEW s \in Looked
    PROVE  ValidBody(TemplateBody(s))
<1> DEFINE b == TemplateBody(s)
           R == Returned(s)
           q == Ascending(R)
           fee == Total([k \in R |-> Fee(s[k].tx)])
<1>1. Takes(b, s, R, q)
  BY TemplateTakes
<1> HIDE DEF b, q, R
<1>2. /\ InputsExist(b) /\ NoDoubleSpend(b)
      /\ \A k \in DOMAIN b.transactions : ValidTransaction(b.transactions[k])
  BY <1>1, TemplateSpends
<1>3. CoinbaseValue(b) = fee /\ TotalFees(b) = fee /\ fee \in Nat
  BY <1>1, TemplateFees DEF TypeInv
<1>4. OverflowChecks => fee < U64
  BY <1>1, TemplateFeesFit
<1>5. Authorized(b)
  BY <1>1, TemplateAuthorized
<1>6. ValidFees(b)
  <2> HIDE DEF fee
  <2>1. Wrap(fee) \in Nat
    BY <1>3, WrapType
  <2> QED
    BY <1>3, <1>4, <2>1 DEF ValidFees, Fits
<1>7. ValidBody(b)
  BY <1>2, <1>5, <1>6 DEF ValidBody
<1> QED
  BY <1>7 DEF b

(* Whatever became of the pool's transactions since they were accepted, a block
   made of those that get_transactions returns is valid on the state it returned
   them from: inputs, sums, fees and authorizations.  In a build with overflow
   checks the fees must fit a u64, which they do if all deposits together do and
   are credited once, as they are where blocks commit in turn. *)
THEOREM TemplatesAreValid ==
    ASSUME OverflowChecks => Deposited < U64
    PROVE  NodeSpec /\ EveryCommitInTurn => []TemplateValid
<1>1. NodeSpec /\ EveryCommitInTurn => Spec
  BY InTurnItIsState
<1>2. NodeSpec => []PoolInv
  BY NodeInvariant, PTL DEF NodeInv
<1>3. CASE OverflowChecks
  <2>1. PoolInv /\ TypeInv /\ FundsInv /\ DepositsExact => TemplateValid
    BY <1>3, TemplateIsValid DEF TemplateValid
  <2>2. Spec => []FundsInv
    BY <1>3, FundsInvariant
  <2> QED
    BY <1>1, <1>2, <2>1, <2>2, TypeInvariant, ChainDepositsExact, PTL
<1>4. CASE ~OverflowChecks
  <2>1. PoolInv /\ TypeInv => TemplateValid
    BY <1>4, TemplateIsValid DEF TemplateValid
  <2> QED
    BY <1>1, <1>2, <2>1, TypeInvariant, PTL
<1> QED
  BY <1>3, <1>4
=============================================================================
