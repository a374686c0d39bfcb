------------------------------ MODULE NetProof ------------------------------
(***************************************************************************)
(* The table of peers and its lock, for any number of connections and of   *)
(* tasks that send requests.                                               *)
(*                                                                         *)
(* A task joins the queue where it is at a point of its own where it does  *)
(* not wait, and leaves it when it is served, so it is in it at most once. *)
(* The addresses stay apart because a task that has passed its check is    *)
(* still known to whoever checks after it: the accepting task to itself,   *)
(* a call of connect as one in flight, or in the table.                    *)
(* A peer in the table has a listener to remove it, because the listener   *)
(* starts before the insertion or with it, unless its datagrams end it.    *)
(***************************************************************************)
EXTENDS Net, SequenceTheorems, TLAPS

Name ==
    {Call(c) : c \in Outgoing} \cup {Disconnect(c) : c \in Conn} \cup {Listener(c) : c \in Conn}
        \cup {Accept, HeartBeat} \cup {Requests(r) : r \in Requester}

NoneTwice == \A i, j \in DOMAIN queue : queue[i] = queue[j] => i = j

LinkOf   == {"none", "open", "closed"}
Calling  == {"idle", "checking", "connecting", "inserting", "connected", "refused"}
Phases   == {"accepting", "checking", "started", "inserting", "ended"}
Stages   == {"off", "reading", "storing", "failed", "removing"}

VarsInv ==
    /\ peers \subseteq Conn
    /\ link \in [Conn -> LinkOf]
    /\ readers \subseteq Requester
    /\ call \in [Outgoing -> Calling]
    /\ accept \in [phase : Phases, conn : SUBSET Incoming]
    /\ listener \in [Conn -> Stages]
    /\ asked \in [Requester -> SUBSET Conn]
    /\ beside \in [Outgoing -> SUBSET Outgoing]

(* Who waits for the lock. *)
QueueInv ==
    /\ queue \in Seq(Name)
    /\ NoneTwice
    /\ \A c \in Outgoing : call[c] \in {"checking", "inserting"} <=> Waiting(Call(c))
    /\ accept.phase \in {"checking", "inserting"} <=> Waiting(Accept)
    /\ \A c \in Conn : listener[c] = "removing" <=> Waiting(Listener(c))

(* How far a connection has come. *)
ConnInv ==
    /\ \A c \in peers : link[c] # "none"
    /\ \A c \in Outgoing : /\ c \in peers => call[c] = "connected"
                           /\ call[c] = "inserting" => link[c] # "none"
                           /\ call[c] # "connected" => listener[c] = "off"
    /\ \A c \in Incoming : link[c] = "none" => listener[c] = "off"
    /\ accept.phase \in {"accepting", "ended"} => accept.conn = {}
    /\ accept.phase \notin {"accepting", "ended"} =>
          \E c \in Incoming : /\ accept.conn = {c} /\ link[c] # "none"
                              /\ accept.phase = "checking" => listener[c] = "off"

(* The peer whose answer is awaited cannot leave the table: the lock is held. *)
AskedInv == \A r \in Requester : asked[r] # {} => r \in readers /\ asked[r] \subseteq peers

(* A call of connect that has checked its address, and is not over. *)
Passed(c) == call[c] \in {"connecting", "inserting"} \/ c \in peers

ApartInv ==
    /\ AcceptedApart
    /\ accept.phase \in {"started", "inserting"} =>
          \A c \in accept.conn : \A p \in peers \cap Incoming : Addr[p] = Addr[c] => p = c
    /\ \A c, d \in Outgoing :
          Passed(c) /\ Passed(d) /\ c # d /\ Addr[c] = Addr[d] => c \in beside[d] \/ d \in beside[c]

NetInv == VarsInv /\ QueueInv /\ ConnInv /\ AskedInv /\ ApartInv

-----------------------------------------------------------------------------
(* Tasks have different names. *)
LEMMA Names ==
    /\ \A c, d : /\ Call(c) = Call(d) => c = d
                 /\ Listener(c) = Listener(d) => c = d
                 /\ Call(c) # Listener(d) /\ Call(c) # Disconnect(d) /\ Call(c) # Requests(d)
                 /\ Listener(c) # Disconnect(d) /\ Listener(c) # Requests(d)
    /\ \A c : /\ Call(c) # Accept /\ Call(c) # HeartBeat
              /\ Listener(c) # Accept /\ Listener(c) # HeartBeat
              /\ Disconnect(c) # Accept /\ Requests(c) # Accept
    /\ Accept # HeartBeat
  BY DEF Call, Listener, Disconnect, Requests, Accept, HeartBeat

(* And are tasks. *)
LEMMA Members ==
    /\ \A c \in Outgoing : Call(c) \in Name
    /\ \A c \in Conn : Disconnect(c) \in Name /\ Listener(c) \in Name
    /\ \A r \in Requester : Requests(r) \in Name
    /\ Accept \in Name /\ HeartBeat \in Name
  BY DEF Name

(* A task that does not wait joins the queue at its end. *)
LEMMA Joins ==
    ASSUME queue \in Seq(Name), NoneTwice, NEW t \in Name, ~Waiting(t), Wait(t)
    PROVE  /\ queue' \in Seq(Name)
           /\ NoneTwice'
           /\ \A s : Waiting(s)' <=> Waiting(s) \/ s = t
<1> DEFINE n == Len(queue)
<1>1. queue' = Append(queue, t) /\ n \in Nat /\ DOMAIN queue = 1 .. n
  BY DEF Wait
<1>2. /\ queue' \in Seq(Name) /\ Len(queue') = n + 1
      /\ \A i \in 1 .. n : queue'[i] = queue[i]
      /\ queue'[n + 1] = t
  BY <1>1, AppendProperties
<1>3. DOMAIN queue' = 1 .. n + 1
  BY <1>2
<1> HIDE DEF n
<1>4. \A i \in 1 .. n : queue'[i] # t
  BY <1>1, <1>2 DEF Waiting
<1>5. NoneTwice'
  <2> SUFFICES ASSUME NEW i \in 1 .. n + 1, NEW j \in 1 .. n + 1, queue'[i] = queue'[j]
               PROVE  i = j
    BY <1>3 DEF NoneTwice
  <2>1. (i \in 1 .. n \/ i = n + 1) /\ (j \in 1 .. n \/ j = n + 1)
    BY <1>1
  <2>2. i \in 1 .. n /\ j \in 1 .. n => queue[i] = queue[j]
    BY <1>2
  <2> QED
    BY <1>1, <1>2, <1>4, <2>1, <2>2 DEF NoneTwice
<1>6. ASSUME NEW s PROVE Waiting(s)' <=> Waiting(s) \/ s = t
  <2>1. Waiting(s)' <=> \E i \in 1 .. n + 1 : queue'[i] = s
    BY <1>3 DEF Waiting
  <2>2. Waiting(s) <=> \E i \in 1 .. n : queue[i] = s
    BY <1>1 DEF Waiting
  <2>3. 1 .. n + 1 = (1 .. n) \cup {n + 1}
    BY <1>1
  <2> QED
    BY <1>2, <2>1, <2>2, <2>3
<1> QED
  BY <1>2, <1>5, <1>6

(* The task that is served is no longer in the queue. *)
LEMMA Leaves ==
    ASSUME queue \in Seq(Name), NoneTwice, NEW t, ReadTurn(t)
    PROVE  /\ queue' \in Seq(Name)
           /\ NoneTwice'
           /\ Waiting(t)
           /\ \A s : Waiting(s)' <=> Waiting(s) /\ s # t
<1> DEFINE n == Len(queue)
<1>1. /\ n \in Nat \ {0} /\ DOMAIN queue = 1 .. n /\ queue[1] = t
      /\ queue' = Tail(queue)
  BY DEF ReadTurn
<1>2. /\ queue' \in Seq(Name) /\ DOMAIN queue' = 1 .. n - 1
      /\ \A i \in 1 .. n - 1 : queue'[i] = queue[i + 1]
  BY <1>1
<1> HIDE DEF n
<1>3. NoneTwice'
  <2> SUFFICES ASSUME NEW i \in 1 .. n - 1, NEW j \in 1 .. n - 1, queue'[i] = queue'[j]
               PROVE  i = j
    BY <1>2 DEF NoneTwice
  <2>1. i + 1 \in 1 .. n /\ j + 1 \in 1 .. n /\ queue[i + 1] = queue[j + 1]
    BY <1>1, <1>2
  <2>2. i + 1 = j + 1
    BY <1>1, <2>1 DEF NoneTwice
  <2> QED
    BY <2>2
<1>4. ASSUME NEW s PROVE Waiting(s)' <=> Waiting(s) /\ s # t
  <2>1. ASSUME Waiting(s)' PROVE Waiting(s) /\ s # t
    <3>1. PICK i \in 1 .. n - 1 : queue'[i] = s
      BY <1>2, <2>1 DEF Waiting
    <3>2. i + 1 \in 1 .. n /\ queue[i + 1] = s /\ i + 1 # 1
      BY <1>1, <1>2, <3>1
    <3>3. 1 \in 1 .. n
      BY <1>1
    <3> QED
      BY <1>1, <3>2, <3>3 DEF Waiting, NoneTwice
  <2>2. ASSUME Waiting(s), s # t PROVE Waiting(s)'
    <3>1. PICK i \in 1 .. n : queue[i] = s
      BY <1>1, <2>2 DEF Waiting
    <3>2. i - 1 \in 1 .. n - 1 /\ queue'[i - 1] = queue[(i - 1) + 1] /\ (i - 1) + 1 = i
      BY <1>1, <1>2, <2>2, <3>1
    <3> QED
      BY <1>2, <3>1, <3>2 DEF Waiting
  <2> QED
    BY <2>1, <2>2
<1> QED
  BY <1>1, <1>2, <1>3, <1>4 DEF Waiting

(* A call of connect begins: it waits, and has not checked. *)
LEMMA ConnectCallKeeps == ASSUME NetInv, NEW c \in Outgoing, ConnectCall(c) PROVE NetInv'
<1>1. VarsInv'
  BY DEF NetInv, VarsInv, LinkOf, Calling, Phases, Stages, Conn, ConnectCall
<1>2. QueueInv'
  <2>1. ~Waiting(Call(c))
    BY DEF NetInv, QueueInv, ConnectCall
  <2>2. queue' \in Seq(Name) /\ NoneTwice' /\ \A s : Waiting(s)' <=> Waiting(s) \/ s = Call(c)
    BY <2>1, Joins, Members DEF NetInv, QueueInv, ConnectCall
  <2> QED
    BY <2>2, Names DEF NetInv, QueueInv, VarsInv, ConnectCall
<1>3. ConnInv'
  BY ConnAssumption DEF NetInv, VarsInv, ConnInv, Conn, ConnectCall
<1>4. AskedInv'
  BY DEF NetInv, VarsInv, AskedInv, ConnectCall
<1>5. ApartInv'
  BY ConnAssumption DEF NetInv, VarsInv, ConnInv, ApartInv, AcceptedApart, Passed, Conn, ConnectCall
<1> QED
  BY <1>1, <1>2, <1>3, <1>4, <1>5 DEF NetInv

(* The check: a call that finds its address in no peer is remembered with the
   calls that may still bring one. *)
LEMMA ConnectCheckKeeps == ASSUME NetInv, NEW c \in Outgoing, ConnectCheck(c) PROVE NetInv'
<1>1. VarsInv'
  BY DEF NetInv, VarsInv, LinkOf, Calling, Phases, Stages, Conn, ConnectCheck, ReadTurn
<1>2. QueueInv'
  <2>1. queue' \in Seq(Name) /\ NoneTwice' /\ \A s : Waiting(s)' <=> Waiting(s) /\ s # Call(c)
    BY Leaves DEF NetInv, QueueInv, ConnectCheck
  <2> QED
    BY <2>1, Names DEF NetInv, QueueInv, VarsInv, ConnectCheck, ReadTurn
<1>3. ConnInv'
  BY ConnAssumption DEF NetInv, VarsInv, ConnInv, Conn, ConnectCheck, ReadTurn
<1>4. AskedInv'
  BY DEF NetInv, VarsInv, AskedInv, ConnectCheck, ReadTurn
<1>5. ApartInv'
  <2>1. /\ call \in [Outgoing -> Calling] /\ beside \in [Outgoing -> SUBSET Outgoing]
        /\ peers' = peers /\ accept' = accept
        /\ call' = [call EXCEPT ![c] = IF Known(c) THEN "refused" ELSE "connecting"]
        /\ beside' = [beside EXCEPT ![c] = {d \in Outgoing \ {c} : InFlight(d)}]
        /\ c \notin peers
    BY DEF NetInv, VarsInv, ConnInv, ConnectCheck
  <2>2. /\ AcceptedApart'
        /\ accept'.phase \in {"started", "inserting"} =>
              \A d \in accept'.conn : \A p \in peers' \cap Incoming : Addr[p] = Addr[d] => p = d
    BY <2>1 DEF NetInv, ApartInv, AcceptedApart
  <2>3. ASSUME NEW d \in Outgoing \ {c}
        PROVE  beside'[d] = beside[d] /\ (Passed(d)' <=> Passed(d))
    BY <2>1 DEF Passed
  <2>4. ASSUME NEW d \in Outgoing \ {c}, Passed(c)', Passed(d), Addr[c] = Addr[d]
        PROVE  d \in beside'[c]
    <3>1. ~Known(c) /\ d \notin peers
      BY <2>1, <2>4 DEF Passed, Known
    <3>2. InFlight(d)
      BY <2>4, <3>1 DEF Passed, InFlight
    <3> QED
      BY <2>1, <3>2
  <2>5. ASSUME NEW d \in Outgoing, NEW e \in Outgoing,
               Passed(d)', Passed(e)', d # e, Addr[d] = Addr[e]
        PROVE  d \in beside'[e] \/ e \in beside'[d]
    <3>1. CASE d = c
      BY <2>3, <2>4, <2>5, <3>1
    <3>2. CASE e = c
      BY <2>3, <2>4, <2>5, <3>2
    <3>3. CASE d # c /\ e # c
      BY <2>3, <2>5, <3>3 DEF NetInv, ApartInv
    <3> QED
      BY <3>1, <3>2, <3>3
  <2> QED
    BY <2>2, <2>5 DEF ApartInv, Passed
<1> QED
  BY <1>1, <1>2, <1>3, <1>4, <1>5 DEF NetInv

(* A connection that cannot be made is left. *)
LEMMA ConnectFailsKeeps == ASSUME NetInv, NEW c \in Outgoing, ConnectFails(c) PROVE NetInv'
<1>1. VarsInv'
  BY DEF NetInv, VarsInv, LinkOf, Calling, Phases, Stages, Conn, ConnectFails
<1>2. QueueInv'
  BY DEF NetInv, QueueInv, NoneTwice, Waiting, VarsInv, ConnectFails
<1>3. ConnInv'
  BY ConnAssumption DEF NetInv, VarsInv, ConnInv, Conn, ConnectFails
<1>4. AskedInv'
  BY DEF NetInv, VarsInv, AskedInv, ConnectFails
<1>5. ApartInv'
  BY ConnAssumption DEF NetInv, VarsInv, ConnInv, ApartInv, AcceptedApart, Passed, Conn, ConnectFails
<1> QED
  BY <1>1, <1>2, <1>3, <1>4, <1>5 DEF NetInv

(* The connection is open, and waits to be inserted. *)
LEMMA ConnectedKeeps == ASSUME NetInv, NEW c \in Outgoing, Connected(c) PROVE NetInv'
<1>1. VarsInv'
  BY DEF NetInv, VarsInv, LinkOf, Calling, Phases, Stages, Conn, Connected
<1>2. QueueInv'
  <2>1. ~Waiting(Call(c))
    BY DEF NetInv, QueueInv, Connected
  <2>2. queue' \in Seq(Name) /\ NoneTwice' /\ \A s : Waiting(s)' <=> Waiting(s) \/ s = Call(c)
    BY <2>1, Joins, Members DEF NetInv, QueueInv, Connected
  <2> QED
    BY <2>2, Names DEF NetInv, QueueInv, VarsInv, Connected
<1>3. ConnInv'
  BY ConnAssumption DEF NetInv, VarsInv, ConnInv, Conn, Connected
<1>4. AskedInv'
  BY DEF NetInv, VarsInv, AskedInv, Connected
<1>5. ApartInv'
  BY ConnAssumption DEF NetInv, VarsInv, ConnInv, ApartInv, AcceptedApart, Passed, Conn, Connected
<1> QED
  BY <1>1, <1>2, <1>3, <1>4, <1>5 DEF NetInv

(* The connection comes into the table, as one that has passed its check. *)
LEMMA ConnectInsertKeeps == ASSUME NetInv, NEW c \in Outgoing, ConnectInsert(c) PROVE NetInv'
<1>1. VarsInv'
  BY DEF NetInv, VarsInv, LinkOf, Calling, Phases, Stages, Conn, ConnectInsert, WriteTurn, StartListening
<1>2. QueueInv'
  <2>1. queue' \in Seq(Name) /\ NoneTwice' /\ \A s : Waiting(s)' <=> Waiting(s) /\ s # Call(c)
    BY Leaves DEF NetInv, QueueInv, ConnectInsert, WriteTurn
  <2> QED
    BY <2>1, Names DEF NetInv, QueueInv, VarsInv, ConnInv, Conn, ConnectInsert, StartListening
<1>3. ConnInv'
  BY ConnAssumption DEF NetInv, VarsInv, ConnInv, Conn, ConnectInsert, WriteTurn, StartListening
<1>4. AskedInv'
  BY DEF NetInv, VarsInv, AskedInv, ConnectInsert, WriteTurn, StartListening
<1>5. ApartInv'
  BY ConnAssumption DEF NetInv, VarsInv, ConnInv, ApartInv, AcceptedApart, Passed, Conn, ConnectInsert, WriteTurn, StartListening
<1> QED
  BY <1>1, <1>2, <1>3, <1>4, <1>5 DEF NetInv

(* A call of disconnect waits for the lock. *)
LEMMA DisconnectCallKeeps == ASSUME NetInv, NEW c \in Conn, DisconnectCall(c) PROVE NetInv'
<1>1. VarsInv'
  BY DEF NetInv, VarsInv, LinkOf, Calling, Phases, Stages, Conn, DisconnectCall
<1>2. QueueInv'
  <2>1. ~Waiting(Disconnect(c))
    BY DEF NetInv, QueueInv, DisconnectCall
  <2>2. queue' \in Seq(Name) /\ NoneTwice' /\ \A s : Waiting(s)' <=> Waiting(s) \/ s = Disconnect(c)
    BY <2>1, Joins, Members DEF NetInv, QueueInv, DisconnectCall
  <2> QED
    BY <2>2, Names DEF NetInv, QueueInv, VarsInv, DisconnectCall
<1>3. ConnInv'
  BY ConnAssumption DEF NetInv, VarsInv, ConnInv, Conn, DisconnectCall
<1>4. AskedInv'
  BY DEF NetInv, VarsInv, AskedInv, DisconnectCall
<1>5. ApartInv'
  BY ConnAssumption DEF NetInv, VarsInv, ConnInv, ApartInv, AcceptedApart, Passed, Conn, DisconnectCall
<1> QED
  BY <1>1, <1>2, <1>3, <1>4, <1>5 DEF NetInv

(* A peer can be removed only when no requester holds the lock. *)
LEMMA DisconnectRemoveKeeps == ASSUME NetInv, NEW c \in Conn, DisconnectRemove(c) PROVE NetInv'
<1>1. VarsInv'
  BY DEF NetInv, VarsInv, LinkOf, Calling, Phases, Stages, Conn, DisconnectRemove, WriteTurn
<1>2. QueueInv'
  <2>1. queue' \in Seq(Name) /\ NoneTwice' /\ \A s : Waiting(s)' <=> Waiting(s) /\ s # Disconnect(c)
    BY Leaves DEF NetInv, QueueInv, DisconnectRemove, WriteTurn
  <2> QED
    BY <2>1, Names DEF NetInv, QueueInv, VarsInv, DisconnectRemove, WriteTurn
<1>3. ConnInv'
  BY ConnAssumption DEF NetInv, VarsInv, ConnInv, Conn, DisconnectRemove, WriteTurn
<1>4. AskedInv'
  BY DEF NetInv, VarsInv, AskedInv, DisconnectRemove, WriteTurn
<1>5. ApartInv'
  BY ConnAssumption DEF NetInv, VarsInv, ConnInv, ApartInv, AcceptedApart, Passed, Conn, DisconnectRemove, WriteTurn
<1> QED
  BY <1>1, <1>2, <1>3, <1>4, <1>5 DEF NetInv

(* A connection arrives where there was none. *)
LEMMA ArriveKeeps == ASSUME NetInv, NEW c \in Incoming, Arrive(c) PROVE NetInv'
<1>1. VarsInv'
  BY DEF NetInv, VarsInv, LinkOf, Calling, Phases, Stages, Conn, Arrive, Accepting
<1>2. QueueInv'
  <2>1. ~Waiting(Accept)
    BY DEF NetInv, QueueInv, Arrive
  <2>2. queue' \in Seq(Name) /\ NoneTwice' /\ \A s : Waiting(s)' <=> Waiting(s) \/ s = Accept
    BY <2>1, Joins, Members DEF NetInv, QueueInv, Arrive
  <2> QED
    BY <2>2, Names DEF NetInv, QueueInv, VarsInv, Arrive, Accepting
<1>3. ConnInv'
  BY ConnAssumption DEF NetInv, VarsInv, ConnInv, Conn, Arrive, Accepting
<1>4. AskedInv'
  BY DEF NetInv, VarsInv, AskedInv, Arrive, Accepting
<1>5. ApartInv'
  BY ConnAssumption DEF NetInv, VarsInv, ConnInv, ApartInv, AcceptedApart, Passed, Conn, Arrive, Accepting
<1> QED
  BY <1>1, <1>2, <1>3, <1>4, <1>5 DEF NetInv

(* The accepting task ends between two connections. *)
LEMMA ArriveFailsKeeps == ASSUME NetInv, ArriveFails PROVE NetInv'
<1>1. VarsInv'
  BY DEF NetInv, VarsInv, LinkOf, Calling, Phases, Stages, Conn, ArriveFails, Accepting
<1>2. QueueInv'
  BY DEF NetInv, QueueInv, NoneTwice, Waiting, VarsInv, ArriveFails, Accepting
<1>3. ConnInv'
  BY ConnAssumption DEF NetInv, VarsInv, ConnInv, Conn, ArriveFails, Accepting
<1>4. AskedInv'
  BY DEF NetInv, VarsInv, AskedInv, ArriveFails, Accepting
<1>5. ApartInv'
  BY ConnAssumption DEF NetInv, VarsInv, ConnInv, ApartInv, AcceptedApart, Passed, Conn, ArriveFails, Accepting
<1> QED
  BY <1>1, <1>2, <1>3, <1>4, <1>5 DEF NetInv

(* The check: no accepted peer has the address of a connection that is taken. *)
LEMMA AcceptCheckKeeps == ASSUME NetInv, AcceptCheck PROVE NetInv'
<1>1. VarsInv'
  BY DEF NetInv, VarsInv, LinkOf, Calling, Phases, Stages, Conn, AcceptCheck, Accepting, StartListening
<1>2. QueueInv'
  <2>1. queue' \in Seq(Name) /\ NoneTwice' /\ \A s : Waiting(s)' <=> Waiting(s) /\ s # Accept
    BY Leaves DEF NetInv, QueueInv, AcceptCheck
  <2> QED
    BY <2>1, Names DEF NetInv, QueueInv, VarsInv, ConnInv, Conn, AcceptCheck, Accepting, StartListening
<1>3. ConnInv'
  BY ConnAssumption DEF NetInv, VarsInv, ConnInv, Conn, AcceptCheck, Accepting, StartListening
<1>4. AskedInv'
  BY DEF NetInv, VarsInv, AskedInv, AcceptCheck, Accepting, StartListening
<1>5. ApartInv'
  <2>1. PICK c \in accept.conn :
           \/ accept'.phase = "accepting"
           \/ ~Known(c) /\ accept'.conn = {c}
    BY DEF AcceptCheck, Accepting
  <2>2. peers' = peers /\ call' = call /\ beside' = beside
    BY DEF AcceptCheck
  <2> QED
    BY <2>1, <2>2 DEF NetInv, ApartInv, AcceptedApart, Passed, Known
<1> QED
  BY <1>1, <1>2, <1>3, <1>4, <1>5 DEF NetInv

(* The accepting task waits again, with its connection. *)
LEMMA AcceptWaitKeeps == ASSUME NetInv, AcceptWait PROVE NetInv'
<1>1. VarsInv'
  BY DEF NetInv, VarsInv, LinkOf, Calling, Phases, Stages, Conn, AcceptWait, Accepting
<1>2. QueueInv'
  <2>1. ~Waiting(Accept)
    BY DEF NetInv, QueueInv, AcceptWait
  <2>2. queue' \in Seq(Name) /\ NoneTwice' /\ \A s : Waiting(s)' <=> Waiting(s) \/ s = Accept
    BY <2>1, Joins, Members DEF NetInv, QueueInv, AcceptWait
  <2> QED
    BY <2>2, Names DEF NetInv, QueueInv, VarsInv, AcceptWait, Accepting
<1>3. ConnInv'
  BY ConnAssumption DEF NetInv, VarsInv, ConnInv, Conn, AcceptWait, Accepting
<1>4. AskedInv'
  BY DEF NetInv, VarsInv, AskedInv, AcceptWait, Accepting
<1>5. ApartInv'
  BY ConnAssumption DEF NetInv, VarsInv, ConnInv, ApartInv, AcceptedApart, Passed, Conn, AcceptWait, Accepting
<1> QED
  BY <1>1, <1>2, <1>3, <1>4, <1>5 DEF NetInv

(* Nobody else inserts accepted connections, so the address is still new. *)
LEMMA AcceptInsertKeeps == ASSUME NetInv, AcceptInsert PROVE NetInv'
<1>1. VarsInv'
  BY DEF NetInv, VarsInv, LinkOf, Calling, Phases, Stages, Conn, AcceptInsert, Accepting, WriteTurn
<1>2. QueueInv'
  <2>1. queue' \in Seq(Name) /\ NoneTwice' /\ \A s : Waiting(s)' <=> Waiting(s) /\ s # Accept
    BY Leaves DEF NetInv, QueueInv, AcceptInsert, WriteTurn
  <2> QED
    BY <2>1, Names DEF NetInv, QueueInv, VarsInv, AcceptInsert, Accepting, WriteTurn
<1>3. ConnInv'
  BY ConnAssumption DEF NetInv, VarsInv, ConnInv, Conn, AcceptInsert, Accepting, WriteTurn
<1>4. AskedInv'
  BY DEF NetInv, VarsInv, AskedInv, AcceptInsert, Accepting, WriteTurn
<1>5. ApartInv'
  BY ConnAssumption DEF NetInv, VarsInv, ConnInv, ApartInv, AcceptedApart, Passed, Conn, AcceptInsert, Accepting, WriteTurn
<1> QED
  BY <1>1, <1>2, <1>3, <1>4, <1>5 DEF NetInv

(* A connection closes where it is. *)
LEMMA CloseKeeps == ASSUME NetInv, NEW c \in Conn, Close(c) PROVE NetInv'
<1>1. VarsInv'
  BY DEF NetInv, VarsInv, LinkOf, Calling, Phases, Stages, Conn, Close
<1>2. QueueInv'
  BY DEF NetInv, QueueInv, NoneTwice, Waiting, VarsInv, Close
<1>3. ConnInv'
  BY ConnAssumption DEF NetInv, VarsInv, ConnInv, Conn, Close
<1>4. AskedInv'
  BY DEF NetInv, VarsInv, AskedInv, Close
<1>5. ApartInv'
  BY ConnAssumption DEF NetInv, VarsInv, ConnInv, ApartInv, AcceptedApart, Passed, Conn, Close
<1> QED
  BY <1>1, <1>2, <1>3, <1>4, <1>5 DEF NetInv

(* A datagram, read, stored or not understood, is no matter of the lock. *)
LEMMA ListenerReadsKeeps ==
    ASSUME NetInv, NEW c \in Conn, ListenerHears(c) \/ ListenerStores(c) \/ ListenerFails(c)
    PROVE  NetInv'
<1>1. PICK s \in {"reading", "storing", "failed"} : listener' = [listener EXCEPT ![c] = s]
  BY DEF ListenerHears, ListenerStores, ListenerFails
<1>2. /\ listener[c] \in {"reading", "storing"}
      /\ UNCHANGED <<peers, link, queue, readers, call, accept, asked, beside>>
  BY DEF ListenerHears, ListenerStores, ListenerFails
<1>3. VarsInv'
  BY <1>1, <1>2 DEF NetInv, VarsInv, LinkOf, Calling, Phases, Stages, Conn
<1>4. QueueInv'
  BY <1>1, <1>2 DEF NetInv, QueueInv, NoneTwice, Waiting, VarsInv
<1>5. ConnInv'
  BY <1>1, <1>2, ConnAssumption DEF NetInv, VarsInv, ConnInv, Conn
<1>6. AskedInv' /\ ApartInv'
  BY <1>2 DEF NetInv, AskedInv, ApartInv, AcceptedApart, Passed
<1> QED
  BY <1>3, <1>4, <1>5, <1>6 DEF NetInv

(* A listener that finds its connection closed waits for the lock. *)
LEMMA ListenerWaitKeeps == ASSUME NetInv, NEW c \in Conn, ListenerWait(c) PROVE NetInv'
<1>1. VarsInv'
  BY DEF NetInv, VarsInv, LinkOf, Calling, Phases, Stages, Conn, ListenerWait
<1>2. QueueInv'
  <2>1. ~Waiting(Listener(c))
    BY DEF NetInv, QueueInv, ListenerWait
  <2>2. queue' \in Seq(Name) /\ NoneTwice' /\ \A s : Waiting(s)' <=> Waiting(s) \/ s = Listener(c)
    BY <2>1, Joins, Members DEF NetInv, QueueInv, ListenerWait
  <2> QED
    BY <2>2, Names DEF NetInv, QueueInv, VarsInv, ListenerWait
<1>3. ConnInv'
  BY ConnAssumption DEF NetInv, VarsInv, ConnInv, Conn, ListenerWait
<1>4. AskedInv'
  BY DEF NetInv, VarsInv, AskedInv, ListenerWait
<1>5. ApartInv'
  BY ConnAssumption DEF NetInv, VarsInv, ConnInv, ApartInv, AcceptedApart, Passed, Conn, ListenerWait
<1> QED
  BY <1>1, <1>2, <1>3, <1>4, <1>5 DEF NetInv

(* It removes its peer while no requester holds the lock. *)
LEMMA ListenerRemoveKeeps == ASSUME NetInv, NEW c \in Conn, ListenerRemove(c) PROVE NetInv'
<1>1. VarsInv'
  BY DEF NetInv, VarsInv, LinkOf, Calling, Phases, Stages, Conn, ListenerRemove, WriteTurn
<1>2. QueueInv'
  <2>1. queue' \in Seq(Name) /\ NoneTwice' /\ \A s : Waiting(s)' <=> Waiting(s) /\ s # Listener(c)
    BY Leaves DEF NetInv, QueueInv, ListenerRemove, WriteTurn
  <2> QED
    BY <2>1, Names DEF NetInv, QueueInv, VarsInv, ListenerRemove, WriteTurn
<1>3. ConnInv'
  BY ConnAssumption DEF NetInv, VarsInv, ConnInv, Conn, ListenerRemove, WriteTurn
<1>4. AskedInv'
  BY DEF NetInv, VarsInv, AskedInv, ListenerRemove, WriteTurn
<1>5. ApartInv'
  BY ConnAssumption DEF NetInv, VarsInv, ConnInv, ApartInv, AcceptedApart, Passed, Conn, ListenerRemove, WriteTurn
<1> QED
  BY <1>1, <1>2, <1>3, <1>4, <1>5 DEF NetInv

(* The heartbeat waits for the lock, *)
LEMMA HeartBeatWaitKeeps == ASSUME NetInv, HeartBeatWait PROVE NetInv'
<1>1. VarsInv'
  BY DEF NetInv, VarsInv, LinkOf, Calling, Phases, Stages, Conn, HeartBeatWait
<1>2. QueueInv'
  <2>1. ~Waiting(HeartBeat)
    BY DEF NetInv, QueueInv, HeartBeatWait
  <2>2. queue' \in Seq(Name) /\ NoneTwice' /\ \A s : Waiting(s)' <=> Waiting(s) \/ s = HeartBeat
    BY <2>1, Joins, Members DEF NetInv, QueueInv, HeartBeatWait
  <2> QED
    BY <2>2, Names DEF NetInv, QueueInv, VarsInv, HeartBeatWait
<1>3. ConnInv'
  BY ConnAssumption DEF NetInv, VarsInv, ConnInv, Conn, HeartBeatWait
<1>4. AskedInv'
  BY DEF NetInv, VarsInv, AskedInv, HeartBeatWait
<1>5. ApartInv'
  BY ConnAssumption DEF NetInv, VarsInv, ConnInv, ApartInv, AcceptedApart, Passed, Conn, HeartBeatWait
<1> QED
  BY <1>1, <1>2, <1>3, <1>4, <1>5 DEF NetInv

(* and is served. *)
LEMMA HeartBeatSendKeeps == ASSUME NetInv, HeartBeatSend PROVE NetInv'
<1>1. VarsInv'
  BY DEF NetInv, VarsInv, LinkOf, Calling, Phases, Stages, Conn, HeartBeatSend
<1>2. QueueInv'
  <2>1. queue' \in Seq(Name) /\ NoneTwice' /\ \A s : Waiting(s)' <=> Waiting(s) /\ s # HeartBeat
    BY Leaves DEF NetInv, QueueInv, HeartBeatSend
  <2> QED
    BY <2>1, Names DEF NetInv, QueueInv, VarsInv, HeartBeatSend
<1>3. ConnInv'
  BY ConnAssumption DEF NetInv, VarsInv, ConnInv, Conn, HeartBeatSend
<1>4. AskedInv'
  BY DEF NetInv, VarsInv, AskedInv, HeartBeatSend
<1>5. ApartInv'
  BY ConnAssumption DEF NetInv, VarsInv, ConnInv, ApartInv, AcceptedApart, Passed, Conn, HeartBeatSend
<1> QED
  BY <1>1, <1>2, <1>3, <1>4, <1>5 DEF NetInv

(* A requester waits for the lock, *)
LEMMA RequestsWaitKeeps == ASSUME NetInv, NEW r \in Requester, RequestsWait(r) PROVE NetInv'
<1>1. VarsInv'
  BY DEF NetInv, VarsInv, LinkOf, Calling, Phases, Stages, Conn, RequestsWait
<1>2. QueueInv'
  <2>1. ~Waiting(Requests(r))
    BY DEF NetInv, QueueInv, RequestsWait
  <2>2. queue' \in Seq(Name) /\ NoneTwice' /\ \A s : Waiting(s)' <=> Waiting(s) \/ s = Requests(r)
    BY <2>1, Joins, Members DEF NetInv, QueueInv, RequestsWait
  <2> QED
    BY <2>2, Names DEF NetInv, QueueInv, VarsInv, RequestsWait
<1>3. ConnInv'
  BY ConnAssumption DEF NetInv, VarsInv, ConnInv, Conn, RequestsWait
<1>4. AskedInv'
  BY DEF NetInv, VarsInv, AskedInv, RequestsWait
<1>5. ApartInv'
  BY ConnAssumption DEF NetInv, VarsInv, ConnInv, ApartInv, AcceptedApart, Passed, Conn, RequestsWait
<1> QED
  BY <1>1, <1>2, <1>3, <1>4, <1>5 DEF NetInv

(* holds it, *)
LEMMA RequestsStartKeeps == ASSUME NetInv, NEW r \in Requester, RequestsStart(r) PROVE NetInv'
<1>1. VarsInv'
  BY DEF NetInv, VarsInv, LinkOf, Calling, Phases, Stages, Conn, RequestsStart
<1>2. QueueInv'
  <2>1. queue' \in Seq(Name) /\ NoneTwice' /\ \A s : Waiting(s)' <=> Waiting(s) /\ s # Requests(r)
    BY Leaves DEF NetInv, QueueInv, RequestsStart
  <2> QED
    BY <2>1, Names DEF NetInv, QueueInv, VarsInv, RequestsStart
<1>3. ConnInv'
  BY ConnAssumption DEF NetInv, VarsInv, ConnInv, Conn, RequestsStart
<1>4. AskedInv'
  BY DEF NetInv, VarsInv, AskedInv, RequestsStart
<1>5. ApartInv'
  BY ConnAssumption DEF NetInv, VarsInv, ConnInv, ApartInv, AcceptedApart, Passed, Conn, RequestsStart
<1> QED
  BY <1>1, <1>2, <1>3, <1>4, <1>5 DEF NetInv

(* asks a peer of the table, *)
LEMMA AskKeeps == ASSUME NetInv, NEW r \in Requester, NEW c \in peers, Ask(r, c) PROVE NetInv'
<1>1. VarsInv'
  BY DEF NetInv, VarsInv, LinkOf, Calling, Phases, Stages, Conn, Ask
<1>2. QueueInv'
  BY DEF NetInv, QueueInv, NoneTwice, Waiting, VarsInv, Ask
<1>3. ConnInv'
  BY ConnAssumption DEF NetInv, VarsInv, ConnInv, Conn, Ask
<1>4. AskedInv'
  BY DEF NetInv, VarsInv, AskedInv, Ask
<1>5. ApartInv'
  BY ConnAssumption DEF NetInv, VarsInv, ConnInv, ApartInv, AcceptedApart, Passed, Conn, Ask
<1> QED
  BY <1>1, <1>2, <1>3, <1>4, <1>5 DEF NetInv

(* gets an answer, *)
LEMMA AnswerKeeps == ASSUME NetInv, NEW r \in Requester, Answer(r) PROVE NetInv'
<1>1. VarsInv'
  BY DEF NetInv, VarsInv, LinkOf, Calling, Phases, Stages, Conn, Answer
<1>2. QueueInv'
  BY DEF NetInv, QueueInv, NoneTwice, Waiting, VarsInv, Answer
<1>3. ConnInv'
  BY ConnAssumption DEF NetInv, VarsInv, ConnInv, Conn, Answer
<1>4. AskedInv'
  BY DEF NetInv, VarsInv, AskedInv, Answer
<1>5. ApartInv'
  BY ConnAssumption DEF NetInv, VarsInv, ConnInv, ApartInv, AcceptedApart, Passed, Conn, Answer
<1> QED
  BY <1>1, <1>2, <1>3, <1>4, <1>5 DEF NetInv

(* or an error, and lets the lock go, *)
LEMMA AskFailsKeeps == ASSUME NetInv, NEW r \in Requester, AskFails(r) PROVE NetInv'
<1>1. VarsInv'
  BY DEF NetInv, VarsInv, LinkOf, Calling, Phases, Stages, Conn, AskFails
<1>2. QueueInv'
  BY DEF NetInv, QueueInv, NoneTwice, Waiting, VarsInv, AskFails
<1>3. ConnInv'
  BY ConnAssumption DEF NetInv, VarsInv, ConnInv, Conn, AskFails
<1>4. AskedInv'
  BY DEF NetInv, VarsInv, AskedInv, AskFails
<1>5. ApartInv'
  BY ConnAssumption DEF NetInv, VarsInv, ConnInv, ApartInv, AcceptedApart, Passed, Conn, AskFails
<1> QED
  BY <1>1, <1>2, <1>3, <1>4, <1>5 DEF NetInv

(* or has asked everyone it meant to. *)
LEMMA RequestsDoneKeeps == ASSUME NetInv, NEW r \in Requester, RequestsDone(r) PROVE NetInv'
<1>1. VarsInv'
  BY DEF NetInv, VarsInv, LinkOf, Calling, Phases, Stages, Conn, RequestsDone
<1>2. QueueInv'
  BY DEF NetInv, QueueInv, NoneTwice, Waiting, VarsInv, RequestsDone
<1>3. ConnInv'
  BY ConnAssumption DEF NetInv, VarsInv, ConnInv, Conn, RequestsDone
<1>4. AskedInv'
  BY DEF NetInv, VarsInv, AskedInv, RequestsDone
<1>5. ApartInv'
  BY ConnAssumption DEF NetInv, VarsInv, ConnInv, ApartInv, AcceptedApart, Passed, Conn, RequestsDone
<1> QED
  BY <1>1, <1>2, <1>3, <1>4, <1>5 DEF NetInv

-----------------------------------------------------------------------------
(* NetInv is inductive. *)
LEMMA NetInvariant == NetSpec => []NetInv
<1>1. NetInit => NetInv
  <2> SUFFICES ASSUME NetInit PROVE NetInv
    OBVIOUS
  <2>1. VarsInv
    BY DEF NetInit, VarsInv, LinkOf, Calling, Phases, Stages
  <2>2. QueueInv
    BY DEF NetInit, QueueInv, NoneTwice, Waiting, Conn
  <2>3. ConnInv
    BY DEF NetInit, ConnInv, Conn
  <2>4. AskedInv /\ ApartInv
    BY DEF NetInit, AskedInv, ApartInv, AcceptedApart, Passed
  <2> QED
    BY <2>1, <2>2, <2>3, <2>4 DEF NetInv
<1>2. NetInv /\ [NetNext]_netVars => NetInv'
  <2> SUFFICES ASSUME NetInv, [NetNext]_netVars PROVE NetInv'
    OBVIOUS
  <2>1. ASSUME NEW c \in Outgoing, ConnectCall(c) \/ ConnectStep(c) PROVE NetInv'
    BY <2>1, ConnectCallKeeps, ConnectCheckKeeps, ConnectedKeeps, ConnectFailsKeeps,
       ConnectInsertKeeps DEF ConnectStep
  <2>2. ASSUME NEW c \in Incoming, Arrive(c) PROVE NetInv'
    BY <2>2, ArriveKeeps
  <2>3. CASE ArriveFails \/ AcceptStep
    BY <2>3, ArriveFailsKeeps, AcceptCheckKeeps, AcceptWaitKeeps, AcceptInsertKeeps DEF AcceptStep
  <2>4. ASSUME NEW c \in Conn, DisconnectCall(c) \/ DisconnectRemove(c) \/ Close(c) \/ ListenerStep(c)
        PROVE  NetInv'
    BY <2>4, DisconnectCallKeeps, DisconnectRemoveKeeps, CloseKeeps, ListenerReadsKeeps, ListenerWaitKeeps,
       ListenerRemoveKeeps DEF ListenerStep
  <2>5. CASE HeartBeatWait \/ HeartBeatSend
    BY <2>5, HeartBeatWaitKeeps, HeartBeatSendKeeps
  <2>6. ASSUME NEW r \in Requester, RequestStep(r)
        PROVE  NetInv'
    BY <2>6, RequestsWaitKeeps, RequestsStartKeeps, AnswerKeeps, AskFailsKeeps,
       RequestsDoneKeeps DEF RequestStep
  <2>7. ASSUME NEW r \in Requester, NEW c \in peers, Ask(r, c) PROVE NetInv'
    BY <2>7, AskKeeps
  <2>8. CASE UNCHANGED netVars
    BY <2>8 DEF netVars, NetInv, VarsInv, QueueInv, NoneTwice, Waiting, ConnInv, AskedInv,
                ApartInv, AcceptedApart, Passed
  <2> QED
    BY <2>1, <2>2, <2>3, <2>4, <2>5, <2>6, <2>7, <2>8 DEF NetNext
<1> QED
  BY <1>1, <1>2, PTL DEF NetSpec

(* For any number of connections and requesters, a task is in the queue for
   the lock at most once, and exactly while it is at a point where it waits;
   and a peer whose answer is awaited is in the table, with the lock held. *)
THEOREM NetTypeCorrect == NetSpec => []NetTypeOK
<1>1. NetInv => NetTypeOK
  BY DEF NetInv, NetTypeOK, VarsInv, QueueInv, NoneTwice, ConnInv, AskedInv
<1> QED
  BY <1>1, NetInvariant, PTL

(* The accepted peers have different addresses, although the accepting task
   lets go of the lock between its check and the insertion. *)
THEOREM AcceptedStayApart == NetSpec => []AcceptedApart
<1>1. NetInv => AcceptedApart
  BY DEF NetInv, ApartInv
<1> QED
  BY <1>1, NetInvariant, PTL

(* Two peers that connect made to one address are from calls of which one was
   in flight when the other checked, whatever fails, closes or is removed. *)
THEOREM ConnectedStayApart == NetSpec => []ConnectedApart
<1>1. NetInv => ConnectedApart
  BY DEF NetInv, ApartInv, ConnectedApart, Passed
<1> QED
  BY <1>1, NetInvariant, PTL

-----------------------------------------------------------------------------
(***************************************************************************)
(* What makes ClosedPeersLeave and EveryoneServed hold for any number of   *)
(* connections and tasks, but for the fairness.                            *)
(***************************************************************************)

(* A peer in the table has a listener, which will see its connection close and
   remove it, with the two exceptions of ClosedPeersLeave: an accepted one whose
   connection closed while the accepting task waited to insert it, and one whose
   listener was ended by a datagram it could not read. *)
PeersAreHeard ==
    \A c \in peers :
        \/ Listens(c)
        \/ listener[c] = "failed"
        \/ c \in Incoming /\ link[c] = "closed"

(* Where the exception comes from: a listener may be over before the insertion. *)
HeardInv ==
    /\ PeersAreHeard
    /\ \A c \in Conn : listener[c] = "removing" => link[c] = "closed"
    /\ accept.phase \in {"started", "inserting"} =>
          \A c \in accept.conn : listener[c] = "off" => link[c] = "closed"

(* Whoever is first in the queue has use for the lock: when no requester holds
   it, the step that takes it can be made. *)
FirstCanGo ==
    queue # <<>> =>
        LET t == Head(queue)
        IN  \/ \E c \in Outgoing : t = Call(c) /\ call[c] \in {"checking", "inserting"}
            \/ /\ t = Accept /\ accept.phase \in {"checking", "inserting"}
               /\ \E c \in accept.conn : link[c] \in {"open", "closed"}
            \/ \E c \in Conn : t = Listener(c) /\ listener[c] = "removing"
            \/ \E c \in Conn : t = Disconnect(c)
            \/ t = HeartBeat
            \/ \E r \in Requester : t = Requests(r)

(* HeardInv is inductive, with NetInv. *)
LEMMA HeardInvariant == NetSpec => []HeardInv
<1>1. NetInit => HeardInv
  BY DEF NetInit, HeardInv, PeersAreHeard, Listens, Stages
<1>2. NetInv /\ HeardInv /\ [NetNext]_netVars => HeardInv'
  <2> SUFFICES ASSUME VarsInv, QueueInv, ConnInv, HeardInv, [NetNext]_netVars PROVE HeardInv'
    BY DEF NetInv
  <2> USE ConnAssumption
  (* A connection opens once, so these steps leave closed ones closed. *)
  <2>0. ASSUME peers' = peers, listener' = listener, accept' = accept,
               \A c \in Conn : link[c] = "closed" => link'[c] = "closed"
        PROVE  HeardInv'
    BY <2>0 DEF HeardInv, PeersAreHeard, Listens, Stages, VarsInv, Conn
  <2>1. ASSUME NEW c \in Outgoing, ConnectCall(c) \/ ConnectCheck(c) \/ ConnectFails(c)
        PROVE  HeardInv'
    BY <2>0, <2>1 DEF ConnectCall, ConnectCheck, ConnectFails
  <2>2. ASSUME NEW c \in Outgoing, Connected(c) PROVE HeardInv'
    BY <2>2 DEF Connected, HeardInv, PeersAreHeard, Listens, Stages, VarsInv, ConnInv, Conn
  <2>3. ASSUME NEW c \in Outgoing, ConnectInsert(c) PROVE HeardInv'
    BY <2>3 DEF ConnectInsert, StartListening, HeardInv, PeersAreHeard, Listens, Stages, VarsInv, Conn
  <2>4. ASSUME NEW c \in Incoming, Arrive(c) PROVE HeardInv'
    BY <2>4 DEF Arrive, Accepting, HeardInv, PeersAreHeard, Listens, Stages, VarsInv, ConnInv, Conn
  <2>5. CASE ArriveFails
    BY <2>5 DEF ArriveFails, Accepting, HeardInv, PeersAreHeard, Listens, Stages, VarsInv
  <2>6. CASE AcceptCheck
    BY <2>6 DEF AcceptCheck, Accepting, StartListening, HeardInv, PeersAreHeard, Listens, Stages, VarsInv, Conn
  <2>7. CASE AcceptWait
    BY <2>7 DEF AcceptWait, Accepting, HeardInv, PeersAreHeard, Listens, Stages, VarsInv
  <2>8. CASE AcceptInsert
    <3>1. /\ peers' = peers \cup accept.conn /\ accept'.phase = "accepting"
          /\ listener' = listener /\ link' = link
          /\ \A c \in accept.conn : c \in Incoming /\ (listener[c] = "off" => link[c] = "closed")
      BY <2>8 DEF AcceptInsert, Accepting, HeardInv, VarsInv
    <3>2. \A c \in Conn : Listens(c) \/ listener[c] \in {"failed", "off"}
      BY DEF Listens, VarsInv, Stages
    <3>3. PeersAreHeard'
      BY <3>1, <3>2 DEF HeardInv, PeersAreHeard, Listens, Conn
    <3> QED
      BY <3>1, <3>3 DEF HeardInv
  <2>9. ASSUME NEW c \in Conn, DisconnectCall(c) \/ Close(c) PROVE HeardInv'
    BY <2>0, <2>9 DEF DisconnectCall, Close, VarsInv
  <2>10. ASSUME NEW c \in Conn, DisconnectRemove(c) PROVE HeardInv'
    BY <2>10 DEF DisconnectRemove, HeardInv, PeersAreHeard, Listens, Stages
  <2>11. ASSUME NEW c \in Conn, ListenerWait(c) PROVE HeardInv'
    BY <2>11 DEF ListenerWait, HeardInv, PeersAreHeard, Listens, Stages, VarsInv, Conn
  <2>12. ASSUME NEW c \in Conn, ListenerRemove(c) PROVE HeardInv'
    <3>1. link[c] = "closed"
      <4>1. queue # <<>> /\ Head(queue) = Listener(c)
        BY <2>12 DEF ListenerRemove, WriteTurn, ReadTurn
      <4>2. 1 \in DOMAIN queue /\ queue[1] = Listener(c)
        BY <4>1 DEF QueueInv
      <4> QED
        BY <4>2 DEF QueueInv, Waiting, HeardInv
    <3> QED
      BY <2>12, <3>1 DEF ListenerRemove, HeardInv, PeersAreHeard, Listens, Stages, VarsInv
  <2>13. CASE HeartBeatWait \/ HeartBeatSend
    BY <2>0, <2>13 DEF HeartBeatWait, HeartBeatSend
  <2>14. ASSUME NEW r \in Requester, RequestStep(r)
         PROVE  HeardInv'
    BY <2>0, <2>14 DEF RequestStep, RequestsWait, RequestsStart, Answer, AskFails, RequestsDone
  <2>15. ASSUME NEW r \in Requester, NEW c \in peers, Ask(r, c) PROVE HeardInv'
    BY <2>0, <2>15 DEF Ask
  <2>16. CASE UNCHANGED netVars
    BY <2>0, <2>16 DEF netVars
  <2>17. ASSUME NEW c \in Conn, ListenerHears(c) \/ ListenerStores(c) \/ ListenerFails(c)
         PROVE  HeardInv'
    BY <2>17 DEF ListenerHears, ListenerStores, ListenerFails, HeardInv, PeersAreHeard, Listens,
                 Stages, VarsInv, Conn
  <2> QED
    BY <2>1, <2>2, <2>3, <2>4, <2>5, <2>6, <2>7, <2>8, <2>9, <2>10, <2>11, <2>12, <2>13, <2>14,
       <2>15, <2>16, <2>17 DEF NetNext, ConnectStep, AcceptStep, ListenerStep
<1> QED
  BY <1>1, <1>2, NetInvariant, PTL DEF NetSpec

(* Whatever closes or is removed while calls and the accepting task wait to
   insert, every peer in the table has a listener, but for an accepted one that
   was closed before it was inserted, and for one that has sent a datagram that
   is no state. *)
THEOREM EveryPeerIsHeard == NetSpec => []PeersAreHeard
<1>1. HeardInv => PeersAreHeard
  BY DEF HeardInv
<1> QED
  BY <1>1, HeardInvariant, PTL

(* The lock is never handed to a task that has no use for it, so that those
   behind it come to their turn. *)
THEOREM FirstCanAlwaysGo == NetSpec => []FirstCanGo
<1>1. NetInv => FirstCanGo
  <2> SUFFICES ASSUME VarsInv, QueueInv, ConnInv, queue # <<>>, NEW t, t = Head(queue)
               PROVE  \/ \E c \in Outgoing : t = Call(c) /\ call[c] \in {"checking", "inserting"}
                      \/ /\ t = Accept /\ accept.phase \in {"checking", "inserting"}
                         /\ \E c \in accept.conn : link[c] \in {"open", "closed"}
                      \/ \E c \in Conn : t = Listener(c) /\ listener[c] = "removing"
                      \/ \E c \in Conn : t = Disconnect(c)
                      \/ t = HeartBeat
                      \/ \E r \in Requester : t = Requests(r)
    BY DEF FirstCanGo, NetInv
  <2>1. t \in Name /\ Waiting(t)
    <3>1. 1 \in DOMAIN queue /\ queue[1] = t /\ queue[1] \in Name
      BY DEF QueueInv
    <3> QED
      BY <3>1 DEF Waiting
  <2>2. CASE t = Accept
    <3>1. accept.phase \in {"checking", "inserting"}
      BY <2>1, <2>2 DEF QueueInv
    <3>2. PICK c \in Incoming : accept.conn = {c} /\ link[c] # "none"
      BY <3>1 DEF ConnInv
    <3>3. link[c] \in {"open", "closed"}
      BY <3>2 DEF VarsInv, LinkOf, Conn
    <3> QED
      BY <2>2, <3>1, <3>2, <3>3
  <2>3. ASSUME NEW c \in Outgoing, t = Call(c) PROVE call[c] \in {"checking", "inserting"}
    BY <2>1, <2>3 DEF QueueInv
  <2>4. ASSUME NEW c \in Conn, t = Listener(c) PROVE listener[c] = "removing"
    BY <2>1, <2>4 DEF QueueInv
  <2> QED
    BY <2>1, <2>2, <2>3, <2>4 DEF Name
<1> QED
  BY <1>1, NetInvariant, PTL
=============================================================================
