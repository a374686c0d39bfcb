-------------------------------- MODULE Net --------------------------------
(***************************************************************************)
(* The table of peers of one node (src/net.rs) and the tasks that share it *)
(* (src/node.rs): calls of connect and disconnect, the task that accepts   *)
(* connections, a listener for each connection, the heartbeat, and the     *)
(* tasks that send requests to the peers while they hold the table.        *)
(*                                                                         *)
(* The table is behind one tokio RwLock, which serves in order of arrival: *)
(* a reader waits behind a writer that waits.  Whoever writes, or reads    *)
(* without awaiting anything, does so in the step in which it is served.   *)
(***************************************************************************)
EXTENDS Integers, Sequences, FiniteSets

CONSTANTS
    Outgoing,  \* bound: the connections that calls of connect make
    Incoming,  \* bound: the connections that arrive
    Together,  \* bound: the sets of connections that there are in one run
    Dropped,   \* bound: the connections that calls of disconnect name
    Addr,      \* connection -> its remote address
    Requester  \* the tasks that send requests: the sync task, and pushes

Conn == Outgoing \cup Incoming
Sync == "sync"

ASSUME ConnAssumption == Outgoing \cap Incoming = {} /\ Together \subseteq SUBSET Conn

VARIABLES
    peers,     \* the table: its connections
    link,      \* connection -> "none", "open" or "closed"
    queue,     \* the tasks that wait for the lock, in order
    readers,   \* the requesters that hold the lock for reading
    call,      \* outgoing connection -> where its call of connect is
    accept,    \* where the accepting task is, and with which connection
    listener,  \* connection -> its heart_beat_listen
    ended,     \* the tasks that have panicked
    asked,     \* requester -> the peer it awaits an answer from, or none
    beside     \* history: outgoing connection -> the calls in flight at its check

netVars == <<peers, link, queue, readers, call, accept, listener, ended, asked, beside>>

NetInit ==
    /\ peers = {}
    /\ link = [c \in Conn |-> "none"]
    /\ queue = <<>>
    /\ readers = {}
    /\ call = [c \in Outgoing |-> "idle"]
    /\ accept = [phase |-> "accepting", conn |-> {}]
    /\ listener = [c \in Conn |-> "off"]
    /\ ended = {}
    /\ asked = [r \in Requester |-> {}]
    /\ beside = [c \in Outgoing |-> {}]

Started == {c \in Conn : link[c] # "none"} \cup {c \in Outgoing : call[c] # "idle"}
MayStart(c) == \E S \in Together : Started \cup {c} \subseteq S

-----------------------------------------------------------------------------
(* The lock. *)

Call(c)       == <<"connect", c>>
Disconnect(c) == <<"disconnect", c>>
Listener(c)   == <<"listener", c>>
Accept        == <<"accept">>
HeartBeat     == <<"heart beat">>
Requests(r)   == <<"requests", r>>

Waiting(t) == \E i \in DOMAIN queue : queue[i] = t
Wait(t)    == queue' = Append(queue, t)

(* Mutant of ReadTurn: readers overtake a waiting writer. *)
ReadTurnFirst(t) ==
    \E i \in DOMAIN queue :
        /\ queue[i] = t
        /\ queue' = SubSeq(queue, 1, i - 1) \o SubSeq(queue, i + 1, Len(queue))

ReadTurn(t)  == queue # <<>> /\ Head(queue) = t /\ queue' = Tail(queue)

(* Mutant of WriteTurn: a writer does not wait for the readers. *)
WriteTurnReading(t) == ReadTurn(t)

WriteTurn(t) == ReadTurn(t) /\ readers = {}

(* The two listeners of a connection are spawned. *)
StartListening(c) == listener' = [listener EXCEPT ![c] = "reading"]

(* A connection to the same remote address is in the table. *)
Known(c) == \E p \in peers : Addr[p] = Addr[c]

-----------------------------------------------------------------------------
(* Net::connect, and the listeners that Node::connect starts after it. *)

ConnectCall(c) ==
    /\ call[c] = "idle" /\ MayStart(c)
    /\ call' = [call EXCEPT ![c] = "checking"]
    /\ Wait(Call(c))
    /\ UNCHANGED <<peers, link, readers, accept, listener, ended, asked, beside>>

(* The calls that have begun and not ended. *)
InFlight(d) == call[d] \in {"checking", "connecting", "inserting"}

(* Mutant of ConnectCheck: no peer's address is compared. *)
ConnectCheckNone(c) ==
    /\ call[c] = "checking"
    /\ ReadTurn(Call(c))
    /\ call' = [call EXCEPT ![c] = "connecting"]
    /\ beside' = [beside EXCEPT ![c] = {d \in Outgoing \ {c} : InFlight(d)}]
    /\ UNCHANGED <<peers, link, readers, accept, listener, ended, asked>>

ConnectCheck(c) ==
    /\ call[c] = "checking"
    /\ ReadTurn(Call(c))
    /\ call' = [call EXCEPT ![c] = IF Known(c) THEN "refused" ELSE "connecting"]
    /\ beside' = [beside EXCEPT ![c] = {d \in Outgoing \ {c} : InFlight(d)}]
    /\ UNCHANGED <<peers, link, readers, accept, listener, ended, asked>>

ConnectFails(c) ==
    /\ call[c] = "connecting"
    /\ call' = [call EXCEPT ![c] = "refused"]
    /\ UNCHANGED <<peers, link, queue, readers, accept, listener, ended, asked, beside>>

Connected(c) ==
    /\ call[c] = "connecting"
    /\ call' = [call EXCEPT ![c] = "inserting"]
    /\ link' = [link EXCEPT ![c] = "open"]
    /\ Wait(Call(c))
    /\ UNCHANGED <<peers, readers, accept, listener, ended, asked, beside>>

ConnectInsert(c) ==
    /\ call[c] = "inserting"
    /\ WriteTurn(Call(c))
    /\ peers' = peers \cup {c}
    /\ call' = [call EXCEPT ![c] = "connected"]
    /\ StartListening(c)
    /\ UNCHANGED <<link, readers, accept, ended, asked, beside>>

(* Net::disconnect takes the peer out of the table and leaves the connection,
   which the listeners also hold, open. *)
DisconnectCall(c) ==
    /\ c \in peers \cap Dropped /\ ~Waiting(Disconnect(c))
    /\ Wait(Disconnect(c))
    /\ UNCHANGED <<peers, link, readers, call, accept, listener, ended, asked, beside>>

DisconnectRemove(c) ==
    /\ WriteTurn(Disconnect(c))
    /\ peers' = peers \ {c}
    /\ UNCHANGED <<link, readers, call, accept, listener, ended, asked, beside>>

-----------------------------------------------------------------------------
(* The task that accepts connections. *)

Accepting(phase, c) == accept' = [phase |-> phase, conn |-> c]

Arrive(c) ==
    /\ accept.phase = "accepting" /\ link[c] = "none" /\ MayStart(c)
    /\ link' = [link EXCEPT ![c] = "open"]
    /\ Accepting("checking", {c})
    /\ Wait(Accept)
    /\ UNCHANGED <<peers, readers, call, listener, ended, asked, beside>>

(* The handshake fails: its error is unwrapped. *)
ArriveFails ==
    /\ accept.phase = "accepting"
    /\ Accepting("ended", {})
    /\ ended' = ended \cup {Accept}
    /\ UNCHANGED <<peers, link, queue, readers, call, listener, asked, beside>>

(* Mutant of AcceptCheck: a duplicate is closed and then taken all the same. *)
AcceptCheckTaking ==
    /\ accept.phase = "checking"
    /\ ReadTurn(Accept)
    /\ \E c \in accept.conn :
        /\ link' = [link EXCEPT ![c] = IF Known(c) THEN "closed" ELSE @]
        /\ StartListening(c)
        /\ Accepting("started", {c})
    /\ UNCHANGED <<peers, readers, call, ended, asked, beside>>

(* A duplicate is closed, and a closed connection is left; else the listeners
   are started. *)
AcceptCheck ==
    /\ accept.phase = "checking"
    /\ ReadTurn(Accept)
    /\ \E c \in accept.conn :
        \/ /\ Known(c) \/ link[c] = "closed"
           /\ link' = [link EXCEPT ![c] = "closed"]
           /\ Accepting("accepting", {})
           /\ UNCHANGED listener
        \/ /\ ~Known(c) /\ link[c] = "open"
           /\ StartListening(c)
           /\ Accepting("started", {c})
           /\ UNCHANGED link
    /\ UNCHANGED <<peers, readers, call, ended, asked, beside>>

(* Only now, the listeners running, does it wait to insert the peer. *)
AcceptWait ==
    /\ accept.phase = "started"
    /\ Accepting("inserting", accept.conn)
    /\ Wait(Accept)
    /\ UNCHANGED <<peers, link, readers, call, listener, ended, asked, beside>>

AcceptInsert ==
    /\ accept.phase = "inserting"
    /\ WriteTurn(Accept)
    /\ peers' = peers \cup accept.conn
    /\ Accepting("accepting", {})
    /\ UNCHANGED <<link, readers, call, listener, ended, asked, beside>>

-----------------------------------------------------------------------------
(* heart_beat_listen: it reads a datagram, stores the state it carries, and
   reads the next; or the connection has closed. *)

Close(c) ==
    /\ link[c] = "open"
    /\ link' = [link EXCEPT ![c] = "closed"]
    /\ UNCHANGED <<peers, queue, readers, call, accept, listener, ended, asked, beside>>

ListenerHears(c) ==
    /\ listener[c] = "reading"
    /\ listener' = [listener EXCEPT ![c] = "storing"]
    /\ UNCHANGED <<peers, link, queue, readers, call, accept, ended, asked, beside>>

(* The sync task holds the peer's state, which it has read, until its request
   and what it submits have ended. *)
StateHeld(c) == Sync \in Requester /\ c \in asked[Sync]

ListenerStores(c) ==
    /\ listener[c] = "storing" /\ ~StateHeld(c)
    /\ listener' = [listener EXCEPT ![c] = "reading"]
    /\ UNCHANGED <<peers, link, queue, readers, call, accept, ended, asked, beside>>

(* A datagram that is no state: the listener ends, and the peer stays. *)
ListenerFails(c) ==
    /\ listener[c] = "reading"
    /\ listener' = [listener EXCEPT ![c] = "failed"]
    /\ UNCHANGED <<peers, link, queue, readers, call, accept, ended, asked, beside>>

ListenerWait(c) ==
    /\ listener[c] = "reading" /\ link[c] = "closed"
    /\ listener' = [listener EXCEPT ![c] = "removing"]
    /\ Wait(Listener(c))
    /\ UNCHANGED <<peers, link, readers, call, accept, ended, asked, beside>>

(* Mutant of ListenerRemove: the listener ends, and the peer stays. *)
ListenerEnds(c) ==
    /\ WriteTurn(Listener(c))
    /\ listener' = [listener EXCEPT ![c] = "off"]
    /\ UNCHANGED <<peers, link, readers, call, accept, ended, asked, beside>>

ListenerRemove(c) ==
    /\ WriteTurn(Listener(c))
    /\ listener' = [listener EXCEPT ![c] = "off"]
    /\ peers' = peers \ {c}
    /\ UNCHANGED <<link, readers, call, accept, ended, asked, beside>>

-----------------------------------------------------------------------------
(* The heartbeat: a datagram to each peer, without awaiting; sending on a
   closed connection is an error, which is unwrapped. *)

HeartBeatWait ==
    /\ HeartBeat \notin ended /\ ~Waiting(HeartBeat)
    /\ Wait(HeartBeat)
    /\ UNCHANGED <<peers, link, readers, call, accept, listener, ended, asked, beside>>

HeartBeatSend ==
    /\ ReadTurn(HeartBeat)
    /\ ended' = IF \E p \in peers : link[p] = "closed" THEN ended \cup {HeartBeat} ELSE ended
    /\ UNCHANGED <<peers, link, readers, call, accept, listener, asked, beside>>

-----------------------------------------------------------------------------
(* The sync task, submit_transaction and peer_listen iterate over the table
   and await the answer to each request; the lock is held all the while. *)

RequestsWait(r) ==
    /\ r \notin readers /\ ~Waiting(Requests(r)) /\ Requests(r) \notin ended
    /\ Wait(Requests(r))
    /\ UNCHANGED <<peers, link, readers, call, accept, listener, ended, asked, beside>>

RequestsStart(r) ==
    /\ ReadTurn(Requests(r))
    /\ readers' = readers \cup {r}
    /\ UNCHANGED <<peers, link, call, accept, listener, ended, asked, beside>>

(* The sync task reads the peer's state first, behind a listener that waits to
   write it. *)
Ask(r, c) ==
    /\ r \in readers /\ asked[r] = {}
    /\ c \in peers
    /\ r = Sync => listener[c] # "storing"
    /\ asked' = [asked EXCEPT ![r] = {c}]
    /\ UNCHANGED <<peers, link, queue, readers, call, accept, listener, ended, beside>>

(* The request has been answered, and the block that the sync task was answered
   with has been submitted. *)
Answer(r) ==
    /\ asked[r] # {}
    /\ asked' = [asked EXCEPT ![r] = {}]
    /\ UNCHANGED <<peers, link, queue, readers, call, accept, listener, ended, beside>>

(* An error, of the connection, of the answer or of the submission: the sync
   task unwraps it, a push ends. *)
AskFails(r) ==
    /\ asked[r] # {}
    /\ asked' = [asked EXCEPT ![r] = {}]
    /\ readers' = readers \ {r}
    /\ ended' = IF r = Sync THEN ended \cup {Requests(r)} ELSE ended
    /\ UNCHANGED <<peers, link, queue, call, accept, listener, beside>>

RequestsDone(r) ==
    /\ r \in readers /\ asked[r] = {}
    /\ readers' = readers \ {r}
    /\ UNCHANGED <<peers, link, queue, call, accept, listener, ended, asked, beside>>

-----------------------------------------------------------------------------
ConnectStep(c)  == ConnectCheck(c) \/ Connected(c) \/ ConnectFails(c) \/ ConnectInsert(c)
AcceptStep      == AcceptCheck \/ AcceptWait \/ AcceptInsert
ListenerStep(c) ==
    ListenerHears(c) \/ ListenerStores(c) \/ ListenerFails(c) \/ ListenerWait(c) \/ ListenerRemove(c)
RequestStep(r)  ==
    RequestsWait(r) \/ RequestsStart(r) \/ Answer(r) \/ AskFails(r) \/ RequestsDone(r)

NetNext ==
    \/ \E c \in Outgoing : ConnectCall(c) \/ ConnectStep(c)
    \/ \E c \in Incoming : Arrive(c)
    \/ ArriveFails \/ AcceptStep
    \/ \E c \in Conn : DisconnectCall(c) \/ DisconnectRemove(c) \/ Close(c) \/ ListenerStep(c)
    \/ HeartBeatWait \/ HeartBeatSend
    \/ \E r \in Requester : RequestStep(r) \/ \E c \in peers : Ask(r, c)

NetSpec == NetInit /\ [][NetNext]_netVars

(* The runtime schedules every task that is ready, a handshake ends, a closed
   connection has a last datagram, and an iteration over the table that awaits
   nothing comes to its end.  Nothing makes a connection close, arrive or be
   asked for, and nothing makes a request end: read_to_end has no time limit. *)
FairNetSpec ==
    /\ NetSpec
    /\ \A c \in Outgoing : WF_netVars(ConnectStep(c))
    /\ \A c \in Conn : /\ WF_netVars(ListenerStores(c)) /\ SF_netVars(ListenerWait(c))
                       /\ WF_netVars(ListenerRemove(c)) /\ WF_netVars(DisconnectRemove(c))
    /\ WF_netVars(AcceptStep) /\ WF_netVars(HeartBeatWait) /\ WF_netVars(HeartBeatSend)
    /\ \A r \in Requester : WF_netVars(RequestsStart(r)) /\ SF_netVars(RequestsDone(r))

-----------------------------------------------------------------------------
(* Properties. *)

NetTypeOK ==
    /\ peers \subseteq {c \in Conn : link[c] # "none"}
    /\ readers \subseteq Requester
    /\ \A i, j \in DOMAIN queue : queue[i] = queue[j] => i = j
    /\ \A c \in Outgoing : call[c] \in {"checking", "inserting"} <=> Waiting(Call(c))
    /\ accept.phase \in {"checking", "inserting"} <=> Waiting(Accept)
    /\ \A c \in Conn : listener[c] = "removing" <=> Waiting(Listener(c))
    /\ \A r \in Requester : asked[r] # {} => r \in readers /\ asked[r] \subseteq peers

(* The accepting task is one, checks before it inserts, and nobody else inserts
   what it accepts: the accepted peers have different addresses, whatever the
   listeners and callers do to the table between its check and its insertion. *)
AcceptedApart ==
    \A c, d \in peers \cap Incoming : Addr[c] = Addr[d] => c = d

(* connect refuses an address that is connected already, and does not look
   again when it inserts: two of its connections to one address are in the table
   only if the one call was in flight when the other checked. *)
ConnectedApart ==
    \A c, d \in peers \cap Outgoing :
        c # d /\ Addr[c] = Addr[d] => c \in beside[d] \/ d \in beside[c]

(* No request is awaited for ever.  The code does not see to it: a peer whose
   peer_listen has ended keeps the connection open and never answers. *)
RequestsEnd == \A r \in Requester : []<>(asked[r] = {})

(* A peer whose connection has closed leaves the table, if requests end, with two
   exceptions: an accepted one whose listener had removed it before it was
   inserted, and one whose listener an unreadable datagram has ended. *)
Listens(c) == listener[c] \in {"reading", "storing", "removing"}

ClosedPeersLeave ==
    RequestsEnd =>
        \A c \in Conn : (c \in peers /\ link[c] = "closed" /\ Listens(c))
                            ~> (c \notin peers \/ listener[c] = "failed")

(* If requests end, nobody waits for the table for ever, though requests to
   peers are awaited while it is held. *)
EveryoneServed ==
    RequestsEnd =>
        \A t \in {Accept, HeartBeat} \cup {Call(c) : c \in Outgoing} \cup {Listener(c) : c \in Conn} :
            Waiting(t) ~> ~Waiting(t)
=============================================================================
