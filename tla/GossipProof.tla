----------------------------- MODULE GossipProof -----------------------------
(***************************************************************************)
(* Theorems about Gossip, for any set of networks and transactions.        *)
(*                                                                         *)
(* A task that awaits an answer is in one place: its request waits in the  *)
(* inbox of the listener it asked, or is what that listener handles.  So   *)
(* an answer, or the end of a listener, reaches exactly one task.          *)
(*                                                                         *)
(* A node with a transaction has a task that will still reach each peer    *)
(* that lacks it, or somebody failed and the call will know: this holds at *)
(* every step (PushInv), so when the call has returned without an error,   *)
(* and with it all tasks that hang on it, nobody lacks the transaction.    *)
(*                                                                         *)
(* The last part is about networks without cycles whose nodes agree, where *)
(* pushes do not fail and do come to an end.                               *)
(***************************************************************************)
EXTENDS Gossip, SequenceTheorems, TLAPS

Phases == {"idle", "pushing", "failing", "ended", "ok", "err"}

(* The record of a task that pushes. *)
Job == [phase : {"pushing", "failing"}, tx : Tx, from : Task,
        left : SUBSET Node, asked : SUBSET Node]

(* The task k has asked the peer whose listener is l, and awaits it. *)
Awaits(k, l) == k \in Task /\ IsPushing(k) /\ job[k].asked = {l[1]} /\ k[1] = l[2]

TaskOK(k) ==
    /\ job[k].phase \in Phases
    /\ Active(k) => /\ job[k] \in Job
                    /\ job[k].tx \in transactions[k[1]]
                    /\ job[k].left \cup job[k].asked \subseteq Peers(k[1])

ListenerOK(l) ==
    Active(l) => /\ l \in network.link
                 /\ job[l].left \cup job[l].asked \subseteq Receivers(l)
                 /\ Awaits(job[l].from, l)
                 /\ \A i \in DOMAIN inbox[l] : inbox[l][i] # job[l].from

InboxOK(l) ==
    \A i \in DOMAIN inbox[l] :
        /\ l \in network.link
        /\ Awaits(inbox[l][i], l)
        /\ \A j \in DOMAIN inbox[l] : inbox[l][i] = inbox[l][j] => i = j

GossipInv ==
    /\ network \in Network
    /\ transactions \in [Node -> SUBSET Tx]
    /\ job = [k \in Task |-> job[k]]
    /\ inbox \in [Link -> Seq(Task)]
    /\ \A k \in Task : TaskOK(k)
    /\ \A l \in Link : ListenerOK(l) /\ InboxOK(l)

(* The ends of a connection are two nodes; a call is no listener. *)
LEMMA Tasks ==
    /\ \A l \in Link : l = <<l[1], l[2]>> /\ l[1] \in Node /\ l[2] \in Node /\ l[1] # l[2]
    /\ \A t \in Tx : Call(t) \in Calls /\ Call(t)[1] = Origin[t] /\ Origin[t] \in Node
    /\ Calls \cap Link = {}
    /\ Calls \subseteq Task /\ Link \subseteq Task
    /\ \A k \in Task : k[1] \in Node
<1>1. \A l \in Link : l = <<l[1], l[2]>> /\ l[1] \in Node /\ l[2] \in Node /\ l[1] # l[2]
  <2> SUFFICES ASSUME NEW w \in Network, NEW l \in w.link
               PROVE  l = <<l[1], l[2]>> /\ l[1] \in Node /\ l[2] \in Node /\ l[1] # l[2]
    BY DEF Link
  <2>1. l \in Node \X Node
    BY NetworkAssumption
  <2>2. l = <<l[1], l[2]>> /\ l[1] \in Node /\ l[2] \in Node
    BY <2>1
  <2>3. QED
    BY <2>2, NetworkAssumption
<1>2. \A t \in Tx : Call(t) \in Calls /\ Call(t)[1] = Origin[t] /\ Call(t)[2] = t /\ Origin[t] \in Node
  BY TxAssumption DEF Call, Calls
<1>3. Calls \cap Link = {}
  BY <1>1, <1>2, TxAssumption DEF Calls
<1>4. \A k \in Task : k[1] \in Node
  BY <1>1, <1>2 DEF Task, Calls
<1>5. QED
  BY <1>1, <1>2, <1>3, <1>4 DEF Task

(* A task awaits one listener. *)
LEMMA OnePlace ==
    ASSUME NEW k, NEW l \in Link, NEW m \in Link, Awaits(k, l), Awaits(k, m)
    PROVE  l = m
<1>1. l[1] = m[1] /\ l[2] = m[2]
  BY DEF Awaits
<1>2. l = <<l[1], l[2]>> /\ m = <<m[1], m[2]>>
  BY Tasks
<1>3. QED
  BY <1>1, <1>2

(* A step that changes the tasks in R, and leaves nobody else waiting for what
   they did, preserves the invariant if they and the inboxes are as they
   should be. *)
LEMMA Others ==
    ASSUME GossipInv, NEW R \in SUBSET Task,
           network' = network,
           transactions' \in [Node -> SUBSET Tx],
           \A n \in Node : transactions[n] \subseteq transactions'[n],
           job' = [k \in Task |-> job'[k]],
           \A k \in Task \ R : job'[k] = job[k],
           inbox' \in [Link -> Seq(Task)],
           \A k \in R : TaskOK(k)',
           \A l \in R \cap Link : ListenerOK(l)',
           \A l \in Link \ R : Active(l) =>
               job[l].from \notin R /\ \A i \in DOMAIN inbox'[l] : inbox'[l][i] # job[l].from,
           \A l \in Link : InboxOK(l)'
    PROVE  GossipInv'
<1>1. ASSUME NEW k \in Task \ R PROVE TaskOK(k)'
  <2>1. k[1] \in Node
    BY Tasks
  <2>2. job'[k] = job[k] /\ TaskOK(k)
    BY DEF GossipInv
  <2>3. QED
    BY <2>1, <2>2 DEF TaskOK, Active, Peers
<1>2. ASSUME NEW l \in Link \ R PROVE ListenerOK(l)'
  <2>1. l \in Task \ R /\ ListenerOK(l) /\ job'[l] = job[l]
    BY Tasks DEF GossipInv
  <2>2. Active(l)' => Active(l)
    BY <2>1 DEF Active
  <2>3. ASSUME Active(l) PROVE Awaits(job[l].from, l)'
    <3>1. Awaits(job[l].from, l) /\ job[l].from \notin R
      BY <2>1, <2>3 DEF ListenerOK
    <3>2. job'[job[l].from] = job[job[l].from]
      BY <3>1 DEF Awaits
    <3>3. QED
      BY <2>1, <3>1, <3>2 DEF Awaits, IsPushing
  <2>4. QED
    BY <2>1, <2>2, <2>3 DEF ListenerOK, Receivers, Peers
<1>3. QED
  BY <1>1, <1>2 DEF GossipInv

(* An inbox that does not change is as it should be, if none of those that wait
   in it is changed. *)
LEMMA SameInbox ==
    ASSUME GossipInv, NEW R, NEW l \in Link, network' = network, inbox'[l] = inbox[l],
           \A k \in Task \ R : job'[k] = job[k],
           \A i \in DOMAIN inbox[l] : inbox[l][i] \notin R
    PROVE  InboxOK(l)'
<1>1. InboxOK(l)
  BY DEF GossipInv
<1>2. ASSUME NEW i \in DOMAIN inbox[l] PROVE Awaits(inbox[l][i], l)'
  <2>1. inbox[l][i] \in Task \ R /\ Awaits(inbox[l][i], l)
    BY <1>1 DEF InboxOK, Awaits
  <2>2. job'[inbox[l][i]] = job[inbox[l][i]]
    BY <2>1
  <2>3. QED
    BY <2>1, <2>2 DEF Awaits, IsPushing
<1>3. QED
  BY <1>1, <1>2 DEF InboxOK

(* A call that begins is awaited by nobody, and asks nobody yet. *)
LEMMA SubmitKeeps == ASSUME GossipInv, NEW t \in Tx, Submit(t) PROVE GossipInv'
<1> DEFINE c == Call(t)
<1>1. c \in Task /\ c \notin Link /\ job[c] = Idle /\ c[1] = Origin[t] /\ Origin[t] \in Node
  BY Tasks DEF Submit
<1>2. PICK r : /\ job' = [job EXCEPT ![c] = r]
               /\ \/ r = Err
                  \/ r = Pushing(t, c, Peers(Origin[t])) /\ t \in transactions'[c[1]]
  <2>1. TakeInto(Origin[t], t) => t \in transactions'[c[1]]
    BY <1>1 DEF TakeInto, GossipInv
  <2>2. \/ job' = [job EXCEPT ![c] = Pushing(t, c, Peers(Origin[t]))] /\ TakeInto(Origin[t], t)
        \/ job' = [job EXCEPT ![c] = Err]
    BY DEF Submit
  <2>3. QED
    BY <2>1, <2>2
<1>3. /\ network' = network /\ inbox' = inbox
      /\ transactions' \in [Node -> SUBSET Tx]
      /\ \A n \in Node : transactions[n] \subseteq transactions'[n]
  <2>1. transactions' = transactions \/ TakeInto(Origin[t], t)
    BY DEF Submit
  <2>2. transactions \in [Node -> SUBSET Tx]
    BY DEF GossipInv
  <2>3. /\ transactions' \in [Node -> SUBSET Tx]
        /\ \A n \in Node : transactions[n] \subseteq transactions'[n]
    BY <1>1, <2>1, <2>2 DEF TakeInto
  <2>4. QED
    BY <2>3 DEF Submit
<1>4. /\ job' = [k \in Task |-> job'[k]]
      /\ \A k \in Task \ {c} : job'[k] = job[k]
      /\ job'[c] = r
  BY <1>1, <1>2 DEF GossipInv
<1>5. Peers(c[1]) \subseteq Node
  BY DEF Peers
<1>6. TaskOK(c)'
  <2>1. CASE r = Err
    BY <1>4, <2>1 DEF TaskOK, Active, Err, Phases
  <2>2. CASE r = Pushing(t, c, Peers(Origin[t])) /\ t \in transactions'[c[1]]
    BY <1>1, <1>3, <1>4, <1>5, <2>2 DEF TaskOK, Active, Pushing, Phases, Job, Peers
  <2>3. QED
    BY <1>2, <2>1, <2>2
<1>7. \A k \in Task, l \in Link : Awaits(k, l) => k # c
  BY <1>1 DEF Awaits, IsPushing, Idle
<1>8. ASSUME NEW l \in Link PROVE InboxOK(l)' /\ ListenerOK(l)
  <2>1. ListenerOK(l) /\ InboxOK(l)
    BY DEF GossipInv
  <2>2. \A i \in DOMAIN inbox[l] : inbox[l][i] \notin {c}
    BY <1>7, <2>1 DEF InboxOK, Awaits
  <2>3. QED
    BY <1>3, <1>4, <2>1, <2>2, SameInbox
<1>9. \A l \in Link \ {c} : Active(l) =>
          job[l].from \notin {c} /\ \A i \in DOMAIN inbox'[l] : inbox'[l][i] # job[l].from
  BY <1>3, <1>7, <1>8 DEF ListenerOK, Awaits
<1>10. inbox' \in [Link -> Seq(Task)]
  BY <1>3 DEF GossipInv
<1> HIDE DEF c
<1>11. QED
  BY <1>1, <1>3, <1>4, <1>6, <1>8, <1>9, <1>10, Others

(* A request is put into one inbox, where it was not: its sender awaited nobody. *)
LEMMA AskKeeps == ASSUME GossipInv, NEW k \in Task, Ask(k) PROVE GossipInv'
<1>1. /\ job[k].phase = "pushing" /\ job[k] \in Job /\ job[k].asked = {} /\ TaskOK(k)
      /\ k[1] \in Node
  BY Tasks DEF Ask, GossipInv, TaskOK, Active, IsPushing
<1>2. PICK p \in job[k].left :
          /\ job' = [job EXCEPT ![k].asked = {p}, ![k].left = @ \ {p}]
          /\ inbox' = [inbox EXCEPT ![<<p, k[1]>>] = Append(@, k)]
  BY DEF Ask
<1> DEFINE r == [job[k] EXCEPT !.asked = {p}, !.left = @ \ {p}]
           m == <<p, k[1]>>
<1>3. /\ r \in Job /\ r.phase = "pushing" /\ r.asked = {p} /\ r.left = job[k].left \ {p}
      /\ r.tx = job[k].tx /\ r.from = job[k].from
  BY <1>1 DEF Job
<1>4. /\ network' = network /\ transactions' = transactions
      /\ job' = [a \in Task |-> IF a = k THEN r ELSE job[a]]
  BY <1>2 DEF Ask, GossipInv
<1>5. m \in network.link /\ m \in Link /\ m[1] = p /\ m[2] = k[1]
  <2>1. p \in Node /\ <<k[1], p>> \in network.link
    BY <1>1 DEF TaskOK, Active, Peers
  <2>2. m \in network.link
    BY <1>1, <2>1, NetworkAssumption DEF GossipInv
  <2>3. QED
    BY <2>2 DEF Link, GossipInv
<1>6. \A a \in Task, l \in Link : Awaits(a, l) => a # k
  BY <1>1 DEF Awaits
<1>7. /\ job' = [a \in Task |-> job'[a]]
      /\ \A a \in Task \ {k} : job'[a] = job[a]
      /\ job'[k] = r
  BY <1>4
<1> HIDE DEF r
<1>8. TaskOK(k)'
  BY <1>1, <1>3, <1>4, <1>7 DEF TaskOK, Active, Phases, Peers
<1>9. inbox[m] \in Seq(Task) /\ inbox'[m] = Append(inbox[m], k)
  BY <1>2, <1>5 DEF GossipInv
<1>10. /\ inbox' \in [Link -> Seq(Task)]
       /\ \A l \in Link \ {m} : inbox'[l] = inbox[l]
       /\ DOMAIN inbox'[m] = 1 .. Len(inbox[m]) + 1
       /\ \A i \in 1 .. Len(inbox[m]) : inbox'[m][i] = inbox[m][i]
       /\ inbox'[m][Len(inbox[m]) + 1] = k
  <2>1. /\ inbox'[m] \in Seq(Task) /\ Len(inbox'[m]) = Len(inbox[m]) + 1
        /\ \A i \in 1 .. Len(inbox[m]) : inbox'[m][i] = inbox[m][i]
        /\ inbox'[m][Len(inbox[m]) + 1] = k
    BY <1>9, AppendProperties
  <2>2. inbox' = [l \in Link |-> IF l = m THEN inbox'[m] ELSE inbox[l]]
    BY <1>2, <1>5, <1>9 DEF GossipInv
  <2> HIDE DEF m
  <2>3. inbox' \in [Link -> Seq(Task)] /\ \A l \in Link \ {m} : inbox'[l] = inbox[l]
    BY <2>1, <2>2 DEF GossipInv
  <2>4. QED
    BY <2>1, <2>3
<1>11. DOMAIN inbox[m] = 1 .. Len(inbox[m]) /\ Len(inbox[m]) \in Nat
  BY <1>9
<1>12. ASSUME NEW l \in Link PROVE \A i \in DOMAIN inbox[l] : inbox[l][i] \in Task \ {k}
  BY <1>6 DEF GossipInv, InboxOK, Awaits
<1>13. ASSUME NEW l \in Link PROVE InboxOK(l)'
  <2>1. CASE l # m
    BY <1>4, <1>7, <1>10, <1>12, <2>1, SameInbox
  <2>2. CASE l = m
    <3>1. InboxOK(m)
      BY <1>5 DEF GossipInv
    <3>2. Awaits(k, m)'
      BY <1>3, <1>5, <1>7 DEF Awaits, IsPushing
    <3>3. ASSUME NEW a \in Task \ {k}, Awaits(a, m) PROVE Awaits(a, m)'
      BY <1>7, <3>3 DEF Awaits, IsPushing
    <3>4. \A i \in DOMAIN inbox[m] : inbox[m][i] \in Task \ {k} /\ Awaits(inbox[m][i], m)
      BY <1>5, <1>12, <3>1 DEF InboxOK
    <3> HIDE DEF m
    <3>5. \A i, j \in DOMAIN inbox'[m] : inbox'[m][i] = inbox'[m][j] => i = j
      <4> DEFINE n == Len(inbox[m])
      <4>1. \A i, j \in 1 .. n : inbox[m][i] = inbox[m][j] => i = j
        BY <1>11, <3>1 DEF InboxOK
      <4>2. \A i \in 1 .. n : inbox'[m][i] = inbox[m][i] /\ inbox[m][i] # k
        BY <1>10, <1>11, <3>4
      <4>3. n \in Nat /\ DOMAIN inbox'[m] = 1 .. n + 1 /\ inbox'[m][n + 1] = k
        BY <1>10, <1>11
      <4> HIDE DEF n
      <4>4. \A i, j \in 1 .. n + 1 : inbox'[m][i] = inbox'[m][j] => i = j
        <5> SUFFICES ASSUME NEW i \in 1 .. n + 1, NEW j \in 1 .. n + 1, inbox'[m][i] = inbox'[m][j]
                     PROVE  i = j
          OBVIOUS
        <5>1. i \in 1 .. n \/ i = n + 1
          BY <4>3
        <5>2. j \in 1 .. n \/ j = n + 1
          BY <4>3
        <5>3. QED
          BY <4>1, <4>2, <4>3, <5>1, <5>2
      <4>5. QED
        BY <4>3, <4>4
    <3>6. ASSUME NEW i \in DOMAIN inbox'[m], NEW a, a = inbox'[m][i] PROVE Awaits(a, m)'
      <4>1. CASE i = Len(inbox[m]) + 1
        BY <1>10, <3>2, <3>6, <4>1
      <4>2. CASE i # Len(inbox[m]) + 1
        <5>1. a \in Task \ {k} /\ Awaits(a, m)
          BY <1>10, <1>11, <3>4, <3>6, <4>2
        <5>2. QED
          BY <3>3, <5>1
      <4>3. QED
        BY <4>1, <4>2
    <3>7. ASSUME NEW i \in DOMAIN inbox'[m] PROVE Awaits(inbox[m][i], m)'
      BY <3>6 DEF Awaits, IsPushing
    <3>8. QED
      BY <1>4, <1>5, <2>2, <3>5, <3>7 DEF InboxOK
  <2>3. QED
    BY <2>1, <2>2
<1>14. ASSUME NEW l \in Link \ {k}, Active(l)
       PROVE  job[l].from \notin {k} /\ \A i \in DOMAIN inbox'[l] : inbox'[l][i] # job[l].from
  <2>1. Awaits(job[l].from, l) /\ \A i \in DOMAIN inbox[l] : inbox[l][i] # job[l].from
    BY <1>14 DEF GossipInv, ListenerOK
  <2>2. job[l].from # k
    BY <1>6, <2>1 DEF Awaits
  <2> HIDE DEF m
  <2>3. QED
    BY <1>10, <1>11, <2>1, <2>2
<1>15. ASSUME k \in Link PROVE ListenerOK(k)'
  <2>1. ListenerOK(k) /\ Active(k)
    BY <1>1, <1>15 DEF GossipInv, Active
  <2>2. Awaits(job[k].from, k) /\ job[k].from # k
    BY <1>6, <1>15, <2>1 DEF ListenerOK, Awaits
  <2>3. Awaits(job[k].from, k)'
    <3>1. job'[k].from = job[k].from /\ job[k].from \in Task
      BY <1>3, <1>7, <2>2 DEF Awaits
    <3>2. job'[job[k].from] = job[job[k].from]
      BY <1>7, <2>2, <3>1
    <3>3. QED
      BY <2>2, <3>1, <3>2 DEF Awaits, IsPushing
  <2>4. inbox'[k] = inbox[k]
    BY <1>5, <1>10, <1>15, Tasks
  <2>5. r.left \cup r.asked \subseteq Receivers(k)
    BY <1>1, <1>3, <2>1 DEF ListenerOK
  <2>6. QED
    BY <1>3, <1>4, <1>7, <2>1, <2>3, <2>4, <2>5 DEF ListenerOK, Receivers, Peers
<1> HIDE DEF m
<1>16. /\ transactions' \in [Node -> SUBSET Tx]
       /\ \A n \in Node : transactions[n] \subseteq transactions'[n]
       /\ \A a \in {k} : TaskOK(a)'
       /\ \A l \in {k} \cap Link : ListenerOK(l)'
       /\ {k} \in SUBSET Task
  BY <1>4, <1>8, <1>15 DEF GossipInv
<1>17. QED
  BY <1>4, <1>7, <1>10, <1>13, <1>14, <1>16, Others

(* The request that a listener accepts. *)
LEMMA Accepted ==
    ASSUME GossipInv, NEW l \in Link, Accept(l)
    PROVE  LET k == Head(inbox[l])
           IN  /\ k \in Task \ {l} /\ Awaits(k, l) /\ l \in network.link
               /\ job[k] \in Job /\ job[k].phase = "pushing" /\ TaskOK(k)
               /\ inbox' \in [Link -> Seq(Task)]
               /\ \A m \in Link \ {l} : inbox'[m] = inbox[m]
               /\ \A i \in DOMAIN inbox'[l] :
                     /\ i + 1 \in DOMAIN inbox[l] /\ inbox'[l][i] = inbox[l][i + 1]
                     /\ inbox'[l][i] # k
<1> DEFINE q == inbox[l]
           k == Head(q)
<1>1. q \in Seq(Task) /\ q # <<>> /\ InboxOK(l)
  BY DEF Accept, GossipInv
<1>2. /\ Len(q) \in Nat \ {0} /\ DOMAIN q = 1 .. Len(q) /\ k = q[1] /\ 1 \in DOMAIN q
      /\ Tail(q) \in Seq(Task) /\ DOMAIN Tail(q) = 1 .. Len(q) - 1
      /\ \A i \in 1 .. Len(q) - 1 : Tail(q)[i] = q[i + 1]
  BY <1>1
<1>3. Awaits(k, l) /\ l \in network.link
  BY <1>1, <1>2 DEF InboxOK
<1>4. k \in Task \ {l} /\ job[k].phase = "pushing"
  BY <1>3, Tasks DEF Awaits, IsPushing
<1>5. TaskOK(k) /\ job[k] \in Job
  BY <1>4 DEF GossipInv, TaskOK, Active
<1>6. inbox' = [m \in Link |-> IF m = l THEN Tail(q) ELSE inbox[m]]
  BY DEF Accept, GossipInv
<1>7. inbox' \in [Link -> Seq(Task)] /\ \A m \in Link \ {l} : inbox'[m] = inbox[m]
  BY <1>2, <1>6 DEF GossipInv
<1>8. ASSUME NEW i \in DOMAIN inbox'[l]
      PROVE  i + 1 \in DOMAIN q /\ inbox'[l][i] = q[i + 1] /\ inbox'[l][i] # k
  <2>1. i \in 1 .. Len(q) - 1 /\ inbox'[l][i] = q[i + 1]
    BY <1>2, <1>6
  <2>2. i + 1 \in DOMAIN q /\ i + 1 # 1
    BY <1>2, <2>1
  <2>3. q[i + 1] # q[1]
    BY <1>1, <1>2, <2>2 DEF InboxOK
  <2>4. QED
    BY <1>2, <2>1, <2>2, <2>3
<1>9. QED
  BY <1>3, <1>4, <1>5, <1>7, <1>8

(* When a listener has accepted a request, and its sender and itself are all
   that changes, the inboxes are as they should be. *)
LEMMA AcceptedInboxes ==
    ASSUME GossipInv, NEW l \in Link, Accept(l),
           \A a \in Task \ {l, Head(inbox[l])} : job'[a] = job[a]
    PROVE  /\ \A m \in Link : InboxOK(m)'
           /\ \A m \in Link \ {l} : Active(m) =>
                 /\ job[m].from \notin {l, Head(inbox[l])}
                 /\ \A i \in DOMAIN inbox'[m] : inbox'[m][i] # job[m].from
<1> DEFINE k == Head(inbox[l])
<1>1. /\ k \in Task \ {l} /\ Awaits(k, l) /\ l \in network.link
      /\ \A m \in Link \ {l} : inbox'[m] = inbox[m]
      /\ \A i \in DOMAIN inbox'[l] :
            /\ i + 1 \in DOMAIN inbox[l] /\ inbox'[l][i] = inbox[l][i + 1]
            /\ inbox'[l][i] # k
  BY Accepted
<1>2. job[l].phase = "idle" /\ network' = network
  BY DEF Accept, Idle
<1>3. inbox[l] \in Seq(Task)
  BY DEF GossipInv
<1> HIDE DEF k
<1>4. ASSUME NEW m \in Link \ {l}, NEW a, Awaits(a, m) PROVE a \in Task \ {l, k}
  <2>1. a # l
    BY <1>2, <1>4 DEF Awaits, IsPushing
  <2>2. a # k
    BY <1>1, <1>4, OnePlace
  <2>3. QED
    BY <1>4, <2>1, <2>2 DEF Awaits
<1>5. ASSUME NEW m \in Link \ {l} PROVE InboxOK(m)'
  <2>1. InboxOK(m)
    BY DEF GossipInv
  <2>2. \A i \in DOMAIN inbox[m] : inbox[m][i] \notin {l, k}
    BY <1>4, <2>1 DEF InboxOK
  <2>3. QED
    BY <1>1, <1>2, <2>2, SameInbox DEF k
<1>6. InboxOK(l)'
  <2>1. InboxOK(l)
    BY DEF GossipInv
  <2>2. ASSUME NEW i \in DOMAIN inbox'[l], NEW a, a = inbox'[l][i]
        PROVE  Awaits(a, l)'
    <3>1. Awaits(a, l) /\ a # k
      BY <1>1, <2>1, <2>2 DEF InboxOK
    <3>2. a \in Task \ {l, k}
      BY <1>2, <3>1 DEF Awaits, IsPushing
    <3>3. job'[a] = job[a]
      BY <3>2 DEF k
    <3>4. QED
      BY <3>1, <3>3 DEF Awaits, IsPushing
  <2>3. ASSUME NEW i \in DOMAIN inbox'[l], NEW j \in DOMAIN inbox'[l], inbox'[l][i] = inbox'[l][j]
        PROVE  i = j
    <3>1. i + 1 \in DOMAIN inbox[l] /\ j + 1 \in DOMAIN inbox[l] /\ inbox[l][i + 1] = inbox[l][j + 1]
      BY <1>1, <2>3
    <3>2. i + 1 = j + 1
      BY <2>1, <3>1 DEF InboxOK
    <3>3. inbox'[l] \in Seq(Task)
      BY Accepted DEF k
    <3>4. i \in Nat /\ j \in Nat
      BY <3>3
    <3>5. QED
      BY <3>2, <3>4
  <2>4. ASSUME NEW i \in DOMAIN inbox'[l] PROVE Awaits(inbox[l][i], l)'
    BY <2>2 DEF Awaits, IsPushing
  <2>5. QED
    BY <1>1, <1>2, <2>3, <2>4 DEF InboxOK
<1>7. ASSUME NEW m \in Link \ {l}, Active(m)
      PROVE  job[m].from \notin {l, k} /\ \A i \in DOMAIN inbox'[m] : inbox'[m][i] # job[m].from
  <2>1. Awaits(job[m].from, m) /\ \A i \in DOMAIN inbox[m] : inbox[m][i] # job[m].from
    BY <1>7 DEF GossipInv, ListenerOK
  <2>2. QED
    BY <1>1, <1>4, <2>1
<1>8. QED
  BY <1>5, <1>6, <1>7 DEF k

(* A task that awaited an answer, and gets one or none, stays as it should be. *)
LEMMA Told ==
    ASSUME GossipInv, NEW k \in Task, NEW l \in Link, Awaits(k, l),
           network' = network,
           \A n \in Node : transactions[n] \subseteq transactions'[n],
           \/ job'[k] = [job[k] EXCEPT !.asked = {}]
           \/ job'[k] = [job[k] EXCEPT !.phase = "failing"],
           k \in Link => inbox'[k] = inbox[k],
           \A a \in Task \ {k} : job[a].phase = "pushing" /\ job[a].asked # {}
               => job'[a] = job[a]
    PROVE  /\ TaskOK(k)'
           /\ k \in Link => ListenerOK(k)'
<1>1. job[k].phase = "pushing" /\ job[k] \in Job /\ TaskOK(k) /\ Active(k) /\ k[1] \in Node
  BY Tasks DEF Awaits, GossipInv, TaskOK, Active, IsPushing
<1>2. /\ job'[k] \in Job /\ job'[k].tx = job[k].tx /\ job'[k].from = job[k].from
      /\ job'[k].left = job[k].left /\ job'[k].asked \subseteq job[k].asked
      /\ job'[k].phase \in {"pushing", "failing"}
  BY <1>1 DEF Job
<1>3. TaskOK(k)'
  BY <1>1, <1>2 DEF TaskOK, Active, Phases, Peers
<1>4. ASSUME k \in Link PROVE ListenerOK(k)'
  <2>1. /\ k \in network.link /\ job[k].left \cup job[k].asked \subseteq Receivers(k)
        /\ Awaits(job[k].from, k)
        /\ \A i \in DOMAIN inbox[k] : inbox[k][i] # job[k].from
    BY <1>1, <1>4 DEF GossipInv, ListenerOK
  <2>2. job[k].from \in Task \ {k} /\ job'[job[k].from] = job[job[k].from]
    BY <1>4, <2>1, Tasks DEF Awaits, IsPushing
  <2>3. Awaits(job[k].from, k)'
    BY <1>2, <2>1, <2>2 DEF Awaits, IsPushing
  <2>4. QED
    BY <1>2, <1>4, <2>1, <2>3 DEF ListenerOK, Receivers, Peers
<1>5. QED
  BY <1>3, <1>4

(* The request leaves the inbox for the listener, or the listener ends and its
   sender is told. *)
LEMMA AcceptKeeps == ASSUME GossipInv, NEW l \in Link, Accept(l) PROVE GossipInv'
<1>a. PICK k \in Task : k = Head(inbox[l])
  BY Accepted
<1>b. PICK t \in Tx : t = job[k].tx
  BY <1>a, Accepted DEF Job
<1>1. /\ k \in Task \ {l} /\ Awaits(k, l) /\ l \in network.link
      /\ job[k] \in Job /\ job[k].phase = "pushing" /\ TaskOK(k)
      /\ inbox' \in [Link -> Seq(Task)]
      /\ \A m \in Link \ {l} : inbox'[m] = inbox[m]
      /\ \A i \in DOMAIN inbox'[l] : inbox'[l][i] # k
  BY <1>a, Accepted
<1>2. /\ job[l].phase = "idle" /\ network' = network /\ l \in Task
      /\ l[1] \in Node /\ l[2] \in Node /\ k[1] = l[2]
  BY <1>1, Tasks DEF Accept, Idle, Awaits
<1>4. \/ job' = Answered([job EXCEPT ![l] = Ended], k) /\ transactions' = transactions
      \/ job' = Failed([job EXCEPT ![l] = Ended], k) /\ transactions' = transactions
      \/ job' = [job EXCEPT ![l] = Pushing(t, k, Receivers(l))] /\ TakeInto(l[1], t)
  BY <1>a, <1>b DEF Accept
<1>5. /\ transactions' \in [Node -> SUBSET Tx]
      /\ \A n \in Node : transactions[n] \subseteq transactions'[n]
      /\ TakeInto(l[1], t) => t \in transactions'[l[1]]
  BY <1>2, <1>4 DEF TakeInto, GossipInv
<1> DEFINE Rest == \A a \in Task \ {l, k} : job'[a] = job[a]
<1>6. ASSUME job' = [a \in Task |-> job'[a]], Rest, TaskOK(l)', ListenerOK(l)',
             TaskOK(k)', k \in Link => ListenerOK(k)'
      PROVE  GossipInv'
  <2>1. /\ \A m \in Link : InboxOK(m)'
        /\ \A m \in Link \ {l, k} : Active(m) =>
              job[m].from \notin {l, k} /\ \A i \in DOMAIN inbox'[m] : inbox'[m][i] # job[m].from
    BY <1>a, <1>6, AcceptedInboxes
  <2>2. /\ {l, k} \in SUBSET Task
        /\ \A a \in {l, k} : TaskOK(a)'
        /\ \A m \in {l, k} \cap Link : ListenerOK(m)'
    BY <1>1, <1>2, <1>6
  <2>3. QED
    BY <1>1, <1>2, <1>5, <1>6, <2>1, <2>2, Others
<1>7. ASSUME job' = Answered([job EXCEPT ![l] = Ended], k)
             \/ job' = Failed([job EXCEPT ![l] = Ended], k)
      PROVE  GossipInv'
  <2>1. /\ job' = [a \in Task |-> job'[a]]
        /\ Rest /\ job'[l] = Ended
        /\ \/ job'[k] = [job[k] EXCEPT !.asked = {}]
           \/ job'[k] = [job[k] EXCEPT !.phase = "failing"]
    <3>1. CASE job' = Answered([job EXCEPT ![l] = Ended], k)
      BY <1>1, <1>2, <3>1 DEF Answered, GossipInv
    <3>2. CASE job' = Failed([job EXCEPT ![l] = Ended], k)
      BY <1>1, <1>2, <3>2 DEF Failed, GossipInv
    <3>3. QED
      BY <1>7, <3>1, <3>2
  <2>2. TaskOK(l)' /\ ListenerOK(l)'
    BY <2>1 DEF TaskOK, ListenerOK, Active, Ended, Phases
  <2>3. \A a \in Task \ {k} : job[a].phase = "pushing" /\ job[a].asked # {} => job'[a] = job[a]
    BY <1>2, <2>1
  <2>4. TaskOK(k)' /\ (k \in Link => ListenerOK(k)')
    BY <1>1, <1>2, <1>5, <2>1, <2>3, Told
  <2>5. QED
    BY <1>6, <2>1, <2>2, <2>4
<1>8. ASSUME job' = [job EXCEPT ![l] = Pushing(t, k, Receivers(l))], TakeInto(l[1], t)
      PROVE  GossipInv'
  <2> DEFINE r == Pushing(t, k, Receivers(l))
  <2>1. /\ job' = [a \in Task |-> job'[a]]
        /\ Rest /\ job'[l] = r /\ job'[k] = job[k]
    BY <1>1, <1>2, <1>8 DEF GossipInv
  <2>2. Receivers(l) \subseteq Peers(l[1]) /\ Peers(l[1]) \subseteq Node
    BY DEF Receivers, Peers
  <2>3. /\ r \in Job /\ r.phase = "pushing" /\ r.tx = t /\ r.from = k
        /\ r.left = Receivers(l) /\ r.asked = {}
    BY <1>1, <2>2 DEF Pushing, Job
  <2> HIDE DEF r
  <2>4. TaskOK(l)'
    BY <1>b, <1>2, <1>5, <1>8, <2>1, <2>2, <2>3 DEF TaskOK, Active, Phases, Peers
  <2>5. Awaits(k, l)'
    BY <1>1, <2>1 DEF Awaits, IsPushing
  <2>6. ListenerOK(l)'
    <3>1. job'[l].from = k
      BY <2>1, <2>3
    <3>2. Awaits(job[l].from, l)'
      BY <2>5, <3>1 DEF Awaits, IsPushing
    <3>3. QED
      BY <1>1, <1>2, <2>1, <2>3, <3>1, <3>2 DEF ListenerOK, Receivers, Peers
  <2>7. TaskOK(k)'
    BY <1>1, <1>2, <1>5, <2>1, Tasks DEF TaskOK, Active, Peers
  <2>8. ASSUME k \in Link PROVE ListenerOK(k)'
    <3>1. ListenerOK(k) /\ Active(k) /\ k # l
      BY <1>1, <2>8 DEF GossipInv, Active
    <3>2. Awaits(job[k].from, k) /\ job[k].from # l
      BY <1>2, <3>1 DEF ListenerOK, Awaits, IsPushing
    <3>3. job'[job[k].from] = job[job[k].from]
      BY <2>1, <3>2 DEF Awaits
    <3>4. Awaits(job[k].from, k)'
      BY <2>1, <3>2, <3>3 DEF Awaits, IsPushing
    <3>5. QED
      BY <1>1, <1>2, <2>1, <2>8, <3>1, <3>4 DEF ListenerOK, Receivers, Peers
  <2>9. QED
    BY <1>6, <2>1, <2>4, <2>6, <2>7, <2>8
<1>9. QED
  BY <1>4, <1>7, <1>8

(* A push that is over: the call returns, or the listener goes on or ends, and
   the task whose request it handled is told. *)
LEMMA PushOverKeeps ==
    ASSUME GossipInv, NEW k \in Task, Active(k), job[k].asked = {} \/ job[k].phase = "failing",
           network' = network, transactions' = transactions, inbox' = inbox,
           NEW r, r \in {Idle, Ended, Ok, Err},
           IF k \in Calls THEN job' = [job EXCEPT ![k] = r]
           ELSE \/ job' = Answered([job EXCEPT ![k] = r], job[k].from)
                \/ job' = Failed([job EXCEPT ![k] = r], job[k].from)
    PROVE  GossipInv'
<1>1. r.phase \in Phases /\ r.phase \notin {"pushing", "failing"}
  BY DEF Idle, Ended, Ok, Err, Phases
<1>2. /\ transactions' \in [Node -> SUBSET Tx]
      /\ \A n \in Node : transactions[n] \subseteq transactions'[n]
      /\ inbox' \in [Link -> Seq(Task)]
  BY DEF GossipInv
<1>3. /\ \A l \in Link : ListenerOK(l) /\ InboxOK(l)
      /\ \A l \in Link : ~Awaits(k, l)
  BY DEF GossipInv, Awaits, IsPushing
<1>4. CASE k \in Calls
  <2>1. /\ job' = [a \in Task |-> job'[a]] /\ job'[k] = r
        /\ \A a \in Task \ {k} : job'[a] = job[a]
    BY <1>4 DEF GossipInv
  <2>2. TaskOK(k)' /\ k \notin Link
    BY <1>1, <1>4, <2>1, Tasks DEF TaskOK, Active
  <2>3. \A l \in Link : \A i \in DOMAIN inbox[l] : inbox[l][i] \notin {k}
    BY <1>3 DEF InboxOK
  <2>4. \A l \in Link : InboxOK(l)'
    BY <2>1, <2>3, SameInbox
  <2>5. \A l \in Link \ {k} : Active(l) =>
            job[l].from \notin {k} /\ \A i \in DOMAIN inbox'[l] : inbox'[l][i] # job[l].from
    BY <1>3 DEF ListenerOK
  <2>6. QED
    BY <1>2, <2>1, <2>2, <2>4, <2>5, Others
<1>5. CASE k \in Link
  <2>a. PICK f \in Task : f = job[k].from
    BY <1>3, <1>5 DEF ListenerOK, Awaits
  <2>1. Awaits(f, k) /\ \A i \in DOMAIN inbox[k] : inbox[k][i] # f
    BY <1>3, <1>5, <2>a DEF ListenerOK
  <2>2. f \in Task \ {k} /\ k \notin Calls
    BY <1>5, <2>1, Tasks DEF Awaits
  <2>3. /\ job' = [a \in Task |-> job'[a]] /\ job'[k] = r
        /\ \A a \in Task \ {k, f} : job'[a] = job[a]
        /\ \/ job'[f] = [job[f] EXCEPT !.asked = {}]
           \/ job'[f] = [job[f] EXCEPT !.phase = "failing"]
    <3>1. CASE job' = Answered([job EXCEPT ![k] = r], f)
      BY <2>2, <3>1 DEF Answered, GossipInv
    <3>2. CASE job' = Failed([job EXCEPT ![k] = r], f)
      BY <2>2, <3>2 DEF Failed, GossipInv
    <3>3. QED
      BY <2>a, <2>2, <3>1, <3>2
  <2>4. TaskOK(k)' /\ ListenerOK(k)'
    BY <1>1, <2>3 DEF TaskOK, ListenerOK, Active
  <2>5. ASSUME NEW a \in Task \ {f}, job[a].phase = "pushing", job[a].asked # {}
        PROVE  job'[a] = job[a]
    BY <2>3, <2>5
  <2>6. TaskOK(f)' /\ (f \in Link => ListenerOK(f)')
    BY <1>2, <1>5, <2>1, <2>2, <2>3, <2>5, Told
  <2>7. ASSUME NEW l \in Link, NEW a, Awaits(a, l), l # k PROVE a \notin {k, f}
    BY <1>3, <1>5, <2>1, <2>7, OnePlace
  <2>8. ASSUME NEW l \in Link PROVE InboxOK(l)'
    <3>1. \A i \in DOMAIN inbox[l] : inbox[l][i] \notin {k, f}
      BY <1>3, <2>1, <2>7 DEF InboxOK
    <3>2. QED
      BY <2>3, <3>1, SameInbox
  <2>9. \A l \in Link \ {k, f} : Active(l) =>
            job[l].from \notin {k, f} /\ \A i \in DOMAIN inbox'[l] : inbox'[l][i] # job[l].from
    BY <1>3, <2>7 DEF ListenerOK
  <2>10. /\ {k, f} \in SUBSET Task
         /\ \A a \in {k, f} : TaskOK(a)'
         /\ \A l \in {k, f} \cap Link : ListenerOK(l)'
    BY <2>2, <2>4, <2>6
  <2>11. QED
    BY <1>2, <2>3, <2>8, <2>9, <2>10, Others
<1>6. QED
  BY <1>4, <1>5 DEF Task

(* A push whose peers have all answered is over. *)
LEMMA FinishKeeps == ASSUME GossipInv, NEW k \in Task, Finish(k) PROVE GossipInv'
<1>1. Active(k) /\ job[k].asked = {}
  BY DEF Finish, Active, IsPushing
<1>2. network' = network /\ transactions' = transactions /\ inbox' = inbox
  BY DEF Finish
<1>3. CASE k \in Calls
  <2>1. job' = [job EXCEPT ![k] = Ok]
    BY <1>3 DEF Finish
  <2>2. QED
    BY <1>1, <1>2, <1>3, <2>1, PushOverKeeps
<1>4. CASE k \notin Calls
  <2>1. job' = Answered([job EXCEPT ![k] = Idle], job[k].from)
    BY <1>4 DEF Finish
  <2>2. QED
    BY <1>1, <1>2, <1>4, <2>1, PushOverKeeps
<1>5. QED
  BY <1>3, <1>4

(* A push that is given up is over too. *)
LEMMA GiveUpKeeps == ASSUME GossipInv, NEW k \in Task, GiveUp(k) PROVE GossipInv'
<1>1. Active(k) /\ job[k].phase = "failing"
  BY DEF GiveUp, Active
<1>2. network' = network /\ transactions' = transactions /\ inbox' = inbox
  BY DEF GiveUp
<1>3. CASE k \in Calls
  <2>1. job' = [job EXCEPT ![k] = Err]
    BY <1>3 DEF GiveUp
  <2>2. QED
    BY <1>1, <1>2, <1>3, <2>1, PushOverKeeps
<1>4. CASE k \notin Calls
  <2>1. job' = Failed([job EXCEPT ![k] = Ended], job[k].from)
    BY <1>4 DEF GiveUp
  <2>2. QED
    BY <1>1, <1>2, <1>4, <2>1, PushOverKeeps
<1>5. QED
  BY <1>3, <1>4

(* GossipInv is inductive. *)
LEMMA GossipInvariant == GossipSpec => []GossipInv
<1>1. GossipInit => GossipInv
  <2> SUFFICES ASSUME GossipInit PROVE GossipInv
    OBVIOUS
  <2>1. \A k \in Task : job[k] = Idle /\ ~Active(k)
    BY DEF GossipInit, Active, Idle
  <2>2. \A k \in Task : TaskOK(k)
    BY <2>1 DEF TaskOK, Idle, Phases
  <2>3. \A l \in Link : ListenerOK(l) /\ InboxOK(l)
    BY <2>1, Tasks DEF GossipInit, ListenerOK, InboxOK
  <2>4. inbox \in [Link -> Seq(Task)]
    BY DEF GossipInit
  <2>5. QED
    BY <2>2, <2>3, <2>4 DEF GossipInit, GossipInv
<1>2. GossipInv /\ [GossipNext]_gossipVars => GossipInv'
  <2> SUFFICES ASSUME GossipInv, [GossipNext]_gossipVars PROVE GossipInv'
    OBVIOUS
  <2>1. ASSUME NEW t \in Tx, Submit(t) PROVE GossipInv'
    BY <2>1, SubmitKeeps
  <2>2. ASSUME NEW k \in Task, Ask(k) PROVE GossipInv'
    BY <2>2, AskKeeps
  <2>3. ASSUME NEW l \in Link, Accept(l) PROVE GossipInv'
    BY <2>3, AcceptKeeps
  <2>4. ASSUME NEW k \in Task, Finish(k) PROVE GossipInv'
    BY <2>4, FinishKeeps
  <2>5. ASSUME NEW k \in Task, GiveUp(k) PROVE GossipInv'
    BY <2>5, GiveUpKeeps
  <2>6. CASE UNCHANGED gossipVars
    <3>1. network' = network /\ transactions' = transactions /\ job' = job /\ inbox' = inbox
      BY <2>6 DEF gossipVars
    <3>2. \A k \in Task : TaskOK(k)'
      BY <3>1 DEF GossipInv, TaskOK, Active, IsPushing, Peers, Receivers
    <3>3. \A l \in Link : ListenerOK(l)'
      BY <3>1 DEF GossipInv, ListenerOK, Awaits, Active, IsPushing, Receivers, Peers
    <3>4. \A l \in Link : InboxOK(l)'
      BY <3>1 DEF GossipInv, InboxOK, Awaits, IsPushing
    <3>5. QED
      BY <3>1, <3>2, <3>3, <3>4 DEF GossipInv
  <2>7. QED
    BY <2>1, <2>2, <2>3, <2>4, <2>5, <2>6 DEF GossipNext
<1>3. QED
  BY <1>1, <1>2, PTL DEF GossipSpec

(* Whatever the network, a request that waits in an inbox, and a request that a
   listener handles, is of a task that still awaits that listener: an answer
   always has somebody to arrive at. *)
THEOREM GossipTypeCorrect == GossipSpec => []GossipTypeOK
<1>1. GossipInv => GossipTypeOK
  <2> SUFFICES ASSUME GossipInv PROVE GossipTypeOK
    OBVIOUS
  <2>1. ASSUME NEW k \in Task, Active(k), k \in Link PROVE Active(job[k].from)
    BY <2>1 DEF GossipInv, ListenerOK, Awaits, IsPushing, Active
  <2>2. QED
    BY <2>1 DEF GossipInv, GossipTypeOK, TaskOK, InboxOK, Awaits, Phases
<1>2. QED
  BY <1>1, GossipInvariant, PTL

(* On every network without cycles, for any number of nodes and transactions,
   no listeners wait for each other in a ring: a listener asks only peers that
   the transaction did not come from. *)
THEOREM NoRingOfListeners == GossipSpec => []NoWaitCycle
<1>1. GossipInv => NoWaitCycle
  <2> SUFFICES ASSUME GossipInv, network \in Tree,
                      NEW S \in SUBSET {l \in network.link : Active(l)}, S # {}
               PROVE  \E l \in S : \A p \in job[l].asked : <<p, l[1]>> \notin S
    BY DEF NoWaitCycle, Acyclic
  <2>1. S \in SUBSET network.link
    OBVIOUS
  <2>2. PICK l \in S : \A p \in Node \ {l[2]} : <<p, l[1]>> \notin S
    BY <2>1 DEF Tree
  <2>3. l \in Link /\ Active(l)
    BY <2>2 DEF Link, GossipInv
  <2>4. job[l].asked \subseteq Node \ {l[2]}
    BY <2>3 DEF GossipInv, ListenerOK, Receivers, Peers
  <2>5. QED
    BY <2>2, <2>4
<1>2. QED
  BY <1>1, GossipInvariant, PTL

-----------------------------------------------------------------------------
(* What an answered push has achieved.  The tasks that handle a transaction
   hang together: each listener's sender is active, for the same transaction,
   and following the senders one comes to a call (Rooted).  A node with a
   transaction has a task that has still to reach those of its peers that lack
   it and would take it, unless somebody failed and the call will, or has. *)

ActiveOn(t) == {k \in Task : Active(k) /\ job[k].tx = t}

SameTx ==
    /\ \A t \in Tx : Active(Call(t)) => job[Call(t)].tx = t
    /\ \A l \in Link : Active(l) => job[job[l].from].tx = job[l].tx

Rooted ==
    \A S \in SUBSET {k \in Task : Active(k)} : S # {} =>
        \E k \in S : k \in Calls \/ job[k].from \notin S

Missing(n, t) == {p \in Peers(n) : t \notin transactions[p] /\ t \in network.valid[p]}

Covered(n, t) ==
    \/ Missing(n, t) = {}
    \/ job[Call(t)].phase = "err"
    \/ \E k \in ActiveOn(t) :
          \/ job[k].phase = "failing"
          \/ k[1] = n /\ Missing(n, t) \subseteq job[k].left \cup job[k].asked

PushInv ==
    /\ SameTx
    /\ Rooted
    /\ \A n \in Node : \A t \in transactions[n] : Covered(n, t)

(* A call's transaction is its own. *)
LEMMA CallOf ==
    ASSUME NEW t \in Tx, NEW u \in Tx, Call(t) = Call(u)
    PROVE  t = u
  BY DEF Call

(* No task is new. *)
LEMMA RootedShrinks ==
    ASSUME Rooted,
           \A k \in Task : Active(k)' => Active(k) /\ job'[k].from = job[k].from
    PROVE  Rooted'
<1> SUFFICES ASSUME NEW S \in SUBSET Task, \A k \in S : Active(k)', S # {}
             PROVE  \E k \in S : k \in Calls \/ job'[k].from \notin S
  BY DEF Rooted
<1>1. S \in SUBSET {k \in Task : Active(k)}
  OBVIOUS
<1>2. PICK k \in S : k \in Calls \/ job[k].from \notin S
  BY <1>1 DEF Rooted
<1> QED
  BY <1>2

(* The task x is new, and no other was waiting for it. *)
LEMMA RootedGrows ==
    ASSUME Rooted, NEW x \in Task,
           \A k \in Task \ {x} : Active(k)' =>
               /\ Active(k) /\ job'[k].from = job[k].from
               /\ k \in Calls \/ job[k].from # x,
           x \in Calls \/ job'[x].from # x
    PROVE  Rooted'
<1> SUFFICES ASSUME NEW S \in SUBSET Task, \A k \in S : Active(k)', S # {}
             PROVE  \E k \in S : k \in Calls \/ job'[k].from \notin S
  BY DEF Rooted
<1>1. CASE S \subseteq {x}
  BY <1>1
<1>2. CASE ~(S \subseteq {x})
  <2>1. S \ {x} \in SUBSET {k \in Task : Active(k)} /\ S \ {x} # {}
    BY <1>2
  <2>2. PICK k \in S \ {x} : k \in Calls \/ job[k].from \notin S \ {x}
    BY <2>1 DEF Rooted
  <2>3. job'[k].from = job[k].from /\ (k \in Calls \/ job[k].from # x)
    BY <2>2
  <2> QED
    BY <2>2, <2>3
<1> QED
  BY <1>1, <1>2

(* What is covered stays covered, when a failing task passes the failure on,
   and a task that goes on, or is over, has left nothing out. *)
LEMMA StaysCovered ==
    ASSUME NEW n \in Node, NEW t \in Tx, Covered(n, t),
           network' = network,
           \A m \in Node : transactions[m] \subseteq transactions'[m],
           job[Call(t)].phase = "err" => job'[Call(t)].phase = "err",
           \A k \in ActiveOn(t) :
               \/ Covered(n, t)'
               \/ job[k].phase = "pushing" /\ job[k].left \cup job[k].asked = {}
               \/ /\ k \in ActiveOn(t)'
                  /\ job[k].phase = "failing" => job'[k].phase = "failing"
                  /\ Missing(n, t) \cap (job[k].left \cup job[k].asked)
                        \subseteq job'[k].left \cup job'[k].asked
    PROVE  Covered(n, t)'
<1>1. Missing(n, t)' \subseteq Missing(n, t)
  BY DEF Missing, Peers
<1>2. CASE Missing(n, t) = {}
  BY <1>1, <1>2 DEF Covered
<1>3. CASE job[Call(t)].phase = "err"
  BY <1>3 DEF Covered
<1>4. ASSUME NEW k \in ActiveOn(t), job[k].phase = "failing" PROVE Covered(n, t)'
  <2>1. CASE k \in ActiveOn(t)' /\ job'[k].phase = "failing"
    BY <2>1 DEF Covered
  <2> QED
    BY <1>4, <2>1
<1>5. ASSUME NEW k \in ActiveOn(t), k[1] = n, Missing(n, t) \subseteq job[k].left \cup job[k].asked
      PROVE  Covered(n, t)'
  <2>1. CASE /\ k \in ActiveOn(t)'
             /\ Missing(n, t) \cap (job[k].left \cup job[k].asked)
                   \subseteq job'[k].left \cup job'[k].asked
    <3>1. Missing(n, t)' \subseteq job'[k].left \cup job'[k].asked
      BY <1>1, <1>5, <2>1
    <3> QED
      BY <1>5, <2>1, <3>1 DEF Covered
  <2>2. CASE job[k].left \cup job[k].asked = {}
    BY <1>1, <1>5, <2>2 DEF Covered
  <2> QED
    BY <1>5, <2>1, <2>2
<1> QED
  BY <1>2, <1>3, <1>4, <1>5 DEF Covered

-----------------------------------------------------------------------------
(* A call that begins has every peer still to reach. *)
LEMMA SubmitCovers ==
    ASSUME GossipInv, PushInv, NEW t \in Tx, Submit(t), GossipInv'
    PROVE  PushInv'
<1> DEFINE c == Call(t)
<1>1. /\ c \in Task /\ c \in Calls /\ c[1] = Origin[t] /\ Origin[t] \in Node
      /\ job[c] = Idle /\ ~Active(c) /\ network' = network
  BY Tasks DEF Submit, Active, Idle
<1>2. \A a \in Task \ {c} : job'[a] = job[a]
  BY DEF Submit, GossipInv
<1>3. \/ job'[c] = Err /\ transactions' = transactions
      \/ /\ job'[c] = Pushing(t, c, Peers(c[1]))
         /\ transactions' = [transactions EXCEPT ![c[1]] = @ \cup {t}]
  BY <1>1 DEF Submit, GossipInv, TakeInto
<1>4. /\ \A n \in Node : transactions[n] \subseteq transactions'[n]
      /\ \A n \in Node : \A u \in transactions'[n] : u \in transactions[n] \/ (u = t /\ n = c[1])
  <2>1. transactions \in [Node -> SUBSET Tx]
    BY DEF GossipInv
  <2>2. CASE transactions' = transactions
    BY <2>2
  <2>3. CASE transactions' = [transactions EXCEPT ![c[1]] = @ \cup {t}]
    <3> HIDE DEF c
    <3> QED
      BY <1>1, <2>1, <2>3
  <2> QED
    BY <1>3, <2>2, <2>3
<1>5. ASSUME NEW l \in Link, Active(l)
      PROVE  /\ job[l].from \in Task \ {c} /\ l # c /\ l \in Task
  <2>1. job[l].from \in Task /\ job[job[l].from].phase = "pushing" /\ l \in Task
    BY <1>5, Tasks DEF GossipInv, ListenerOK, Awaits, IsPushing
  <2>2. job[c].phase = "idle" /\ l # c
    BY <1>1, <1>5, Tasks DEF Idle
  <2> QED
    BY <2>1, <2>2
<1>6. SameTx'
  <2>1. ASSUME NEW u \in Tx, Active(Call(u))' PROVE job'[Call(u)].tx = u
    <3>1. CASE u = t
      BY <1>3, <2>1, <3>1 DEF Active, Err, Pushing
    <3>2. CASE u # t
      <4>1. Call(u) \in Task \ {c}
        BY <3>2, CallOf, Tasks
      <4> QED
        BY <1>2, <2>1, <4>1 DEF PushInv, SameTx, Active
    <3> QED
      BY <3>1, <3>2
  <2>2. ASSUME NEW l \in Link, Active(l)' PROVE job'[job'[l].from].tx = job'[l].tx
    <3>1. l \in Task \ {c}
      BY <1>1, Tasks
    <3>2. job'[l] = job[l] /\ Active(l)
      BY <1>2, <2>2, <3>1 DEF Active
    <3>3. job'[job[l].from] = job[job[l].from]
      BY <1>2, <1>5, <3>2
    <3> QED
      BY <3>2, <3>3 DEF PushInv, SameTx
  <2> QED
    BY <2>1, <2>2 DEF SameTx, Call
<1>7. Rooted'
  <2>1. ASSUME NEW k \in Task \ {c}, Active(k)'
        PROVE  /\ Active(k) /\ job'[k].from = job[k].from
               /\ k \in Calls \/ job[k].from # c
    <3>1. job'[k] = job[k] /\ Active(k)
      BY <1>2, <2>1 DEF Active
    <3> QED
      BY <1>5, <3>1 DEF Task
  <2> HIDE DEF c
  <2> QED
    BY <1>1, <2>1, RootedGrows DEF PushInv
<1>8. ASSUME NEW n \in Node, NEW u \in transactions'[n] PROVE Covered(n, u)'
  <2>0. u \in Tx
    BY <1>8 DEF GossipInv
  <2>1. CASE u = t
    <3>1. CASE job'[c] = Err
      BY <2>1, <3>1 DEF Covered, Err
    <3>2. CASE job'[c] = Pushing(t, c, Peers(c[1])) /\ n = c[1]
      <4>1. /\ job'[c].phase = "pushing" /\ job'[c].tx = t /\ job'[c].left = Peers(c[1])
        BY <3>2 DEF Pushing
      <4>2. c \in ActiveOn(t)'
        BY <1>1, <4>1 DEF ActiveOn, Active
      <4>3. Missing(n, t)' \subseteq job'[c].left \cup job'[c].asked
        BY <1>1, <3>2, <4>1 DEF Missing, Peers
      <4> QED
        BY <2>1, <3>2, <4>2, <4>3 DEF Covered
    <3>3. CASE n # c[1]
      <4>1. Covered(n, u)
        BY <1>4, <1>8, <3>3 DEF PushInv
      <4>2. job[Call(u)].phase # "err"
        BY <1>1, <2>1 DEF Idle
      <4>3. \A k \in ActiveOn(u) : k \in Task \ {c}
        BY <1>1 DEF ActiveOn
      <4>4. ASSUME NEW k \in ActiveOn(u)
            PROVE  /\ k \in ActiveOn(u)'
                   /\ job[k].phase = "failing" => job'[k].phase = "failing"
                   /\ Missing(n, u) \cap (job[k].left \cup job[k].asked)
                         \subseteq job'[k].left \cup job'[k].asked
        BY <1>2, <4>3 DEF ActiveOn, Active
      <4> QED
        BY <1>1, <1>4, <2>0, <4>1, <4>2, <4>4, StaysCovered
    <3> QED
      BY <1>3, <3>1, <3>2, <3>3
  <2>2. CASE u # t
    <3>1. Covered(n, u)
      BY <1>4, <1>8, <2>2 DEF PushInv
    <3>2. job'[Call(u)] = job[Call(u)]
      BY <1>2, <2>0, <2>2, CallOf, Tasks
    <3>3. \A k \in ActiveOn(u) : k \in Task \ {c}
      BY <1>1 DEF ActiveOn
    <3>4. ASSUME NEW k \in ActiveOn(u)
          PROVE  /\ k \in ActiveOn(u)'
                 /\ job[k].phase = "failing" => job'[k].phase = "failing"
                 /\ Missing(n, u) \cap (job[k].left \cup job[k].asked)
                       \subseteq job'[k].left \cup job'[k].asked
      BY <1>2, <3>3 DEF ActiveOn, Active
    <3> QED
      BY <1>1, <1>4, <2>0, <3>1, <3>2, <3>4, StaysCovered
  <2> QED
    BY <2>1, <2>2
<1> QED
  BY <1>6, <1>7, <1>8 DEF PushInv

(* The peer asked is one of those that were left. *)
LEMMA AskCovers ==
    ASSUME GossipInv, PushInv, NEW k \in Task, Ask(k), GossipInv'
    PROVE  PushInv'
<1>1. /\ job[k].phase = "pushing" /\ job[k] \in Job /\ job[k].asked = {}
      /\ network' = network /\ transactions' = transactions
  BY DEF Ask, GossipInv, TaskOK, Active, IsPushing
<1>2. PICK p \in job[k].left : job' = [job EXCEPT ![k].asked = {p}, ![k].left = @ \ {p}]
  BY DEF Ask
<1> DEFINE r == [job[k] EXCEPT !.asked = {p}, !.left = @ \ {p}]
<1>3. /\ job' = [a \in Task |-> IF a = k THEN r ELSE job[a]]
      /\ r.phase = "pushing" /\ r.tx = job[k].tx /\ r.from = job[k].from
      /\ r.left \cup r.asked = job[k].left \cup job[k].asked
  <2>1. r.asked = {p} /\ r.left = job[k].left \ {p}
    BY <1>1 DEF Job
  <2>2. r.phase = job[k].phase /\ r.tx = job[k].tx /\ r.from = job[k].from
    BY <1>1 DEF Job
  <2>3. job' = [a \in Task |-> IF a = k THEN r ELSE job[a]]
    BY <1>2 DEF GossipInv
  <2> HIDE DEF r
  <2> QED
    BY <1>1, <1>2, <2>1, <2>2, <2>3
<1> HIDE DEF r
<1>4. ASSUME NEW a \in Task
      PROVE  /\ job'[a].phase = job[a].phase /\ job'[a].tx = job[a].tx
             /\ job'[a].from = job[a].from
             /\ job'[a].left \cup job'[a].asked = job[a].left \cup job[a].asked
  <2>1. CASE a = k
    BY <1>1, <1>3, <2>1
  <2>2. CASE a # k
    BY <1>3, <2>2
  <2> QED
    BY <2>1, <2>2
<1>5. SameTx'
  <2>1. ASSUME NEW l \in Link, Active(l)' PROVE job'[job'[l].from].tx = job'[l].tx
    <3>1. l \in Task /\ Active(l) /\ job[l].from \in Task
      BY <1>4, <2>1, Tasks DEF GossipInv, ListenerOK, Awaits, Active
    <3> QED
      BY <1>4, <3>1 DEF PushInv, SameTx
  <2>2. \A u \in Tx : Call(u) \in Task
    BY Tasks
  <2> QED
    BY <1>4, <2>1, <2>2 DEF PushInv, SameTx, Active, Call
<1>6. Rooted'
  <2>1. \A a \in Task : Active(a)' => Active(a) /\ job'[a].from = job[a].from
    BY <1>4 DEF Active
  <2> QED
    BY <2>1, RootedShrinks DEF PushInv
<1>7. ASSUME NEW n \in Node, NEW u \in transactions'[n] PROVE Covered(n, u)'
  <2>1. u \in Tx /\ Covered(n, u) /\ Call(u) \in Task
    BY <1>1, <1>7, Tasks DEF GossipInv, PushInv
  <2>2. ASSUME NEW a \in ActiveOn(u)
        PROVE  /\ a \in ActiveOn(u)'
               /\ job[a].phase = "failing" => job'[a].phase = "failing"
               /\ Missing(n, u) \cap (job[a].left \cup job[a].asked)
                     \subseteq job'[a].left \cup job'[a].asked
    BY <1>4 DEF ActiveOn, Active
  <2> QED
    BY <1>1, <1>4, <2>1, <2>2, StaysCovered
<1> QED
  BY <1>5, <1>6, <1>7 DEF PushInv

(* The request accepted is refused, and its peer is no longer missing; or its
   sender fails; or the peer takes the transaction, and its listener has every
   peer to reach but the one that sent it. *)
LEMMA AcceptCovers ==
    ASSUME GossipInv, PushInv, NEW l \in Link, Accept(l), GossipInv'
    PROVE  PushInv'
<1>a. PICK k \in Task : k = Head(inbox[l])
  BY Accepted
<1>b. PICK t \in Tx : t = job[k].tx
  BY <1>a, Accepted DEF Job
<1>1. /\ k \in Task \ {l} /\ Awaits(k, l)
      /\ job[k] \in Job /\ job[k].phase = "pushing" /\ TaskOK(k)
  BY <1>a, Accepted
<1>2. /\ job[l].phase = "idle" /\ ~Active(l) /\ network' = network /\ l \in Task /\ l \notin Calls
      /\ l[1] \in Node /\ l[2] \in Node /\ k[1] = l[2]
      /\ Active(k) /\ k \in ActiveOn(t) /\ job[k].asked = {l[1]}
      /\ t \in transactions[l[2]]
  BY <1>b, <1>1, Tasks DEF Accept, Idle, Awaits, Active, ActiveOn, TaskOK
<1>3. \/ /\ t \notin network.valid[l[1]]
         /\ job' = Answered([job EXCEPT ![l] = Ended], k) /\ transactions' = transactions
      \/ job' = Failed([job EXCEPT ![l] = Ended], k) /\ transactions' = transactions
      \/ job' = [job EXCEPT ![l] = Pushing(t, k, Receivers(l))] /\ TakeInto(l[1], t)
  BY <1>a, <1>b DEF Accept
<1>4. /\ \A a \in Task \ {l, k} : job'[a] = job[a]
      /\ job'[k].tx = t /\ job'[k].from = job[k].from /\ job'[k].left = job[k].left
      /\ \/ /\ job'[l] = Ended /\ transactions' = transactions
            /\ job'[k].phase = "pushing" /\ t \notin network.valid[l[1]]
         \/ /\ job'[l] = Ended /\ transactions' = transactions
            /\ job'[k].phase = "failing"
         \/ /\ job'[l] = Pushing(t, k, Receivers(l)) /\ TakeInto(l[1], t)
            /\ job'[k] = job[k]
  <2>1. CASE job' = Answered([job EXCEPT ![l] = Ended], k)
    <3>1. /\ job'[k] = [job[k] EXCEPT !.asked = {}] /\ job'[l] = Ended
          /\ \A a \in Task \ {l, k} : job'[a] = job[a]
      BY <1>1, <1>2, <2>1 DEF Answered, GossipInv
    <3>2. job' # Failed([job EXCEPT ![l] = Ended], k)
      <4> SUFFICES ASSUME job' = Failed([job EXCEPT ![l] = Ended], k) PROVE FALSE
        OBVIOUS
      <4>1. job'[k] = [job[k] EXCEPT !.phase = "failing"]
        BY <1>1, <1>2 DEF Failed, GossipInv
      <4> QED
        BY <1>1, <3>1, <4>1 DEF Job
    <3>3. job' # [job EXCEPT ![l] = Pushing(t, k, Receivers(l))]
      BY <1>1, <1>2, <3>1 DEF GossipInv, Ended, Pushing
    <3>4. /\ job'[k].tx = job[k].tx /\ job'[k].from = job[k].from /\ job'[k].left = job[k].left
          /\ job'[k].phase = "pushing"
      BY <1>1, <3>1 DEF Job
    <3> QED
      BY <1>b, <1>3, <3>1, <3>2, <3>3, <3>4
  <2>2. CASE job' = Failed([job EXCEPT ![l] = Ended], k) /\ transactions' = transactions
    <3>1. /\ job'[k] = [job[k] EXCEPT !.phase = "failing"] /\ job'[l] = Ended
          /\ \A a \in Task \ {l, k} : job'[a] = job[a]
      BY <1>1, <1>2, <2>2 DEF Failed, GossipInv
    <3>2. /\ job'[k].tx = job[k].tx /\ job'[k].from = job[k].from /\ job'[k].left = job[k].left
          /\ job'[k].phase = "failing"
      BY <1>1, <3>1 DEF Job
    <3> QED
      BY <1>b, <2>2, <3>1, <3>2
  <2>3. CASE job' = [job EXCEPT ![l] = Pushing(t, k, Receivers(l))] /\ TakeInto(l[1], t)
    BY <1>b, <1>1, <1>2, <2>3 DEF GossipInv
  <2> QED
    BY <1>3, <2>1, <2>2, <2>3
<1>5. \/ job'[l] = Ended
      \/ /\ job'[l].phase = "pushing" /\ job'[l].tx = t /\ job'[l].from = k
         /\ job'[l].left = Receivers(l) /\ t \in transactions'[l[1]]
  <2>1. TakeInto(l[1], t) => t \in transactions'[l[1]]
    BY <1>2 DEF TakeInto, GossipInv
  <2> QED
    BY <1>4, <2>1 DEF Pushing
<1>6. /\ \A n \in Node : transactions[n] \subseteq transactions'[n]
      /\ \A n \in Node : \A u \in transactions'[n] :
            u \in transactions[n] \/ (u = t /\ n = l[1] /\ job'[l] # Ended)
  <2>1. transactions \in [Node -> SUBSET Tx]
    BY DEF GossipInv
  <2>2. Ended # Pushing(t, k, Receivers(l))
    BY DEF Ended, Pushing
  <2>3. CASE transactions' = transactions
    BY <2>3
  <2>4. CASE job'[l] # Ended /\ TakeInto(l[1], t)
    BY <1>2, <2>1, <2>4 DEF TakeInto
  <2> QED
    BY <1>4, <2>2, <2>3, <2>4
<1>7. \A a \in Task \ {l} : /\ Active(a) <=> Active(a)'
                            /\ Active(a) => job'[a].tx = job[a].tx /\ job'[a].from = job[a].from
                            /\ job[a].phase \in {"failing", "err"} => job'[a].phase = job[a].phase
  BY <1>b, <1>1, <1>2, <1>4 DEF Active
<1>8. ASSUME NEW m \in Link, Active(m)
      PROVE  job[m].from \in Task \ {l} /\ Active(job[m].from) /\ m \in Task \ {l}
  BY <1>2, <1>8, Tasks DEF GossipInv, ListenerOK, Awaits, IsPushing, Active
<1>9. SameTx'
  <2>1. ASSUME NEW u \in Tx, Active(Call(u))' PROVE job'[Call(u)].tx = u
    <3>1. Call(u) \in Task \ {l} /\ Active(Call(u))
      BY <1>2, <1>7, <2>1, Tasks
    <3> QED
      BY <1>7, <3>1 DEF PushInv, SameTx
  <2>2. ASSUME NEW m \in Link, Active(m)' PROVE job'[job'[m].from].tx = job'[m].tx
    <3>1. CASE m = l
      BY <1>4, <1>5, <2>2, <3>1 DEF Active, Ended
    <3>2. CASE m # l
      <4>1. m \in Task \ {l} /\ Active(m)
        BY <1>7, <2>2, <3>2, Tasks
      <4>2. /\ job'[m].from = job[m].from /\ job'[m].tx = job[m].tx
            /\ job'[job[m].from].tx = job[job[m].from].tx
        BY <1>7, <1>8, <4>1
      <4> QED
        BY <4>1, <4>2 DEF PushInv, SameTx
    <3> QED
      BY <3>1, <3>2
  <2> QED
    BY <2>1, <2>2 DEF SameTx, Call
<1>10. Rooted'
  <2>1. ASSUME NEW a \in Task \ {l}, Active(a)'
        PROVE  /\ Active(a) /\ job'[a].from = job[a].from
               /\ a \in Calls \/ job[a].from # l
    BY <1>7, <1>8, <2>1 DEF Task
  <2>2. CASE job'[l] = Ended
    <3>1. ~Active(l)'
      BY <2>2 DEF Active, Ended
    <3>2. \A a \in Task : Active(a)' => Active(a) /\ job'[a].from = job[a].from
      BY <2>1, <3>1
    <3> QED
      BY <3>2, RootedShrinks DEF PushInv
  <2>3. CASE job'[l] # Ended
    <3>1. job'[l].from # l
      BY <1>1, <1>5, <2>3
    <3> QED
      BY <1>2, <2>1, <3>1, RootedGrows DEF PushInv
  <2> QED
    BY <2>2, <2>3
<1>11. ASSUME NEW n \in Node, NEW u \in transactions'[n] PROVE Covered(n, u)'
  <2>0. u \in Tx /\ Call(u) \in Task \ {l}
    BY <1>2, <1>11, Tasks DEF GossipInv
  <2>1. CASE u = t /\ n = l[1] /\ job'[l] # Ended
    <3>1. l \in ActiveOn(t)'
      BY <1>2, <1>5, <2>1 DEF ActiveOn, Active
    <3>2. t \in transactions'[l[2]]
      BY <1>2, <1>6
    <3>3. Missing(n, t)' \subseteq job'[l].left \cup job'[l].asked
      BY <1>2, <1>5, <2>1, <3>2 DEF Missing, Receivers, Peers
    <3> QED
      BY <2>1, <3>1, <3>3 DEF Covered
  <2>2. CASE u \in transactions[n]
    <3>1. Covered(n, u)
      BY <2>2 DEF PushInv
    <3>2. ASSUME NEW a \in ActiveOn(u)
          PROVE  \/ Covered(n, u)'
                 \/ /\ a \in ActiveOn(u)'
                    /\ job[a].phase = "failing" => job'[a].phase = "failing"
                    /\ Missing(n, u) \cap (job[a].left \cup job[a].asked)
                          \subseteq job'[a].left \cup job'[a].asked
      <4>1. a \in Task \ {l} /\ a \in ActiveOn(u)'
        BY <1>2, <1>7 DEF ActiveOn
      <4>2. CASE a # k
        BY <1>4, <4>1, <4>2
      <4>3. CASE a = k /\ job'[k].phase = "failing"
        BY <4>1, <4>3 DEF Covered
      <4>4. CASE a = k /\ job'[k] = job[k]
        BY <4>1, <4>4
      <4>5. CASE a = k /\ t \notin network.valid[l[1]]
        <5>1. u = t
          BY <1>b, <4>5 DEF ActiveOn
        <5>2. Missing(n, u) \cap {l[1]} = {}
          BY <4>5, <5>1 DEF Missing
        <5> QED
          BY <1>1, <1>2, <1>4, <4>1, <4>5, <5>2
      <4> QED
        BY <1>4, <4>2, <4>3, <4>4, <4>5
    <3> QED
      BY <1>2, <1>6, <1>7, <2>0, <3>1, <3>2, StaysCovered
  <2> QED
    BY <1>6, <1>11, <2>1, <2>2
<1> QED
  BY <1>9, <1>10, <1>11 DEF PushInv

(* A push that is over has reached everybody, and the peer that pushed has this
   peer's transaction; or it failed, and the failure goes to the task that
   awaits it, or the call reports it. *)
LEMMA PushOverCovers ==
    ASSUME GossipInv, PushInv, NEW k \in Task, Finish(k) \/ GiveUp(k), GossipInv'
    PROVE  PushInv'
<1>1. /\ Active(k) /\ job[k] \in Job /\ job[k].tx \in Tx /\ k[1] \in Node
      /\ job[k].tx \in transactions[k[1]]
      /\ network' = network /\ transactions' = transactions
      /\ \A l \in Link : ~Awaits(k, l)
  <2>1. Active(k) /\ (IsPushing(k) => job[k].asked = {})
    BY DEF Finish, GiveUp, Active, IsPushing
  <2>2. job[k] \in Job /\ job[k].tx \in transactions[k[1]]
    BY <2>1 DEF GossipInv, TaskOK
  <2> QED
    BY <2>1, <2>2, Tasks DEF Finish, GiveUp, Job, Awaits
<1>2. PICK t \in Tx : t = job[k].tx
  BY <1>1
<1>3. ASSUME NEW l \in Link, Active(l)
      PROVE  l \in Task /\ job[l].from \in Task \ {k} /\ Active(job[l].from)
  <2>1. Awaits(job[l].from, l)
    BY <1>3 DEF GossipInv, ListenerOK
  <2>2. job[l].from # k
    BY <1>1, <2>1
  <2> QED
    BY <2>1, <2>2, Tasks DEF Awaits, IsPushing, Active
<1>4. \/ k \in Calls
      \/ /\ k \in Link /\ k \notin Calls /\ Awaits(job[k].from, k)
         /\ job[job[k].from].tx = t
  BY <1>1, <1>2, Tasks DEF Task, GossipInv, ListenerOK, PushInv, SameTx
<1> DEFINE
      Over == job[k].phase = "pushing" /\ job[k].left \cup job[k].asked = {}
      Same(a) == /\ Active(a) <=> Active(a)'
                 /\ Active(a) => job'[a].tx = job[a].tx /\ job'[a].from = job[a].from
                 /\ job[a].phase \in {"failing", "err"} => job'[a].phase = job[a].phase
      Keeps(a) == \A n \in Node : \A u \in Tx : a \in ActiveOn(u) =>
                     Missing(n, u) \cap (job[a].left \cup job[a].asked)
                        \subseteq job'[a].left \cup job'[a].asked
<1>5. /\ ~Active(k)'
      /\ \A a \in Task \ {k} : Same(a) /\ Keeps(a)
      /\ \/ Over
         \/ job'[Call(t)].phase = "err"
         \/ \E a \in ActiveOn(t)' : job'[a].phase = "failing"
  <2>1. ASSUME NEW r, r \in {Idle, Ended, Ok, Err} PROVE r.phase \notin {"pushing", "failing"}
    BY <2>1 DEF Idle, Ended, Ok, Err
  <2>2. CASE k \in Calls
    <3>1. PICK r \in {Ok, Err} : job' = [job EXCEPT ![k] = r] /\ (r = Ok => Over)
      <4>1. CASE Finish(k)
        BY <2>2, <4>1 DEF Finish, IsPushing
      <4>2. CASE GiveUp(k)
        <5>1. job' = [job EXCEPT ![k] = Err]
          BY <2>2, <4>2 DEF GiveUp
        <5> QED
          BY <5>1 DEF Ok, Err
      <4> QED
        BY <4>1, <4>2
    <3>2. job'[k] = r /\ \A a \in Task \ {k} : job'[a] = job[a]
      BY <3>1 DEF GossipInv
    <3>3. k = Call(t)
      <4>1. PICK v \in Tx : k = Call(v)
        BY <2>2 DEF Calls
      <4> QED
        BY <1>1, <1>2, <4>1 DEF PushInv, SameTx
    <3>4. Over \/ job'[Call(t)].phase = "err"
      BY <3>1, <3>2, <3>3 DEF Err
    <3>5. \A a \in Task \ {k} : Same(a) /\ Keeps(a)
      BY <3>2 DEF Active
    <3>6. ~Active(k)'
      BY <2>1, <3>1, <3>2 DEF Active
    <3> HIDE DEF Over, Same, Keeps
    <3> QED
      BY <3>4, <3>5, <3>6
  <2>3. CASE k \in Link /\ k \notin Calls
    <3>1. PICK f \in Task : f = job[k].from
      BY <1>1, <1>3, <2>3
    <3>2. /\ f # k /\ job[f].phase = "pushing" /\ job[f].asked = {k[1]} /\ job[f].tx = t
          /\ job[f] \in Job
      BY <1>1, <1>3, <1>4, <2>3, <3>1 DEF Awaits, IsPushing, GossipInv, TaskOK, Active
    <3>3. CASE Finish(k)
      <4>1. Over /\ job' = Answered([job EXCEPT ![k] = Idle], f)
        BY <2>3, <3>1, <3>3 DEF Finish, IsPushing
      <4>2. /\ job'[k] = Idle /\ job'[f] = [job[f] EXCEPT !.asked = {}]
            /\ \A a \in Task \ {k, f} : job'[a] = job[a]
        BY <3>2, <4>1 DEF Answered, GossipInv
      <4>3. /\ job'[f].phase = "pushing" /\ job'[f].tx = t /\ job'[f].from = job[f].from
            /\ job'[f].left = job[f].left
        BY <3>2, <4>2 DEF Job
      <4>4. \A a \in Task \ {k} : Same(a)
        BY <3>2, <4>2, <4>3 DEF Active
      <4>5. Keeps(f)
        <5> SUFFICES ASSUME NEW n \in Node, NEW u \in Tx, f \in ActiveOn(u)
                     PROVE  Missing(n, u) \cap (job[f].left \cup job[f].asked)
                               \subseteq job'[f].left \cup job'[f].asked
          OBVIOUS
        <5>1. u = t
          BY <3>2 DEF ActiveOn
        <5>2. k[1] \notin Missing(n, u)
          BY <1>1, <1>2, <5>1 DEF Missing
        <5> QED
          BY <3>2, <4>3, <5>2
      <4>6. \A a \in Task \ {k, f} : Keeps(a)
        BY <4>2
      <4>7. ~Active(k)'
        BY <4>2 DEF Active, Idle
      <4> HIDE DEF Over, Same, Keeps
      <4> QED
        BY <4>1, <4>4, <4>5, <4>6, <4>7
    <3>4. CASE GiveUp(k)
      <4>1. job' = Failed([job EXCEPT ![k] = Ended], f)
        BY <2>3, <3>1, <3>4 DEF GiveUp
      <4>2. /\ job'[k] = Ended /\ job'[f] = [job[f] EXCEPT !.phase = "failing"]
            /\ \A a \in Task \ {k, f} : job'[a] = job[a]
        BY <3>2, <4>1 DEF Failed, GossipInv
      <4>3. /\ job'[f].phase = "failing" /\ job'[f].tx = t /\ job'[f].from = job[f].from
            /\ job'[f].left = job[f].left /\ job'[f].asked = job[f].asked
        BY <3>2, <4>2 DEF Job
      <4>4. \A a \in Task \ {k} : Same(a)
        BY <3>2, <4>2, <4>3 DEF Active
      <4>5. \A a \in Task \ {k} : Keeps(a)
        BY <4>2, <4>3
      <4>6. ~Active(k)'
        BY <4>2 DEF Active, Ended
      <4>7. f \in ActiveOn(t)'
        BY <4>3 DEF ActiveOn, Active
      <4> HIDE DEF Over, Same, Keeps
      <4> QED
        BY <4>3, <4>4, <4>5, <4>6, <4>7
    <3> QED
      BY <3>3, <3>4
  <2> QED
    BY <1>4, <2>2, <2>3
<1>6. SameTx'
  <2>1. ASSUME NEW u \in Tx, Active(Call(u))' PROVE job'[Call(u)].tx = u
    <3>1. Call(u) \in Task \ {k} /\ Active(Call(u))
      BY <1>5, <2>1, Tasks
    <3> QED
      BY <1>5, <3>1 DEF PushInv, SameTx
  <2>2. ASSUME NEW l \in Link, Active(l)' PROVE job'[job'[l].from].tx = job'[l].tx
    <3>1. l \in Task \ {k} /\ Active(l)
      BY <1>5, <2>2, Tasks
    <3>2. job'[l].from = job[l].from /\ job'[l].tx = job[l].tx
      BY <1>5, <3>1
    <3>3. job'[job[l].from].tx = job[job[l].from].tx
      BY <1>3, <1>5, <3>1
    <3> QED
      BY <3>1, <3>2, <3>3 DEF PushInv, SameTx
  <2> QED
    BY <2>1, <2>2 DEF SameTx, Call
<1>7. Rooted'
  <2>1. \A a \in Task : Active(a)' => Active(a) /\ job'[a].from = job[a].from
    BY <1>5
  <2> QED
    BY <2>1, RootedShrinks DEF PushInv
<1>8. ASSUME NEW n \in Node, NEW u \in transactions'[n] PROVE Covered(n, u)'
  <2>1. u \in Tx /\ Covered(n, u) /\ Call(u) \in Task
    BY <1>1, <1>8, Tasks DEF GossipInv, PushInv
  <2>2. ASSUME NEW a \in ActiveOn(u)
        PROVE  \/ Covered(n, u)'
               \/ job[a].phase = "pushing" /\ job[a].left \cup job[a].asked = {}
               \/ /\ a \in ActiveOn(u)'
                  /\ job[a].phase = "failing" => job'[a].phase = "failing"
                  /\ Missing(n, u) \cap (job[a].left \cup job[a].asked)
                        \subseteq job'[a].left \cup job'[a].asked
    <3>1. CASE a = k
      <4>1. u = t
        BY <1>2, <3>1 DEF ActiveOn
      <4> QED
        BY <1>5, <3>1, <4>1 DEF Covered
    <3>2. CASE a # k
      <4>1. a \in ActiveOn(u)'
        BY <1>5, <3>2 DEF ActiveOn
      <4> QED
        BY <1>5, <2>1, <3>2, <4>1 DEF ActiveOn
    <3> QED
      BY <3>1, <3>2
  <2>3. job[Call(u)].phase = "err" => job'[Call(u)].phase = "err"
    BY <1>1, <1>5, <2>1 DEF Active
  <2>4. \A m \in Node : transactions[m] \subseteq transactions'[m]
    BY <1>1
  <2> QED
    BY <1>1, <2>1, <2>2, <2>3, <2>4, StaysCovered
<1> QED
  BY <1>6, <1>7, <1>8 DEF PushInv

(* PushInv is inductive, with GossipInv. *)
LEMMA PushInvariant == GossipSpec => [](GossipInv /\ PushInv)
<1>1. GossipInit => PushInv
  <2> SUFFICES ASSUME GossipInit PROVE PushInv
    OBVIOUS
  <2>1. \A k \in Task : ~Active(k)
    BY DEF GossipInit, Active, Idle
  <2>2. \A n \in Node : transactions[n] = {}
    BY DEF GossipInit
  <2>3. SameTx
    BY <2>1, Tasks DEF SameTx
  <2>4. Rooted
    BY <2>1 DEF Rooted
  <2> QED
    BY <2>2, <2>3, <2>4 DEF PushInv
<1>2. GossipInv /\ GossipInv' /\ PushInv /\ [GossipNext]_gossipVars => PushInv'
  <2> SUFFICES ASSUME GossipInv, GossipInv', PushInv, [GossipNext]_gossipVars PROVE PushInv'
    OBVIOUS
  <2>1. ASSUME NEW t \in Tx, Submit(t) PROVE PushInv'
    BY <2>1, SubmitCovers
  <2>2. ASSUME NEW k \in Task, Ask(k) PROVE PushInv'
    BY <2>2, AskCovers
  <2>3. ASSUME NEW l \in Link, Accept(l) PROVE PushInv'
    BY <2>3, AcceptCovers
  <2>4. ASSUME NEW k \in Task, Finish(k) \/ GiveUp(k) PROVE PushInv'
    BY <2>4, PushOverCovers
  <2>5. CASE UNCHANGED gossipVars
    <3>1. network' = network /\ transactions' = transactions /\ job' = job
      BY <2>5 DEF gossipVars
    <3>2. SameTx'
      BY <3>1 DEF PushInv, SameTx, Active, Call
    <3>3. Rooted'
      BY <3>1 DEF PushInv, Rooted, Active
    <3>4. \A n \in Node : \A t \in transactions'[n] : Covered(n, t)'
      BY <3>1 DEF PushInv, Covered, Missing, Peers, ActiveOn, Active, Call
    <3> QED
      BY <3>2, <3>3, <3>4 DEF PushInv
  <2> QED
    BY <2>1, <2>2, <2>3, <2>4, <2>5 DEF GossipNext
<1> QED
  BY <1>1, <1>2, GossipInvariant, PTL DEF GossipSpec

(* On any network, when submit_transaction has returned without an error every
   node with the transaction has pushed it to all its peers, and those of them
   that find it valid have it: the tasks that push it hang together, so with
   the call all of them are over. *)
THEOREM OkReachesEverybody == GossipSpec => []OkMeansEverywhere
<1>1. GossipInv /\ PushInv => OkMeansEverywhere
  <2> SUFFICES ASSUME GossipInv, PushInv, NEW t \in Tx, job[Call(t)] = Ok,
                      NEW l \in network.link, t \in transactions[l[1]],
                      t \in network.valid[l[2]]
               PROVE  t \in transactions[l[2]]
    BY DEF OkMeansEverywhere
  <2>1. ActiveOn(t) = {}
    <3> SUFFICES ASSUME ActiveOn(t) # {} PROVE FALSE
      OBVIOUS
    <3>1. PICK k \in ActiveOn(t) : k \in Calls \/ job[k].from \notin ActiveOn(t)
      BY DEF PushInv, Rooted, ActiveOn
    <3>2. k \notin Calls
      <4> SUFFICES ASSUME NEW v \in Tx, k = Call(v) PROVE FALSE
        BY DEF Calls
      <4>1. v = t
        BY DEF ActiveOn, PushInv, SameTx
      <4> QED
        BY <4>1 DEF ActiveOn, Active, Ok
    <3>3. k \in Link /\ Active(k) /\ job[k].tx = t
      BY <3>2 DEF ActiveOn, Task
    <3>4. job[k].from \in Task /\ Active(job[k].from) /\ job[job[k].from].tx = t
      BY <3>3 DEF GossipInv, ListenerOK, Awaits, IsPushing, Active, PushInv, SameTx
    <3> QED
      BY <3>1, <3>2, <3>4 DEF ActiveOn
  <2>2. l \in Link
    BY DEF Link, GossipInv
  <2>3. l = <<l[1], l[2]>> /\ l[1] \in Node /\ l[2] \in Node
    BY <2>2, Tasks
  <2>4. Covered(l[1], t) /\ job[Call(t)].phase # "err"
    BY <2>3 DEF PushInv, Ok
  <2>5. Missing(l[1], t) = {}
    BY <2>1, <2>4 DEF Covered
  <2> QED
    BY <2>3, <2>5 DEF Missing, Peers
<1> QED
  BY <1>1, PushInvariant, PTL

-----------------------------------------------------------------------------
(***************************************************************************)
(* Networks without cycles, whose nodes agree: what makes Propagates and   *)
(* PushesEnd hold on every one of them, but for the fairness.  Nothing     *)
(* fails, somebody can always go on, every step is progress of which there *)
(* is only so much, and when nobody has anything to do the nodes have the  *)
(* same transactions.                                                      *)
(*                                                                         *)
(* The argument: without one connection <<p, n>> such a network has a side *)
(* of p, which transactions from elsewhere enter only over that connection.*)
(* Once one is there it has crossed: n asks p no more for it, and p does   *)
(* not ask n.  So nobody is asked to take what he has.                     *)
(***************************************************************************)

AgreeingTree == Acyclic /\ Agreed

(* The tasks of node n that push t. *)
Busy(n, t) == {k \in ActiveOn(t) : k[1] = n}

(* X is a side of p: it has no other connection with the rest than <<p, n>>. *)
IsSide(X, p, n) ==
    /\ X \subseteq Node /\ p \in X /\ n \notin X
    /\ \A a \in X, b \in Node \ X : <<a, b>> \in network.link => a = p /\ b = n

(* The transaction t has come from n to p. *)
Crossed(p, n, t) ==
    /\ t \in transactions[p] \cap transactions[n]
    /\ \A k \in Busy(n, t) : p \notin job[k].left
    /\ Busy(p, t) \subseteq {<<p, n>>}
    /\ \A i \in DOMAIN inbox[<<p, n>>] : job[inbox[<<p, n>>][i]].tx # t

Sides ==
    \A l \in network.link, X \in SUBSET Node, t \in Tx :
        /\ IsSide(X, l[1], l[2]) /\ Origin[t] \notin X
        /\ \E x \in X : t \in transactions[x]
        => Crossed(l[1], l[2], t)

Healthy ==
    /\ \A k \in Task : job[k].phase \in {"idle", "pushing", "ok"}
    /\ \A l \in Link : Active(l) \/ job[l] = Idle

(* A node pushes a transaction once at a time, and asks one peer at a time. *)
OnceEach ==
    \A j, k \in Task : Active(j) /\ Active(k) /\ j[1] = k[1] /\ job[j].tx = job[k].tx => j = k
OneAsked ==
    \A k \in Task : Active(k) => /\ job[k].asked \cap job[k].left = {}
                                 /\ job[k].asked = {} \/ \E p \in Node : job[k].asked = {p}

Submitted == \A n \in Node : \A t \in transactions[n] : job[Call(t)].phase # "idle"

(* Whoever awaits a peer is in its inbox, or is who it works for. *)
Reaches(k, l) ==
    \/ \E i \in DOMAIN inbox[l] : inbox[l][i] = k
    \/ Active(l) /\ job[l].from = k
Reached == \A k \in Task : \A p \in job[k].asked : Active(k) => Reaches(k, <<p, k[1]>>)

TreeInv == Healthy /\ OnceEach /\ OneAsked /\ Submitted /\ Reached /\ Sides

(* Every connection of a network without cycles has two sides. *)
LEMMA SideExists ==
    ASSUME GossipInv, Acyclic, NEW l \in network.link
    PROVE  \E X \in SUBSET Node : IsSide(X, l[1], l[2])
<1> DEFINE Bad == {m \in network.link : ~\E X \in SUBSET Node : IsSide(X, m[1], m[2])}
<1> SUFFICES ASSUME Bad # {} PROVE FALSE
  OBVIOUS
<1>1. PICK m \in Bad : \A q \in Node \ {m[2]} : <<q, m[1]>> \notin Bad
  BY DEF Acyclic, Tree
<1>2. m \in Link /\ m = <<m[1], m[2]>> /\ m[1] \in Node /\ m[2] \in Node /\ m[1] # m[2]
  BY Tasks DEF Link, GossipInv
<1>3. PICK p \in Node, n \in Node : m = <<p, n>> /\ m[1] = p /\ m[2] = n /\ p # n
  BY <1>2
<1>4. \A a, b \in Node : <<a, b>> \in network.link => <<b, a>> \in network.link
  BY NetworkAssumption DEF GossipInv
<1> DEFINE Near == {q \in Node \ {n} : <<q, p>> \in network.link}
           side == [q \in Near |-> CHOOSE X \in SUBSET Node : IsSide(X, q, p)]
           X == {p} \cup UNION {side[q] : q \in Near}
<1>5. \A q \in Near : side[q] \in SUBSET Node /\ IsSide(side[q], q, p)
  BY <1>1, <1>3
<1> HIDE DEF side
<1>6. X \subseteq Node /\ p \in X
  BY <1>5
<1>7. n \notin X
  <2> SUFFICES ASSUME NEW q \in Near, n \in side[q] PROVE FALSE
    BY <1>3
  <2>1. <<n, p>> \in network.link
    BY <1>1, <1>3, <1>4
  <2> QED
    BY <1>5, <2>1 DEF IsSide
<1>8. ASSUME NEW a \in X, NEW b \in Node \ X, <<a, b>> \in network.link
      PROVE  a = p /\ b = n
  <2>1. CASE a = p
    <3>1. b \in Near => b \in X
      BY <1>5 DEF IsSide
    <3> QED
      BY <1>4, <1>8, <2>1, <3>1
  <2>2. CASE a # p
    <3>1. PICK q \in Near : a \in side[q]
      BY <2>2
    <3>2. b \notin side[q] /\ b # p
      BY <3>1
    <3> QED
      BY <1>5, <1>8, <3>1, <3>2 DEF IsSide
  <2> QED
    BY <2>1, <2>2
<1> HIDE DEF X
<1>9. IsSide(X, p, n)
  BY <1>6, <1>7, <1>8 DEF IsSide
<1> QED
  BY <1>1, <1>3, <1>6, <1>9

(* What is asked for is new to whoever is asked. *)
LEMMA Fresh ==
    ASSUME GossipInv, Acyclic, Sides, NEW l \in Link, NEW i \in DOMAIN inbox[l]
    PROVE  /\ job[inbox[l][i]].tx \in Tx
           /\ job[inbox[l][i]].tx \notin transactions[l[1]]
<1> DEFINE k == inbox[l][i]
           p == l[1]
           n == l[2]
           t == job[k].tx
<1>1. /\ l \in network.link /\ k \in Task /\ Active(k) /\ job[k].asked = {p} /\ k[1] = n
      /\ l = <<p, n>> /\ p \in Node /\ n \in Node /\ TaskOK(k)
  BY Tasks DEF GossipInv, InboxOK, Awaits, IsPushing, Active
<1>2. t \in Tx /\ t \in transactions[n] /\ k \in Busy(n, t) /\ <<n, p>> \in network.link
  <2>1. t \in Tx /\ t \in transactions[n]
    BY <1>1 DEF TaskOK, Job
  <2>2. <<n, p>> \in network.link
    BY <1>1, NetworkAssumption DEF GossipInv
  <2> QED
    BY <1>1, <2>1, <2>2 DEF Busy, ActiveOn
<1>3. PICK X \in SUBSET Node : IsSide(X, p, n)
  BY <1>1, SideExists
<1> HIDE DEF p, n, t, k
<1>4. CASE Origin[t] \notin X
  <2> SUFFICES ASSUME t \in transactions[p] PROVE FALSE
    BY <1>2 DEF p, t, k
  <2>1. Crossed(p, n, t)
    <3>1. \E x \in X : t \in transactions[x]
      BY <1>3 DEF IsSide
    <3> QED
      BY <1>1, <1>2, <1>3, <1>4, <3>1 DEF Sides, p, n
  <2> QED
    BY <1>1, <2>1 DEF Crossed, k, t
<1>5. CASE Origin[t] \in X
  <2> DEFINE Y == Node \ X
             m == <<n, p>>
  <2>1. IsSide(Y, n, p) /\ Y \in SUBSET Node /\ n \in Y
    <3>1. \A a, b \in Node : <<a, b>> \in network.link => <<b, a>> \in network.link
      BY NetworkAssumption DEF GossipInv
    <3>2. p \in X /\ n \notin X
      BY <1>3 DEF IsSide
    <3> QED
      BY <1>1, <1>3, <3>1, <3>2 DEF IsSide
  <2>2. m \in network.link /\ m[1] = n /\ m[2] = p
    BY <1>2
  <2> HIDE DEF Y, m
  <2>3. Crossed(n, p, t)
    <3>1. Origin[t] \notin Y /\ \E x \in Y : t \in transactions[x]
      BY <1>2, <1>5, <2>1 DEF Y
    <3> QED
      BY <1>2, <2>1, <2>2, <3>1 DEF Sides
  <2>4. k = m
    BY <1>2, <2>3 DEF Crossed, m
  <2>5. k \in Link /\ job[k].asked \subseteq Receivers(k)
    BY <1>1, <2>2, <2>4 DEF GossipInv, ListenerOK, Link
  <2> QED
    BY <1>1, <2>2, <2>4, <2>5 DEF Receivers
<1> QED
  BY <1>4, <1>5

(* A step in which nobody begins to push keeps what has crossed where it is:
   what is new in an inbox comes from those still to be asked. *)
LEMMA NothingNew ==
    ASSUME GossipInv, Sides, OnceEach, network' = network, transactions' = transactions,
           \A k \in Task : Active(k)' =>
               Active(k) /\ job'[k].tx = job[k].tx /\ job'[k].left \subseteq job[k].left,
           \A l \in Link : \A i \in DOMAIN inbox'[l] :
               LET k == inbox'[l][i]
               IN  /\ job'[k].tx = job[k].tx
                   /\ \/ \E j \in DOMAIN inbox[l] : inbox[l][j] = k
                      \/ k \in Task /\ Active(k) /\ k[1] = l[2] /\ l[1] \in job[k].left
    PROVE  Sides' /\ OnceEach'
<1>1. OnceEach'
  BY DEF OnceEach
<1>2. ASSUME NEW n \in Node, NEW t \in Tx
      PROVE  \A k \in Busy(n, t)' : k \in Busy(n, t) /\ job'[k].left \subseteq job[k].left
  BY DEF Busy, ActiveOn
<1>3. Sides'
  <2> SUFFICES ASSUME NEW l \in network.link, NEW X \in SUBSET Node, NEW t \in Tx,
                      IsSide(X, l[1], l[2]), Origin[t] \notin X,
                      \E x \in X : t \in transactions[x]
               PROVE  Crossed(l[1], l[2], t)'
    BY DEF Sides, IsSide
  <2>1. l \in Link /\ l = <<l[1], l[2]>> /\ l[1] \in Node /\ l[2] \in Node
    BY Tasks DEF Link, GossipInv
  <2>2. Crossed(l[1], l[2], t)
    BY DEF Sides
  <2>3. ASSUME NEW i \in DOMAIN inbox'[l] PROVE job'[inbox'[l][i]].tx # t
    <3> SUFFICES ASSUME job'[inbox'[l][i]].tx = t PROVE FALSE
      OBVIOUS
    <3> DEFINE k == inbox'[l][i]
    <3>1. job[k].tx = t
      BY <2>1
    <3>2. CASE \E j \in DOMAIN inbox[l] : inbox[l][j] = k
      BY <2>1, <2>2, <3>1, <3>2 DEF Crossed
    <3>3. CASE k \in Task /\ Active(k) /\ k[1] = l[2] /\ l[1] \in job[k].left
      BY <2>2, <3>1, <3>3 DEF Crossed, Busy, ActiveOn
    <3> QED
      BY <2>1, <3>2, <3>3
  <2> QED
    BY <1>2, <2>1, <2>2, <2>3 DEF Crossed
<1> QED
  BY <1>1, <1>3

(* A peer that is asked had not been asked, and is no more among those left. *)
LEMMA AskOnTree ==
    ASSUME GossipInv, TreeInv, NEW k \in Task, Ask(k)
    PROVE  TreeInv'
<1>1. /\ job[k].phase = "pushing" /\ job[k] \in Job /\ job[k].asked = {} /\ Active(k)
      /\ k[1] \in Node
  BY Tasks DEF Ask, GossipInv, TaskOK, Active, IsPushing
<1>2. PICK p \in job[k].left :
          /\ job' = [job EXCEPT ![k].asked = {p}, ![k].left = @ \ {p}]
          /\ inbox' = [inbox EXCEPT ![<<p, k[1]>>] = Append(@, k)]
  BY DEF Ask
<1> DEFINE m == <<p, k[1]>>
<1>3. /\ job'[k].phase = "pushing" /\ job'[k].tx = job[k].tx /\ job'[k].from = job[k].from
      /\ job'[k].left = job[k].left \ {p} /\ job'[k].asked = {p}
      /\ \A a \in Task \ {k} : job'[a] = job[a]
      /\ network' = network /\ transactions' = transactions
  BY <1>1, <1>2 DEF Ask, GossipInv, Job
<1>4. m \in Link /\ m[1] = p /\ m[2] = k[1] /\ p \in Node
  <2>1. p \in Node /\ <<k[1], p>> \in network.link
    BY <1>1 DEF GossipInv, TaskOK, Peers
  <2> QED
    BY <1>1, <2>1, NetworkAssumption DEF GossipInv, Link
<1>5. /\ inbox[m] \in Seq(Task) /\ inbox'[m] = Append(inbox[m], k)
      /\ \A l \in Link \ {m} : inbox'[l] = inbox[l]
  BY <1>2, <1>4 DEF GossipInv
<1> HIDE DEF m
<1>6. /\ DOMAIN inbox[m] = 1 .. Len(inbox[m]) /\ DOMAIN inbox'[m] = 1 .. Len(inbox[m]) + 1
      /\ \A i \in DOMAIN inbox[m] : i \in DOMAIN inbox'[m] /\ inbox'[m][i] = inbox[m][i]
      /\ \A i \in DOMAIN inbox'[m] : i \in DOMAIN inbox[m] \/ inbox'[m][i] = k
      /\ \E i \in DOMAIN inbox'[m] : inbox'[m][i] = k
  <2>1. Len(inbox[m]) \in Nat /\ DOMAIN inbox[m] = 1 .. Len(inbox[m])
    BY <1>5
  <2>2. /\ DOMAIN inbox'[m] = 1 .. Len(inbox[m]) + 1
        /\ \A i \in 1 .. Len(inbox[m]) : inbox'[m][i] = inbox[m][i]
        /\ inbox'[m][Len(inbox[m]) + 1] = k
    BY <1>5, AppendProperties
  <2> QED
    BY <2>1, <2>2
<1>7. \A a \in Task : /\ Active(a)' <=> Active(a)
                      /\ job'[a].phase = job[a].phase
                      /\ job'[a].tx = job[a].tx /\ job'[a].left \subseteq job[a].left
                      /\ job'[a].from = job[a].from
  BY <1>1, <1>3 DEF Active
<1>8. Healthy'
  BY <1>1, <1>3, <1>7, Tasks DEF TreeInv, Healthy
<1>9. OneAsked'
  <2> SUFFICES ASSUME NEW a \in Task, Active(a)'
               PROVE  /\ job'[a].asked \cap job'[a].left = {}
                      /\ job'[a].asked = {} \/ \E q \in Node : job'[a].asked = {q}
    BY DEF OneAsked
  <2>1. CASE a = k
    BY <1>3, <1>4, <2>1
  <2>2. CASE a # k
    BY <1>3, <1>7, <2>2 DEF TreeInv, OneAsked
  <2> QED
    BY <2>1, <2>2
<1>10. Submitted'
  <2> SUFFICES ASSUME NEW n \in Node, NEW t \in transactions[n] PROVE job'[Call(t)].phase # "idle"
    BY <1>3 DEF Submitted, Call
  <2>1. Call(t) \in Task /\ job[Call(t)].phase # "idle"
    BY Tasks DEF GossipInv, TreeInv, Submitted
  <2> QED
    BY <1>7, <2>1
<1>11. Reached'
  <2> SUFFICES ASSUME NEW a \in Task, NEW q \in job'[a].asked, Active(a)'
               PROVE  Reaches(a, <<q, a[1]>>)'
    BY DEF Reached
  <2>1. CASE a = k
    BY <1>3, <1>6, <2>1 DEF Reaches, m
  <2>2. CASE a # k
    <3> DEFINE l == <<q, a[1]>>
    <3>1. l \in Link
      <4>1. a[1] \in Node /\ <<a[1], q>> \in network.link /\ q \in Node
        BY <1>3, <1>7, <2>2, Tasks DEF GossipInv, TaskOK, Peers
      <4> QED
        BY <4>1, NetworkAssumption DEF GossipInv, Link
    <3>2. Reaches(a, l)
      BY <1>3, <1>7, <2>2 DEF TreeInv, Reached
    <3> HIDE DEF l
    <3>3. (\E i \in DOMAIN inbox[l] : inbox[l][i] = a) => \E i \in DOMAIN inbox'[l] : inbox'[l][i] = a
      BY <1>5, <1>6, <3>1
    <3>4. Active(l) /\ job[l].from = a => Active(l)' /\ job'[l].from = a
      BY <1>7, <3>1, Tasks
    <3>5. Reaches(a, l)'
      BY <3>2, <3>3, <3>4 DEF Reaches
    <3> QED
      BY <3>5 DEF l
  <2> QED
    BY <2>1, <2>2
<1>12. Sides' /\ OnceEach'
  <2>1. ASSUME NEW l \in Link, NEW i \in DOMAIN inbox'[l], NEW a, a = inbox'[l][i]
        PROVE  /\ job'[a].tx = job[a].tx
               /\ \/ \E j \in DOMAIN inbox[l] : inbox[l][j] = a
                  \/ a \in Task /\ Active(a) /\ a[1] = l[2] /\ l[1] \in job[a].left
    <3>1. CASE i \in DOMAIN inbox[l] /\ a = inbox[l][i]
      <4>1. a \in Task
        BY <3>1 DEF GossipInv, InboxOK, Awaits
      <4> QED
        BY <1>7, <3>1, <4>1
    <3>2. CASE l = m /\ a = k
      BY <1>1, <1>4, <1>7, <3>2
    <3> QED
      BY <1>5, <1>6, <2>1, <3>1, <3>2
  <2> QED
    BY <1>3, <1>7, <2>1, NothingNew DEF TreeInv
<1> QED
  BY <1>8, <1>9, <1>10, <1>11, <1>12 DEF TreeInv

(* Who answers is no more working for anybody, and who is answered awaits no more. *)
LEMMA FinishOnTree ==
    ASSUME GossipInv, TreeInv, NEW k \in Task, Finish(k)
    PROVE  /\ TreeInv'
           /\ ~Active(k)'
           /\ \A a \in Task : Active(a)' =>
                 /\ Active(a) /\ job'[a].tx = job[a].tx /\ job'[a].left \subseteq job[a].left
                 /\ job'[a].asked \subseteq job[a].asked \cup job[a].left
<1>1. /\ job[k].phase = "pushing" /\ job[k].asked = {} /\ Active(k)
      /\ \A l \in Link : ~Awaits(k, l)
      /\ network' = network /\ transactions' = transactions /\ inbox' = inbox
  BY DEF Finish, IsPushing, Active, Awaits
<1>2. ASSUME NEW l \in Link, Active(l)
      PROVE  l \in Task /\ job[l].from \in Task \ {k} /\ Awaits(job[l].from, l)
  <2>1. Awaits(job[l].from, l)
    BY <1>2 DEF GossipInv, ListenerOK
  <2>2. job[l].from # k
    BY <1>1, <2>1
  <2> QED
    BY <2>1, <2>2, Tasks DEF Awaits
<1>3. /\ ~Active(k)'
      /\ job'[k].phase \in {"idle", "ok"} /\ (k \in Link => job'[k] = Idle)
      /\ (k \in Calls => job'[k].phase # "idle")
      /\ \A a \in Task \ {k} :
            \/ job'[a] = job[a]
            \/ /\ Active(a) /\ job'[a].phase = job[a].phase /\ job'[a].asked = {}
               /\ job'[a].tx = job[a].tx /\ job'[a].left = job[a].left
               /\ job'[a].from = job[a].from
  <2>1. CASE k \in Calls
    <3>1. job' = [job EXCEPT ![k] = Ok]
      BY <2>1 DEF Finish
    <3>2. job'[k] = Ok /\ \A a \in Task \ {k} : job'[a] = job[a]
      BY <3>1 DEF GossipInv
    <3> QED
      BY <2>1, <3>2, Tasks DEF Active, Ok
  <2>2. CASE k \in Link /\ k \notin Calls
    <3>1. PICK f \in Task \ {k} : f = job[k].from
      BY <1>1, <1>2, <2>2
    <3>2. job' = Answered([job EXCEPT ![k] = Idle], f)
      BY <2>2, <3>1 DEF Finish
    <3>3. /\ job'[k] = Idle /\ job'[f] = [job[f] EXCEPT !.asked = {}]
          /\ \A a \in Task \ {k, f} : job'[a] = job[a]
      BY <3>1, <3>2 DEF Answered, GossipInv
    <3>4. Active(f) /\ job[f] \in Job
      BY <1>1, <2>2, <3>1 DEF GossipInv, ListenerOK, Awaits, IsPushing, TaskOK, Active
    <3>5. /\ job'[f].phase = job[f].phase /\ job'[f].asked = {}
          /\ job'[f].tx = job[f].tx /\ job'[f].left = job[f].left /\ job'[f].from = job[f].from
      BY <3>3, <3>4 DEF Job
    <3>6. job'[k] = Idle /\ job'[k].phase = "idle" /\ ~Active(k)'
      BY <3>3 DEF Active, Idle
    <3>7. \A a \in Task \ {k} : job'[a] = job[a] \/ a = f
      BY <3>3
    <3> QED
      BY <2>2, <3>4, <3>5, <3>6, <3>7
  <2> QED
    BY <2>1, <2>2, Tasks DEF Task
<1>4. \A a \in Task : Active(a)' =>
          /\ a # k /\ Active(a) /\ job'[a].tx = job[a].tx /\ job'[a].left = job[a].left
          /\ job'[a].from = job[a].from
          /\ job'[a].asked = {} \/ job'[a].asked = job[a].asked
  BY <1>3 DEF Active
<1>5. \A a \in Task \ {k} : /\ job'[a].phase = job[a].phase /\ (Active(a) <=> Active(a)')
                            /\ Active(a) => job'[a].tx = job[a].tx /\ job'[a].from = job[a].from
  BY <1>3 DEF Active
<1>6. Healthy'
  BY <1>3, <1>5, Tasks DEF TreeInv, Healthy, Active
<1>7. OneAsked'
  BY <1>4 DEF TreeInv, OneAsked
<1>8. Submitted'
  <2> SUFFICES ASSUME NEW n \in Node, NEW t \in transactions[n] PROVE job'[Call(t)].phase # "idle"
    BY <1>1 DEF Submitted, Call
  <2>1. Call(t) \in Task /\ Call(t) \in Calls /\ job[Call(t)].phase # "idle"
    BY Tasks DEF GossipInv, TreeInv, Submitted
  <2> QED
    BY <1>3, <1>5, <2>1
<1>9. Reached'
  <2> SUFFICES ASSUME NEW a \in Task, NEW q \in job'[a].asked, Active(a)'
               PROVE  Reaches(a, <<q, a[1]>>)'
    BY DEF Reached
  <2> DEFINE l == <<q, a[1]>>
  <2>1. a # k /\ Active(a) /\ q \in job[a].asked
    BY <1>4
  <2>2. l \in Link
    <3>1. a[1] \in Node /\ <<a[1], q>> \in network.link /\ q \in Node
      BY <2>1, Tasks DEF GossipInv, TaskOK, Peers
    <3> QED
      BY <3>1, NetworkAssumption DEF GossipInv, Link
  <2>3. Reaches(a, l)
    BY <2>1 DEF TreeInv, Reached
  <2> HIDE DEF l
  <2>4. ASSUME Active(l), job[l].from = a PROVE Reaches(a, l)'
    <3>1. l \in Task /\ (l # k => Active(l)' /\ job'[l].from = a)
      BY <1>5, <2>2, <2>4, Tasks
    <3>2. l # k
      <4>1. CASE l = k
        <5>1. Awaits(job[k].from, k) /\ job[k].from = a
          BY <1>1, <2>2, <2>4, <4>1 DEF GossipInv, ListenerOK
        <5>2. job'[a].asked = {}
          BY <1>1, <2>1, <2>2, <4>1, <5>1, Tasks
             DEF Finish, Answered, GossipInv, Awaits, IsPushing, TaskOK, Active, Job
        <5> QED
          BY <5>2
      <4> QED
        BY <4>1
    <3> QED
      BY <3>1, <3>2 DEF Reaches
  <2> QED
    <3>1. Reaches(a, l)'
      BY <1>1, <2>3, <2>4 DEF Reaches
    <3> QED
      BY <3>1 DEF l
<1>10. Sides' /\ OnceEach'
  <2>1. ASSUME NEW l \in Link, NEW i \in DOMAIN inbox'[l], NEW a, a = inbox'[l][i]
        PROVE  /\ job'[a].tx = job[a].tx
               /\ \E j \in DOMAIN inbox[l] : inbox[l][j] = a
    <3>1. i \in DOMAIN inbox[l] /\ a = inbox[l][i]
      BY <1>1, <2>1
    <3>2. Awaits(a, l) /\ a \in Task
      BY <3>1 DEF GossipInv, InboxOK, Awaits
    <3>3. a # k /\ Active(a)
      BY <1>1, <3>2 DEF Awaits, IsPushing, Active
    <3> QED
      BY <1>5, <3>1, <3>2, <3>3
  <2>2. \A a \in Task : Active(a)' =>
            Active(a) /\ job'[a].tx = job[a].tx /\ job'[a].left \subseteq job[a].left
    BY <1>4
  <2> QED
    BY <1>1, <2>1, <2>2, NothingNew DEF TreeInv
<1> QED
  BY <1>3, <1>4, <1>6, <1>7, <1>8, <1>9, <1>10 DEF TreeInv

(* Where all agree, what is new to a node can be put into its pool. *)
LEMMA NewIsTaken ==
    ASSUME GossipInv, Agreed, NEW n \in Node, NEW t \in Tx, t \notin transactions[n]
    PROVE  Puts(n, t) /\ t \in network.valid[n]
BY DEF GossipInv, Agreed, Puts

(* The task k begins to push t. *)
Begins(k, t) == \E from, left : job' = [job EXCEPT ![k] = Pushing(t, from, left)]

(* If t enters a side at n, it has crossed the side's connection. *)
Enters(n, t) ==
    \A l \in network.link, X \in SUBSET Node :
        /\ IsSide(X, l[1], l[2]) /\ Origin[t] \notin X /\ n \in X
        /\ \A x \in X : t \notin transactions[x]
        => Crossed(l[1], l[2], t)'

(* A task that begins to push what is new to its node breaks nothing, if a
   transaction that enters a side by that has crossed. *)
LEMMA BeginsToPush ==
    ASSUME GossipInv, TreeInv, network' = network,
           NEW k \in Task, NEW t \in Tx,
           job[k].phase = "idle", t \notin transactions[k[1]],
           Begins(k, t), TakeInto(k[1], t), Enters(k[1], t),
           job'[Call(t)].phase # "idle",
           \A l \in Link : \A i \in DOMAIN inbox'[l] :
               \E j \in DOMAIN inbox[l] : inbox[l][j] = inbox'[l][i]
    PROVE  Healthy' /\ OnceEach' /\ OneAsked' /\ Submitted' /\ Sides'
<1>1. /\ job'[k].phase = "pushing" /\ job'[k].tx = t /\ job'[k].asked = {}
      /\ \A a \in Task \ {k} : job'[a] = job[a]
  BY DEF GossipInv, Pushing, Begins
<1>2. /\ k[1] \in Node
      /\ \A n \in Node : transactions[n] \subseteq transactions'[n]
      /\ \A n \in Node : \A u \in transactions'[n] : u \in transactions[n] \/ (n = k[1] /\ u = t)
  <2>1. k[1] \in Node
    BY Tasks
  <2>2. /\ transactions'[k[1]] = transactions[k[1]] \cup {t}
        /\ \A n \in Node \ {k[1]} : transactions'[n] = transactions[n]
    BY <2>1 DEF TakeInto, GossipInv
  <2> QED
    BY <2>1, <2>2
<1>3. \A a \in Task : Active(a) => a # k /\ job[a].tx \in transactions[a[1]]
  BY DEF Active, GossipInv, TaskOK
<1>4. \A a \in Task : Active(a)' => a = k \/ (Active(a) /\ job'[a] = job[a])
  BY <1>1 DEF Active
<1>5. Healthy'
  BY <1>1, Tasks DEF TreeInv, Healthy, Active
<1>6. OnceEach'
  <2> SUFFICES ASSUME NEW a \in Task, NEW b \in Task, Active(a)', Active(b)', a[1] = b[1],
                      job'[a].tx = job'[b].tx
               PROVE  a = b
    BY DEF OnceEach
  <2>1. CASE a # k /\ b # k
    BY <1>4, <2>1 DEF TreeInv, OnceEach
  <2>2. CASE a = k /\ b # k
    BY <1>1, <1>3, <1>4, <2>2
  <2>3. CASE a # k /\ b = k
    BY <1>1, <1>3, <1>4, <2>3
  <2> QED
    BY <2>1, <2>2, <2>3
<1>7. OneAsked'
  <2> SUFFICES ASSUME NEW a \in Task, Active(a)'
               PROVE  /\ job'[a].asked \cap job'[a].left = {}
                      /\ job'[a].asked = {} \/ \E q \in Node : job'[a].asked = {q}
    BY DEF OneAsked
  <2>1. CASE a = k
    BY <1>1, <2>1
  <2>2. CASE a # k
    BY <1>4, <2>2 DEF TreeInv, OneAsked
  <2> QED
    BY <2>1, <2>2
<1>8. Submitted'
  <2> SUFFICES ASSUME NEW n \in Node, NEW u \in transactions'[n] PROVE job'[Call(u)].phase # "idle"
    BY DEF Submitted, Call
  <2>1. CASE u = t
    BY <2>1
  <2>2. CASE u \in transactions[n]
    <3>1. Call(u) \in Task /\ job[Call(u)].phase # "idle"
      BY <2>2, Tasks DEF GossipInv, TreeInv, Submitted
    <3> QED
      BY <1>1, <3>1
  <2> QED
    BY <1>2, <2>1, <2>2
<1>9. Sides'
  <2> SUFFICES ASSUME NEW l \in network.link, NEW X \in SUBSET Node, NEW u \in Tx,
                      IsSide(X, l[1], l[2]), Origin[u] \notin X,
                      NEW x \in X, u \in transactions'[x]
               PROVE  Crossed(l[1], l[2], u)'
    BY DEF Sides, IsSide
  <2>1. l \in Link /\ l = <<l[1], l[2]>> /\ l[1] \in Node /\ l[2] \in Node
    BY Tasks DEF Link, GossipInv
  <2>2. CASE \E y \in X : u \in transactions[y]
    <3>1. Crossed(l[1], l[2], u)
      BY <2>2 DEF TreeInv, Sides
    <3>2. ~(u = t /\ k[1] \in {l[1], l[2]})
      BY <3>1 DEF Crossed
    <3>3. \A n \in {l[1], l[2]} : \A a \in Busy(n, u)' : a \in Busy(n, u) /\ job'[a] = job[a]
      BY <1>1, <1>4, <3>2 DEF Busy, ActiveOn
    <3>4. u \in transactions'[l[1]] \cap transactions'[l[2]]
      BY <1>2, <2>1, <3>1 DEF Crossed
    <3>5. ASSUME NEW i \in DOMAIN inbox'[l] PROVE job'[inbox'[l][i]].tx # u
      <4>1. PICK j \in DOMAIN inbox[l] : inbox[l][j] = inbox'[l][i]
        BY <2>1
      <4>2. Awaits(inbox[l][j], l) /\ inbox[l][j] \in Task \ {k}
        BY <2>1 DEF GossipInv, InboxOK, Awaits, IsPushing
      <4>3. job[inbox[l][j]].tx # u
        BY <2>1, <3>1 DEF Crossed
      <4> QED
        BY <1>1, <4>1, <4>2, <4>3
    <3> QED
      BY <2>1, <3>1, <3>3, <3>4, <3>5 DEF Crossed
  <2>3. CASE \A y \in X : u \notin transactions[y]
    <3>1. x = k[1] /\ u = t
      BY <1>2, <2>3
    <3> QED
      BY <2>3, <3>1 DEF Enters
  <2> QED
    BY <2>2, <2>3
<1> QED
  BY <1>5, <1>6, <1>7, <1>8, <1>9

(* What is submitted is nowhere yet, and so is taken. *)
LEMMA SubmitOnTree ==
    ASSUME GossipInv, TreeInv, Agreed, NEW t \in Tx, Submit(t)
    PROVE  TreeInv' /\ t \notin transactions[Origin[t]] /\ TakeInto(Origin[t], t)
<1> DEFINE c == Call(t)
<1>1. /\ c \in Task /\ c \in Calls /\ c \notin Link /\ job[c].phase = "idle"
      /\ c[1] = Origin[t] /\ Origin[t] \in Node
      /\ network' = network /\ inbox' = inbox
  BY Tasks DEF Submit, Idle
<1>2. \A n \in Node : t \notin transactions[n]
  BY <1>1 DEF TreeInv, Submitted
<1>3. /\ TakeInto(Origin[t], t)
      /\ job' = [job EXCEPT ![c] = Pushing(t, c, Peers(Origin[t]))]
  BY <1>1, <1>2, NewIsTaken DEF Submit
<1>4. /\ job'[c].phase = "pushing" /\ job'[c].asked = {}
      /\ \A a \in Task \ {c} : job'[a] = job[a]
  BY <1>1, <1>3 DEF GossipInv, Pushing
<1>5. job'[Call(t)].phase # "idle"
  BY <1>4
<1>6. Healthy' /\ OnceEach' /\ OneAsked' /\ Submitted' /\ Sides'
  <2>1. Begins(c, t) /\ Enters(c[1], t)
    BY <1>1, <1>3 DEF Begins, Enters
  <2> HIDE DEF c
  <2> QED
    BY <1>1, <1>2, <1>3, <1>5, <2>1, BeginsToPush
<1> HIDE DEF c
<1>7. Reached'
  <2> SUFFICES ASSUME NEW a \in Task, NEW q \in job'[a].asked, Active(a)'
               PROVE  Reaches(a, <<q, a[1]>>)'
    BY DEF Reached
  <2> DEFINE l == <<q, a[1]>>
  <2>1. a # c /\ Active(a) /\ q \in job[a].asked
    BY <1>4 DEF Active
  <2>2. l \in Link
    <3>1. a[1] \in Node /\ <<a[1], q>> \in network.link /\ q \in Node
      BY <2>1, Tasks DEF GossipInv, TaskOK, Peers
    <3> QED
      BY <3>1, NetworkAssumption DEF GossipInv, Link
  <2>3. Reaches(a, l)
    BY <2>1 DEF TreeInv, Reached
  <2> HIDE DEF l
  <2>4. l \in Task \ {c}
    BY <1>1, <2>2, Tasks
  <2>5. Reaches(a, l)'
    BY <1>1, <1>4, <2>3, <2>4 DEF Reaches, Active
  <2> QED
    BY <2>5 DEF l
<1> QED
  BY <1>1, <1>2, <1>3, <1>6, <1>7 DEF TreeInv

(* What is accepted is new, and by that crosses the connection. *)
LEMMA AcceptOnTree ==
    ASSUME GossipInv, TreeInv, Acyclic, Agreed, NEW l \in Link, Accept(l)
    PROVE  /\ TreeInv'
           /\ \E t \in Tx : /\ t \notin transactions[l[1]] /\ TakeInto(l[1], t)
                            /\ job'[l].tx = t /\ \A a \in Task \ {l} : job'[a] = job[a]
<1>0. PICK k \in Task \ {l} : k = Head(inbox[l])
  BY Accepted
<1>1. /\ Awaits(k, l) /\ l \in network.link
      /\ job[k].phase = "pushing" /\ TaskOK(k)
      /\ \A m \in Link \ {l} : inbox'[m] = inbox[m]
      /\ \A i \in DOMAIN inbox'[l] :
            /\ i + 1 \in DOMAIN inbox[l] /\ inbox'[l][i] = inbox[l][i + 1]
            /\ inbox'[l][i] # k
  BY <1>0, Accepted
<1>2. /\ inbox[l] \in Seq(Task) /\ inbox[l] # <<>> /\ inbox'[l] = Tail(inbox[l])
      /\ job[l].phase = "idle" /\ network' = network
  BY DEF Accept, GossipInv, Idle
<1>3. /\ 1 \in DOMAIN inbox[l] /\ inbox[l][1] = k
      /\ \A i \in DOMAIN inbox[l] : i = 1 \/ \E j \in DOMAIN inbox'[l] : inbox'[l][j] = inbox[l][i]
  <2>1. /\ Len(inbox[l]) \in Nat \ {0} /\ DOMAIN inbox[l] = 1 .. Len(inbox[l])
        /\ DOMAIN inbox'[l] = 1 .. Len(inbox[l]) - 1
        /\ \A i \in 1 .. Len(inbox[l]) - 1 : inbox'[l][i] = inbox[l][i + 1]
    BY <1>2
  <2>2. ASSUME NEW i \in DOMAIN inbox[l], i # 1
        PROVE  \E j \in DOMAIN inbox'[l] : inbox'[l][j] = inbox[l][i]
    <3>1. i - 1 \in DOMAIN inbox'[l] /\ inbox'[l][i - 1] = inbox[l][i]
      BY <2>1, <2>2
    <3> QED
      BY <3>1
  <2> QED
    BY <1>0, <1>2, <2>1, <2>2
<1>4. PICK t \in Tx : t = job[k].tx /\ t \notin transactions[l[1]]
  BY <1>3, Fresh DEF TreeInv
<1>5. /\ l = <<l[1], l[2]>> /\ l[1] \in Node /\ l[2] \in Node /\ l[1] # l[2] /\ l \in Task
      /\ k[1] = l[2] /\ job[k].asked = {l[1]} /\ Active(k) /\ t \in transactions[l[2]]
  BY <1>1, <1>4, Tasks DEF Awaits, TaskOK, Active
<1>6. /\ TakeInto(l[1], t)
      /\ job' = [job EXCEPT ![l] = Pushing(t, k, Receivers(l))]
  BY <1>0, <1>4, <1>5, NewIsTaken DEF Accept
<1>7. /\ job'[l].phase = "pushing" /\ job'[l].asked = {} /\ job'[l].from = k /\ job'[l].tx = t
      /\ \A a \in Task \ {l} : job'[a] = job[a]
  BY <1>5, <1>6 DEF GossipInv, Pushing
<1>8. transactions'[l[1]] = transactions[l[1]] \cup {t} /\ transactions'[l[2]] = transactions[l[2]]
  BY <1>5, <1>6 DEF TakeInto, GossipInv
<1>9. job'[Call(t)].phase # "idle"
  <2>1. Call(t) \in Task \ {l} /\ job[Call(t)].phase # "idle"
    BY <1>4, <1>5, Tasks DEF TreeInv, Submitted
  <2> QED
    BY <1>7, <2>1
<1>10. Crossed(l[1], l[2], t)'
  <2>1. ASSUME NEW b \in Task, Active(b), b[1] = l[2], job[b].tx = t PROVE b = k
    BY <1>4, <1>5, <2>1 DEF TreeInv, OnceEach
  <2>2. ASSUME NEW b \in Busy(l[2], t)' PROVE l[1] \notin job'[b].left
    <3>1. b \in Task \ {l} /\ Active(b)' /\ b[1] = l[2] /\ job'[b].tx = t
      BY <1>5, <2>2 DEF Busy, ActiveOn
    <3>2. job'[b] = job[b] /\ b = k
      BY <1>7, <2>1, <3>1 DEF Active
    <3> QED
      BY <1>5, <3>2 DEF TreeInv, OneAsked
  <2>3. ASSUME NEW b \in Busy(l[1], t)' PROVE b = l
    <3> SUFFICES ASSUME b # l PROVE FALSE
      OBVIOUS
    <3>1. b \in Task \ {l} /\ Active(b)' /\ b[1] = l[1] /\ job'[b].tx = t
      BY <2>3 DEF Busy, ActiveOn
    <3>2. Active(b) /\ job[b].tx = t
      BY <1>7, <3>1 DEF Active
    <3> QED
      BY <1>4, <3>1, <3>2 DEF GossipInv, TaskOK
  <2>4. ASSUME NEW i \in DOMAIN inbox'[l] PROVE job'[inbox'[l][i]].tx # t
    <3>1. /\ inbox'[l][i] # k
          /\ Awaits(inbox'[l][i], l)
      BY <1>1 DEF GossipInv, InboxOK
    <3>2. PICK b \in Task \ {k} : b = inbox'[l][i]
      BY <3>1 DEF Awaits
    <3>3. Active(b) /\ b[1] = l[2] /\ b # l
      BY <1>2, <3>1, <3>2 DEF Awaits, IsPushing, Active
    <3> QED
      BY <1>7, <2>1, <3>2, <3>3
  <2> QED
    BY <1>4, <1>5, <1>8, <2>2, <2>3, <2>4 DEF Crossed
<1>11. ASSUME NEW m \in network.link, NEW X \in SUBSET Node,
              IsSide(X, m[1], m[2]), l[1] \in X, \A x \in X : t \notin transactions[x]
       PROVE  Crossed(m[1], m[2], t)'
  <2>1. l[2] \in Node \ X
    BY <1>5, <1>11
  <2>2. l[1] = m[1] /\ l[2] = m[2]
    BY <1>1, <1>5, <1>11, <2>1 DEF IsSide
  <2> QED
    BY <1>10, <2>2
<1>12. \A m \in Link : \A i \in DOMAIN inbox'[m] :
           \E j \in DOMAIN inbox[m] : inbox[m][j] = inbox'[m][i]
  BY <1>1
<1>13. Healthy' /\ OnceEach' /\ OneAsked' /\ Submitted' /\ Sides'
  <2>1. Begins(l, t) /\ Enters(l[1], t)
    BY <1>6, <1>11 DEF Begins, Enters
  <2> QED
    BY <1>2, <1>4, <1>5, <1>6, <1>9, <1>12, <2>1, BeginsToPush
<1>14. Reached'
  <2> SUFFICES ASSUME NEW b \in Task, NEW q \in job'[b].asked, Active(b)'
               PROVE  Reaches(b, <<q, b[1]>>)'
    BY DEF Reached
  <2> DEFINE m == <<q, b[1]>>
  <2>1. b # l /\ Active(b) /\ q \in job[b].asked
    BY <1>7 DEF Active
  <2>2. m \in Link
    <3>1. b[1] \in Node /\ <<b[1], q>> \in network.link /\ q \in Node
      BY <2>1, Tasks DEF GossipInv, TaskOK, Peers
    <3> QED
      BY <3>1, NetworkAssumption DEF GossipInv, Link
  <2>3. Reaches(b, m)
    BY <2>1 DEF TreeInv, Reached
  <2>4. b = k => m = l
    BY <1>5, <2>1
  <2> HIDE DEF m
  <2>5. Active(m) => m \in Task \ {l} /\ Active(m)' /\ job'[m] = job[m]
    BY <1>2, <1>7, <2>2, Tasks DEF Active
  <2>6. Active(l)' /\ job'[l].from = k
    BY <1>7 DEF Active
  <2>7. ASSUME NEW i \in DOMAIN inbox[m], inbox[m][i] = b
        PROVE  b = k \/ \E j \in DOMAIN inbox'[m] : inbox'[m][j] = b
    BY <1>1, <1>3, <2>2, <2>7
  <2>8. Reaches(b, m)'
    BY <2>3, <2>4, <2>5, <2>6, <2>7 DEF Reaches
  <2> QED
    BY <2>8 DEF m
<1> QED
  BY <1>4, <1>6, <1>7, <1>13, <1>14 DEF TreeInv

(* On an agreeing network without cycles TreeInv is inductive, with GossipInv. *)
LEMMA TreeInvariant == GossipSpec => [](GossipInv /\ (AgreeingTree => TreeInv))
<1>1. GossipInit => TreeInv
  <2> SUFFICES ASSUME GossipInit PROVE TreeInv
    OBVIOUS
  <2>1. \A k \in Task : job[k] = Idle /\ ~Active(k) /\ job[k].phase = "idle"
    BY DEF GossipInit, Active, Idle
  <2>2. \A n \in Node : transactions[n] = {}
    BY DEF GossipInit
  <2>3. Healthy /\ OnceEach /\ OneAsked /\ Reached
    BY <2>1, Tasks DEF Healthy, OnceEach, OneAsked, Reached
  <2>4. Submitted /\ Sides
    BY <2>2 DEF Submitted, Sides
  <2> QED
    BY <2>3, <2>4 DEF TreeInv
<1>2. GossipInv /\ GossipInv' /\ (AgreeingTree => TreeInv) /\ [GossipNext]_gossipVars
         => (AgreeingTree => TreeInv)'
  <2> SUFFICES ASSUME GossipInv, AgreeingTree => TreeInv, [GossipNext]_gossipVars, AgreeingTree'
               PROVE  TreeInv'
    OBVIOUS
  <2>1. network' = network
    BY DEF GossipNext, gossipVars, Submit, Ask, Finish, GiveUp, Accept
  <2>2. Acyclic /\ Agreed /\ TreeInv
    BY <2>1 DEF AgreeingTree, Acyclic, Agreed
  <2>3. ASSUME NEW t \in Tx, Submit(t) PROVE TreeInv'
    BY <2>2, <2>3, SubmitOnTree
  <2>4. ASSUME NEW k \in Task, Ask(k) PROVE TreeInv'
    BY <2>2, <2>4, AskOnTree
  <2>5. ASSUME NEW k \in Task, Finish(k) PROVE TreeInv'
    BY <2>2, <2>5, FinishOnTree
  <2>6. ASSUME NEW k \in Task, GiveUp(k) PROVE TreeInv'
    BY <2>2, <2>6 DEF GiveUp, TreeInv, Healthy
  <2>7. ASSUME NEW l \in Link, Accept(l) PROVE TreeInv'
    BY <2>2, <2>7, AcceptOnTree
  <2>8. CASE UNCHANGED gossipVars
    <3>1. network' = network /\ transactions' = transactions /\ job' = job /\ inbox' = inbox
      BY <2>8 DEF gossipVars
    <3>2. Healthy' /\ OnceEach' /\ OneAsked' /\ Submitted' /\ Reached'
      BY <2>2, <3>1 DEF TreeInv, Healthy, OnceEach, OneAsked, Submitted, Reached, Reaches, Active, Call
    <3>3. Sides'
      BY <2>2, <3>1 DEF TreeInv, Sides, IsSide, Crossed, Busy, ActiveOn, Active
    <3> QED
      BY <3>2, <3>3 DEF TreeInv
  <2> QED
    BY <2>3, <2>4, <2>5, <2>6, <2>7, <2>8 DEF GossipNext
<1> QED
  BY <1>1, <1>2, GossipInvariant, PTL DEF GossipSpec

-----------------------------------------------------------------------------
(* No listener refuses, no call returns an error. *)
NobodyFails ==
    AgreeingTree => \A k \in Task : job[k].phase \in {"idle", "pushing", "ok"}

(* While a push is not over, somebody can turn to its next peer or is done
   (Ask, Finish), or a listener that has nothing to do has a request (Accept). *)
SomebodyGoesOn ==
    AgreeingTree /\ (\E k \in Task : Active(k)) =>
        \E k \in Task :
            \/ IsPushing(k) /\ job[k].asked = {}
            \/ k \in Link /\ job[k] = Idle /\ inbox[k] # <<>>

(* When every push is over, nodes that are connected have the same transactions. *)
SettledNodesAgree ==
    AgreeingTree /\ (\A k \in Task : ~Active(k)) =>
        \A l \in network.link : transactions[l[1]] = transactions[l[2]]

(* What has been done: transactions taken, pushes over, peers asked, and peers
   that have answered. *)
Taken == {x \in Node \X Tx : x[2] \in transactions[x[1]]}
Over == {x \in Taken : Busy(x[1], x[2]) = {}}
PeerAsked ==
    {x \in Node \X Tx \X Node : /\ x[2] \in transactions[x[1]]
                                /\ \A k \in Busy(x[1], x[2]) : x[3] \notin job[k].left}
PeerAnswered ==
    {x \in PeerAsked : \A k \in Busy(x[1], x[2]) : x[3] \notin job[k].asked}

(* Every step does something that had not been done, and undoes nothing: with
   finitely many nodes and transactions there are finitely many steps. *)
StepIsProgress ==
    AgreeingTree =>
        /\ Taken \subseteq Taken' /\ Over \subseteq Over'
        /\ PeerAsked \subseteq PeerAsked' /\ PeerAnswered \subseteq PeerAnswered'
        /\ \/ Taken # Taken' \/ Over # Over' \/ PeerAsked # PeerAsked'
EveryStepIsProgress == [][StepIsProgress]_gossipVars

(* Where all agree, on any network without cycles, nobody fails: whatever is
   pushed, and by how many at once, nobody is asked to take what he has. *)
THEOREM NobodyEverFails == GossipSpec => []NobodyFails
<1>1. (AgreeingTree => TreeInv) => NobodyFails
  BY DEF TreeInv, Healthy, NobodyFails
<1> QED
  BY <1>1, TreeInvariant, PTL

(* Such a network never stands still while a push is not over: if all awaited
   an answer, the listeners that are awaited would wait for each other in a ring. *)
THEOREM SomebodyAlwaysGoesOn == GossipSpec => []SomebodyGoesOn
<1>1. GossipInv /\ (AgreeingTree => TreeInv) /\ NoWaitCycle => SomebodyGoesOn
  <2> SUFFICES ASSUME GossipInv, AgreeingTree, TreeInv, NoWaitCycle,
                      NEW a \in Task, Active(a),
                      \A k \in Task : /\ ~(IsPushing(k) /\ job[k].asked = {})
                                      /\ ~(k \in Link /\ job[k] = Idle /\ inbox[k] # <<>>)
               PROVE  FALSE
    BY DEF SomebodyGoesOn
  <2> DEFINE S == {l \in network.link : Active(l)}
  <2>1. ASSUME NEW k \in Task, Active(k)
        PROVE  \E p \in Node : job[k].asked = {p} /\ <<p, k[1]>> \in S
    <3>1. IsPushing(k)
      BY <2>1 DEF TreeInv, Healthy, Active, IsPushing
    <3>2. PICK p \in Node : job[k].asked = {p}
      BY <2>1, <3>1 DEF TreeInv, OneAsked
    <3> DEFINE l == <<p, k[1]>>
    <3>3. l \in network.link /\ l \in Link /\ l \in Task
      <4>1. k[1] \in Node /\ <<k[1], p>> \in network.link
        BY <2>1, <3>2, Tasks DEF GossipInv, TaskOK, Peers
      <4> QED
        BY <4>1, NetworkAssumption, Tasks DEF GossipInv, Link
    <3>4. Reaches(k, l)
      BY <2>1, <3>2 DEF TreeInv, Reached
    <3> HIDE DEF l
    <3>5. Active(l)
      <4> SUFFICES ASSUME ~Active(l) PROVE FALSE
        OBVIOUS
      <4>1. inbox[l] # <<>>
        <5>1. PICK i \in DOMAIN inbox[l] : inbox[l][i] = k
          BY <3>4 DEF Reaches
        <5> QED
          BY <5>1
      <4>2. job[l] = Idle
        BY <3>3 DEF TreeInv, Healthy
      <4> QED
        BY <3>3, <4>1, <4>2
    <3> QED
      BY <3>2, <3>3, <3>5 DEF l
  <2>2. S # {}
    BY <2>1
  <2>3. PICK l \in S : \A p \in job[l].asked : <<p, l[1]>> \notin S
    BY <2>2 DEF NoWaitCycle, AgreeingTree
  <2>4. l \in Task /\ Active(l)
    BY Tasks DEF GossipInv, Link
  <2> QED
    BY <2>1, <2>3, <2>4
<1> QED
  BY <1>1, TreeInvariant, NoRingOfListeners, PTL

(* When such a network has come to rest, a transaction that one node has taken
   is with all that are connected to it, over however many connections. *)
THEOREM SettledNodesDoAgree == GossipSpec => []SettledNodesAgree
<1>1. GossipInv /\ PushInv /\ (AgreeingTree => TreeInv) => SettledNodesAgree
  <2> SUFFICES ASSUME GossipInv, PushInv, AgreeingTree, TreeInv,
                      \A k \in Task : ~Active(k), NEW l \in network.link
               PROVE  transactions[l[1]] = transactions[l[2]]
    BY DEF SettledNodesAgree
  <2>1. ASSUME NEW n \in Node, NEW p \in Node, <<n, p>> \in network.link, NEW t \in transactions[n]
        PROVE  t \in transactions[p]
    <3>1. Covered(n, t) /\ t \in Tx
      BY DEF PushInv, GossipInv
    <3>2. job[Call(t)].phase # "err"
      BY <3>1, Tasks DEF TreeInv, Healthy
    <3>3. Missing(n, t) = {}
      BY <3>1, <3>2 DEF Covered, ActiveOn
    <3> QED
      BY <2>1, <3>1, <3>3 DEF Missing, Peers, AgreeingTree, Agreed
  <2>2. /\ l[1] \in Node /\ l[2] \in Node
        /\ <<l[1], l[2]>> \in network.link /\ <<l[2], l[1]>> \in network.link
    BY Tasks, NetworkAssumption DEF GossipInv, Link
  <2> QED
    BY <2>1, <2>2
<1> QED
  BY <1>1, PushInvariant, TreeInvariant, PTL

(* Each step of such a network is progress of which there is only so much: with
   the two theorems before, and fairness, this is why every push ends. *)
THEOREM StepsAreProgress == GossipSpec => EveryStepIsProgress
<1>1. GossipInv /\ (AgreeingTree => TreeInv) /\ [GossipNext]_gossipVars => [StepIsProgress]_gossipVars
  <2> SUFFICES ASSUME GossipInv, AgreeingTree, TreeInv, GossipNext PROVE StepIsProgress
    BY DEF StepIsProgress
  <2>0. Acyclic /\ Agreed
    BY DEF AgreeingTree
  (* It is enough that what a node has is not pushed anew, and that something is done. *)
  <2>1. ASSUME \A n \in Node : transactions[n] \subseteq transactions'[n],
               \A k \in Task : Active(k)' =>
                   \/ job'[k].tx \notin transactions[k[1]]
                   \/ /\ Active(k) /\ job'[k].tx = job[k].tx
                      /\ job'[k].left \subseteq job[k].left
                      /\ job'[k].asked \subseteq job[k].asked \cup job[k].left
        PROVE  /\ Taken \subseteq Taken' /\ Over \subseteq Over'
               /\ PeerAsked \subseteq PeerAsked' /\ PeerAnswered \subseteq PeerAnswered'
    <3>1. ASSUME NEW n \in Node, NEW t \in transactions[n], NEW k \in Busy(n, t)'
          PROVE  /\ k \in Busy(n, t) /\ job'[k].left \subseteq job[k].left
                 /\ job'[k].asked \subseteq job[k].asked \cup job[k].left
      BY <2>1, <3>1 DEF Busy, ActiveOn
    <3>2. Taken \subseteq Taken'
      BY <2>1 DEF Taken
    <3>3. Over \subseteq Over'
      BY <3>1, <3>2 DEF Over, Taken
    <3>4. PeerAsked \subseteq PeerAsked'
      BY <2>1, <3>1 DEF PeerAsked
    <3>5. PeerAnswered \subseteq PeerAnswered'
      <4> SUFFICES ASSUME NEW x \in PeerAnswered PROVE x \in PeerAnswered'
        OBVIOUS
      <4>1. x \in PeerAsked /\ x \in PeerAsked'
        BY <3>4 DEF PeerAnswered
      <4>2. /\ x[1] \in Node /\ x[2] \in transactions[x[1]]
            /\ \A k \in Busy(x[1], x[2]) : x[3] \notin job[k].left /\ x[3] \notin job[k].asked
        BY <4>1 DEF PeerAnswered, PeerAsked
      <4>3. \A k \in Busy(x[1], x[2])' : x[3] \notin job'[k].asked
        BY <3>1, <4>2
      <4> QED
        BY <4>1, <4>3 DEF PeerAnswered
    <3> QED
      BY <3>2, <3>3, <3>4, <3>5
  <2>2. ASSUME NEW n \in Node, NEW t \in Tx, NEW k \in Task, k[1] = n, t \notin transactions[n],
               TakeInto(n, t), \A a \in Task \ {k} : job'[a] = job[a], job'[k].tx = t
        PROVE  StepIsProgress
    <3>1. /\ transactions'[n] = transactions[n] \cup {t}
          /\ \A m \in Node \ {n} : transactions'[m] = transactions[m]
      BY <2>2 DEF TakeInto, GossipInv
    <3>2. <<n, t>> \in Taken' /\ <<n, t>> \notin Taken
      BY <2>2, <3>1 DEF Taken
    <3>3. \A a \in Task : Active(a)' =>
             \/ job'[a].tx \notin transactions[a[1]]
             \/ Active(a) /\ job'[a] = job[a]
      BY <2>2 DEF Active
    <3> QED
      BY <2>1, <3>1, <3>2, <3>3 DEF StepIsProgress
  <2>3. ASSUME NEW t \in Tx, Submit(t) PROVE StepIsProgress
    <3>1. t \notin transactions[Origin[t]] /\ TakeInto(Origin[t], t)
      BY <2>0, <2>3, SubmitOnTree
    <3>2. Call(t) \in Task /\ Call(t)[1] = Origin[t] /\ Origin[t] \in Node
      BY Tasks
    <3>3. job' = [job EXCEPT ![Call(t)] = Pushing(t, Call(t), Peers(Origin[t]))]
      BY <2>0, <2>3, <3>1, <3>2, NewIsTaken DEF Submit
    <3>4. job'[Call(t)].tx = t /\ \A a \in Task \ {Call(t)} : job'[a] = job[a]
      BY <3>2, <3>3 DEF GossipInv, Pushing
    <3> QED
      BY <2>2, <3>1, <3>2, <3>4
  <2>4. ASSUME NEW l \in Link, Accept(l) PROVE StepIsProgress
    <3>1. PICK t \in Tx : /\ t \notin transactions[l[1]] /\ TakeInto(l[1], t)
                          /\ job'[l].tx = t /\ \A a \in Task \ {l} : job'[a] = job[a]
      BY <2>0, <2>4, AcceptOnTree
    <3>2. l \in Task /\ l[1] \in Node
      BY Tasks
    <3> QED
      BY <2>2, <3>1, <3>2
  <2>5. ASSUME NEW k \in Task, Ask(k) PROVE StepIsProgress
    <3>1. /\ Active(k) /\ job[k] \in Job /\ job[k].tx \in transactions[k[1]] /\ k[1] \in Node
          /\ transactions' = transactions
      BY <2>5, Tasks DEF Ask, GossipInv, TaskOK, Active, IsPushing
    <3>2. PICK p \in job[k].left : job' = [job EXCEPT ![k].asked = {p}, ![k].left = @ \ {p}]
      BY <2>5 DEF Ask
    <3>3. /\ job'[k].phase = job[k].phase /\ job'[k].tx = job[k].tx
          /\ job'[k].left = job[k].left \ {p} /\ job'[k].asked = {p}
          /\ \A a \in Task \ {k} : job'[a] = job[a]
      BY <3>1, <3>2 DEF GossipInv, Job
    <3>4. \A a \in Task : Active(a)' =>
             /\ Active(a) /\ job'[a].tx = job[a].tx /\ job'[a].left \subseteq job[a].left
             /\ job'[a].asked \subseteq job[a].asked \cup job[a].left
      BY <3>3 DEF Active
    <3> DEFINE x == <<k[1], job[k].tx, p>>
    <3>5. k \in Busy(k[1], job[k].tx) /\ p \in Node /\ job[k].tx \in Tx
      BY <3>1 DEF Busy, ActiveOn, Job
    <3>6. x \notin PeerAsked
      BY <3>5 DEF PeerAsked
    <3>7. PICK t \in Tx : t = job[k].tx
      BY <3>5
    <3>8. <<k[1], t, p>> \in PeerAsked'
      <4>1. ASSUME NEW a \in Busy(k[1], t)' PROVE a = k
        <5>1. a \in Task /\ Active(a) /\ a[1] = k[1] /\ job[a].tx = t
          BY <3>4, <4>1 DEF Busy, ActiveOn
        <5> QED
          BY <3>1, <3>7, <5>1 DEF TreeInv, OnceEach
      <4>2. \A a \in Busy(k[1], t)' : p \notin job'[a].left
        BY <3>3, <4>1
      <4>3. t \in transactions'[k[1]] /\ <<k[1], t, p>> \in Node \X Tx \X Node
        BY <3>1, <3>5, <3>7
      <4> QED
        BY <4>2, <4>3 DEF PeerAsked
    <3> QED
      BY <2>1, <3>1, <3>4, <3>6, <3>7, <3>8 DEF StepIsProgress
  <2>6. ASSUME NEW k \in Task, Finish(k) PROVE StepIsProgress
    <3>1. /\ Active(k) /\ job[k].tx \in transactions[k[1]] /\ k[1] \in Node /\ job[k].tx \in Tx
          /\ transactions' = transactions
      BY <2>6, Tasks DEF Finish, GossipInv, TaskOK, Active, IsPushing, Job
    <3>2. ~Active(k)' /\ \A a \in Task : Active(a)' =>
             /\ Active(a) /\ job'[a].tx = job[a].tx /\ job'[a].left \subseteq job[a].left
             /\ job'[a].asked \subseteq job[a].asked \cup job[a].left
      BY <2>6, FinishOnTree
    <3>3. PICK t \in Tx : t = job[k].tx
      BY <3>1
    <3>4. <<k[1], t>> \notin Over
      BY <3>1, <3>3 DEF Over, Busy, ActiveOn
    <3>5. <<k[1], t>> \in Over'
      <4>1. ASSUME NEW a \in Busy(k[1], t)' PROVE FALSE
        <5>1. a \in Task /\ Active(a) /\ a # k /\ a[1] = k[1] /\ job[a].tx = t
          BY <3>2, <4>1 DEF Busy, ActiveOn
        <5> QED
          BY <3>1, <3>3, <5>1 DEF TreeInv, OnceEach
      <4> QED
        BY <3>1, <3>3, <4>1 DEF Over, Taken
    <3> QED
      BY <2>1, <3>1, <3>2, <3>4, <3>5 DEF StepIsProgress
  <2>7. ASSUME NEW k \in Task, GiveUp(k) PROVE StepIsProgress
    BY <2>7 DEF GiveUp, TreeInv, Healthy
  <2> QED
    BY <2>3, <2>4, <2>5, <2>6, <2>7 DEF GossipNext
<1> QED
  BY <1>1, TreeInvariant, PTL DEF GossipSpec, EveryStepIsProgress
=============================================================================
