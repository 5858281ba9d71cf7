----------------------------- MODULE RelayControl -----------------------------
(***************************************************************************)
(* The control plane around one namespace with one track: the relay's      *)
(* SessionManager and RelayHandlers (moqt/sessionmanager.go,               *)
(* relayhandler.go, streamsmap.go), with the PubHandlers and SubHandlers   *)
(* at the other ends of the control streams.                               *)
(*                                                                         *)
(* A control stream is a FIFO per direction. ServeCS handles one message   *)
(* at a time, and a handler is a sequence of steps where it writes to, or  *)
(* takes a lock that is shared with, another session; `go                  *)
(* WriteControlMessage` is a pending write that happens at any time later. *)
(*                                                                         *)
(* A subscription is named <<r, x>>: made by subscriber r at its start     *)
(* (x = Main) or because publisher x was announced to it, as the           *)
(* subscribing programs do. SendSubscribe draws the upstream SubscribeID   *)
(* at random; here it is the subscription it is for.                       *)
(***************************************************************************)
EXTENDS Integers, Sequences

CONSTANTS Pubs, Subs,   \* publisher and subscriber sessions at the relay
          Main,         \* a subscriber's own SUBSCRIBE
          Calls,        \* bound: the subscriptions that are made
          Mortal,       \* bound: the publishers that may be lost
          NoPub,        \* namespaces has no entry
          IsCatalog     \* the track name contains .catalog or .mp4

ASSUME ControlAssumption ==
    /\ Main \notin Pubs /\ NoPub \notin Pubs
    /\ Calls \subseteq Subs \X (Pubs \cup {Main})
    /\ Mortal \subseteq Pubs
    /\ IsCatalog \in BOOLEAN

Ids == Subs \X (Pubs \cup {Main})
RelayStreams == Pubs \X Ids
Setup == [type |-> "SERVER_SETUP"]
Announce(p) == [type |-> "ANNOUNCE", pub |-> p]
AnnounceOk == [type |-> "ANNOUNCE_OK"]
Subscribe(i) == [type |-> "SUBSCRIBE", id |-> i]
SubscribeOk(i) == [type |-> "SUBSCRIBE_OK", id |-> i]
Nothing == [id |-> <<Main, Main>>]

VARIABLES namespaces,   \* sm.namespaces: the publisher of the namespace
          role,         \* sessions with RemoteRole SUBSCRIBER
          incoming,     \* incoming[p]: p's IncomingStreams, by upstream SubscribeID
          subscribers,  \* subscribers[rs]: rs.Subscribers
          subscribed,   \* subscribed[r]: r's SubscribedStreams: <<id, rs>>
          ah,           \* ah[p]: progress of p's HandleAnnounce
          oh,           \* oh[p]: ForwardSubscribeOk in p's HandleSubscribeOk
          hs,           \* hs[r]: progress of r's control stream
          cur,          \* cur[r]: the SUBSCRIBE in hand: [id, pub, rs]
          writes,       \* pending `go WriteControlMessage`: <<r, message>>
          toSub, fromSub, toPub, fromPub,  \* control streams, seen from the relay
          ready,        \* subscribers that have got SERVER_SETUP
          app,          \* app[i]: progress of SubHandler.Subscribe for subscription i
          streams,      \* subscriptions handed to the subscriber on StreamsChan
          ph,           \* ph[p]: progress of PubHandler.SendAnnounce
          accepting,    \* accepting[p]: handed to the publisher on SubscribeChan
          asked,        \* (history) asked[p]: upstream SUBSCRIBEs written to p
          dead          \* publishers whose connection is gone

relayVars == <<namespaces, role, incoming, subscribers, subscribed>>
procVars  == <<ah, oh, hs, cur, writes, asked>>
chanVars  == <<toSub, fromSub, toPub, fromPub>>
endVars   == <<ready, app, streams, ph, accepting, dead>>
vars      == <<relayVars, procVars, chanVars, endVars>>

Init ==
    /\ namespaces = NoPub
    /\ role = {}
    /\ incoming = [p \in Pubs |-> {}]
    /\ subscribers = [rs \in RelayStreams |-> {}]
    /\ subscribed = [r \in Subs |-> {}]
    /\ ah = [p \in Pubs |-> "idle"]
    /\ oh = [p \in Pubs |-> Nothing]
    /\ hs = [r \in Subs |-> "new"]
    /\ cur = [r \in Subs |-> Nothing]
    /\ writes = {}
    /\ toSub = [r \in Subs |-> << >>] /\ fromSub = [r \in Subs |-> << >>]
    /\ toPub = [p \in Pubs |-> << >>] /\ fromPub = [p \in Pubs |-> << >>]
    /\ ready = {}
    /\ app = [i \in Ids |-> "idle"]
    /\ streams = {}
    /\ ph = [p \in Pubs |-> "new"]
    /\ accepting = [p \in Pubs |-> {}]
    /\ asked = [p \in Pubs |-> {}]
    /\ dead = {}

-----------------------------------------------------------------------------
\* The relay, on the control stream of subscriber r

Send(chan, x, m) == [chan EXCEPT ![x] = Append(@, m)]
Has(chan, x, type) == chan[x] # << >> /\ Head(chan[x]).type = type
Receive(chan, x) == [chan EXCEPT ![x] = Tail(@)]

\* handleSetupMessage, CLIENT_SETUP: SetRemoteRole, and later ...
SetRemoteRole(r) ==
    /\ hs[r] = "new"
    /\ role' = role \cup {r}
    /\ hs' = [hs EXCEPT ![r] = "setup"]
    /\ UNCHANGED <<namespaces, incoming, subscribers, subscribed,
                   ah, oh, cur, writes, asked, chanVars, endVars>>

\* ... SERVER_SETUP is written: an ANNOUNCE may have been written before it.
SendServerSetup(r) ==
    /\ hs[r] = "setup"
    /\ toSub' = Send(toSub, r, Setup)
    /\ hs' = [hs EXCEPT ![r] = "idle"]
    /\ UNCHANGED <<relayVars, ah, oh, cur, writes, asked, fromSub, toPub, fromPub, endVars>>

\* Fault: the check for a missing publisher is missing.
HandleSubscribeUnchecked(r) ==
    /\ hs[r] = "idle"
    /\ Has(fromSub, r, "SUBSCRIBE")
    /\ fromSub' = Receive(fromSub, r)
    /\ hs' = [hs EXCEPT ![r] = "lookup"]
    /\ cur' = [cur EXCEPT ![r] = [id |-> Head(fromSub[r]).id, pub |-> namespaces]]
    /\ UNCHANGED <<relayVars, ah, oh, writes, asked, toSub, toPub, fromPub, endVars>>

\* HandleSubscribe, getPublisher: without a publisher the SUBSCRIBE is dropped.
HandleSubscribe(r) ==
    /\ hs[r] = "idle"
    /\ Has(fromSub, r, "SUBSCRIBE")
    /\ fromSub' = Receive(fromSub, r)
    /\ IF namespaces = NoPub
       THEN UNCHANGED <<hs, cur>>
       ELSE /\ hs' = [hs EXCEPT ![r] = "lookup"]
            /\ cur' = [cur EXCEPT ![r] = [id |-> Head(fromSub[r]).id, pub |-> namespaces]]
    /\ UNCHANGED <<relayVars, ah, oh, writes, asked, toSub, toPub, fromPub, endVars>>

\* GetObjectStream: the publisher's IncomingStreams has the track (one of its
\* RelayStreams, if there are several): SUBSCRIBE_OK is written by a goroutine ...
FoundStream(r) ==
    /\ hs[r] = "lookup"
    /\ ~IsCatalog
    /\ \E u \in incoming[cur[r].pub] :
          cur' = [cur EXCEPT ![r] = [id |-> @.id, pub |-> @.pub, rs |-> <<@.pub, u>>]]
    /\ writes' = writes \cup {<<r, SubscribeOk(cur[r].id)>>}
    /\ hs' = [hs EXCEPT ![r] = "add"]
    /\ UNCHANGED <<relayVars, ah, oh, asked, chanVars, endVars>>

\* ... or it has not, or the track is a catalog: SendSubscribe. Another session may do the same meanwhile.
MissedStream(r) ==
    /\ hs[r] = "lookup"
    /\ incoming[cur[r].pub] = {} \/ IsCatalog
    /\ hs' = [hs EXCEPT ![r] = "send"]
    /\ UNCHANGED <<relayVars, ah, oh, cur, writes, asked, chanVars, endVars>>

\* What is written to a publisher whose connection is gone is lost.
SendUp(p, m) == toPub' = IF p \in dead THEN toPub ELSE Send(toPub, p, m)

\* Fault: SUBSCRIBE is written before IncomingStreams knows it.
SendSubscribeWritesFirst(r) ==
    LET i == cur[r].id  p == cur[r].pub IN
    /\ hs[r] = "send"
    /\ asked' = [asked EXCEPT ![p] = @ \cup {i}]
    /\ SendUp(p, Subscribe(i))
    /\ cur' = [cur EXCEPT ![r] = [id |-> i, pub |-> p, rs |-> <<p, i>>]]
    /\ hs' = [hs EXCEPT ![r] = "write"]
    /\ UNCHANGED <<relayVars, ah, oh, writes, toSub, fromSub, fromPub, endVars>>

\* SendSubscribe: IncomingStreams.AddStream of a new RelayStream ...
SendSubscribe(r) ==
    LET i == cur[r].id  p == cur[r].pub IN
    /\ hs[r] = "send"
    /\ incoming' = [incoming EXCEPT ![p] = @ \cup {i}]
    /\ cur' = [cur EXCEPT ![r] = [id |-> i, pub |-> p, rs |-> <<p, i>>]]
    /\ hs' = [hs EXCEPT ![r] = "write"]
    /\ UNCHANGED <<namespaces, role, subscribers, subscribed, ah, oh, writes, asked,
                   chanVars, endVars>>

\* ... and SUBSCRIBE is written to the publisher.
WriteSubscribe(r) ==
    /\ hs[r] = "write"
    /\ asked' = [asked EXCEPT ![cur[r].pub] = @ \cup {cur[r].id}]
    /\ SendUp(cur[r].pub, Subscribe(cur[r].id))
    /\ hs' = [hs EXCEPT ![r] = "add"]
    /\ UNCHANGED <<relayVars, ah, oh, cur, writes, toSub, fromSub, fromPub, endVars>>

AddSubscriber(r) ==
    /\ hs[r] = "add"
    /\ subscribers' = [subscribers EXCEPT ![cur[r].rs] = @ \cup {r}]
    /\ hs' = [hs EXCEPT ![r] = "register"]
    /\ UNCHANGED <<namespaces, role, incoming, subscribed, ah, oh, cur, writes, asked,
                   chanVars, endVars>>

AddStream(r) ==
    /\ hs[r] = "register"
    /\ subscribed' = [subscribed EXCEPT ![r] = @ \cup {<<cur[r].id, cur[r].rs>>}]
    /\ hs' = [hs EXCEPT ![r] = "idle"]
    /\ cur' = [cur EXCEPT ![r] = Nothing]
    /\ UNCHANGED <<namespaces, role, incoming, subscribers, ah, oh, writes, asked,
                   chanVars, endVars>>

\* A goroutine started with `go` writes its message.
WriteControlMessage(w) ==
    /\ writes' = writes \ {w}
    /\ toSub' = Send(toSub, w[1], w[2])
    /\ UNCHANGED <<relayVars, ah, oh, hs, cur, asked, fromSub, toPub, fromPub, endVars>>

-----------------------------------------------------------------------------
\* The relay, on the control stream of publisher p

\* The publisher's ServeCS is between two messages.
Idle(p) == ah[p] = "idle" /\ oh[p] = Nothing

HandleAnnounce(p) ==
    /\ Idle(p)
    /\ Has(fromPub, p, "ANNOUNCE")
    /\ fromPub' = Receive(fromPub, p)
    /\ ah' = [ah EXCEPT ![p] = "add"]
    /\ UNCHANGED <<relayVars, oh, hs, cur, writes, asked, toSub, fromSub, toPub, endVars>>

Store(p) == namespaces' = p /\ UNCHANGED writes
AnnouncePeers(p) ==
    writes' = writes \cup {<<r, Announce(p)>> : r \in role} /\ UNCHANGED namespaces

\* Fault: the peers are told before the namespace is stored.
addPublisherTellsFirst(p) ==
    /\ \/ ah[p] = "add" /\ AnnouncePeers(p) /\ ah' = [ah EXCEPT ![p] = "tell"]
       \/ ah[p] = "tell" /\ Store(p) /\ ah' = [ah EXCEPT ![p] = "ok"]
    /\ UNCHANGED <<role, incoming, subscribers, subscribed, oh, hs, cur, asked,
                   chanVars, endVars>>

\* addPublisher: the namespace is stored under nslock; then, under sessionslock, a
\* goroutine is started for every session that is a subscriber by now.
addPublisher(p) ==
    /\ \/ ah[p] = "add" /\ Store(p) /\ ah' = [ah EXCEPT ![p] = "tell"]
       \/ ah[p] = "tell" /\ AnnouncePeers(p) /\ ah' = [ah EXCEPT ![p] = "ok"]
    /\ UNCHANGED <<role, incoming, subscribers, subscribed, oh, hs, cur, asked,
                   chanVars, endVars>>

SendAnnounceOk(p) ==
    /\ ah[p] = "ok"
    /\ ah' = [ah EXCEPT ![p] = "idle"]
    /\ SendUp(p, AnnounceOk)
    /\ UNCHANGED <<relayVars, oh, hs, cur, writes, asked, toSub, fromSub, fromPub, endVars>>

\* HandleSubscribeOk looks the RelayStream up by the upstream SubscribeID; unknown
\* ones are ignored. ForwardSubscribeOk ranges over Subscribers without its lock:
\* whoever is there at the start is visited, whoever is added meanwhile may be.
HandleSubscribeOk(p) ==
    LET i == Head(fromPub[p]).id IN
    /\ Idle(p)
    /\ Has(fromPub, p, "SUBSCRIBE_OK")
    /\ fromPub' = Receive(fromPub, p)
    /\ oh' = IF i \notin incoming[p] THEN oh
             ELSE [oh EXCEPT ![p] = [id |-> i, must |-> subscribers[<<p, i>>], seen |-> {}]]
    /\ UNCHANGED <<relayVars, ah, hs, cur, writes, asked, toSub, fromSub, toPub, endVars>>

Visit(p, r) == oh' = [oh EXCEPT ![p].seen = @ \cup {r}]

\* Fault: the upstream SubscribeID is left in the message.
SendSubscribeOkUpstreamId(p, r) ==
    IF subscribed[r] = {} THEN UNCHANGED toSub
    ELSE toSub' = Send(toSub, r, SubscribeOk(oh[p].id))

\* SendSubscribeOk: GetSubID finds some subscription of the track; the message gets
\* its id. A session that has not registered one yet is passed over.
SendSubscribeOk(p, r) ==
    IF subscribed[r] = {} THEN UNCHANGED toSub
    ELSE \E e \in subscribed[r] : toSub' = Send(toSub, r, SubscribeOk(e[1]))

ForwardSubscribeOk(p) ==
    /\ oh[p] # Nothing
    /\ \/ \E r \in subscribers[<<p, oh[p].id>>] \ oh[p].seen :
             SendSubscribeOk(p, r) /\ Visit(p, r)
       \/ /\ oh[p].must \subseteq oh[p].seen
          /\ oh' = [oh EXCEPT ![p] = Nothing]
          /\ UNCHANGED toSub
    /\ UNCHANGED <<relayVars, ah, hs, cur, writes, asked, fromSub, toPub, fromPub, endVars>>

-----------------------------------------------------------------------------
\* The subscriber: SubHandler, and a program that subscribes at its start and when
\* the namespace is announced (examples/sub).

\* SERVER_SETUP: the handshake is done, Dial returns, the program subscribes.
ClientSetupDone(r) ==
    /\ Has(toSub, r, "SERVER_SETUP")
    /\ toSub' = Receive(toSub, r)
    /\ ready' = ready \cup {r}
    /\ app' = [i \in Ids |-> IF i = <<r, Main>> /\ i \in Calls THEN "call" ELSE app[i]]
    /\ UNCHANGED <<relayVars, procVars, fromSub, toPub, fromPub,
                   streams, ph, accepting, dead>>

\* ANNOUNCE: before SERVER_SETUP it is dropped as an unknown setup message. After it,
\* AnnounceChan hands it to the goroutine that calls Subscribe, one at a time.
ClientAnnounce(r) ==
    /\ Has(toSub, r, "ANNOUNCE")
    /\ \A p \in Pubs : app[<<r, p>>] \notin {"call", "adding"}
    /\ toSub' = Receive(toSub, r)
    /\ LET i == <<r, Head(toSub[r]).pub>> IN
       app' = IF r \in ready /\ i \in Calls THEN [app EXCEPT ![i] = "call"] ELSE app
    /\ UNCHANGED <<relayVars, procVars, fromSub, toPub, fromPub,
                   ready, streams, ph, accepting, dead>>

\* SubHandler.Subscribe: SUBSCRIBE is written, then AddStream.
ClientSubscribe(i) ==
    /\ app[i] = "call"
    /\ fromSub' = Send(fromSub, i[1], Subscribe(i))
    /\ app' = [app EXCEPT ![i] = "adding"]
    /\ UNCHANGED <<relayVars, procVars, toSub, toPub, fromPub,
                   ready, streams, ph, accepting, dead>>

ClientAddStream(i) ==
    /\ app[i] = "adding"
    /\ app' = [app EXCEPT ![i] = "done"]
    /\ UNCHANGED <<relayVars, procVars, chanVars, ready, streams, ph, accepting, dead>>

\* SUBSCRIBE_OK: the SubStream goes to the program, if AddStream has been there.
ClientSubscribeOk(r) ==
    LET i == Head(toSub[r]).id IN
    /\ Has(toSub, r, "SUBSCRIBE_OK")
    /\ toSub' = Receive(toSub, r)
    /\ streams' = IF app[i] = "done" THEN streams \cup {i} ELSE streams
    /\ UNCHANGED <<relayVars, procVars, fromSub, toPub, fromPub,
                   ready, app, ph, accepting, dead>>

-----------------------------------------------------------------------------
\* The publisher: PubHandler, and a program that accepts every SUBSCRIBE.

\* SendAnnounce: ANNOUNCE is written, then AnnouncedStreams gets the namespace.
SendAnnounce(p) ==
    /\ ph[p] = "new"
    /\ p \notin dead
    /\ fromPub' = Send(fromPub, p, Announce(p))
    /\ ph' = [ph EXCEPT ![p] = "adding"]
    /\ UNCHANGED <<relayVars, procVars, toSub, fromSub, toPub,
                   ready, app, streams, accepting, dead>>

AddNamespace(p) ==
    /\ ph[p] = "adding"
    /\ ph' = [ph EXCEPT ![p] = "done"]
    /\ UNCHANGED <<relayVars, procVars, chanVars, ready, app, streams, accepting, dead>>

\* HandleSubscribe: an unknown namespace is logged; otherwise SubscribeChan.
PubHandleSubscribe(p) ==
    /\ Has(toPub, p, "SUBSCRIBE")
    /\ toPub' = Receive(toPub, p)
    /\ accepting' = IF ph[p] # "done" THEN accepting
                    ELSE [accepting EXCEPT ![p] = @ \cup {Head(toPub[p]).id}]
    /\ UNCHANGED <<relayVars, procVars, toSub, fromSub, fromPub,
                   ready, app, streams, ph, dead>>

\* HandleAnnounceOk only logs.
PubHandleAnnounceOk(p) ==
    /\ Has(toPub, p, "ANNOUNCE_OK")
    /\ toPub' = Receive(toPub, p)
    /\ UNCHANGED <<relayVars, procVars, toSub, fromSub, fromPub, endVars>>

\* PubStream.Accept
Accept(p) ==
    /\ p \notin dead
    /\ \E i \in accepting[p] :
          /\ accepting' = [accepting EXCEPT ![p] = @ \ {i}]
          /\ fromPub' = Send(fromPub, p, SubscribeOk(i))
    /\ UNCHANGED <<relayVars, procVars, toSub, fromSub, toPub,
                   ready, app, streams, ph, dead>>

\* The publisher's connection is lost. Close runs HandleClose, which finds nothing
\* in a publisher's SubscribedStreams, and removeSession; namespaces keeps it.
PubDies(p) ==
    /\ p \in Mortal
    /\ p \notin dead
    /\ dead' = dead \cup {p}
    /\ toPub' = [toPub EXCEPT ![p] = << >>]
    /\ fromPub' = [fromPub EXCEPT ![p] = << >>]
    /\ UNCHANGED <<relayVars, procVars, toSub, fromSub, ready, app, streams, ph, accepting>>

-----------------------------------------------------------------------------
SubscriberStep(r) ==
    \/ SetRemoteRole(r) \/ SendServerSetup(r)
    \/ HandleSubscribe(r) \/ FoundStream(r) \/ MissedStream(r)
    \/ SendSubscribe(r) \/ WriteSubscribe(r) \/ AddSubscriber(r) \/ AddStream(r)
ClientStep(r) == ClientSetupDone(r) \/ ClientAnnounce(r) \/ ClientSubscribeOk(r)
PublisherStep(p) ==
    \/ HandleAnnounce(p) \/ addPublisher(p) \/ SendAnnounceOk(p)
    \/ HandleSubscribeOk(p) \/ ForwardSubscribeOk(p)
PubStep(p) == AddNamespace(p) \/ PubHandleSubscribe(p) \/ PubHandleAnnounceOk(p) \/ Accept(p)

Next ==
    \/ \E r \in Subs : SubscriberStep(r) \/ ClientStep(r)
    \/ \E p \in Pubs : PublisherStep(p) \/ PubStep(p) \/ SendAnnounce(p) \/ PubDies(p)
    \/ \E i \in Ids : ClientSubscribe(i) \/ ClientAddStream(i)
    \/ \E w \in writes : WriteControlMessage(w)

Spec == Init /\ [][Next]_vars

\* The streams deliver, and a goroutine that can run is run. No publisher needs to
\* come, and every one may go.
Fairness ==
    /\ \A r \in Subs : WF_vars(SubscriberStep(r)) /\ WF_vars(ClientStep(r))
    /\ \A p \in Pubs : WF_vars(PublisherStep(p)) /\ WF_vars(PubStep(p))
    /\ \A i \in Ids : WF_vars(ClientSubscribe(i) \/ ClientAddStream(i))
    /\ \A r \in Subs : WF_vars(\E w \in writes : w[1] = r /\ WriteControlMessage(w))
FairSpec == Spec /\ Fairness

-----------------------------------------------------------------------------
ToSubs == {Setup} \cup {Announce(p) : p \in Pubs} \cup {SubscribeOk(i) : i \in Ids}
FromSubs == {Subscribe(i) : i \in Ids}
ToPubs == {AnnounceOk} \cup {Subscribe(i) : i \in Ids}
FromPubs == {Announce(p) : p \in Pubs} \cup {SubscribeOk(i) : i \in Ids}
InHand == [id : Ids, pub : Pubs] \cup [id : Ids, pub : Pubs, rs : RelayStreams]

RelayTypeOK ==
    /\ namespaces \in Pubs \cup {NoPub}
    /\ role \subseteq Subs
    /\ incoming \in [Pubs -> SUBSET Ids]
    /\ subscribers \in [RelayStreams -> SUBSET Subs]
    /\ subscribed \in [Subs -> SUBSET (Ids \X RelayStreams)]

ProcTypeOK ==
    /\ ah \in [Pubs -> {"idle", "add", "tell", "ok"}]
    /\ oh \in [Pubs -> [id : Ids, must : SUBSET Subs, seen : SUBSET Subs] \cup {Nothing}]
    /\ hs \in [Subs -> {"new", "setup", "idle", "lookup", "send", "write", "add", "register"}]
    /\ cur \in [Subs -> InHand \cup {Nothing}]
    /\ writes \subseteq Subs \X (ToSubs \ {Setup})
    /\ asked \in [Pubs -> SUBSET Ids]

ChanTypeOK ==
    /\ toSub \in [Subs -> Seq(ToSubs)]
    /\ fromSub \in [Subs -> Seq(FromSubs)]
    /\ toPub \in [Pubs -> Seq(ToPubs)]
    /\ fromPub \in [Pubs -> Seq(FromPubs)]

EndTypeOK ==
    /\ ready \subseteq Subs
    /\ app \in [Ids -> {"idle", "call", "adding", "done"}]
    /\ streams \subseteq Ids
    /\ ph \in [Pubs -> {"new", "adding", "done"}]
    /\ accepting \in [Pubs -> SUBSET Ids]
    /\ dead \subseteq Pubs

TypeOK == RelayTypeOK /\ ProcTypeOK /\ ChanTypeOK /\ EndTypeOK

\* The messages of a channel.
Sent(chan, x) == {chan[x][k] : k \in DOMAIN chan[x]}

\* A publisher is asked only for subscriptions its IncomingStreams knows already, so
\* that neither its SUBSCRIBE_OK nor an object stream that follows at once is
\* discarded by the relay.
UpstreamIsKnown ==
    \A p \in Pubs : \A i \in Ids :
        \/ i \in asked[p] \/ i \in accepting[p]
        \/ Subscribe(i) \in Sent(toPub, p) \/ SubscribeOk(i) \in Sent(fromPub, p)
        => i \in incoming[p]

\* No cross-talk: a SUBSCRIBE_OK on its way to r answers a SUBSCRIBE that r sent and
\* the relay did not drop, whichever publisher's answer it was made from and
\* whichever of r's subscriptions GetSubID came upon.
OkAnswersOwnSubscribe ==
    \A r \in Subs : \A i \in Ids :
        (<<r, SubscribeOk(i)>> \in writes \/ SubscribeOk(i) \in Sent(toSub, r))
        => /\ i[1] = r
           /\ app[i] \in {"adding", "done"}
           /\ \/ cur[r] # Nothing /\ cur[r].id = i
              \/ \E e \in subscribed[r] : e[1] = i

\* Why the two are inductive. What a handler has in hand fits its progress, and what it
\* is about to ask a publisher for is known ...
HandInv ==
    \A r \in Subs :
        /\ hs[r] \in {"new", "setup", "idle"} => cur[r] = Nothing
        /\ hs[r] \in {"lookup", "send"} => cur[r] \in [id : Ids, pub : Pubs]
        /\ hs[r] \in {"write", "add", "register"} =>
              cur[r] \in [id : Ids, pub : Pubs, rs : RelayStreams]
        /\ hs[r] = "write" => cur[r].id \in incoming[cur[r].pub]

\* ... a subscription the relay has heard of is one that its subscriber has made ...
Made(r, i) == i[1] = r /\ app[i] \in {"adding", "done"}
Heard(r, i) ==
    \/ Subscribe(i) \in Sent(fromSub, r)
    \/ cur[r] # Nothing /\ cur[r].id = i
    \/ \E e \in subscribed[r] : e[1] = i
HeardInv == \A r \in Subs : \A i \in Ids : Heard(r, i) => Made(r, i)

\* ... and no subscription is made twice, because SERVER_SETUP comes to a subscriber
\* once ...
Once(chan, x, m) ==
    \A k, l \in DOMAIN chan[x] : chan[x][k] = m /\ chan[x][l] = m => k = l
SetupOnce ==
    \A r \in Subs :
        /\ Once(toSub, r, Setup)
        /\ hs[r] \in {"new", "setup"} => Setup \notin Sent(toSub, r)
        /\ hs[r] \in {"new", "setup"} \/ Setup \in Sent(toSub, r) => app[<<r, Main>>] = "idle"

\* ... and so does a publisher's ANNOUNCE, which is in one place at a time on its way
\* from SendAnnounce to the subscriber.
Unannounced(p) ==
    ph[p] = "new" \/ Announce(p) \in Sent(fromPub, p) \/ ah[p] \in {"add", "tell"}
AnnounceOnce ==
    \A p \in Pubs :
        /\ \A x \in Pubs : Announce(x) \in Sent(fromPub, p) => x = p
        /\ Once(fromPub, p, Announce(p))
        /\ ph[p] = "new" => Announce(p) \notin Sent(fromPub, p)
        /\ ah[p] # "idle" => ph[p] # "new" /\ Announce(p) \notin Sent(fromPub, p)
        /\ \A r \in Subs :
              /\ Once(toSub, r, Announce(p))
              /\ <<r, Announce(p)>> \in writes => Announce(p) \notin Sent(toSub, r)
              /\ Unannounced(p) => <<r, Announce(p)>> \notin writes
                                  /\ Announce(p) \notin Sent(toSub, r)
              /\ \/ Unannounced(p)
                 \/ <<r, Announce(p)>> \in writes \/ Announce(p) \in Sent(toSub, r)
                 => app[<<r, p>>] = "idle"

\* The inductive invariant of the control plane: what is in a handler's hands or on a
\* control stream agrees with the tables of the relay and of the programs, a setup and
\* an announcement are on their way once, and the two properties above hold.
ControlInv ==
    /\ TypeOK /\ HandInv /\ HeardInv /\ SetupOnce /\ AnnounceOnce
    /\ UpstreamIsKnown /\ OkAnswersOwnSubscribe

\* r is a subscriber of a RelayStream that publisher p was asked for.
Attached(r, p) == \E i \in asked[p] : r \in subscribers[<<p, i>>]

\* Whatever the order in which a publisher announces itself and a subscriber
\* connects, they meet: a SUBSCRIBE that is dropped for want of a publisher is
\* followed by an ANNOUNCE that makes the subscriber ask again, and an ANNOUNCE
\* that comes before the handshake is over is dropped only when the SUBSCRIBE will
\* find the publisher. The exceptions are a publisher that is gone, and one whose
\* namespace another publisher has announced since.
Rendezvous ==
    \A p \in Pubs, r \in Subs :
        (namespaces = p) ~> (Attached(r, p) \/ p \in dead \/ namespaces # p)
=============================================================================
