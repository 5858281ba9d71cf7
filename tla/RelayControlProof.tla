-------------------------- MODULE RelayControlProof --------------------------
(***************************************************************************)
(* Proofs about RelayControl, for any number of publishers, subscribers    *)
(* and subscriptions: its types, that the relay knows what it has asked a  *)
(* publisher for, and that a SUBSCRIBE_OK answers a SUBSCRIBE of its       *)
(* receiver.                                                               *)
(***************************************************************************)
EXTENDS RelayControl, TLAPS

-----------------------------------------------------------------------------
\* The messages are told apart by their type, and say what they are made from.

LEMMA MessageFacts ==
    /\ \A i, j : Subscribe(i) = Subscribe(j) => i = j
    /\ \A i, j : SubscribeOk(i) = SubscribeOk(j) => i = j
    /\ \A p, x : Announce(p) = Announce(x) => p = x
    /\ \A i, p : SubscribeOk(i) # Announce(p)
    /\ \A i, j : Subscribe(i) # SubscribeOk(j)
    /\ \A i, p : Subscribe(i) # Announce(p)
    /\ \A i : SubscribeOk(i) # Setup
    /\ \A p : Announce(p) # Setup
    /\ \A i : Subscribe(i) # AnnounceOk
    BY DEF Subscribe, SubscribeOk, Announce, Setup, AnnounceOk

LEMMA FieldFacts ==
    /\ \A i : Subscribe(i).id = i /\ Subscribe(i).type = "SUBSCRIBE"
    /\ \A i : SubscribeOk(i).id = i /\ SubscribeOk(i).type = "SUBSCRIBE_OK"
    /\ \A p : Announce(p).pub = p /\ Announce(p).type = "ANNOUNCE"
    /\ Setup.type = "SERVER_SETUP" /\ AnnounceOk.type = "ANNOUNCE_OK"
    BY DEF Subscribe, SubscribeOk, Announce, Setup, AnnounceOk

LEMMA NothingInHand ==
    /\ \A c \in [id : Ids, pub : Pubs] : c # Nothing
    /\ \A c \in [id : Ids, pub : Pubs, rs : RelayStreams] : c # Nothing
<1>1. DOMAIN Nothing = {"id"}
      BY DEF Nothing
<1>2. \A c \in [id : Ids, pub : Pubs] : "pub" \in DOMAIN c
      OBVIOUS
<1>3. \A c \in [id : Ids, pub : Pubs, rs : RelayStreams] : "pub" \in DOMAIN c
      OBVIOUS
<1> QED BY <1>1, <1>2, <1>3

\* What Send and Receive do to the messages of a control stream, and to a message that
\* is in it at most once.
LEMMA SendFacts ==
    ASSUME NEW D, NEW S, NEW chan \in [D -> Seq(S)], NEW x \in D, NEW m \in S
    PROVE  /\ Send(chan, x, m) \in [D -> Seq(S)]
           /\ \A y \in D : \A e : e \in Sent(Send(chan, x, m), y)
                                    <=> e \in Sent(chan, y) \/ (y = x /\ e = m)
           /\ \A y \in D : \A e : Once(chan, y, e) /\ ((y = x /\ e = m) => m \notin Sent(chan, x))
                                    => Once(Send(chan, x, m), y, e)
<1>1. Send(chan, x, m) \in [D -> Seq(S)]
      BY DEF Send
<1>2. /\ Send(chan, x, m)[x] = Append(chan[x], m)
      /\ \A y \in D \ {x} : Send(chan, x, m)[y] = chan[y]
      BY DEF Send
<1>3. /\ chan[x] \in Seq(S) /\ Len(chan[x]) \in Nat
      /\ DOMAIN chan[x] = 1 .. Len(chan[x])
      /\ DOMAIN Append(chan[x], m) = 1 .. (Len(chan[x]) + 1)
      /\ \A k \in 1 .. Len(chan[x]) : Append(chan[x], m)[k] = chan[x][k]
      /\ Append(chan[x], m)[Len(chan[x]) + 1] = m
      OBVIOUS
<1>4. \A e : e \in Sent(Send(chan, x, m), x) <=> e \in Sent(chan, x) \/ e = m
      BY <1>2, <1>3 DEF Sent
<1>5. \A y \in D \ {x} : \A e : e \in Sent(Send(chan, x, m), y) <=> e \in Sent(chan, y)
      BY <1>2 DEF Sent
<1>6. ASSUME NEW e, Once(chan, x, e), e = m => m \notin Sent(chan, x)
      PROVE  Once(Send(chan, x, m), x, e)
      BY <1>2, <1>3, <1>6 DEF Once, Sent
<1>7. \A y \in D \ {x} : \A e : Once(chan, y, e) => Once(Send(chan, x, m), y, e)
      BY <1>2 DEF Once
<1> QED BY <1>1, <1>4, <1>5, <1>6, <1>7

LEMMA ReceiveFacts ==
    ASSUME NEW D, NEW S, NEW chan \in [D -> Seq(S)], NEW x \in D, chan[x] # << >>
    PROVE  /\ Receive(chan, x) \in [D -> Seq(S)]
           /\ Head(chan[x]) \in S /\ Head(chan[x]) \in Sent(chan, x)
           /\ \A y \in D : \A e : e \in Sent(Receive(chan, x), y) => e \in Sent(chan, y)
           /\ \A y \in D : \A e : Once(chan, y, e) => Once(Receive(chan, x), y, e)
           /\ Once(chan, x, Head(chan[x])) => Head(chan[x]) \notin Sent(Receive(chan, x), x)
<1>1. Receive(chan, x) \in [D -> Seq(S)]
      BY DEF Receive
<1>2. /\ Receive(chan, x)[x] = Tail(chan[x])
      /\ \A y \in D \ {x} : Receive(chan, x)[y] = chan[y]
      BY DEF Receive
<1>3. /\ chan[x] \in Seq(S) /\ Len(chan[x]) \in Nat /\ Len(chan[x]) >= 1
      /\ DOMAIN chan[x] = 1 .. Len(chan[x])
      /\ DOMAIN Tail(chan[x]) = 1 .. (Len(chan[x]) - 1)
      /\ \A k \in 1 .. (Len(chan[x]) - 1) : Tail(chan[x])[k] = chan[x][k + 1]
      /\ Head(chan[x]) = chan[x][1]
      OBVIOUS
<1>4. Head(chan[x]) \in S /\ Head(chan[x]) \in Sent(chan, x)
      BY <1>3 DEF Sent
<1>5. \A e : e \in Sent(Receive(chan, x), x) => e \in Sent(chan, x)
      <2>1. \A k \in 1 .. (Len(chan[x]) - 1) : k + 1 \in DOMAIN chan[x]
            BY <1>3
      <2> QED BY <1>2, <1>3, <2>1 DEF Sent
<1>6. ASSUME NEW e, Once(chan, x, e) PROVE Once(Receive(chan, x), x, e)
      <2> SUFFICES ASSUME NEW k \in 1 .. (Len(chan[x]) - 1), NEW l \in 1 .. (Len(chan[x]) - 1),
                          Tail(chan[x])[k] = e, Tail(chan[x])[l] = e
                   PROVE  k = l
          BY <1>2, <1>3 DEF Once
      <2>1. k + 1 \in DOMAIN chan[x] /\ l + 1 \in DOMAIN chan[x]
            BY <1>3
      <2>2. chan[x][k + 1] = e /\ chan[x][l + 1] = e
            BY <1>3
      <2>3. k + 1 = l + 1
            BY <1>6, <2>1, <2>2 DEF Once
      <2> QED BY <2>3
<1>7. ASSUME Once(chan, x, Head(chan[x])) PROVE Head(chan[x]) \notin Sent(Receive(chan, x), x)
      <2> SUFFICES ASSUME NEW k \in 1 .. (Len(chan[x]) - 1), Tail(chan[x])[k] = Head(chan[x])
                   PROVE  FALSE
          BY <1>2, <1>3 DEF Sent
      <2>1. k + 1 \in DOMAIN chan[x] /\ 1 \in DOMAIN chan[x] /\ k + 1 # 1
            BY <1>3
      <2>2. chan[x][k + 1] = Head(chan[x]) /\ chan[x][1] = Head(chan[x])
            BY <1>3
      <2> QED BY <1>7, <2>1, <2>2 DEF Once
<1>8. \A y \in D \ {x} : \A e : /\ e \in Sent(Receive(chan, x), y) => e \in Sent(chan, y)
                                /\ Once(chan, y, e) => Once(Receive(chan, x), y, e)
      BY <1>2 DEF Once, Sent
<1> QED BY <1>1, <1>4, <1>5, <1>6, <1>7, <1>8

\* The message at the head of a control stream, by its type.
LEMMA HeadFacts ==
    ASSUME ChanTypeOK
    PROVE  /\ \A r \in Subs : Has(toSub, r, "SERVER_SETUP") =>
                 toSub[r] # << >> /\ Head(toSub[r]) = Setup
           /\ \A r \in Subs : Has(toSub, r, "ANNOUNCE") =>
                 /\ toSub[r] # << >> /\ Head(toSub[r]).pub \in Pubs
                 /\ Head(toSub[r]) = Announce(Head(toSub[r]).pub)
           /\ \A r \in Subs : Has(toSub, r, "SUBSCRIBE_OK") =>
                 /\ toSub[r] # << >> /\ Head(toSub[r]).id \in Ids
                 /\ Head(toSub[r]) = SubscribeOk(Head(toSub[r]).id)
           /\ \A r \in Subs : Has(fromSub, r, "SUBSCRIBE") =>
                 /\ fromSub[r] # << >> /\ Head(fromSub[r]).id \in Ids
                 /\ Head(fromSub[r]) = Subscribe(Head(fromSub[r]).id)
           /\ \A p \in Pubs : Has(toPub, p, "SUBSCRIBE") =>
                 /\ toPub[p] # << >> /\ Head(toPub[p]).id \in Ids
                 /\ Head(toPub[p]) = Subscribe(Head(toPub[p]).id)
           /\ \A p \in Pubs : Has(toPub, p, "ANNOUNCE_OK") => toPub[p] # << >>
           /\ \A p \in Pubs : Has(fromPub, p, "ANNOUNCE") =>
                 /\ fromPub[p] # << >> /\ Head(fromPub[p]).pub \in Pubs
                 /\ Head(fromPub[p]) = Announce(Head(fromPub[p]).pub)
           /\ \A p \in Pubs : Has(fromPub, p, "SUBSCRIBE_OK") =>
                 /\ fromPub[p] # << >> /\ Head(fromPub[p]).id \in Ids
                 /\ Head(fromPub[p]) = SubscribeOk(Head(fromPub[p]).id)
<1> USE FieldFacts
<1>1. \A m \in ToSubs :
          /\ m.type = "SERVER_SETUP" => m = Setup
          /\ m.type = "ANNOUNCE" => m.pub \in Pubs /\ m = Announce(m.pub)
          /\ m.type = "SUBSCRIBE_OK" => m.id \in Ids /\ m = SubscribeOk(m.id)
      BY DEF ToSubs
<1>2. \A m \in FromSubs : m.id \in Ids /\ m = Subscribe(m.id)
      BY DEF FromSubs
<1>3. \A m \in ToPubs : m.type = "SUBSCRIBE" => m.id \in Ids /\ m = Subscribe(m.id)
      BY DEF ToPubs
<1>4. \A m \in FromPubs :
          /\ m.type = "ANNOUNCE" => m.pub \in Pubs /\ m = Announce(m.pub)
          /\ m.type = "SUBSCRIBE_OK" => m.id \in Ids /\ m = SubscribeOk(m.id)
      BY DEF FromPubs
<1>5. \A r \in Subs : toSub[r] # << >> => Head(toSub[r]) \in ToSubs
      BY DEF ChanTypeOK
<1>6. \A r \in Subs : fromSub[r] # << >> => Head(fromSub[r]) \in FromSubs
      BY DEF ChanTypeOK
<1>7. \A p \in Pubs : toPub[p] # << >> => Head(toPub[p]) \in ToPubs
      BY DEF ChanTypeOK
<1>8. \A p \in Pubs : fromPub[p] # << >> => Head(fromPub[p]) \in FromPubs
      BY DEF ChanTypeOK
<1> QED BY <1>1, <1>2, <1>3, <1>4, <1>5, <1>6, <1>7, <1>8, Zenon DEF Has

\* Every message is of its control stream's kind.
LEMMA MessageTypes ==
    /\ Setup \in ToSubs /\ AnnounceOk \in ToPubs
    /\ \A p \in Pubs : Announce(p) \in ToSubs /\ Announce(p) \in FromPubs
    /\ \A i \in Ids : /\ SubscribeOk(i) \in ToSubs /\ SubscribeOk(i) \in FromPubs
                       /\ Subscribe(i) \in FromSubs /\ Subscribe(i) \in ToPubs
    BY DEF ToSubs, ToPubs, FromSubs, FromPubs

-----------------------------------------------------------------------------
\* The steps, by the goroutine that takes them.

LEMMA StepCases ==
    ASSUME [Next]_vars
    PROVE  \/ \E r \in Subs : SubscriberStep(r) \/ ClientStep(r)
           \/ \E p \in Pubs : PublisherStep(p) \/ PubStep(p) \/ SendAnnounce(p) \/ PubDies(p)
           \/ \E i \in Ids : ClientSubscribe(i) \/ ClientAddStream(i)
           \/ \E w \in writes : WriteControlMessage(w)
           \/ UNCHANGED vars
    BY DEF Next

\* What SendUp does, whether the publisher's connection is still there or not.
LEMMA SendUpFacts ==
    ASSUME ChanTypeOK, NEW p \in Pubs, NEW m \in ToPubs, SendUp(p, m)
    PROVE  /\ toPub' \in [Pubs -> Seq(ToPubs)]
           /\ \A x \in Pubs : \A e : e \in Sent(toPub', x) => e \in Sent(toPub, x) \/ (x = p /\ e = m)
<1>1. toPub \in [Pubs -> Seq(ToPubs)]
      BY DEF ChanTypeOK
<1>2. CASE p \in dead
      BY <1>1, <1>2 DEF SendUp
<1>3. CASE p \notin dead
      <2>1. toPub' = Send(toPub, p, m)
            BY <1>3 DEF SendUp
      <2> QED BY <1>1, <2>1, SendFacts
<1> QED BY <1>2, <1>3

\* What the handler of a subscriber's SUBSCRIBE has in hand when it acts on it.
LEMMA HandFacts ==
    ASSUME ControlInv, NEW r \in Subs
    PROVE  /\ hs[r] \in {"lookup", "send", "write", "add", "register"} =>
                 cur[r] # Nothing /\ cur[r].id \in Ids /\ cur[r].pub \in Pubs
           /\ hs[r] \in {"add", "register"} => cur[r].rs \in RelayStreams
           /\ hs[r] = "write" => cur[r].id \in incoming[cur[r].pub]
           /\ hs[r] \in {"new", "setup", "idle"} => cur[r] = Nothing
    BY NothingInHand DEF ControlInv, HandInv

\* ForwardSubscribeOk visits sessions.
LEMMA SubscribersAreSessions ==
    ASSUME ControlInv, NEW p \in Pubs, oh[p] # Nothing, NEW r \in subscribers[<<p, oh[p].id>>]
    PROVE  r \in Subs
<1>1. oh[p].id \in Ids
      BY DEF ControlInv, TypeOK, ProcTypeOK
<1>2. <<p, oh[p].id>> \in RelayStreams
      BY <1>1 DEF RelayStreams
<1> QED BY <1>2 DEF ControlInv, TypeOK, RelayTypeOK

-----------------------------------------------------------------------------
\* The type invariant, part by part: which steps change the part, and how.

LEMMA RelayTypeStep ==
    ASSUME ControlInv, [Next]_vars
    PROVE  RelayTypeOK'
<1> USE DEF relayVars
<1>0. RelayTypeOK
      BY DEF ControlInv, TypeOK
<1>1. ASSUME NEW r \in Subs, SubscriberStep(r) PROVE RelayTypeOK'
      <2>1. CASE SetRemoteRole(r)
            BY <1>0, <2>1 DEF SetRemoteRole, RelayTypeOK
      <2>2. CASE SendSubscribe(r)
            BY <1>0, <2>2, HandFacts DEF SendSubscribe, RelayTypeOK
      <2>3. CASE AddSubscriber(r)
            BY <1>0, <2>3, HandFacts DEF AddSubscriber, RelayTypeOK
      <2>4. CASE AddStream(r)
            BY <1>0, <2>4, HandFacts DEF AddStream, RelayTypeOK
      <2>5. CASE \/ SendServerSetup(r) \/ HandleSubscribe(r) \/ FoundStream(r)
                 \/ MissedStream(r) \/ WriteSubscribe(r)
            BY <1>0, <2>5 DEF SendServerSetup, HandleSubscribe, FoundStream, MissedStream,
                              WriteSubscribe, RelayTypeOK
      <2> QED BY <1>1, <2>1, <2>2, <2>3, <2>4, <2>5 DEF SubscriberStep
<1>2. ASSUME NEW p \in Pubs, addPublisher(p) PROVE RelayTypeOK'
      BY <1>0, <1>2 DEF addPublisher, Store, AnnouncePeers, RelayTypeOK
<1>3. ASSUME \/ \E r \in Subs : ClientStep(r)
             \/ \E p \in Pubs : \/ HandleAnnounce(p) \/ SendAnnounceOk(p)
                                 \/ HandleSubscribeOk(p) \/ ForwardSubscribeOk(p)
                                 \/ PubStep(p) \/ SendAnnounce(p) \/ PubDies(p)
             \/ \E i \in Ids : ClientSubscribe(i) \/ ClientAddStream(i)
             \/ \E w \in writes : WriteControlMessage(w)
             \/ UNCHANGED vars
      PROVE  UNCHANGED relayVars
      BY <1>3 DEF ClientStep, ClientSetupDone, ClientAnnounce, ClientSubscribeOk,
         HandleAnnounce, SendAnnounceOk, HandleSubscribeOk, ForwardSubscribeOk, PubStep,
         AddNamespace, PubHandleSubscribe, PubHandleAnnounceOk, Accept, SendAnnounce, PubDies,
         ClientSubscribe, ClientAddStream, WriteControlMessage, vars
<1>4. ASSUME UNCHANGED relayVars PROVE RelayTypeOK'
      BY <1>0, <1>4 DEF RelayTypeOK
<1> QED BY <1>1, <1>2, <1>3, <1>4, StepCases DEF PublisherStep

LEMMA ChanTypeStep ==
    ASSUME ControlInv, [Next]_vars
    PROVE  ChanTypeOK'
<1> USE MessageTypes DEF chanVars
<1>0. /\ ChanTypeOK
      /\ toSub \in [Subs -> Seq(ToSubs)] /\ fromSub \in [Subs -> Seq(FromSubs)]
      /\ toPub \in [Pubs -> Seq(ToPubs)] /\ fromPub \in [Pubs -> Seq(FromPubs)]
      BY DEF ControlInv, TypeOK, ChanTypeOK
<1>1. ASSUME NEW r \in Subs, SubscriberStep(r) PROVE ChanTypeOK'
      <2>1. CASE SendServerSetup(r)
            BY <1>0, <2>1, SendFacts DEF SendServerSetup, ChanTypeOK
      <2>2. CASE HandleSubscribe(r)
            <3>1. fromSub[r] # << >>
                  BY <2>2 DEF HandleSubscribe, Has
            <3> QED BY <1>0, <2>2, <3>1, ReceiveFacts DEF HandleSubscribe, ChanTypeOK
      <2>3. CASE WriteSubscribe(r)
            <3>1. toPub' \in [Pubs -> Seq(ToPubs)]
                  BY <1>0, <2>3, HandFacts, SendUpFacts DEF WriteSubscribe
            <3> QED BY <1>0, <2>3, <3>1 DEF WriteSubscribe, ChanTypeOK
      <2>4. CASE \/ SetRemoteRole(r) \/ FoundStream(r) \/ MissedStream(r) \/ SendSubscribe(r)
                 \/ AddSubscriber(r) \/ AddStream(r)
            BY <1>0, <2>4 DEF SetRemoteRole, FoundStream, MissedStream, SendSubscribe,
                              AddSubscriber, AddStream, ChanTypeOK
      <2> QED BY <1>1, <2>1, <2>2, <2>3, <2>4 DEF SubscriberStep
<1>2. ASSUME NEW r \in Subs, ClientStep(r) PROVE ChanTypeOK'
      <2>1. /\ toSub[r] # << >> /\ toSub' = Receive(toSub, r)
            /\ UNCHANGED <<fromSub, toPub, fromPub>>
            BY <1>2 DEF ClientStep, ClientSetupDone, ClientAnnounce, ClientSubscribeOk, Has
      <2> QED BY <1>0, <2>1, ReceiveFacts DEF ChanTypeOK
<1>3. ASSUME NEW p \in Pubs, PublisherStep(p) PROVE ChanTypeOK'
      <2>1. CASE HandleAnnounce(p) \/ HandleSubscribeOk(p)
            <3>1. /\ fromPub[p] # << >> /\ fromPub' = Receive(fromPub, p)
                  /\ UNCHANGED <<toSub, fromSub, toPub>>
                  BY <2>1 DEF HandleAnnounce, HandleSubscribeOk, Has
            <3> QED BY <1>0, <3>1, ReceiveFacts DEF ChanTypeOK
      <2>2. CASE SendAnnounceOk(p)
            <3>1. toPub' \in [Pubs -> Seq(ToPubs)]
                  BY <1>0, <2>2, SendUpFacts DEF SendAnnounceOk
            <3> QED BY <1>0, <2>2, <3>1 DEF SendAnnounceOk, ChanTypeOK
      <2>3. CASE addPublisher(p)
            BY <1>0, <2>3 DEF addPublisher, ChanTypeOK
      <2>4. CASE ForwardSubscribeOk(p)
            <3>1. UNCHANGED <<fromSub, toPub, fromPub>>
                  BY <2>4 DEF ForwardSubscribeOk
            <3>2. CASE UNCHANGED toSub
                  BY <1>0, <3>1, <3>2 DEF ChanTypeOK
            <3>3. ASSUME NEW r \in Subs, NEW e \in subscribed[r],
                         toSub' = Send(toSub, r, SubscribeOk(e[1]))
                  PROVE  ChanTypeOK'
                  <4>1. e[1] \in Ids
                        BY DEF ControlInv, TypeOK, RelayTypeOK
                  <4> QED BY <1>0, <3>1, <3>3, <4>1, SendFacts DEF ChanTypeOK
            <3> QED BY <2>4, <3>2, <3>3, SubscribersAreSessions DEF ForwardSubscribeOk, SendSubscribeOk
      <2> QED BY <1>3, <2>1, <2>2, <2>3, <2>4 DEF PublisherStep
<1>4. ASSUME NEW p \in Pubs, PubStep(p) PROVE ChanTypeOK'
      <2>1. CASE PubHandleSubscribe(p) \/ PubHandleAnnounceOk(p)
            <3>1. /\ toPub[p] # << >> /\ toPub' = Receive(toPub, p)
                  /\ UNCHANGED <<toSub, fromSub, fromPub>>
                  BY <2>1 DEF PubHandleSubscribe, PubHandleAnnounceOk, Has
            <3> QED BY <1>0, <3>1, ReceiveFacts DEF ChanTypeOK
      <2>2. CASE Accept(p)
            <3>1. PICK i \in accepting[p] : fromPub' = Send(fromPub, p, SubscribeOk(i))
                  BY <2>2 DEF Accept
            <3>2. i \in Ids
                  BY DEF ControlInv, TypeOK, EndTypeOK
            <3> QED BY <1>0, <2>2, <3>1, <3>2, SendFacts DEF Accept, ChanTypeOK
      <2>3. CASE AddNamespace(p)
            BY <1>0, <2>3 DEF AddNamespace, ChanTypeOK
      <2> QED BY <1>4, <2>1, <2>2, <2>3 DEF PubStep
<1>5. ASSUME NEW p \in Pubs, SendAnnounce(p) PROVE ChanTypeOK'
      BY <1>0, <1>5, SendFacts DEF SendAnnounce, ChanTypeOK
<1>6. ASSUME NEW p \in Pubs, PubDies(p) PROVE ChanTypeOK'
      BY <1>0, <1>6 DEF PubDies, ChanTypeOK
<1>7. ASSUME NEW i \in Ids, ClientSubscribe(i) PROVE ChanTypeOK'
      <2>1. i[1] \in Subs
            BY DEF Ids
      <2> QED BY <1>0, <1>7, <2>1, SendFacts DEF ClientSubscribe, ChanTypeOK
<1>8. ASSUME NEW w \in writes, WriteControlMessage(w) PROVE ChanTypeOK'
      <2>1. w[1] \in Subs /\ w[2] \in ToSubs
            BY DEF ControlInv, TypeOK, ProcTypeOK
      <2> QED BY <1>0, <1>8, <2>1, SendFacts DEF WriteControlMessage, ChanTypeOK
<1>9. ASSUME (\E i \in Ids : ClientAddStream(i)) \/ UNCHANGED vars PROVE ChanTypeOK'
      BY <1>0, <1>9 DEF ClientAddStream, vars, ChanTypeOK
<1> QED BY <1>1, <1>2, <1>3, <1>4, <1>5, <1>6, <1>7, <1>8, <1>9, StepCases

\* What HandleSubscribe, FoundStream and SendSubscribe put in hand.
LEMMA InHandStep ==
    ASSUME ControlInv, NEW r \in Subs, SubscriberStep(r)
    PROVE  /\ cur' = [cur EXCEPT ![r] = cur'[r]]
           /\ hs' = [hs EXCEPT ![r] = hs'[r]]
           /\ hs'[r] \in {"new", "setup", "idle"} => cur'[r] = Nothing
           /\ hs'[r] \in {"lookup", "send"} => cur'[r] \in [id : Ids, pub : Pubs]
           /\ hs'[r] \in {"write", "add", "register"} =>
                 cur'[r] \in [id : Ids, pub : Pubs, rs : RelayStreams]
           /\ hs'[r] \in {"new", "setup", "idle", "lookup", "send", "write", "add", "register"}
           /\ \/ cur'[r] = cur[r]
              \/ cur'[r] = Nothing /\ AddStream(r)
              \/ cur[r] # Nothing /\ cur'[r] # Nothing /\ cur'[r].id = cur[r].id
              \/ HandleSubscribe(r) /\ Has(fromSub, r, "SUBSCRIBE") /\ cur'[r].id = Head(fromSub[r]).id
<1>0. /\ RelayTypeOK /\ ProcTypeOK /\ HandInv /\ ChanTypeOK
      BY DEF ControlInv, TypeOK
<1> DEFINE Frame == cur' = [cur EXCEPT ![r] = cur'[r]] /\ hs' = [hs EXCEPT ![r] = hs'[r]]
           Fits == /\ hs'[r] \in {"new", "setup", "idle"} => cur'[r] = Nothing
                   /\ hs'[r] \in {"lookup", "send"} => cur'[r] \in [id : Ids, pub : Pubs]
                   /\ hs'[r] \in {"write", "add", "register"} =>
                         cur'[r] \in [id : Ids, pub : Pubs, rs : RelayStreams]
                   /\ hs'[r] \in {"new", "setup", "idle", "lookup", "send", "write", "add", "register"}
           Whose == \/ cur'[r] = cur[r]
                    \/ cur'[r] = Nothing /\ AddStream(r)
                    \/ cur[r] # Nothing /\ cur'[r] # Nothing /\ cur'[r].id = cur[r].id
                    \/ /\ HandleSubscribe(r) /\ Has(fromSub, r, "SUBSCRIBE")
                       /\ cur'[r].id = Head(fromSub[r]).id
<1> SUFFICES Frame /\ Fits /\ Whose
    OBVIOUS
<1> HIDE DEF Frame, Fits, Whose
<1>a. cur = [cur EXCEPT ![r] = cur[r]] /\ hs = [hs EXCEPT ![r] = hs[r]]
      BY <1>0 DEF ProcTypeOK
<1>b. ASSUME cur' = cur PROVE cur' = [cur EXCEPT ![r] = cur'[r]] /\ cur'[r] = cur[r] /\ Whose
      <2>1. cur'[r] = cur[r]
            BY <1>b
      <2>2. Whose
            BY <2>1, Zenon DEF Whose
      <2>3. cur' = [cur EXCEPT ![r] = cur'[r]]
            BY <1>a, <1>b
      <2> QED BY <2>1, <2>2, <2>3
<1>1. CASE SetRemoteRole(r) \/ SendServerSetup(r)
      <2>1. /\ cur' = cur /\ hs' = [hs EXCEPT ![r] = hs'[r]]
            /\ hs[r] \in {"new", "setup"} /\ hs'[r] \in {"setup", "idle"}
            BY <1>0, <1>1 DEF SetRemoteRole, SendServerSetup, ProcTypeOK
      <2>2. cur'[r] = Nothing
            BY <2>1, <1>b, HandFacts
      <2>3. Frame /\ Whose
            BY <1>b, <2>1 DEF Frame
      <2>4. Fits
            BY <2>1, <2>2 DEF Fits
      <2> QED BY <2>3, <2>4
<1>2. CASE HandleSubscribe(r)
      <2>1. /\ Head(fromSub[r]).id \in Ids /\ hs[r] = "idle"
            /\ Has(fromSub, r, "SUBSCRIBE")
            BY <1>0, <1>2, HeadFacts DEF HandleSubscribe
      <2>2. CASE namespaces = NoPub
            <3>1. cur' = cur /\ hs' = hs
                  BY <1>2, <2>2 DEF HandleSubscribe
            <3>2. cur'[r] = Nothing /\ hs'[r] = "idle"
                  BY <1>b, <2>1, <3>1, HandFacts
            <3>3. Frame /\ Whose
                  BY <1>a, <1>b, <3>1 DEF Frame
            <3>4. Fits
                  BY <3>2 DEF Fits
            <3> QED BY <3>3, <3>4
      <2>3. CASE namespaces # NoPub
            <3> DEFINE c == [id |-> Head(fromSub[r]).id, pub |-> namespaces]
            <3>1. /\ cur' = [cur EXCEPT ![r] = c] /\ hs' = [hs EXCEPT ![r] = "lookup"]
                  /\ namespaces \in Pubs
                  BY <1>0, <1>2, <2>3 DEF HandleSubscribe, RelayTypeOK
            <3>2. c \in [id : Ids, pub : Pubs] /\ c.id = Head(fromSub[r]).id
                  BY <2>1, <3>1
            <3> HIDE DEF c
            <3>3. cur'[r] = c /\ hs'[r] = "lookup"
                  BY <1>0, <3>1 DEF ProcTypeOK
            <3>4. Frame
                  BY <3>1, <3>3 DEF Frame
            <3>5. Fits
                  BY <3>2, <3>3 DEF Fits
            <3>6. Whose
                  BY <1>2, <2>1, <3>2, <3>3, Zenon DEF Whose
            <3> QED BY <3>4, <3>5, <3>6
      <2> QED BY <2>2, <2>3
<1>3. CASE FoundStream(r) \/ SendSubscribe(r)
      <2>1. /\ cur[r] # Nothing /\ cur[r].id \in Ids /\ cur[r].pub \in Pubs
            BY <1>3, HandFacts DEF FoundStream, SendSubscribe
      <2>2. PICK u \in Ids : cur' = [cur EXCEPT ![r] = [id |-> cur[r].id, pub |-> cur[r].pub,
                                                       rs |-> <<cur[r].pub, u>>]]
            <3>1. incoming[cur[r].pub] \subseteq Ids
                  BY <1>0, <2>1 DEF RelayTypeOK
            <3>2. CASE FoundStream(r)
                  BY <1>0, <3>1, <3>2 DEF FoundStream, ProcTypeOK
            <3>3. CASE SendSubscribe(r)
                  BY <2>1, <3>3 DEF SendSubscribe
            <3> QED BY <1>3, <3>2, <3>3
      <2> DEFINE c == [id |-> cur[r].id, pub |-> cur[r].pub, rs |-> <<cur[r].pub, u>>]
      <2>3. c \in [id : Ids, pub : Pubs, rs : RelayStreams] /\ c.id = cur[r].id
            BY <2>1 DEF RelayStreams
      <2>a. c # Nothing
            BY <2>3, NothingInHand
      <2>4. cur' = [cur EXCEPT ![r] = c]
            BY <2>2
      <2>5. hs' = [hs EXCEPT ![r] = hs'[r]] /\ hs'[r] \in {"write", "add"}
            BY <1>0, <1>3 DEF FoundStream, SendSubscribe, ProcTypeOK
      <2> HIDE DEF c
      <2>6. cur'[r] = c
            BY <1>0, <2>4 DEF ProcTypeOK
      <2>7. Frame
            BY <2>4, <2>5, <2>6 DEF Frame
      <2>8. Fits
            BY <2>3, <2>5, <2>6 DEF Fits
      <2>9. Whose
            BY <2>1, <2>3, <2>a, <2>6, Zenon DEF Whose
      <2> QED BY <2>7, <2>8, <2>9
<1>4. CASE MissedStream(r)
      <2>1. cur' = cur /\ hs' = [hs EXCEPT ![r] = hs'[r]] /\ hs[r] = "lookup" /\ hs'[r] = "send"
            BY <1>0, <1>4 DEF MissedStream, ProcTypeOK
      <2>2. cur'[r] \in [id : Ids, pub : Pubs]
            BY <1>0, <1>b, <2>1 DEF HandInv
      <2>3. Frame /\ Whose
            BY <1>b, <2>1 DEF Frame
      <2>4. Fits
            BY <2>1, <2>2 DEF Fits
      <2> QED BY <2>3, <2>4
<1>5. CASE WriteSubscribe(r) \/ AddSubscriber(r)
      <2>1. /\ cur' = cur /\ hs' = [hs EXCEPT ![r] = hs'[r]]
            /\ hs[r] \in {"write", "add"} /\ hs'[r] \in {"add", "register"}
            BY <1>0, <1>5 DEF WriteSubscribe, AddSubscriber, ProcTypeOK
      <2>2. cur'[r] \in [id : Ids, pub : Pubs, rs : RelayStreams]
            BY <1>0, <1>b, <2>1 DEF HandInv
      <2>3. Frame /\ Whose
            BY <1>b, <2>1 DEF Frame
      <2>4. Fits
            BY <2>1, <2>2 DEF Fits
      <2> QED BY <2>3, <2>4
<1>6. CASE AddStream(r)
      <2>1. /\ cur' = [cur EXCEPT ![r] = Nothing] /\ cur'[r] = Nothing
            /\ hs' = [hs EXCEPT ![r] = hs'[r]] /\ hs'[r] = "idle"
            BY <1>0, <1>6 DEF AddStream, ProcTypeOK
      <2>2. Frame
            BY <2>1 DEF Frame
      <2>3. Fits
            BY <2>1 DEF Fits
      <2>4. Whose
            BY <1>6, <2>1 DEF Whose
      <2> QED BY <2>2, <2>3, <2>4
<1> QED BY <1>1, <1>2, <1>3, <1>4, <1>5, <1>6 DEF SubscriberStep

LEMMA ProcTypeStep ==
    ASSUME ControlInv, [Next]_vars
    PROVE  ProcTypeOK'
<1> USE DEF procVars
<1>0. RelayTypeOK /\ ProcTypeOK /\ ChanTypeOK
      BY DEF ControlInv, TypeOK
<1>1. ASSUME NEW r \in Subs, SubscriberStep(r) PROVE ProcTypeOK'
      <2>1. /\ hs' \in [Subs -> {"new", "setup", "idle", "lookup", "send", "write", "add", "register"}]
            BY <1>0, <1>1, InHandStep DEF ProcTypeOK
      <2>2. cur'[r] \in InHand \cup {Nothing}
            BY <1>1, InHandStep DEF InHand
      <2>3. cur' \in [Subs -> InHand \cup {Nothing}]
            BY <1>0, <1>1, <2>2, InHandStep DEF ProcTypeOK
      <2>4. UNCHANGED <<ah, oh>>
            BY <1>1 DEF SubscriberStep, SetRemoteRole, SendServerSetup, HandleSubscribe,
               FoundStream, MissedStream, SendSubscribe, WriteSubscribe, AddSubscriber, AddStream
      <2>5. CASE FoundStream(r)
            <3>1. SubscribeOk(cur[r].id) \in ToSubs \ {Setup}
                  BY <2>5, HandFacts, MessageTypes, MessageFacts DEF FoundStream
            <3>2. writes' \subseteq Subs \X (ToSubs \ {Setup}) /\ asked' = asked
                  BY <1>0, <2>5, <3>1 DEF FoundStream, ProcTypeOK
            <3> QED BY <1>0, <2>1, <2>3, <2>4, <3>2 DEF ProcTypeOK
      <2>6. CASE WriteSubscribe(r)
            <3>1. writes' = writes /\ asked' \in [Pubs -> SUBSET Ids]
                  BY <1>0, <2>6, HandFacts DEF WriteSubscribe, ProcTypeOK
            <3> QED BY <1>0, <2>1, <2>3, <2>4, <3>1 DEF ProcTypeOK
      <2>7. CASE \/ SetRemoteRole(r) \/ SendServerSetup(r) \/ HandleSubscribe(r)
                 \/ MissedStream(r) \/ SendSubscribe(r) \/ AddSubscriber(r) \/ AddStream(r)
            <3>1. UNCHANGED <<writes, asked>>
                  BY <2>7 DEF SetRemoteRole, SendServerSetup, HandleSubscribe, MissedStream,
                              SendSubscribe, AddSubscriber, AddStream
            <3> QED BY <1>0, <2>1, <2>3, <2>4, <3>1 DEF ProcTypeOK
      <2> QED BY <1>1, <2>5, <2>6, <2>7 DEF SubscriberStep
<1>2. ASSUME NEW p \in Pubs, PublisherStep(p) PROVE ProcTypeOK'
      <2>1. CASE HandleAnnounce(p) \/ SendAnnounceOk(p)
            BY <1>0, <2>1 DEF HandleAnnounce, SendAnnounceOk, ProcTypeOK
      <2>2. CASE addPublisher(p)
            <3>1. writes' \subseteq Subs \X (ToSubs \ {Setup})
                  <4>1. Announce(p) \in ToSubs \ {Setup}
                        BY MessageTypes, MessageFacts
                  <4> QED BY <1>0, <2>2, <4>1 DEF addPublisher, Store, AnnouncePeers, ProcTypeOK,
                             RelayTypeOK
            <3> QED BY <1>0, <2>2, <3>1 DEF addPublisher, ProcTypeOK
      <2>3. CASE HandleSubscribeOk(p)
            <3> DEFINE i == Head(fromPub[p]).id
                       o == [id |-> i, must |-> subscribers[<<p, i>>], seen |-> {}]
            <3>1. i \in Ids
                  BY <1>0, <2>3, HeadFacts DEF HandleSubscribeOk
            <3>2. o \in [id : Ids, must : SUBSET Subs, seen : SUBSET Subs]
                  <4>1. <<p, i>> \in RelayStreams
                        BY <3>1 DEF RelayStreams
                  <4> QED BY <1>0, <3>1, <4>1 DEF RelayTypeOK
            <3>3. UNCHANGED <<ah, hs, cur, writes, asked>> /\ (oh' = oh \/ oh' = [oh EXCEPT ![p] = o])
                  BY <2>3 DEF HandleSubscribeOk
            <3> HIDE DEF o
            <3> QED BY <1>0, <3>2, <3>3 DEF ProcTypeOK
      <2>4. CASE ForwardSubscribeOk(p)
            <3>1. UNCHANGED <<ah, hs, cur, writes, asked>> /\ oh[p] # Nothing
                  BY <2>4 DEF ForwardSubscribeOk
            <3>2. CASE oh' = [oh EXCEPT ![p] = Nothing]
                  BY <1>0, <3>1, <3>2 DEF ProcTypeOK
            <3>3. ASSUME NEW r \in Subs, Visit(p, r) PROVE ProcTypeOK'
                  <4>1. oh[p] \in [id : Ids, must : SUBSET Subs, seen : SUBSET Subs]
                        BY <1>0, <3>1 DEF ProcTypeOK
                  <4>2. [oh[p] EXCEPT !.seen = @ \cup {r}]
                           \in [id : Ids, must : SUBSET Subs, seen : SUBSET Subs]
                        BY <4>1
                  <4>3. oh' = [oh EXCEPT ![p] = [oh[p] EXCEPT !.seen = @ \cup {r}]]
                        BY <3>3 DEF Visit
                  <4> QED BY <1>0, <3>1, <4>2, <4>3 DEF ProcTypeOK
            <3> QED BY <2>4, <3>1, <3>2, <3>3, SubscribersAreSessions DEF ForwardSubscribeOk
      <2> QED BY <1>2, <2>1, <2>2, <2>3, <2>4 DEF PublisherStep
<1>3. ASSUME NEW w \in writes, WriteControlMessage(w) PROVE ProcTypeOK'
      BY <1>0, <1>3 DEF WriteControlMessage, ProcTypeOK
<1>4. ASSUME \/ \E r \in Subs : ClientStep(r)
             \/ \E p \in Pubs : PubStep(p) \/ SendAnnounce(p) \/ PubDies(p)
             \/ \E i \in Ids : ClientSubscribe(i) \/ ClientAddStream(i)
             \/ UNCHANGED vars
      PROVE  UNCHANGED procVars
      BY <1>4 DEF ClientStep, ClientSetupDone, ClientAnnounce, ClientSubscribeOk, PubStep,
         AddNamespace, PubHandleSubscribe, PubHandleAnnounceOk, Accept, SendAnnounce, PubDies,
         ClientSubscribe, ClientAddStream, vars
<1>5. ASSUME UNCHANGED procVars PROVE ProcTypeOK'
      BY <1>0, <1>5 DEF ProcTypeOK
<1> QED BY <1>1, <1>2, <1>3, <1>4, <1>5, StepCases

LEMMA EndTypeStep ==
    ASSUME ControlInv, [Next]_vars
    PROVE  EndTypeOK'
<1> USE DEF endVars
<1>0. ChanTypeOK /\ EndTypeOK
      BY DEF ControlInv, TypeOK
<1>1. ASSUME NEW r \in Subs, ClientStep(r) PROVE EndTypeOK'
      <2>1. CASE ClientSetupDone(r)
            BY <1>0, <2>1 DEF ClientSetupDone, EndTypeOK
      <2>2. CASE ClientAnnounce(r)
            BY <1>0, <2>2 DEF ClientAnnounce, EndTypeOK
      <2>3. CASE ClientSubscribeOk(r)
            BY <1>0, <2>3, HeadFacts DEF ClientSubscribeOk, EndTypeOK
      <2> QED BY <1>1, <2>1, <2>2, <2>3 DEF ClientStep
<1>2. ASSUME NEW p \in Pubs, PubStep(p) PROVE EndTypeOK'
      <2>1. CASE PubHandleSubscribe(p)
            BY <1>0, <2>1, HeadFacts DEF PubHandleSubscribe, EndTypeOK
      <2>2. CASE AddNamespace(p) \/ PubHandleAnnounceOk(p) \/ Accept(p)
            BY <1>0, <2>2 DEF AddNamespace, PubHandleAnnounceOk, Accept, EndTypeOK
      <2> QED BY <1>2, <2>1, <2>2 DEF PubStep
<1>3. ASSUME NEW p \in Pubs, SendAnnounce(p) \/ PubDies(p) PROVE EndTypeOK'
      BY <1>0, <1>3 DEF SendAnnounce, PubDies, EndTypeOK
<1>4. ASSUME NEW i \in Ids, ClientSubscribe(i) \/ ClientAddStream(i) PROVE EndTypeOK'
      BY <1>0, <1>4 DEF ClientSubscribe, ClientAddStream, EndTypeOK
<1>5. ASSUME \/ \E r \in Subs : SubscriberStep(r)
             \/ \E p \in Pubs : PublisherStep(p)
             \/ \E w \in writes : WriteControlMessage(w)
             \/ UNCHANGED vars
      PROVE  UNCHANGED endVars
      BY <1>5 DEF SubscriberStep, SetRemoteRole, SendServerSetup, HandleSubscribe,
         FoundStream, MissedStream, SendSubscribe, WriteSubscribe, AddSubscriber, AddStream,
         PublisherStep, HandleAnnounce, addPublisher, SendAnnounceOk, HandleSubscribeOk,
         ForwardSubscribeOk, WriteControlMessage, vars
<1>6. ASSUME UNCHANGED endVars PROVE EndTypeOK'
      BY <1>0, <1>6 DEF EndTypeOK
<1> QED BY <1>1, <1>2, <1>3, <1>4, <1>5, <1>6, StepCases
-----------------------------------------------------------------------------
\* What the handlers have in hand.

\* The steps of other goroutines than a subscriber's ServeCS leave its hand, and what
\* has been registered, alone.
LEMMA HandFrame ==
    ASSUME [Next]_vars
    PROVE  \/ \E r \in Subs : SubscriberStep(r)
           \/ UNCHANGED <<hs, cur, incoming, subscribed, asked>>
<1> USE DEF relayVars, procVars
<1> SUFFICES ASSUME ~ \E r \in Subs : SubscriberStep(r)
             PROVE  UNCHANGED <<hs, cur, incoming, subscribed, asked>>
    OBVIOUS
<1>1. ASSUME NEW r \in Subs, ClientStep(r) PROVE UNCHANGED <<hs, cur, incoming, subscribed, asked>>
      BY <1>1 DEF ClientStep, ClientSetupDone, ClientAnnounce, ClientSubscribeOk
<1>2. ASSUME NEW p \in Pubs, PublisherStep(p) PROVE UNCHANGED <<hs, cur, incoming, subscribed, asked>>
      BY <1>2 DEF PublisherStep, HandleAnnounce, addPublisher, SendAnnounceOk, HandleSubscribeOk,
         ForwardSubscribeOk
<1>3. ASSUME NEW p \in Pubs, PubStep(p) \/ SendAnnounce(p) \/ PubDies(p)
      PROVE  UNCHANGED <<hs, cur, incoming, subscribed, asked>>
      BY <1>3 DEF PubStep, AddNamespace, PubHandleSubscribe, PubHandleAnnounceOk, Accept,
         SendAnnounce, PubDies
<1>4. ASSUME \/ \E i \in Ids : ClientSubscribe(i) \/ ClientAddStream(i)
             \/ \E w \in writes : WriteControlMessage(w)
             \/ UNCHANGED vars
      PROVE  UNCHANGED <<hs, cur, incoming, subscribed, asked>>
      BY <1>4 DEF ClientSubscribe, ClientAddStream, WriteControlMessage, vars
<1> QED BY <1>1, <1>2, <1>3, <1>4, StepCases

\* IncomingStreams never forgets.
LEMMA IncomingGrows ==
    ASSUME ControlInv, [Next]_vars, NEW p \in Pubs
    PROVE  incoming[p] \subseteq incoming'[p]
<1>1. incoming \in [Pubs -> SUBSET Ids]
      BY DEF ControlInv, TypeOK, RelayTypeOK
<1>2. ASSUME NEW r \in Subs, SubscriberStep(r) PROVE incoming[p] \subseteq incoming'[p]
      BY <1>1, <1>2 DEF SubscriberStep, SetRemoteRole, SendServerSetup, HandleSubscribe, FoundStream,
         MissedStream, SendSubscribe, WriteSubscribe, AddSubscriber, AddStream, relayVars
<1> QED BY <1>2, HandFrame

LEMMA HandStep ==
    ASSUME ControlInv, [Next]_vars
    PROVE  HandInv'
<1>0. RelayTypeOK /\ ProcTypeOK /\ HandInv
      BY DEF ControlInv, TypeOK
<1>1. ASSUME NEW r \in Subs, SubscriberStep(r), NEW s \in Subs
      PROVE  /\ hs'[s] \in {"new", "setup", "idle"} => cur'[s] = Nothing
             /\ hs'[s] \in {"lookup", "send"} => cur'[s] \in [id : Ids, pub : Pubs]
             /\ hs'[s] \in {"write", "add", "register"} =>
                   cur'[s] \in [id : Ids, pub : Pubs, rs : RelayStreams]
             /\ hs'[s] = "write" => cur'[s].id \in incoming'[cur'[s].pub]
      <2>1. CASE s # r
            <3>1. hs'[s] = hs[s]
                  BY <1>0, <1>1, <2>1, InHandStep DEF ProcTypeOK
            <3>2. cur'[s] = cur[s]
                  BY <1>0, <1>1, <2>1, InHandStep DEF ProcTypeOK
            <3>3. hs[s] = "write" => cur[s].id \in incoming'[cur[s].pub]
                  BY HandFacts, IncomingGrows
            <3> QED BY <1>0, <3>1, <3>2, <3>3, Zenon DEF HandInv
      <2>2. CASE s = r
            <3>1. ASSUME hs'[r] = "write" PROVE cur'[r].id \in incoming'[cur'[r].pub]
                  <4>1. SendSubscribe(r)
                        BY <1>0, <1>1, <3>1 DEF SubscriberStep, SetRemoteRole, SendServerSetup,
                           HandleSubscribe, FoundStream, MissedStream, WriteSubscribe,
                           AddSubscriber, AddStream, ProcTypeOK
                  <4>2. cur[r].id \in Ids /\ cur[r].pub \in Pubs
                        BY <4>1, HandFacts DEF SendSubscribe
                  <4>3. cur'[r].id = cur[r].id /\ cur'[r].pub = cur[r].pub
                        BY <1>0, <4>1 DEF SendSubscribe, ProcTypeOK
                  <4>4. cur[r].id \in incoming'[cur[r].pub]
                        BY <1>0, <4>1, <4>2 DEF SendSubscribe, RelayTypeOK
                  <4> QED BY <4>3, <4>4
            <3> QED BY <1>1, <2>2, <3>1, InHandStep
      <2> QED BY <2>1, <2>2
<1>2. ASSUME UNCHANGED <<hs, cur, incoming, subscribed, asked>> PROVE HandInv'
      BY <1>0, <1>2 DEF HandInv
<1> QED BY <1>1, <1>2, HandFrame DEF HandInv

-----------------------------------------------------------------------------
\* What a step does to the control streams.

LEMMA ToSubFrame ==
    ASSUME [Next]_vars
    PROVE  \/ \E r \in Subs : SendServerSetup(r) \/ ClientStep(r)
           \/ \E p \in Pubs : ForwardSubscribeOk(p)
           \/ \E w \in writes : WriteControlMessage(w)
           \/ UNCHANGED toSub
<1> USE DEF chanVars
<1>1. ASSUME NEW r \in Subs, SubscriberStep(r) PROVE SendServerSetup(r) \/ UNCHANGED toSub
      BY <1>1 DEF SubscriberStep, SetRemoteRole, HandleSubscribe, FoundStream, MissedStream,
         SendSubscribe, WriteSubscribe, AddSubscriber, AddStream
<1>2. ASSUME NEW p \in Pubs, PublisherStep(p) PROVE ForwardSubscribeOk(p) \/ UNCHANGED toSub
      BY <1>2 DEF PublisherStep, HandleAnnounce, addPublisher, SendAnnounceOk, HandleSubscribeOk
<1>3. ASSUME NEW p \in Pubs, PubStep(p) \/ SendAnnounce(p) \/ PubDies(p) PROVE UNCHANGED toSub
      BY <1>3 DEF PubStep, AddNamespace, PubHandleSubscribe, PubHandleAnnounceOk, Accept,
         SendAnnounce, PubDies
<1>4. ASSUME (\E i \in Ids : ClientSubscribe(i) \/ ClientAddStream(i)) \/ UNCHANGED vars
      PROVE  UNCHANGED toSub
      BY <1>4 DEF ClientSubscribe, ClientAddStream, vars
<1> QED BY <1>1, <1>2, <1>3, <1>4, StepCases

\* A message that is new on its way to a subscriber is SERVER_SETUP, one a goroutine
\* has written, or a SUBSCRIBE_OK for a subscription that is registered.
LEMMA ToSubStep ==
    ASSUME ControlInv, [Next]_vars, NEW r \in Subs, NEW e
    PROVE  /\ e \in Sent(toSub', r) =>
                 \/ e \in Sent(toSub, r)
                 \/ SendServerSetup(r) /\ e = Setup
                 \/ <<r, e>> \in writes /\ writes' = writes \ {<<r, e>>}
                 \/ \E x \in subscribed[r] : e = SubscribeOk(x[1])
           /\ /\ Once(toSub, r, e)
              /\ \A i : e # SubscribeOk(i)
              /\ e \in Sent(toSub, r) => <<r, e>> \notin writes
              /\ SendServerSetup(r) => Setup \notin Sent(toSub, r)
              => Once(toSub', r, e)
<1> DEFINE New == e \in Sent(toSub', r) =>
                     \/ e \in Sent(toSub, r)
                     \/ SendServerSetup(r) /\ e = Setup
                     \/ <<r, e>> \in writes /\ writes' = writes \ {<<r, e>>}
                     \/ \E x \in subscribed[r] : e = SubscribeOk(x[1])
           Pre == /\ Once(toSub, r, e)
                  /\ \A i : e # SubscribeOk(i)
                  /\ e \in Sent(toSub, r) => <<r, e>> \notin writes
                  /\ SendServerSetup(r) => Setup \notin Sent(toSub, r)
<1> SUFFICES New /\ (Pre => Once(toSub', r, e))
    OBVIOUS
<1>0. toSub \in [Subs -> Seq(ToSubs)]
      BY DEF ControlInv, TypeOK, ChanTypeOK
<1>1. ASSUME NEW s \in Subs, SendServerSetup(s) PROVE New /\ (Pre => Once(toSub', r, e))
      <2>1. toSub' = Send(toSub, s, Setup)
            BY <1>1 DEF SendServerSetup
      <2>2. /\ e \in Sent(toSub', r) <=> e \in Sent(toSub, r) \/ (r = s /\ e = Setup)
            /\ Once(toSub, r, e) /\ ((r = s /\ e = Setup) => Setup \notin Sent(toSub, s))
                  => Once(toSub', r, e)
            BY <1>0, <2>1, SendFacts, MessageTypes
      <2> QED BY <1>1, <2>2
<1>2. ASSUME NEW s \in Subs, ClientStep(s) PROVE New /\ (Pre => Once(toSub', r, e))
      <2>1. toSub[s] # << >> /\ toSub' = Receive(toSub, s)
            BY <1>2 DEF ClientStep, ClientSetupDone, ClientAnnounce, ClientSubscribeOk, Has
      <2> QED BY <1>0, <2>1, ReceiveFacts
<1>3. ASSUME NEW p \in Pubs, ForwardSubscribeOk(p) PROVE New /\ (Pre => Once(toSub', r, e))
      <2>1. CASE UNCHANGED toSub
            BY <2>1
      <2>2. ASSUME NEW s \in Subs, NEW x \in subscribed[s],
                   toSub' = Send(toSub, s, SubscribeOk(x[1]))
            PROVE  New /\ (Pre => Once(toSub', r, e))
            <3>1. x[1] \in Ids
                  BY DEF ControlInv, TypeOK, RelayTypeOK
            <3>2. SubscribeOk(x[1]) \in ToSubs
                  BY <3>1, MessageTypes
            <3>3. /\ e \in Sent(toSub', r) <=> e \in Sent(toSub, r) \/ (r = s /\ e = SubscribeOk(x[1]))
                  /\ /\ Once(toSub, r, e)
                     /\ (r = s /\ e = SubscribeOk(x[1])) => SubscribeOk(x[1]) \notin Sent(toSub, s)
                     => Once(toSub', r, e)
                  BY <1>0, <2>2, <3>2, SendFacts
            <3> QED BY <3>3
      <2> QED BY <1>3, <2>1, <2>2, SubscribersAreSessions DEF ForwardSubscribeOk, SendSubscribeOk
<1>4. ASSUME NEW w \in writes, WriteControlMessage(w) PROVE New /\ (Pre => Once(toSub', r, e))
      <2>1. PICK s \in Subs, m \in ToSubs : w = <<s, m>>
            BY DEF ControlInv, TypeOK, ProcTypeOK
      <2>2. toSub' = Send(toSub, s, m) /\ writes' = writes \ {<<s, m>>}
            BY <1>4, <2>1 DEF WriteControlMessage
      <2>3. /\ e \in Sent(toSub', r) <=> e \in Sent(toSub, r) \/ (r = s /\ e = m)
            /\ Once(toSub, r, e) /\ ((r = s /\ e = m) => m \notin Sent(toSub, s))
                  => Once(toSub', r, e)
            BY <1>0, <2>2, SendFacts
      <2> QED BY <2>1, <2>2, <2>3
<1>5. ASSUME UNCHANGED toSub PROVE New /\ (Pre => Once(toSub', r, e))
      BY <1>5
<1> QED BY <1>1, <1>2, <1>3, <1>4, <1>5, ToSubFrame

\* What a subscriber handles is no longer on its way, if it was so once.
LEMMA HandledOnce ==
    ASSUME ControlInv, NEW r \in Subs, ClientStep(r)
    PROVE  /\ toSub[r] # << >> /\ Head(toSub[r]) \in Sent(toSub, r)
           /\ Once(toSub, r, Head(toSub[r])) => Head(toSub[r]) \notin Sent(toSub', r)
           /\ writes' = writes
<1>1. toSub[r] # << >> /\ toSub' = Receive(toSub, r) /\ writes' = writes
      BY DEF ClientStep, ClientSetupDone, ClientAnnounce, ClientSubscribeOk, Has, procVars
<1>2. toSub \in [Subs -> Seq(ToSubs)]
      BY DEF ControlInv, TypeOK, ChanTypeOK
<1> QED BY <1>1, <1>2, ReceiveFacts

\* A SUBSCRIBE is new on its way to the relay when SubHandler.Subscribe writes it.
LEMMA FromSubStep ==
    ASSUME ControlInv, [Next]_vars, NEW r \in Subs, NEW e
    PROVE  e \in Sent(fromSub', r) =>
              \/ e \in Sent(fromSub, r)
              \/ \E i \in Ids : ClientSubscribe(i) /\ r = i[1] /\ e = Subscribe(i)
<1> USE DEF chanVars
<1> DEFINE New == e \in Sent(fromSub', r) =>
                     \/ e \in Sent(fromSub, r)
                     \/ \E i \in Ids : ClientSubscribe(i) /\ r = i[1] /\ e = Subscribe(i)
<1>0. fromSub \in [Subs -> Seq(FromSubs)]
      BY DEF ControlInv, TypeOK, ChanTypeOK
<1>1. ASSUME NEW s \in Subs, HandleSubscribe(s) PROVE New
      <2>1. fromSub[s] # << >> /\ fromSub' = Receive(fromSub, s)
            BY <1>1 DEF HandleSubscribe, Has
      <2> QED BY <1>0, <2>1, ReceiveFacts
<1>2. ASSUME NEW i \in Ids, ClientSubscribe(i) PROVE New
      <2>1. PICK s \in Subs : s = i[1]
            BY DEF Ids
      <2>2. fromSub' = Send(fromSub, s, Subscribe(i)) /\ Subscribe(i) \in FromSubs
            BY <1>2, <2>1, MessageTypes DEF ClientSubscribe
      <2>3. e \in Sent(fromSub', r) <=> e \in Sent(fromSub, r) \/ (r = s /\ e = Subscribe(i))
            BY <1>0, <2>2, SendFacts
      <2> QED BY <1>2, <2>1, <2>3
<1>3. ASSUME UNCHANGED fromSub PROVE New
      BY <1>3
<1>4. ASSUME NEW s \in Subs, SubscriberStep(s) \/ ClientStep(s)
      PROVE  HandleSubscribe(s) \/ UNCHANGED fromSub
      BY <1>4 DEF SubscriberStep, SetRemoteRole, SendServerSetup, FoundStream, MissedStream,
         SendSubscribe, WriteSubscribe, AddSubscriber, AddStream,
         ClientStep, ClientSetupDone, ClientAnnounce, ClientSubscribeOk
<1>5. ASSUME NEW p \in Pubs, PublisherStep(p) \/ PubStep(p) \/ SendAnnounce(p) \/ PubDies(p)
      PROVE  UNCHANGED fromSub
      BY <1>5 DEF PublisherStep, HandleAnnounce, addPublisher, SendAnnounceOk, HandleSubscribeOk,
         ForwardSubscribeOk, PubStep, AddNamespace, PubHandleSubscribe, PubHandleAnnounceOk,
         Accept, SendAnnounce, PubDies
<1>6. ASSUME \/ \E i \in Ids : ClientAddStream(i)
             \/ \E w \in writes : WriteControlMessage(w)
             \/ UNCHANGED vars
      PROVE  UNCHANGED fromSub
      BY <1>6 DEF ClientAddStream, WriteControlMessage, vars
<1> QED BY <1>1, <1>2, <1>3, <1>4, <1>5, <1>6, StepCases

\* What is new on its way to a publisher is ANNOUNCE_OK, or the SUBSCRIBE in hand.
LEMMA ToPubStep ==
    ASSUME ControlInv, [Next]_vars, NEW p \in Pubs, NEW e
    PROVE  e \in Sent(toPub', p) =>
              \/ e \in Sent(toPub, p) \/ e = AnnounceOk
              \/ \E r \in Subs : WriteSubscribe(r) /\ p = cur[r].pub /\ e = Subscribe(cur[r].id)
<1> USE DEF chanVars
<1> DEFINE New == e \in Sent(toPub', p) =>
                     \/ e \in Sent(toPub, p) \/ e = AnnounceOk
                     \/ \E r \in Subs : WriteSubscribe(r) /\ p = cur[r].pub /\ e = Subscribe(cur[r].id)
<1>0. ChanTypeOK /\ toPub \in [Pubs -> Seq(ToPubs)]
      BY DEF ControlInv, TypeOK, ChanTypeOK
<1>1. ASSUME NEW r \in Subs, WriteSubscribe(r) PROVE New
      <2>1. PICK x \in Pubs : x = cur[r].pub
            BY <1>1, HandFacts DEF WriteSubscribe
      <2>2. Subscribe(cur[r].id) \in ToPubs
            BY <1>1, HandFacts, MessageTypes DEF WriteSubscribe
      <2>3. SendUp(x, Subscribe(cur[r].id))
            BY <1>1, <2>1 DEF WriteSubscribe
      <2>4. e \in Sent(toPub', p) => e \in Sent(toPub, p) \/ (p = x /\ e = Subscribe(cur[r].id))
            BY <1>0, <2>2, <2>3, SendUpFacts
      <2> QED BY <1>1, <2>1, <2>4
<1>2. ASSUME NEW x \in Pubs, SendAnnounceOk(x) PROVE New
      <2>1. SendUp(x, AnnounceOk)
            BY <1>2 DEF SendAnnounceOk
      <2> QED BY <1>0, <2>1, SendUpFacts, MessageTypes
<1>3. ASSUME NEW x \in Pubs, PubHandleSubscribe(x) \/ PubHandleAnnounceOk(x) PROVE New
      <2>1. toPub[x] # << >> /\ toPub' = Receive(toPub, x)
            BY <1>3 DEF PubHandleSubscribe, PubHandleAnnounceOk, Has
      <2> QED BY <1>0, <2>1, ReceiveFacts
<1>4. ASSUME NEW x \in Pubs, PubDies(x) PROVE New
      <2>1. toPub'[p] = toPub[p] \/ toPub'[p] = << >>
            BY <1>0, <1>4 DEF PubDies
      <2> QED BY <2>1 DEF Sent
<1>5. ASSUME UNCHANGED toPub PROVE New
      BY <1>5
<1>6. ASSUME NEW r \in Subs, SubscriberStep(r) \/ ClientStep(r)
      PROVE  WriteSubscribe(r) \/ UNCHANGED toPub
      BY <1>6 DEF SubscriberStep, SetRemoteRole, SendServerSetup, HandleSubscribe, FoundStream,
         MissedStream, SendSubscribe, AddSubscriber, AddStream,
         ClientStep, ClientSetupDone, ClientAnnounce, ClientSubscribeOk
<1>7. ASSUME NEW x \in Pubs, PublisherStep(x) \/ PubStep(x) \/ SendAnnounce(x)
      PROVE  SendAnnounceOk(x) \/ PubHandleSubscribe(x) \/ PubHandleAnnounceOk(x) \/ UNCHANGED toPub
      BY <1>7 DEF PublisherStep, HandleAnnounce, addPublisher, HandleSubscribeOk,
         ForwardSubscribeOk, PubStep, AddNamespace, Accept, SendAnnounce
<1>8. ASSUME \/ \E i \in Ids : ClientSubscribe(i) \/ ClientAddStream(i)
             \/ \E w \in writes : WriteControlMessage(w)
             \/ UNCHANGED vars
      PROVE  UNCHANGED toPub
      BY <1>8 DEF ClientSubscribe, ClientAddStream, WriteControlMessage, vars
<1> QED BY <1>1, <1>2, <1>3, <1>4, <1>5, <1>6, <1>7, <1>8, StepCases

\* What is new on its way from a publisher is its ANNOUNCE, or an answer to a SUBSCRIBE
\* that was handed to it.
LEMMA FromPubStep ==
    ASSUME ControlInv, [Next]_vars, NEW p \in Pubs, NEW e
    PROVE  /\ e \in Sent(fromPub', p) =>
                 \/ e \in Sent(fromPub, p)
                 \/ SendAnnounce(p) /\ e = Announce(p)
                 \/ \E i \in accepting[p] : e = SubscribeOk(i)
           /\ /\ Once(fromPub, p, e)
              /\ \A i : e # SubscribeOk(i)
              /\ SendAnnounce(p) => Announce(p) \notin Sent(fromPub, p)
              => Once(fromPub', p, e)
<1> USE DEF chanVars
<1> DEFINE New == e \in Sent(fromPub', p) =>
                     \/ e \in Sent(fromPub, p)
                     \/ SendAnnounce(p) /\ e = Announce(p)
                     \/ \E i \in accepting[p] : e = SubscribeOk(i)
           Pre == /\ Once(fromPub, p, e)
                  /\ \A i : e # SubscribeOk(i)
                  /\ SendAnnounce(p) => Announce(p) \notin Sent(fromPub, p)
<1> SUFFICES New /\ (Pre => Once(fromPub', p, e))
    OBVIOUS
<1>0. fromPub \in [Pubs -> Seq(FromPubs)]
      BY DEF ControlInv, TypeOK, ChanTypeOK
<1>1. ASSUME NEW x \in Pubs, HandleAnnounce(x) \/ HandleSubscribeOk(x)
      PROVE  New /\ (Pre => Once(fromPub', p, e))
      <2>1. fromPub[x] # << >> /\ fromPub' = Receive(fromPub, x)
            BY <1>1 DEF HandleAnnounce, HandleSubscribeOk, Has
      <2> QED BY <1>0, <2>1, ReceiveFacts
<1>2. ASSUME NEW x \in Pubs, Accept(x) PROVE New /\ (Pre => Once(fromPub', p, e))
      <2>1. PICK i \in accepting[x] : fromPub' = Send(fromPub, x, SubscribeOk(i))
            BY <1>2 DEF Accept
      <2>2. SubscribeOk(i) \in FromPubs
            BY MessageTypes DEF ControlInv, TypeOK, EndTypeOK
      <2>3. /\ e \in Sent(fromPub', p) <=> e \in Sent(fromPub, p) \/ (p = x /\ e = SubscribeOk(i))
            /\ /\ Once(fromPub, p, e)
               /\ (p = x /\ e = SubscribeOk(i)) => SubscribeOk(i) \notin Sent(fromPub, x)
               => Once(fromPub', p, e)
            BY <1>0, <2>1, <2>2, SendFacts
      <2> QED BY <2>3
<1>3. ASSUME NEW x \in Pubs, SendAnnounce(x) PROVE New /\ (Pre => Once(fromPub', p, e))
      <2>1. fromPub' = Send(fromPub, x, Announce(x))
            BY <1>3 DEF SendAnnounce
      <2>2. /\ e \in Sent(fromPub', p) <=> e \in Sent(fromPub, p) \/ (p = x /\ e = Announce(x))
            /\ Once(fromPub, p, e) /\ ((p = x /\ e = Announce(x)) => Announce(x) \notin Sent(fromPub, x))
                  => Once(fromPub', p, e)
            BY <1>0, <2>1, SendFacts, MessageTypes
      <2> QED BY <1>3, <2>2
<1>4. ASSUME NEW x \in Pubs, PubDies(x) PROVE New /\ (Pre => Once(fromPub', p, e))
      <2>1. fromPub'[p] = fromPub[p] \/ fromPub'[p] = << >>
            BY <1>0, <1>4 DEF PubDies
      <2> QED BY <2>1 DEF Sent, Once
<1>5. ASSUME UNCHANGED fromPub PROVE New /\ (Pre => Once(fromPub', p, e))
      BY <1>5
<1>6. ASSUME NEW r \in Subs, SubscriberStep(r) \/ ClientStep(r) PROVE UNCHANGED fromPub
      BY <1>6 DEF SubscriberStep, SetRemoteRole, SendServerSetup, HandleSubscribe, FoundStream,
         MissedStream, SendSubscribe, WriteSubscribe, AddSubscriber, AddStream,
         ClientStep, ClientSetupDone, ClientAnnounce, ClientSubscribeOk
<1>7. ASSUME NEW x \in Pubs, PublisherStep(x) \/ PubStep(x)
      PROVE  HandleAnnounce(x) \/ HandleSubscribeOk(x) \/ Accept(x) \/ UNCHANGED fromPub
      BY <1>7 DEF PublisherStep, addPublisher, SendAnnounceOk, ForwardSubscribeOk, PubStep,
         AddNamespace, PubHandleSubscribe, PubHandleAnnounceOk
<1>8. ASSUME \/ \E i \in Ids : ClientSubscribe(i) \/ ClientAddStream(i)
             \/ \E w \in writes : WriteControlMessage(w)
             \/ UNCHANGED vars
      PROVE  UNCHANGED fromPub
      BY <1>8 DEF ClientSubscribe, ClientAddStream, WriteControlMessage, vars
<1> QED BY <1>1, <1>2, <1>3, <1>4, <1>5, <1>6, <1>7, <1>8, StepCases

\* A new pending write is the ANNOUNCE of the publisher whose addPublisher is telling,
\* or the SUBSCRIBE_OK for what was found.
LEMMA WritesStep ==
    ASSUME ControlInv, [Next]_vars, NEW r \in Subs, NEW e
    PROVE  <<r, e>> \in writes' =>
              \/ <<r, e>> \in writes
              \/ FoundStream(r) /\ e = SubscribeOk(cur[r].id)
              \/ \E p \in Pubs : addPublisher(p) /\ ah[p] = "tell" /\ e = Announce(p)
<1> USE DEF procVars
<1> DEFINE New == <<r, e>> \in writes' =>
                     \/ <<r, e>> \in writes
                     \/ FoundStream(r) /\ e = SubscribeOk(cur[r].id)
                     \/ \E p \in Pubs : addPublisher(p) /\ ah[p] = "tell" /\ e = Announce(p)
<1>1. ASSUME NEW s \in Subs, FoundStream(s) PROVE New
      <2>1. writes' = writes \cup {<<s, SubscribeOk(cur[s].id)>>}
            BY <1>1 DEF FoundStream
      <2> QED BY <1>1, <2>1
<1>2. ASSUME NEW p \in Pubs, addPublisher(p) PROVE New
      <2>1. CASE ah[p] = "tell"
            <3>1. writes' = writes \cup {<<s, Announce(p)>> : s \in role}
                  BY <1>2, <2>1 DEF addPublisher, AnnouncePeers
            <3> QED BY <1>2, <2>1, <3>1
      <2>2. CASE ah[p] # "tell"
            BY <1>2, <2>2 DEF addPublisher, Store
      <2> QED BY <2>1, <2>2
<1>3. ASSUME writes' \subseteq writes PROVE New
      BY <1>3
<1>4. ASSUME NEW s \in Subs, SubscriberStep(s) \/ ClientStep(s)
      PROVE  FoundStream(s) \/ writes' \subseteq writes
      BY <1>4 DEF SubscriberStep, SetRemoteRole, SendServerSetup, HandleSubscribe, MissedStream,
         SendSubscribe, WriteSubscribe, AddSubscriber, AddStream,
         ClientStep, ClientSetupDone, ClientAnnounce, ClientSubscribeOk
<1>5. ASSUME NEW p \in Pubs, PublisherStep(p) \/ PubStep(p) \/ SendAnnounce(p) \/ PubDies(p)
      PROVE  addPublisher(p) \/ writes' \subseteq writes
      BY <1>5 DEF PublisherStep, HandleAnnounce, SendAnnounceOk, HandleSubscribeOk,
         ForwardSubscribeOk, PubStep, AddNamespace, PubHandleSubscribe, PubHandleAnnounceOk,
         Accept, SendAnnounce, PubDies
<1>6. ASSUME \/ \E i \in Ids : ClientSubscribe(i) \/ ClientAddStream(i)
             \/ \E w \in writes : WriteControlMessage(w)
             \/ UNCHANGED vars
      PROVE  writes' \subseteq writes
      BY <1>6 DEF ClientSubscribe, ClientAddStream, WriteControlMessage, vars
<1> QED BY <1>1, <1>2, <1>3, <1>4, <1>5, <1>6, StepCases

-----------------------------------------------------------------------------
\* The subscriptions that the subscribers have made.

\* SubHandler.Subscribe is called for a subscription because of SERVER_SETUP or of an
\* ANNOUNCE, and then goes on.
LEMMA AppStep ==
    ASSUME ControlInv, [Next]_vars, NEW i \in Ids
    PROVE  \/ app'[i] = app[i]
           \/ \E r \in Subs : ClientSetupDone(r) /\ i = <<r, Main>>
           \/ \E r \in Subs : ClientAnnounce(r) /\ i = <<r, Head(toSub[r]).pub>>
           \/ ClientSubscribe(i) /\ app'[i] = "adding"
           \/ app[i] = "adding" /\ app'[i] = "done"
<1> USE DEF endVars
<1> DEFINE Goes == \/ app'[i] = app[i]
                   \/ \E r \in Subs : ClientSetupDone(r) /\ i = <<r, Main>>
                   \/ \E r \in Subs : ClientAnnounce(r) /\ i = <<r, Head(toSub[r]).pub>>
                   \/ ClientSubscribe(i) /\ app'[i] = "adding"
                   \/ app[i] = "adding" /\ app'[i] = "done"
<1>0. app \in [Ids -> {"idle", "call", "adding", "done"}]
      BY DEF ControlInv, TypeOK, EndTypeOK
<1>1. ASSUME NEW r \in Subs, ClientSetupDone(r) PROVE Goes
      <2>1. CASE i = <<r, Main>>
            BY <1>1, <2>1
      <2>2. CASE i # <<r, Main>>
            BY <1>0, <1>1, <2>2 DEF ClientSetupDone
      <2> QED BY <2>1, <2>2
<1>2. ASSUME NEW r \in Subs, ClientAnnounce(r) PROVE Goes
      <2>1. CASE i = <<r, Head(toSub[r]).pub>>
            BY <1>2, <2>1
      <2>2. CASE i # <<r, Head(toSub[r]).pub>>
            BY <1>0, <1>2, <2>2 DEF ClientAnnounce
      <2> QED BY <2>1, <2>2
<1>3. ASSUME NEW j \in Ids, ClientSubscribe(j) PROVE Goes
      BY <1>0, <1>3 DEF ClientSubscribe
<1>4. ASSUME NEW j \in Ids, ClientAddStream(j) PROVE Goes
      BY <1>0, <1>4 DEF ClientAddStream
<1>5. ASSUME UNCHANGED app PROVE Goes
      BY <1>5
<1>6. ASSUME NEW r \in Subs, SubscriberStep(r) \/ ClientStep(r)
      PROVE  ClientSetupDone(r) \/ ClientAnnounce(r) \/ UNCHANGED app
      BY <1>6 DEF SubscriberStep, SetRemoteRole, SendServerSetup, HandleSubscribe, FoundStream,
         MissedStream, SendSubscribe, WriteSubscribe, AddSubscriber, AddStream, ClientStep,
         ClientSubscribeOk
<1>7. ASSUME NEW p \in Pubs, PublisherStep(p) \/ PubStep(p) \/ SendAnnounce(p) \/ PubDies(p)
      PROVE  UNCHANGED app
      BY <1>7 DEF PublisherStep, HandleAnnounce, addPublisher, SendAnnounceOk, HandleSubscribeOk,
         ForwardSubscribeOk, PubStep, AddNamespace, PubHandleSubscribe, PubHandleAnnounceOk,
         Accept, SendAnnounce, PubDies
<1>8. ASSUME (\E w \in writes : WriteControlMessage(w)) \/ UNCHANGED vars PROVE UNCHANGED app
      BY <1>8 DEF WriteControlMessage, vars
<1> QED BY <1>1, <1>2, <1>3, <1>4, <1>5, <1>6, <1>7, <1>8, StepCases

\* Neither call is made for a subscription that exists.
LEMMA CalledOnce ==
    ASSUME ControlInv, NEW r \in Subs
    PROVE  /\ ClientSetupDone(r) => app[<<r, Main>>] = "idle" /\ Setup \in Sent(toSub, r)
           /\ ClientAnnounce(r) =>
                 \E p \in Pubs : /\ p = Head(toSub[r]).pub /\ Head(toSub[r]) = Announce(p)
                                 /\ Announce(p) \in Sent(toSub, r) /\ app[<<r, p>>] = "idle"
<1>0. ChanTypeOK /\ SetupOnce /\ AnnounceOnce
      BY DEF ControlInv, TypeOK
<1>1. ASSUME ClientSetupDone(r) PROVE app[<<r, Main>>] = "idle" /\ Setup \in Sent(toSub, r)
      <2>1. Head(toSub[r]) = Setup
            BY <1>0, <1>1, HeadFacts DEF ClientSetupDone
      <2>2. Setup \in Sent(toSub, r)
            BY <1>1, <2>1, HandledOnce DEF ClientStep
      <2> QED BY <1>0, <2>2 DEF SetupOnce
<1>2. ASSUME ClientAnnounce(r)
      PROVE  \E p \in Pubs : /\ p = Head(toSub[r]).pub /\ Head(toSub[r]) = Announce(p)
                             /\ Announce(p) \in Sent(toSub, r) /\ app[<<r, p>>] = "idle"
      <2>1. PICK p \in Pubs : p = Head(toSub[r]).pub /\ Head(toSub[r]) = Announce(p)
            BY <1>0, <1>2, HeadFacts DEF ClientAnnounce
      <2>2. Announce(p) \in Sent(toSub, r)
            BY <1>2, <2>1, HandledOnce DEF ClientStep
      <2>3. app[<<r, p>>] = "idle"
            BY <1>0, <2>2 DEF AnnounceOnce
      <2> QED BY <2>1, <2>2, <2>3
<1> QED BY <1>1, <1>2

\* A subscription once made is not made again.
LEMMA MadeStays ==
    ASSUME ControlInv, [Next]_vars, NEW i \in Ids, app[i] \in {"adding", "done"}
    PROVE  app'[i] \in {"adding", "done"}
<1>1. \A r \in Subs : ClientSetupDone(r) => i # <<r, Main>>
      BY CalledOnce
<1>2. \A r \in Subs : ClientAnnounce(r) => i # <<r, Head(toSub[r]).pub>>
      BY CalledOnce
<1> QED BY <1>1, <1>2, AppStep

\* What is in hand stays so until it is registered.
LEMMA HeldStays ==
    ASSUME ControlInv, [Next]_vars, NEW r \in Subs, NEW i,
           \/ cur[r] # Nothing /\ cur[r].id = i
           \/ \E x \in subscribed[r] : x[1] = i
    PROVE  \/ cur'[r] # Nothing /\ cur'[r].id = i
           \/ \E x \in subscribed'[r] : x[1] = i
<1>0. RelayTypeOK /\ ProcTypeOK
      BY DEF ControlInv, TypeOK
<1>1. ASSUME NEW s \in Subs, SubscriberStep(s) PROVE subscribed[r] \subseteq subscribed'[r]
      BY <1>0, <1>1 DEF SubscriberStep, SetRemoteRole, SendServerSetup, HandleSubscribe, FoundStream,
         MissedStream, SendSubscribe, WriteSubscribe, AddSubscriber, AddStream, relayVars, RelayTypeOK
<1>2. ASSUME NEW s \in Subs, SubscriberStep(s), cur[r] # Nothing, cur[r].id = i
      PROVE  \/ cur'[r] # Nothing /\ cur'[r].id = i
             \/ \E x \in subscribed'[r] : x[1] = i
      <2>1. CASE s # r
            <3>1. cur'[r] = cur[r]
                  BY <1>0, <1>2, <2>1, InHandStep DEF ProcTypeOK
            <3> QED BY <1>2, <3>1
      <2>2. CASE s = r
            <3>1. ~HandleSubscribe(r)
                  BY <1>2, HandFacts DEF HandleSubscribe
            <3>2. CASE AddStream(r)
                  <4>1. <<cur[r].id, cur[r].rs>> \in subscribed'[r]
                        BY <1>0, <3>2 DEF AddStream, RelayTypeOK
                  <4> QED BY <1>2, <4>1
            <3>3. CASE ~AddStream(r)
                  <4>1. cur'[r] = cur[r] \/ (cur'[r] # Nothing /\ cur'[r].id = cur[r].id)
                        BY <1>2, <2>2, <3>1, <3>3, InHandStep
                  <4> QED BY <1>2, <4>1
            <3> QED BY <3>2, <3>3
      <2> QED BY <2>1, <2>2
<1>3. ASSUME UNCHANGED <<hs, cur, incoming, subscribed, asked>>
      PROVE  \/ cur'[r] # Nothing /\ cur'[r].id = i
             \/ \E x \in subscribed'[r] : x[1] = i
      BY <1>3
<1> QED BY <1>1, <1>2, <1>3, HandFrame

LEMMA HeardStep ==
    ASSUME ControlInv, [Next]_vars
    PROVE  HeardInv'
<1> SUFFICES ASSUME NEW r \in Subs, NEW i \in Ids, Heard(r, i)' PROVE Made(r, i)'
    BY DEF HeardInv
<1>0. RelayTypeOK /\ ProcTypeOK /\ ChanTypeOK /\ EndTypeOK /\ HeardInv
      BY DEF ControlInv, TypeOK
<1>1. ASSUME Heard(r, i) PROVE Made(r, i)'
      <2>1. Made(r, i)
            BY <1>0, <1>1 DEF HeardInv
      <2> QED BY <2>1, MadeStays DEF Made
<1>2. ASSUME Subscribe(i) \in Sent(fromSub', r) PROVE Heard(r, i) \/ Made(r, i)'
      <2>1. ASSUME NEW j \in Ids, ClientSubscribe(j), r = j[1], Subscribe(i) = Subscribe(j)
            PROVE  Made(r, i)'
            <3>1. i = j
                  BY <2>1, MessageFacts
            <3>2. app'[j] = "adding"
                  BY <1>0, <2>1 DEF ClientSubscribe, EndTypeOK
            <3> QED BY <2>1, <3>1, <3>2 DEF Made
      <2> QED BY <1>2, <2>1, FromSubStep DEF Heard
<1>3. ASSUME cur'[r] # Nothing, cur'[r].id = i PROVE Heard(r, i)
      <2>1. ASSUME NEW s \in Subs, SubscriberStep(s), s # r PROVE cur'[r] = cur[r]
            BY <1>0, <2>1, InHandStep DEF ProcTypeOK
      <2>2. ASSUME SubscriberStep(r) PROVE Heard(r, i)
            <3>1. CASE cur'[r] = cur[r] \/ (cur[r] # Nothing /\ cur'[r].id = cur[r].id)
                  BY <1>3, <3>1 DEF Heard
            <3>2. CASE Has(fromSub, r, "SUBSCRIBE") /\ cur'[r].id = Head(fromSub[r]).id
                  <4>1. fromSub[r] # << >> /\ Head(fromSub[r]) = Subscribe(i)
                        BY <1>0, <1>3, <3>2, HeadFacts
                  <4>2. fromSub \in [Subs -> Seq(FromSubs)]
                        BY <1>0 DEF ChanTypeOK
                  <4>3. Subscribe(i) \in Sent(fromSub, r)
                        BY <4>1, <4>2, ReceiveFacts
                  <4> QED BY <4>3 DEF Heard
            <3> QED BY <1>3, <2>2, <3>1, <3>2, InHandStep
      <2>3. ASSUME cur'[r] = cur[r] PROVE Heard(r, i)
            BY <1>3, <2>3 DEF Heard
      <2>4. ASSUME UNCHANGED <<hs, cur, incoming, subscribed, asked>> PROVE cur'[r] = cur[r]
            BY <2>4
      <2> QED BY <2>1, <2>2, <2>3, <2>4, HandFrame
<1>4. ASSUME NEW x \in subscribed'[r], x[1] = i PROVE Heard(r, i)
      <2>1. CASE x \in subscribed[r]
            BY <1>4, <2>1 DEF Heard
      <2>2. CASE x \notin subscribed[r]
            <3>1. AddStream(r)
                  <4>1. ASSUME NEW s \in Subs, SubscriberStep(s) PROVE AddStream(r)
                        BY <1>0, <1>4, <2>2, <4>1 DEF SubscriberStep, SetRemoteRole, SendServerSetup,
                           HandleSubscribe, FoundStream, MissedStream, SendSubscribe, WriteSubscribe,
                           AddSubscriber, AddStream, relayVars, RelayTypeOK
                  <4> QED BY <1>4, <2>2, <4>1, HandFrame
            <3>2. x = <<cur[r].id, cur[r].rs>>
                  BY <1>0, <1>4, <2>2, <3>1 DEF AddStream, RelayTypeOK
            <3>3. cur[r] # Nothing
                  BY <3>1, HandFacts DEF AddStream
            <3> QED BY <1>4, <3>2, <3>3 DEF Heard
      <2> QED BY <2>1, <2>2
<1> QED BY <1>1, <1>2, <1>3, <1>4 DEF Heard

-----------------------------------------------------------------------------
\* SERVER_SETUP comes once.
LEMMA SetupOnceStep ==
    ASSUME ControlInv, [Next]_vars
    PROVE  SetupOnce'
<1> SUFFICES ASSUME NEW r \in Subs
             PROVE  /\ Once(toSub', r, Setup)
                    /\ hs'[r] \in {"new", "setup"} => Setup \notin Sent(toSub', r)
                    /\ hs'[r] \in {"new", "setup"} \/ Setup \in Sent(toSub', r)
                          => app'[<<r, Main>>] = "idle"
    BY DEF SetupOnce
<1>0. ProcTypeOK /\ ChanTypeOK
      BY DEF ControlInv, TypeOK
<1>1. /\ Once(toSub, r, Setup)
      /\ hs[r] \in {"new", "setup"} => Setup \notin Sent(toSub, r)
      /\ hs[r] \in {"new", "setup"} \/ Setup \in Sent(toSub, r) => app[<<r, Main>>] = "idle"
      BY DEF ControlInv, SetupOnce
<1>2. <<r, Setup>> \notin writes
      BY <1>0 DEF ProcTypeOK
<1>3. SendServerSetup(r) => hs[r] = "setup" /\ hs'[r] = "idle"
      BY <1>0 DEF SendServerSetup, ProcTypeOK
<1>4. hs'[r] \in {"new", "setup"} => hs[r] \in {"new", "setup"}
      <2>1. ASSUME NEW s \in Subs, SubscriberStep(s), hs'[r] \in {"new", "setup"}
            PROVE  hs[r] \in {"new", "setup"}
            BY <1>0, <2>1 DEF SubscriberStep, SetRemoteRole, SendServerSetup, HandleSubscribe,
               FoundStream, MissedStream, SendSubscribe, WriteSubscribe, AddSubscriber, AddStream,
               ProcTypeOK
      <2> QED BY <2>1, HandFrame
<1>5. \A i : Setup # SubscribeOk(i)
      BY MessageFacts
<1>6. Once(toSub', r, Setup)
      BY <1>1, <1>2, <1>3, <1>5, ToSubStep
<1>7. Setup \in Sent(toSub', r) => Setup \in Sent(toSub, r) \/ SendServerSetup(r)
      BY <1>2, <1>5, ToSubStep
<1>8. hs'[r] \in {"new", "setup"} => Setup \notin Sent(toSub', r)
      BY <1>1, <1>3, <1>4, <1>7
<1>9. ASSUME hs'[r] \in {"new", "setup"} \/ Setup \in Sent(toSub', r)
      PROVE  app'[<<r, Main>>] = "idle"
      <2>1. app[<<r, Main>>] = "idle"
            BY <1>1, <1>3, <1>4, <1>7, <1>9
      <2>2. <<r, Main>> \in Ids
            BY DEF Ids
      <2>3. ASSUME NEW s \in Subs, ClientSetupDone(s), <<r, Main>> = <<s, Main>> PROVE FALSE
            <3>1. s = r
                  BY <2>3
            <3>2. Head(toSub[r]) = Setup
                  BY <1>0, <2>3, <3>1, HeadFacts DEF ClientSetupDone
            <3>3. Setup \in Sent(toSub, r) /\ Setup \notin Sent(toSub', r)
                  BY <1>1, <2>3, <3>1, <3>2, HandledOnce DEF ClientStep
            <3> QED BY <1>1, <1>4, <1>9, <3>3
      <2>4. ASSUME NEW s \in Subs, ClientAnnounce(s), <<r, Main>> = <<s, Head(toSub[s]).pub>>
            PROVE  FALSE
            <3>1. Main \in Pubs
                  BY <2>4, CalledOnce
            <3> QED BY <3>1, ControlAssumption
      <2>5. ~ClientSubscribe(<<r, Main>>)
            BY <2>1 DEF ClientSubscribe
      <2> QED BY <2>1, <2>2, <2>3, <2>4, <2>5, AppStep
<1> QED BY <1>6, <1>8, <1>9

-----------------------------------------------------------------------------
\* A publisher's ANNOUNCE comes once.

\* The progress of SendAnnounce and of HandleAnnounce.
LEMMA AnnounceStep ==
    ASSUME ControlInv, [Next]_vars, NEW p \in Pubs
    PROVE  /\ ph'[p] = "new" => ph[p] = "new"
           /\ SendAnnounce(p) => ph[p] = "new" /\ ph'[p] # "new" /\ ah'[p] = ah[p]
           /\ ah'[p] # "idle" => ah[p] # "idle" \/ HandleAnnounce(p)
           /\ ah'[p] \in {"add", "tell"} => ah[p] \in {"add", "tell"} \/ HandleAnnounce(p)
           /\ addPublisher(p) /\ ah[p] = "tell" =>
                 ah'[p] = "ok" /\ UNCHANGED <<ph, fromPub, toSub>>
<1> USE DEF procVars, endVars, chanVars
<1>0. ProcTypeOK /\ EndTypeOK
      BY DEF ControlInv, TypeOK
<1>1. ph'[p] = "new" => ph[p] = "new"
      <2>1. ASSUME NEW r \in Subs, SubscriberStep(r) \/ ClientStep(r) PROVE UNCHANGED ph
            BY <2>1 DEF SubscriberStep, SetRemoteRole, SendServerSetup, HandleSubscribe, FoundStream,
               MissedStream, SendSubscribe, WriteSubscribe, AddSubscriber, AddStream,
               ClientStep, ClientSetupDone, ClientAnnounce, ClientSubscribeOk
      <2>2. ASSUME NEW x \in Pubs, PublisherStep(x) \/ PubDies(x) PROVE UNCHANGED ph
            BY <2>2 DEF PublisherStep, HandleAnnounce, addPublisher, SendAnnounceOk,
               HandleSubscribeOk, ForwardSubscribeOk, PubDies
      <2>3. ASSUME NEW x \in Pubs, PubStep(x) \/ SendAnnounce(x) PROVE ph'[p] = "new" => ph[p] = "new"
            BY <1>0, <2>3 DEF PubStep, AddNamespace, PubHandleSubscribe, PubHandleAnnounceOk, Accept,
               SendAnnounce, EndTypeOK
      <2>4. ASSUME \/ \E i \in Ids : ClientSubscribe(i) \/ ClientAddStream(i)
                   \/ \E w \in writes : WriteControlMessage(w)
                   \/ UNCHANGED vars
            PROVE  UNCHANGED ph
            BY <2>4 DEF ClientSubscribe, ClientAddStream, WriteControlMessage, vars
      <2> QED BY <2>1, <2>2, <2>3, <2>4, StepCases
<1>2. SendAnnounce(p) => ph[p] = "new" /\ ph'[p] # "new" /\ ah'[p] = ah[p]
      BY <1>0 DEF SendAnnounce, EndTypeOK
<1>3. /\ ah'[p] # "idle" => ah[p] # "idle" \/ HandleAnnounce(p)
      /\ ah'[p] \in {"add", "tell"} => ah[p] \in {"add", "tell"} \/ HandleAnnounce(p)
      <2>1. ASSUME NEW r \in Subs, SubscriberStep(r) \/ ClientStep(r) PROVE UNCHANGED ah
            BY <2>1 DEF SubscriberStep, SetRemoteRole, SendServerSetup, HandleSubscribe, FoundStream,
               MissedStream, SendSubscribe, WriteSubscribe, AddSubscriber, AddStream,
               ClientStep, ClientSetupDone, ClientAnnounce, ClientSubscribeOk
      <2>2. ASSUME NEW x \in Pubs, PubStep(x) \/ SendAnnounce(x) \/ PubDies(x) PROVE UNCHANGED ah
            BY <2>2 DEF PubStep, AddNamespace, PubHandleSubscribe, PubHandleAnnounceOk, Accept,
               SendAnnounce, PubDies
      <2>3. ASSUME NEW x \in Pubs, PublisherStep(x)
            PROVE  /\ ah'[p] # "idle" => ah[p] # "idle" \/ HandleAnnounce(p)
                   /\ ah'[p] \in {"add", "tell"} => ah[p] \in {"add", "tell"} \/ HandleAnnounce(p)
            <3>1. CASE HandleAnnounce(x)
                  BY <1>0, <3>1 DEF HandleAnnounce, ProcTypeOK
            <3>2. CASE addPublisher(x) \/ SendAnnounceOk(x) \/ HandleSubscribeOk(x)
                       \/ ForwardSubscribeOk(x)
                  BY <1>0, <3>2 DEF addPublisher, SendAnnounceOk, HandleSubscribeOk,
                     ForwardSubscribeOk, ProcTypeOK
            <3> QED BY <2>3, <3>1, <3>2 DEF PublisherStep
      <2>4. ASSUME \/ \E i \in Ids : ClientSubscribe(i) \/ ClientAddStream(i)
                   \/ \E w \in writes : WriteControlMessage(w)
                   \/ UNCHANGED vars
            PROVE  UNCHANGED ah
            BY <2>4 DEF ClientSubscribe, ClientAddStream, WriteControlMessage, vars
      <2> QED BY <2>1, <2>2, <2>3, <2>4, StepCases
<1>4. addPublisher(p) /\ ah[p] = "tell" => ah'[p] = "ok" /\ UNCHANGED <<ph, fromPub, toSub>>
      BY <1>0 DEF addPublisher, ProcTypeOK
<1> QED BY <1>1, <1>2, <1>3, <1>4

\* The way of p's ANNOUNCE to the relay.
LEMMA AnnounceUp ==
    ASSUME ControlInv, [Next]_vars, NEW p \in Pubs
    PROVE  /\ \A x \in Pubs : Announce(x) \in Sent(fromPub', p) => x = p
           /\ Once(fromPub', p, Announce(p))
           /\ ph'[p] = "new" => Announce(p) \notin Sent(fromPub', p)
           /\ ah'[p] # "idle" => ph'[p] # "new" /\ Announce(p) \notin Sent(fromPub', p)
           /\ Unannounced(p)' => Unannounced(p)
<1>0. ChanTypeOK
      BY DEF ControlInv, TypeOK
<1>1. /\ \A x \in Pubs : Announce(x) \in Sent(fromPub, p) => x = p
      /\ Once(fromPub, p, Announce(p))
      /\ ph[p] = "new" => Announce(p) \notin Sent(fromPub, p)
      /\ ah[p] # "idle" => ph[p] # "new" /\ Announce(p) \notin Sent(fromPub, p)
      BY DEF ControlInv, AnnounceOnce
<1>2. \A x \in Pubs : \A i : Announce(x) # SubscribeOk(i)
      BY MessageFacts
<1>3. \A x \in Pubs : Announce(x) \in Sent(fromPub', p) =>
                         Announce(x) \in Sent(fromPub, p) \/ (SendAnnounce(p) /\ x = p)
      BY <1>2, FromPubStep, MessageFacts
<1>4. HandleAnnounce(p) => Announce(p) \in Sent(fromPub, p) /\ Announce(p) \notin Sent(fromPub', p)
      <2> SUFFICES ASSUME HandleAnnounce(p)
                   PROVE  Announce(p) \in Sent(fromPub, p) /\ Announce(p) \notin Sent(fromPub', p)
          OBVIOUS
      <2>1. PICK x \in Pubs : fromPub[p] # << >> /\ Head(fromPub[p]) = Announce(x)
            BY <1>0, HeadFacts DEF HandleAnnounce
      <2>2. fromPub' = Receive(fromPub, p) /\ fromPub \in [Pubs -> Seq(FromPubs)]
            BY <1>0 DEF HandleAnnounce, ChanTypeOK
      <2>3. Announce(x) \in Sent(fromPub, p)
            BY <2>1, <2>2, ReceiveFacts
      <2>4. x = p
            BY <1>1, <2>3
      <2> QED BY <1>1, <2>1, <2>2, <2>3, <2>4, ReceiveFacts
<1>5. Once(fromPub', p, Announce(p))
      BY <1>1, <1>2, FromPubStep, AnnounceStep
<1>6. ph'[p] = "new" => Announce(p) \notin Sent(fromPub', p)
      BY <1>1, <1>3, AnnounceStep
<1>7. ASSUME ah'[p] # "idle" PROVE ph'[p] # "new" /\ Announce(p) \notin Sent(fromPub', p)
      <2>1. CASE ah[p] # "idle"
            BY <1>1, <1>3, <2>1, AnnounceStep
      <2>2. CASE HandleAnnounce(p)
            BY <1>1, <1>4, <2>2, AnnounceStep
      <2> QED BY <1>7, <2>1, <2>2, AnnounceStep
<1>8. ASSUME Unannounced(p)' PROVE Unannounced(p)
      BY <1>3, <1>4, <1>8, AnnounceStep DEF Unannounced
<1> QED BY <1>1, <1>3, <1>5, <1>6, <1>7, <1>8

\* Its way from there to subscriber r.
LEMMA AnnounceDown ==
    ASSUME ControlInv, [Next]_vars, NEW p \in Pubs, NEW r \in Subs
    PROVE  /\ Once(toSub', r, Announce(p))
           /\ <<r, Announce(p)>> \in writes' => Announce(p) \notin Sent(toSub', r)
           /\ Unannounced(p)' => <<r, Announce(p)>> \notin writes'
                                /\ Announce(p) \notin Sent(toSub', r)
           /\ \/ Unannounced(p)'
              \/ <<r, Announce(p)>> \in writes' \/ Announce(p) \in Sent(toSub', r)
              => app'[<<r, p>>] = "idle"
<1> DEFINE a == Announce(p)
           w == <<r, a>>
           Telling == addPublisher(p) /\ ah[p] = "tell"
<1>1. /\ Once(toSub, r, a)
      /\ w \in writes => a \notin Sent(toSub, r)
      /\ Unannounced(p) => w \notin writes /\ a \notin Sent(toSub, r)
      /\ Unannounced(p) \/ w \in writes \/ a \in Sent(toSub, r) => app[<<r, p>>] = "idle"
      BY DEF ControlInv, AnnounceOnce
<1>2. /\ \A i : a # SubscribeOk(i)
      /\ a # Setup
      /\ \A x : a = Announce(x) => x = p
      BY MessageFacts
<1>3. SendServerSetup(r) => Setup \notin Sent(toSub, r)
      BY DEF ControlInv, SetupOnce, SendServerSetup
<1>4. Once(toSub', r, a)
      BY <1>1, <1>2, <1>3, ToSubStep
<1>5. a \in Sent(toSub', r) =>
         a \in Sent(toSub, r) \/ (w \in writes /\ writes' = writes \ {w})
      BY <1>2, ToSubStep
<1>6. w \in writes' => w \in writes \/ Telling
      BY <1>2, WritesStep
<1>7. Telling => Unannounced(p) /\ ~Unannounced(p)' /\ toSub' = toSub
      <2> SUFFICES ASSUME Telling PROVE Unannounced(p) /\ ~Unannounced(p)' /\ toSub' = toSub
          OBVIOUS
      <2>1. ah'[p] = "ok" /\ ph' = ph /\ fromPub' = fromPub /\ toSub' = toSub
            BY AnnounceStep
      <2>2. ph[p] # "new" /\ Announce(p) \notin Sent(fromPub, p)
            BY DEF ControlInv, AnnounceOnce
      <2> QED BY <2>1, <2>2 DEF Unannounced
<1> HIDE DEF Telling, w, a
<1>8. w \in writes' => a \notin Sent(toSub', r)
      BY <1>1, <1>5, <1>6, <1>7
<1>9. Unannounced(p)' => Unannounced(p)
      BY AnnounceUp
<1>10. Unannounced(p)' => w \notin writes' /\ a \notin Sent(toSub', r)
      BY <1>1, <1>5, <1>6, <1>7, <1>9
<1>11. ASSUME Unannounced(p)' \/ w \in writes' \/ a \in Sent(toSub', r)
       PROVE  app'[<<r, p>>] = "idle"
      <2>1. app[<<r, p>>] = "idle"
            BY <1>1, <1>5, <1>6, <1>7, <1>9, <1>11
      <2>2. <<r, p>> \in Ids
            BY DEF Ids
      <2>3. ASSUME NEW s \in Subs, ClientSetupDone(s), <<r, p>> = <<s, Main>> PROVE FALSE
            <3>1. p = Main
                  BY <2>3
            <3> QED BY <3>1, ControlAssumption
      <2>4. ASSUME NEW s \in Subs, ClientAnnounce(s), <<r, p>> = <<s, Head(toSub[s]).pub>>
            PROVE  FALSE
            <3>1. s = r /\ p = Head(toSub[r]).pub
                  BY <2>4
            <3>2. ClientAnnounce(r)
                  BY <2>4, <3>1
            <3>3. Head(toSub[r]) = a /\ a \in Sent(toSub, r)
                  BY <3>1, <3>2, CalledOnce DEF a
            <3>4. a \notin Sent(toSub', r) /\ writes' = writes
                  BY <1>1, <3>2, <3>3, HandledOnce DEF ClientStep
            <3> QED BY <1>1, <1>9, <1>11, <3>3, <3>4
      <2>5. ~ClientSubscribe(<<r, p>>)
            BY <2>1 DEF ClientSubscribe
      <2> QED BY <2>1, <2>2, <2>3, <2>4, <2>5, AppStep
<1> QED BY <1>4, <1>8, <1>10, <1>11 DEF w, a

LEMMA AnnounceOnceStep ==
    ASSUME ControlInv, [Next]_vars
    PROVE  AnnounceOnce'
    BY AnnounceUp, AnnounceDown DEF AnnounceOnce

-----------------------------------------------------------------------------
\* The two properties.

LEMMA UpstreamStep ==
    ASSUME ControlInv, [Next]_vars
    PROVE  UpstreamIsKnown'
<1> SUFFICES ASSUME NEW p \in Pubs, NEW i \in Ids,
                    \/ i \in asked'[p] \/ i \in accepting'[p]
                    \/ Subscribe(i) \in Sent(toPub', p) \/ SubscribeOk(i) \in Sent(fromPub', p)
             PROVE  i \in incoming'[p]
    BY DEF UpstreamIsKnown
<1>0. ProcTypeOK /\ ChanTypeOK /\ EndTypeOK
      BY DEF ControlInv, TypeOK
<1>1. ASSUME \/ i \in asked[p] \/ i \in accepting[p]
             \/ Subscribe(i) \in Sent(toPub, p) \/ SubscribeOk(i) \in Sent(fromPub, p)
      PROVE  i \in incoming'[p]
      BY <1>1, IncomingGrows DEF ControlInv, UpstreamIsKnown
<1>2. ASSUME NEW r \in Subs, WriteSubscribe(r), p = cur[r].pub, i = cur[r].id
      PROVE  i \in incoming'[p]
      BY <1>2, HandFacts, IncomingGrows DEF WriteSubscribe
<1>3. ASSUME i \in asked'[p], i \notin asked[p] PROVE i \in incoming'[p]
      <2>1. PICK r \in Subs : SubscriberStep(r)
            BY <1>3, HandFrame
      <2>2. WriteSubscribe(r)
            BY <1>3, <2>1 DEF SubscriberStep, SetRemoteRole, SendServerSetup, HandleSubscribe,
               FoundStream, MissedStream, SendSubscribe, AddSubscriber, AddStream
      <2>3. p = cur[r].pub /\ i = cur[r].id
            BY <1>0, <1>3, <2>2 DEF WriteSubscribe, ProcTypeOK
      <2> QED BY <1>2, <2>2, <2>3
<1>4. ASSUME i \in accepting'[p], i \notin accepting[p] PROVE Subscribe(i) \in Sent(toPub, p)
      <2>1. PubHandleSubscribe(p)
            <3> USE DEF endVars
            <3>1. ASSUME NEW x \in Pubs, PubStep(x) PROVE PubHandleSubscribe(p)
                  BY <1>0, <1>4, <3>1 DEF PubStep, AddNamespace, PubHandleSubscribe,
                     PubHandleAnnounceOk, Accept, EndTypeOK
            <3>2. ASSUME NEW r \in Subs, SubscriberStep(r) \/ ClientStep(r) PROVE UNCHANGED accepting
                  BY <3>2 DEF SubscriberStep, SetRemoteRole, SendServerSetup, HandleSubscribe,
                     FoundStream, MissedStream, SendSubscribe, WriteSubscribe, AddSubscriber,
                     AddStream, ClientStep, ClientSetupDone, ClientAnnounce, ClientSubscribeOk
            <3>3. ASSUME NEW x \in Pubs, PublisherStep(x) \/ SendAnnounce(x) \/ PubDies(x)
                  PROVE  UNCHANGED accepting
                  BY <3>3 DEF PublisherStep, HandleAnnounce, addPublisher, SendAnnounceOk,
                     HandleSubscribeOk, ForwardSubscribeOk, SendAnnounce, PubDies
            <3>4. ASSUME \/ \E j \in Ids : ClientSubscribe(j) \/ ClientAddStream(j)
                         \/ \E w \in writes : WriteControlMessage(w)
                         \/ UNCHANGED vars
                  PROVE  UNCHANGED accepting
                  BY <3>4 DEF ClientSubscribe, ClientAddStream, WriteControlMessage, vars
            <3> QED BY <1>4, <3>1, <3>2, <3>3, <3>4, StepCases
      <2>2. i = Head(toPub[p]).id
            BY <1>0, <1>4, <2>1 DEF PubHandleSubscribe, EndTypeOK
      <2>3. toPub[p] # << >> /\ Head(toPub[p]) = Subscribe(i)
            BY <1>0, <2>1, <2>2, HeadFacts DEF PubHandleSubscribe
      <2>4. toPub \in [Pubs -> Seq(ToPubs)]
            BY <1>0 DEF ChanTypeOK
      <2> QED BY <2>3, <2>4, ReceiveFacts
<1>5. ASSUME Subscribe(i) \in Sent(toPub', p)
      PROVE  \/ Subscribe(i) \in Sent(toPub, p)
             \/ \E r \in Subs : WriteSubscribe(r) /\ p = cur[r].pub /\ i = cur[r].id
      BY <1>5, ToPubStep, MessageFacts
<1>6. ASSUME SubscribeOk(i) \in Sent(fromPub', p)
      PROVE  SubscribeOk(i) \in Sent(fromPub, p) \/ i \in accepting[p]
      BY <1>6, FromPubStep, MessageFacts
<1> QED BY <1>1, <1>2, <1>3, <1>4, <1>5, <1>6

LEMMA OkStep ==
    ASSUME ControlInv, [Next]_vars
    PROVE  OkAnswersOwnSubscribe'
<1> DEFINE Held(r, i) == \/ cur[r] # Nothing /\ cur[r].id = i
                         \/ \E e \in subscribed[r] : e[1] = i
<1> SUFFICES ASSUME NEW r \in Subs, NEW i \in Ids,
                    <<r, SubscribeOk(i)>> \in writes' \/ SubscribeOk(i) \in Sent(toSub', r)
             PROVE  /\ i[1] = r
                    /\ app'[i] \in {"adding", "done"}
                    /\ \/ cur'[r] # Nothing /\ cur'[r].id = i
                       \/ \E e \in subscribed'[r] : e[1] = i
    BY DEF OkAnswersOwnSubscribe
<1>1. Held(r, i)
      <2>1. CASE <<r, SubscribeOk(i)>> \in writes \/ SubscribeOk(i) \in Sent(toSub, r)
            BY <2>1 DEF ControlInv, OkAnswersOwnSubscribe
      <2>2. CASE <<r, SubscribeOk(i)>> \in writes'
            <3>1. ASSUME FoundStream(r), SubscribeOk(i) = SubscribeOk(cur[r].id) PROVE Held(r, i)
                  <4>1. i = cur[r].id /\ cur[r] # Nothing
                        BY <3>1, MessageFacts, HandFacts DEF FoundStream
                  <4> QED BY <4>1
            <3>2. \A p \in Pubs : SubscribeOk(i) # Announce(p)
                  BY MessageFacts
            <3> QED BY <2>1, <2>2, <3>1, <3>2, WritesStep
      <2>3. CASE SubscribeOk(i) \in Sent(toSub', r)
            <3>1. ASSUME NEW x \in subscribed[r], SubscribeOk(i) = SubscribeOk(x[1]) PROVE Held(r, i)
                  <4>1. i = x[1]
                        BY <3>1, MessageFacts
                  <4> QED BY <4>1
            <3>2. SubscribeOk(i) # Setup
                  BY MessageFacts
            <3> QED BY <2>1, <2>3, <3>1, <3>2, ToSubStep
      <2> QED BY <2>2, <2>3
<1>2. Made(r, i)
      BY <1>1 DEF ControlInv, HeardInv, Heard
<1>3. i[1] = r /\ app'[i] \in {"adding", "done"}
      BY <1>2, MadeStays DEF Made
<1> QED BY <1>1, <1>3, HeldStays

-----------------------------------------------------------------------------
\* Everything is idle and empty at the start.
LEMMA InitInv == Init => ControlInv
<1> SUFFICES ASSUME Init PROVE ControlInv
    OBVIOUS
<1>1. /\ \A r \in Subs : \A e : e \notin Sent(toSub, r) /\ e \notin Sent(fromSub, r)
      /\ \A p \in Pubs : \A e : e \notin Sent(toPub, p) /\ e \notin Sent(fromPub, p)
      BY DEF Init, Sent
<1>2. /\ \A r \in Subs : \A e : Once(toSub, r, e)
      /\ \A p \in Pubs : \A e : Once(fromPub, p, e)
      BY DEF Init, Once
<1>3. RelayTypeOK
      BY DEF Init, RelayTypeOK
<1>4. ProcTypeOK
      BY DEF Init, ProcTypeOK
<1>5. ChanTypeOK
      BY DEF Init, ChanTypeOK
<1>6. EndTypeOK
      BY DEF Init, EndTypeOK
<1>7. HandInv
      BY DEF Init, HandInv
<1>8. HeardInv
      BY <1>1 DEF Init, HeardInv, Heard
<1>9. SetupOnce
      <2>1. \A r \in Subs : <<r, Main>> \in Ids
            BY DEF Ids
      <2> QED BY <1>1, <1>2, <2>1 DEF Init, SetupOnce
<1>10. AnnounceOnce
      <2>1. \A r \in Subs, p \in Pubs : <<r, p>> \in Ids
            BY DEF Ids
      <2> QED BY <1>1, <1>2, <2>1 DEF Init, AnnounceOnce
<1>11. UpstreamIsKnown
      BY <1>1 DEF Init, UpstreamIsKnown
<1>12. OkAnswersOwnSubscribe
      BY <1>1 DEF Init, OkAnswersOwnSubscribe
<1> QED BY <1>3, <1>4, <1>5, <1>6, <1>7, <1>8, <1>9, <1>10, <1>11, <1>12 DEF ControlInv, TypeOK

LEMMA NextInv == ControlInv /\ [Next]_vars => ControlInv'
<1> SUFFICES ASSUME ControlInv, [Next]_vars PROVE ControlInv'
    OBVIOUS
<1>1. TypeOK'
      BY RelayTypeStep, ProcTypeStep, ChanTypeStep, EndTypeStep DEF TypeOK
<1>2. HandInv' /\ HeardInv' /\ SetupOnce' /\ AnnounceOnce'
      BY HandStep, HeardStep, SetupOnceStep, AnnounceOnceStep
<1>3. UpstreamIsKnown' /\ OkAnswersOwnSubscribe'
      BY UpstreamStep, OkStep
<1> QED BY <1>1, <1>2, <1>3 DEF ControlInv

\* The inductive invariant of SessionManager and the handlers holds throughout: what a
\* handler has in hand fits its progress, the relay knows only subscriptions that were
\* made, and SERVER_SETUP and every publisher's ANNOUNCE reach a subscriber once.
THEOREM Invariance == Spec => []ControlInv
    BY InitInv, NextInv, PTL DEF Spec

\* SendSubscribe adds the RelayStream to IncomingStreams before anything at all could
\* come back for it: whatever the publisher is asked for, has in hand or answers is
\* known to the relay.
THEOREM UpstreamKnown == Spec => []UpstreamIsKnown
<1>1. ControlInv => UpstreamIsKnown
      BY DEF ControlInv
<1> QED BY <1>1, Invariance, PTL

\* SendSubscribeOk and HandleSubscribe never answer a session with another session's
\* SubscribeID, nor one whose SUBSCRIBE was not made or has been dropped.
THEOREM NoCrossTalk == Spec => []OkAnswersOwnSubscribe
<1>1. ControlInv => OkAnswersOwnSubscribe
      BY DEF ControlInv
<1> QED BY <1>1, Invariance, PTL
=============================================================================
