---------------------------- MODULE StreamReader ----------------------------
(***************************************************************************)
(* One QUIC stream and the goroutine that reads it: ServeCS on a control   *)
(* stream, or, on a uni stream, ParseMOQTStream in DoHandle followed by    *)
(* the ReadObject loop. The peer sends messages, and may end the stream,   *)
(* or lose it, at any cell. There is no framing on a MOQT stream but the   *)
(* codecs themselves: where one of them reads a cell too few or too many,  *)
(* everything behind it is misread.                                        *)
(***************************************************************************)
EXTENDS Wire

CONSTANTS Messages,   \* what a peer sends on a control stream; Params as a sequence
          Headers,    \* stream headers
          Objects,    \* what follows a GROUP header
          TrackObjects, \* what follows a TRACK header
          MaxSent     \* bound: messages on a control stream, objects on another

\* What there is to send: a cell is a number, and a field that a message does not
\* carry (because of its filter, or because there is no content) is zero.
Param == [type : {ROLE_PARAM}, value : Nat] \cup [type : Nat \ {ROLE_PARAM}, value : Seq(Nat)]
ControlMessage ==
    [type : {CLIENT_SETUP}, SupportedVersions : Seq(Nat), Params : Seq(Param)]
    \cup [type : {SERVER_SETUP}, SelectedVersion : Nat, Params : Seq(Param)]
    \cup [type : {ANNOUNCE}, TrackNameSpace : Seq(Nat), Params : Seq(Param)]
    \cup [type : {ANNOUNCE_OK}, TrackNameSpace : Seq(Nat)]
    \cup [type : {SUBSCRIBE}, SubscribeID : Nat, TrackAlias : Nat, TrackNameSpace : Seq(Nat),
          TrackName : Seq(Nat), FilterType : Nat, StartGroup : Nat, StartObject : Nat,
          EndGroup : Nat, EndObject : Nat, Params : Seq(Param)]
    \cup [type : {SUBSCRIBE_OK}, SubscribeID : Nat, Expires : Nat, ContentExists : Nat,
          largestGroupId : Nat, largestObjectId : Nat]
    \cup [type : {UNSUBSCRIBE}, SubscriptionID : Nat]
    \cup [type : {SUBSCRIBE_DONE}, SubscribeID : Nat, StatusCode : Nat, ReasonPhrase : Seq(Nat),
          ContentExists : Nat, FinalGroup : Nat, FinalObject : Nat]
StreamHeader ==
    [type : {STREAM_HEADER_GROUP}, SubID : Nat, TrackAlias : Nat, GroupID : Nat, SendOrder : Nat]
    \cup [type : {STREAM_HEADER_TRACK}, SubID : Nat, TrackAlias : Nat, SendOrder : Nat]
Carried(m) ==
    /\ m.type = SUBSCRIBE =>
          /\ m.FilterType \notin {AbsoluteStart, AbsoluteRange} =>
                m.StartGroup = 0 /\ m.StartObject = 0
          /\ m.FilterType # AbsoluteRange => m.EndGroup = 0 /\ m.EndObject = 0
    /\ m.type = SUBSCRIBE_DONE /\ m.ContentExists # 1 => m.FinalGroup = 0 /\ m.FinalObject = 0

ASSUME SentAssumption ==
    /\ MaxSent \in Nat \ {0}
    /\ Messages \subseteq ControlMessage /\ \A m \in Messages : Carried(m)
    /\ Headers \subseteq StreamHeader
    /\ Objects \subseteq [ID : Nat, Payload : Seq(Nat)]
    /\ TrackObjects \subseteq [GroupID : Nat, ID : Nat, Payload : Seq(Nat)]

VARIABLES kind,   \* "control", "group" or "track"
          sent,   \* the messages sent
          wire,   \* cells that have been sent and not been read
          ended,  \* the stream has ended
          lost,   \* cells that were sent and will never arrive
          got,    \* the messages read, or the header and the objects appended
          done    \* the reading loop has been left

vars == <<kind, sent, wire, ended, lost, got, done>>

Init ==
    /\ kind \in {"control", "group", "track"}
    /\ sent = << >> /\ wire = << >> /\ got = << >>
    /\ ended = FALSE /\ lost = 0 /\ done = FALSE

\* What goes on the wire for m. This program never sends SUBSCRIBE_DONE; a peer
\* that does sends its type.
Bytes(m) ==
    IF "type" \notin DOMAIN m
    THEN IF "GroupID" \in DOMAIN m THEN TrackObjectBytes(m) ELSE ObjectBytes(m)
    ELSE CASE m.type \in {STREAM_HEADER_GROUP, STREAM_HEADER_TRACK} -> HeaderBytes(m, m.SubID)
           [] m.type = CLIENT_SETUP -> ClientSetupBytes(m)
           [] m.type = SERVER_SETUP -> ServerSetupBytes(m)
           [] m.type = ANNOUNCE -> AnnounceBytes(m)
           [] m.type = ANNOUNCE_OK -> AnnounceOkBytes(m)
           [] m.type = SUBSCRIBE -> SubscribeBytes(m)
           [] m.type = SUBSCRIBE_OK -> SubscribeOkBytes(m)
           [] m.type = UNSUBSCRIBE -> UnsubscribeBytes(m)
           [] m.type = SUBSCRIBE_DONE -> <<SUBSCRIBE_DONE>> \o SubscribeDoneBytes(m)

HeaderType(k) == IF k = "track" THEN STREAM_HEADER_TRACK ELSE STREAM_HEADER_GROUP

Send(m) ==
    /\ ~ended
    /\ Len(sent) < IF kind = "control" THEN MaxSent ELSE MaxSent + 1
    /\ sent' = Append(sent, m)
    /\ wire' = wire \o Bytes(m)
    /\ UNCHANGED <<kind, ended, lost, got, done>>

\* The stream ends: by a FIN, or because it is reset or its connection is lost.
End(n) ==
    /\ ~ended
    /\ ended' = TRUE
    /\ lost' = Len(wire) - n
    /\ wire' = SubSeq(wire, 1, n)
    /\ UNCHANGED <<kind, sent, got, done>>

\* A read that needs more than there is waits for it, unless the stream has ended.
\* What ServeCS has read goes to handleSetupMessage or handleControlMessage. (The
\* latter has no case for SUBSCRIBE_DONE and drops it.)
Handle(r) ==
    /\ ~done
    /\ r.short => ended
    /\ wire' = r.in
    /\ got' = IF r.end THEN got ELSE Append(got, r.msg)
    /\ UNCHANGED <<kind, sent, ended, lost>>

\* A turn of ServeCS.
ServeCS ==
    /\ kind = "control"
    /\ \E r \in {ParseMOQTMessage(wire)} : Handle(r) /\ done' = r.end

\* DoHandle reads the header, then the ReadObject of the stream it makes the objects.
ReadStream ==
    /\ kind # "control"
    /\ \E r \in {IF got = << >> THEN ParseMOQTStream(wire)
                 ELSE IF got[1].type = STREAM_HEADER_TRACK THEN TrackReadObject(wire)
                 ELSE ObjectParse(wire)} :
          Handle(r) /\ done' = r.end

Next ==
    \/ kind = "control" /\ \E m \in Messages : Send(m)
    \/ kind # "control" /\ sent = << >> /\ \E h \in Headers : h.type = HeaderType(kind) /\ Send(h)
    \/ kind = "group" /\ sent # << >> /\ \E o \in Objects : Send(o)
    \/ kind = "track" /\ sent # << >> /\ \E o \in TrackObjects : Send(o)
    \/ \E n \in 0 .. Len(wire) : End(n)
    \/ ServeCS
    \/ ReadStream
    \/ done /\ UNCHANGED vars

Spec == Init /\ [][Next]_vars

-----------------------------------------------------------------------------
\* All of the i-th message has arrived or will.
Whole(i) == Len(FlattenSeq([j \in 1 .. Len(sent) - i |-> Bytes(sent[i + j])])) >= lost

\* A parameter this code does not know is followed by others, which Parse leaves unread.
Unknown(p) == p.type \notin {ROLE_PARAM, ROLE_PATH}
Misframes(m) ==
    "Params" \in DOMAIN m /\ \E i \in 1 .. Len(m.Params) - 1 : Unknown(m.Params[i])

\* The parameters of the types that are known, of each type the last.
Kept(ps) ==
    {ps[i] : i \in {i \in DOMAIN ps :
                /\ ~Unknown(ps[i])
                /\ \A j \in DOMAIN ps : j > i => ps[j].type # ps[i].type}}

\* g is what the code makes of m: every field as it was sent, but
\*   - of the parameters those that are known, and of each type the last; SUBSCRIBE
\*     and ANNOUNCE have none at all if one is unknown;
\*   - of the two ids of a SUBSCRIBE_OK, which Parse does not keep apart, the group's
\*     in the place of the object's.
Same(m, g) ==
    /\ DOMAIN g = DOMAIN m
    /\ \A f \in DOMAIN m \ {"Params", "largestGroupId", "largestObjectId"} : g[f] = m[f]
    /\ "Params" \in DOMAIN m =>
          g.Params = IF /\ m.type \in {SUBSCRIBE, ANNOUNCE}
                        /\ \E i \in DOMAIN m.Params : Unknown(m.Params[i])
                     THEN {} ELSE Kept(m.Params)
    /\ m.type = SUBSCRIBE_OK =>
          /\ g.largestGroupId = 0
          /\ g.largestObjectId = IF m.ContentExists = 1 THEN m.largestGroupId ELSE 0

\* ServeCS reads the messages that were sent, whole and in order, whatever they
\* follow on the stream: no Parse reads a cell more or less than the message has,
\* and each message has what Same says. Only the message in which the stream ends may
\* be passed on half filled in, because ParseMOQTMessage drops the error. Nothing is
\* said from a message on in which an unknown parameter is followed by another: there
\* the reader is out of step.
HandledAsSent ==
    kind = "control" =>
    \A i \in DOMAIN got :
        (\A j \in 1 .. i : j <= Len(sent) => ~Misframes(sent[j])) =>
            /\ i <= Len(sent)
            /\ IF Whole(i) THEN Same(sent[i], got[i]) ELSE i = Len(got)

\* The header and the objects of a stream are read as they were sent, on a TRACK stream
\* with the group of each. Only the object in which the stream ends may differ, in the
\* part of its payload that was cut off, because Object.Parse drops the error of
\* ReadFull.
ObjectsAsSent ==
    kind # "control" =>
    /\ Len(got) <= Len(sent)
    /\ \A i \in DOMAIN got :
          IF Whole(i) THEN got[i] = sent[i]
          ELSE /\ i = Len(got) /\ i > 1
               /\ got[i].ID = sent[i].ID /\ Len(got[i].Payload) = Len(sent[i].Payload)
               /\ kind = "track" => got[i].GroupID = sent[i].GroupID

\* A stream is read to its end: when the goroutine has left its loop, every message
\* that arrived whole was handled. (That it does leave it is the absence of deadlock:
\* each turn takes cells off a stream that has ended.)
ReadToTheEnd ==
    done => \/ \E i \in DOMAIN sent : kind = "control" /\ Misframes(sent[i])
            \/ \A i \in DOMAIN sent : Whole(i) => i <= Len(got)
=============================================================================
