-------------------------------- MODULE Wire --------------------------------
(***************************************************************************)
(* The codecs of moqt/wire: what GetBytes writes and what Parse makes of   *)
(* it. The wire is a sequence of cells, a cell being one varint or one     *)
(* byte (how a varint is split into bytes is quicvarint's business). A     *)
(* string is its length and that many cells.                               *)
(*                                                                         *)
(* A reader's state is [msg, in, err, short]: the message as far as it is  *)
(* filled in, the cells left, whether Parse has returned an error, and     *)
(* whether the reader ran into the end of the input, where the code blocks *)
(* until more arrives or the stream ends. After an error nothing more is   *)
(* read.                                                                   *)
(***************************************************************************)
EXTENDS Integers, Sequences, SequencesExt

SUBSCRIBE == 3
SUBSCRIBE_OK == 4
ANNOUNCE == 6
ANNOUNCE_OK == 7
UNSUBSCRIBE == 10
SUBSCRIBE_DONE == 11
CLIENT_SETUP == 64
SERVER_SETUP == 65
STREAM_HEADER_TRACK == 80
STREAM_HEADER_GROUP == 81
ROLE_PARAM == 0
ROLE_PATH == 1
LatestGroup == 1
AbsoluteStart == 3
AbsoluteRange == 4

-----------------------------------------------------------------------------
\* Fields

Reader(zero, in) == [msg |-> zero, in |-> in, err |-> FALSE, short |-> FALSE]
Fail(st) == [st EXCEPT !.err = TRUE]
RunsOut(st) == [st EXCEPT !.in = << >>, !.err = TRUE, !.short = TRUE]

\* quicvarint.Read or ReadByte into field f.
ReadInt(st, f) ==
    IF st.err THEN st
    ELSE IF st.in = << >> THEN RunsOut(st)
    ELSE [st EXCEPT !.msg = [@ EXCEPT ![f] = Head(st.in)], !.in = Tail(@)]

ReadInts(st, fields) ==
    LET F[i \in 0 .. Len(fields)] == IF i = 0 THEN st ELSE ReadInt(F[i - 1], fields[i])
    IN  F[Len(fields)]

\* ParseVarIntString into field f: a string that is cut short is an error.
ReadString(st, f) ==
    IF st.err THEN st
    ELSE IF st.in = << >> \/ Len(st.in) <= Head(st.in) THEN RunsOut(st)
    ELSE [st EXCEPT !.msg = [@ EXCEPT ![f] = SubSeq(st.in, 2, st.in[1] + 1)],
                    !.in = SubSeq(@, @[1] + 2, Len(@))]

\* A counted list: what was read before the end of the input is kept.
ReadList(st, f) ==
    IF ~st.err /\ st.in # << >> /\ Len(st.in) <= Head(st.in)
    THEN RunsOut([st EXCEPT !.msg = [@ EXCEPT ![f] = Tail(st.in)]])
    ELSE ReadString(st, f)

PutInts(m, fields) == [i \in DOMAIN fields |-> m[fields[i]]]
PutString(s) == <<Len(s)>> \o s

-----------------------------------------------------------------------------
\* Parameters: [type, value], value a string for all types but ROLE. Params of
\* a message that was parsed is the map of those read, as a set with one element
\* of each type.

\* params[p.type] = p
SetParam(params, p) == {q \in params : q.type # p.type} \cup {p}

\* IntParameter.GetBytes (a role's varint is one byte) and StringParameter.GetBytes
ParamBytes(p) == IF p.type = ROLE_PARAM THEN <<p.type, 1, p.value>>
                                        ELSE <<p.type>> \o PutString(p.value)

\* Parameters.GetBytes; `range` over the map gives any order, here the sequence's.
ParamsBytes(ps) == <<Len(ps)>> \o FlattenSeq([i \in DOMAIN ps |-> ParamBytes(ps[i])])

\* One turn of Parameters.Parse. IntParameter.Parse ignores the length it reads.
\* An unknown parameter is discarded, and with it the rest of the parameters:
\* the loop is left with an error while they are still on the wire.
ReadParam(st) ==
    LET t == ReadInt(st, "ptype") IN
    IF t.err THEN t
    ELSE IF t.msg.ptype = ROLE_PARAM
    THEN LET v == ReadInts(t, <<"plength", "pvalue">>) IN
         IF v.err THEN v
         ELSE [v EXCEPT !.msg.Params =
                  SetParam(@, [type |-> ROLE_PARAM, value |-> v.msg.pvalue])]
    ELSE LET v == ReadString(t, "pvalue") IN
         IF v.err THEN v
         ELSE IF t.msg.ptype = ROLE_PATH
         THEN [v EXCEPT !.msg.Params =
                  SetParam(@, [type |-> ROLE_PATH, value |-> v.msg.pvalue])]
         ELSE Fail(v)

\* Parameters.Parse with the message's own fields kept aside.
ParseParams(st) ==
    LET m == [Params |-> {}, plength |-> 0, ptype |-> 0, pvalue |-> 0]
        n == ReadInt([st EXCEPT !.msg = m], "plength")
        F[i \in 0 .. n.msg.plength] == IF i = 0 THEN n ELSE ReadParam(F[i - 1])
    IN  IF n.err THEN n ELSE F[n.msg.plength]

\* ClientSetup and ServerSetup keep the parameters read before an error, which they ignore.
ReadParamsLeniently(st) ==
    LET r == ParseParams(st) IN
    [r EXCEPT !.msg = [st.msg EXCEPT !.Params = r.msg.Params]]

\* Subscribe and Announce return the error and keep none.
ReadParams(st) ==
    LET r == ParseParams(st) IN
    [r EXCEPT !.msg = [st.msg EXCEPT !.Params = IF r.err THEN {} ELSE r.msg.Params]]

-----------------------------------------------------------------------------
\* Messages: GetBytes and Parse (after the type, which ParseMOQTMessage reads)

ClientSetupBytes(m) == <<CLIENT_SETUP>> \o PutString(m.SupportedVersions) \o ParamsBytes(m.Params)
ClientSetupParse(in) ==
    ReadParamsLeniently(ReadList(
        Reader([type |-> CLIENT_SETUP, SupportedVersions |-> << >>, Params |-> {}], in),
        "SupportedVersions"))

ServerSetupBytes(m) == <<SERVER_SETUP, m.SelectedVersion>> \o ParamsBytes(m.Params)
ServerSetupParse(in) ==
    ReadParamsLeniently(ReadInt(
        Reader([type |-> SERVER_SETUP, SelectedVersion |-> 0, Params |-> {}], in),
        "SelectedVersion"))

AnnounceBytes(m) == <<ANNOUNCE>> \o PutString(m.TrackNameSpace) \o ParamsBytes(m.Params)
AnnounceParse(in) ==
    ReadParams(ReadString(
        Reader([type |-> ANNOUNCE, TrackNameSpace |-> << >>, Params |-> {}], in),
        "TrackNameSpace"))

AnnounceOkBytes(m) == <<ANNOUNCE_OK>> \o PutString(m.TrackNameSpace)
AnnounceOkParse(in) ==
    ReadString(Reader([type |-> ANNOUNCE_OK, TrackNameSpace |-> << >>], in), "TrackNameSpace")

\* The fields that depend on the filter.
FilterFields(filter) ==
    IF filter = AbsoluteStart THEN <<"StartGroup", "StartObject">>
    ELSE IF filter = AbsoluteRange THEN <<"StartGroup", "StartObject", "EndGroup", "EndObject">>
    ELSE << >>

NoSubscribe == [type |-> SUBSCRIBE, SubscribeID |-> 0, TrackAlias |-> 0,
                TrackNameSpace |-> << >>, TrackName |-> << >>, FilterType |-> 0,
                StartGroup |-> 0, StartObject |-> 0, EndGroup |-> 0, EndObject |-> 0,
                Params |-> {}]

SubscribeBytes(m) ==
    <<SUBSCRIBE, m.SubscribeID, m.TrackAlias>>
        \o PutString(m.TrackNameSpace) \o PutString(m.TrackName)
        \o <<m.FilterType>> \o PutInts(m, FilterFields(m.FilterType)) \o ParamsBytes(m.Params)

\* Fault: the end of an absolute range is not read.
SubscribeParseNoEnd(in) ==
    LET ids == ReadInts(Reader(NoSubscribe, in), <<"SubscribeID", "TrackAlias">>)
        filter == ReadInt(ReadString(ReadString(ids, "TrackNameSpace"), "TrackName"), "FilterType")
    IN  ReadParams(ReadInts(filter, IF filter.msg.FilterType \in {AbsoluteStart, AbsoluteRange}
                                    THEN <<"StartGroup", "StartObject">> ELSE << >>))

SubscribeParse(in) ==
    LET ids == ReadInts(Reader(NoSubscribe, in), <<"SubscribeID", "TrackAlias">>)
        filter == ReadInt(ReadString(ReadString(ids, "TrackNameSpace"), "TrackName"), "FilterType")
    IN  ReadParams(ReadInts(filter, FilterFields(filter.msg.FilterType)))

\* The two ids are written object first, and both read into largestObjectId.
SubscribeOkBytes(m) ==
    <<SUBSCRIBE_OK, m.SubscribeID, m.Expires, m.ContentExists>>
        \o IF m.ContentExists = 1 THEN <<m.largestObjectId, m.largestGroupId>> ELSE << >>
SubscribeOkParse(in) ==
    LET st == ReadInts(Reader([type |-> SUBSCRIBE_OK, SubscribeID |-> 0, Expires |-> 0,
                               ContentExists |-> 0, largestGroupId |-> 0, largestObjectId |-> 0],
                              in),
                       <<"SubscribeID", "Expires", "ContentExists">>)
    IN  ReadInts(st, IF st.msg.ContentExists = 1
                     THEN <<"largestObjectId", "largestObjectId">> ELSE << >>)

UnsubscribeBytes(m) == <<UNSUBSCRIBE, m.SubscriptionID>>
UnsubscribeParse(in) ==
    ReadInt(Reader([type |-> UNSUBSCRIBE, SubscriptionID |-> 0], in), "SubscriptionID")

\* SubscribeDone.GetBytes leaves out the message's type.
SubscribeDoneBytes(m) ==
    <<m.SubscribeID, m.StatusCode>> \o PutString(m.ReasonPhrase) \o <<m.ContentExists>>
        \o IF m.ContentExists = 1 THEN <<m.FinalGroup, m.FinalObject>> ELSE << >>
SubscribeDoneParse(in) ==
    LET ids == ReadInts(Reader([type |-> SUBSCRIBE_DONE, SubscribeID |-> 0, StatusCode |-> 0,
                                ReasonPhrase |-> << >>, ContentExists |-> 0,
                                FinalGroup |-> 0, FinalObject |-> 0], in),
                        <<"SubscribeID", "StatusCode">>)
        st == ReadInt(ReadString(ids, "ReasonPhrase"), "ContentExists")
    IN  ReadInts(st, IF st.msg.ContentExists = 1 THEN <<"FinalGroup", "FinalObject">> ELSE << >>)

\* Fault: SUBSCRIBE_DONE is not among the messages.
MessageTypesNoDone ==
    {CLIENT_SETUP, SERVER_SETUP, ANNOUNCE, ANNOUNCE_OK, SUBSCRIBE, SUBSCRIBE_OK, UNSUBSCRIBE}

\* The cases of ParseMOQTMessage's switch.
MessageTypes ==
    {CLIENT_SETUP, SERVER_SETUP, ANNOUNCE, ANNOUNCE_OK, SUBSCRIBE, SUBSCRIBE_OK, UNSUBSCRIBE,
     SUBSCRIBE_DONE}

\* ParseMOQTMessage: [msg, in, end, short]. end: no message, ServeCS leaves its
\* loop. The error of msg.Parse is dropped: what was filled in is handled.
ParseMOQTMessage(in) ==
    LET Parsed(r) == [msg |-> r.msg, in |-> r.in, end |-> FALSE, short |-> r.short]
        rest == Tail(in)
    IN  IF in = << >> THEN [end |-> TRUE, in |-> in, short |-> TRUE]
        ELSE IF Head(in) \notin MessageTypes THEN [end |-> TRUE, in |-> rest, short |-> FALSE]
        ELSE CASE Head(in) = CLIENT_SETUP -> Parsed(ClientSetupParse(rest))
               [] Head(in) = SERVER_SETUP -> Parsed(ServerSetupParse(rest))
               [] Head(in) = ANNOUNCE -> Parsed(AnnounceParse(rest))
               [] Head(in) = ANNOUNCE_OK -> Parsed(AnnounceOkParse(rest))
               [] Head(in) = SUBSCRIBE -> Parsed(SubscribeParse(rest))
               [] Head(in) = SUBSCRIBE_OK -> Parsed(SubscribeOkParse(rest))
               [] Head(in) = UNSUBSCRIBE -> Parsed(UnsubscribeParse(rest))
               [] Head(in) = SUBSCRIBE_DONE -> Parsed(SubscribeDoneParse(rest))

-----------------------------------------------------------------------------
\* Object streams

NoGroupHeader == [type |-> STREAM_HEADER_GROUP, SubID |-> 0, TrackAlias |-> 0,
                  GroupID |-> 0, SendOrder |-> 0]
NoTrackHeader == [type |-> STREAM_HEADER_TRACK, SubID |-> 0, TrackAlias |-> 0, SendOrder |-> 0]

\* GetHeaderSubIDBytes: the relay puts its subscriber's id in place of its own.
GroupHeaderBytes(h, subid) == <<STREAM_HEADER_GROUP, subid, h.TrackAlias, h.GroupID, h.SendOrder>>
TrackHeaderBytes(h, subid) == <<STREAM_HEADER_TRACK, subid, h.TrackAlias, h.SendOrder>>
HeaderBytes(h, subid) == IF h.type = STREAM_HEADER_GROUP THEN GroupHeaderBytes(h, subid)
                                                          ELSE TrackHeaderBytes(h, subid)

GroupStreamParse(st) == ReadInts(st, <<"TrackAlias", "GroupID", "SendOrder">>)
TrackStreamParse(st) == ReadInts(st, <<"TrackAlias", "SendOrder">>)

\* ParseMOQTStream: an unknown type or a header that is cut short is an error.
ParseMOQTStream(in) ==
    LET Parsed(r) == [msg |-> r.msg, in |-> r.in, end |-> r.err, short |-> r.short]
        Start(zero) == ReadInt(Reader(zero, Tail(in)), "SubID")
    IN  IF in = << >> THEN [end |-> TRUE, in |-> in, short |-> TRUE]
        ELSE CASE Head(in) = STREAM_HEADER_GROUP -> Parsed(GroupStreamParse(Start(NoGroupHeader)))
               [] Head(in) = STREAM_HEADER_TRACK -> Parsed(TrackStreamParse(Start(NoTrackHeader)))
               [] OTHER -> [end |-> TRUE, in |-> Tail(in), short |-> FALSE]

ObjectBytes(o) == <<o.ID>> \o PutString(o.Payload)

\* Fault: Read in place of io.ReadFull, which returns what has arrived so far.
ObjectParseRead(in) ==
    LET st == ReadInts(Reader([ID |-> 0, length |-> 0], in), <<"ID", "length">>)
        have == IF st.in = << >> THEN 0 ELSE 1
    IN  IF st.err THEN [end |-> TRUE, in |-> st.in, short |-> st.short]
        ELSE [msg |-> [ID |-> st.msg.ID, Payload |-> [i \in 1 .. st.msg.length |->
                          IF i <= have THEN st.in[i] ELSE 0]],
              in |-> SubSeq(st.in, have + 1, Len(st.in)), end |-> FALSE, short |-> have = 0]

\* Object.Parse: the error of io.ReadFull is dropped, so a payload that is cut
\* short is filled up with zeros.
ObjectParse(in) ==
    LET st == ReadInts(Reader([ID |-> 0, length |-> 0], in), <<"ID", "length">>)
        have == IF Len(st.in) < st.msg.length THEN Len(st.in) ELSE st.msg.length
    IN  IF st.err THEN [end |-> TRUE, in |-> st.in, short |-> st.short]
        ELSE [msg |-> [ID |-> st.msg.ID, Payload |-> [i \in 1 .. st.msg.length |->
                          IF i <= have THEN st.in[i] ELSE 0]],
              in |-> SubSeq(st.in, have + 1, Len(st.in)),
              end |-> FALSE, short |-> have < st.msg.length]

\* On a TRACK stream Pipe writes the group of each object in front of it, and
\* ReadObject reads it back.
TrackObjectBytes(o) == <<o.GroupID>> \o ObjectBytes(o)
TrackReadObject(in) ==
    IF in = << >> THEN [end |-> TRUE, in |-> in, short |-> TRUE]
    ELSE LET r == ObjectParse(Tail(in)) IN
         IF r.end THEN r
         ELSE [msg |-> [GroupID |-> Head(in), ID |-> r.msg.ID, Payload |-> r.msg.Payload],
               in |-> r.in, end |-> FALSE, short |-> r.short]
=============================================================================
