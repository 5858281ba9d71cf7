------------------------------ MODULE Listener ------------------------------
(***************************************************************************)
(* The relay's listener and WebTransport. Listen takes one connection      *)
(* after the other; for "h3" it goes through the whole upgrade (UpgradeWTS *)
(* with the frames of package h3) before it takes the next. An upgraded    *)
(* connection gets a goroutine, ProcesUniStreams, that reads the header of *)
(* every incoming stream and passes the stream on, through a channel, to   *)
(* the session's DoHandle (module Session).                                *)
(*                                                                         *)
(* A client's frames are given by hello[c]: each may arrive at any time or *)
(* never. QUIC hands out incoming streams in the order they were opened,   *)
(* whether or not something has arrived on them.                           *)
(***************************************************************************)
EXTENDS Integers, Sequences, FiniteSets, FiniteSetsExt

CONSTANTS Conns,      \* connections
          Alpn,       \* Alpn[c]: the negotiated protocol
          Hellos,     \* what an h3 client may send: records [first, frame, request]
          ChanCap,    \* capacity of uniStreamsChan (1024 in the code)
          MaxUni      \* bound: streams an upgraded client opens

ASSUME ListenerAssumption ==
    /\ Alpn \in [Conns -> {"moq-00", "h3", "other"}]
    /\ ChanCap \in Nat \ {0} /\ MaxUni \in Nat
    /\ \A h \in Hellos : /\ h.frame.pad \in Nat
                        /\ h.frame.Settings \in Seq([Key : Nat, Value : Nat])

VARIABLES queue,      \* connections not yet accepted
          lst,        \* the goroutine of Listen: <<"accept">>, or <<c, step of the upgrade>>
          alive,      \* the connections that are open
          state,      \* state[c]: "idle", "new", "upgraded", "session", "failed", "closed"
          hello,      \* hello[c]: what the client sends
          arrived,    \* arrived[c]: which parts of it have arrived
          settings,   \* settings[c]: what SettingsFrame.Parse made of its settings
          uni,        \* uni[c]: streams opened after the upgrade: [type, come]
          pump,       \* pump[c]: ProcesUniStreams
          pumped,     \* pumped[c]: how many streams it has accepted
          late,       \* late[c]: those given up for want of a header
          chan,       \* chan[c]: uniStreamsChan
          taken,      \* taken[c]: the streams DoHandle has accepted
          do,         \* do[c]: DoHandle: "loop", "accept", "parse", "end"
          control     \* control[c]: the session's control stream is accepted

lstVars == <<queue, lst, hello, arrived, settings>>
wtVars == <<uni, pump, pumped, late, chan, taken, do, control>>
vars == <<lstVars, alive, state, wtVars>>

Init ==
    /\ queue = << >> /\ lst = <<"accept">> /\ alive = {}
    /\ state = [c \in Conns |-> "idle"]
    /\ hello \in [{c \in Conns : Alpn[c] = "h3"} -> Hellos]
    /\ arrived = [c \in Conns |-> {}]
    /\ settings = [c \in Conns |-> << >>]
    /\ uni = [c \in Conns |-> << >>] /\ pump = [c \in Conns |-> "none"]
    /\ pumped = [c \in Conns |-> 0] /\ late = [c \in Conns |-> {}]
    /\ chan = [c \in Conns |-> << >>] /\ taken = [c \in Conns |-> << >>]
    /\ do = [c \in Conns |-> "loop"] /\ control = [c \in Conns |-> FALSE]

-----------------------------------------------------------------------------
\* Package h3

\* quicvarint.Len
VarLen(v) == IF v < 64 THEN 1 ELSE IF v < 16384 THEN 2 ELSE IF v < 1073741824 THEN 4 ELSE 8

\* Fault: the value is not counted.
GetLengthOfKey(s) == VarLen(s.Key)

\* Setting.GetLength: what the setting takes in the shortest encoding.
GetLength(s) == VarLen(s.Key) + VarLen(s.Value)

\* The i-th setting of a frame [Settings, pad], pad being the bytes that longer
\* encodings take. Past the end Setting.Parse fails, which is ignored, and yields a
\* zero setting.
SettingAt(frame, i) ==
    IF i <= Len(frame.Settings) THEN frame.Settings[i] ELSE [Key |-> 0, Value |-> 0]

\* The frame's length field.
FrameLength(frame) ==
    LET n == Len(frame.Settings)
        size[i \in 0 .. n] ==
            IF i = 0 THEN frame.pad
            ELSE size[i - 1]
                    + (VarLen(frame.Settings[i].Key) + VarLen(frame.Settings[i].Value))
    IN  size[n]

\* SettingsFrame.Parse: each turn takes GetLength off what is left of the length; if
\* that never comes to 0 it wraps around and the loop does not end.
SettingsParse(frame) ==
    LET turns == 0 .. Len(frame.Settings) + FrameLength(frame)
        left[i \in turns] == IF i = 0 THEN FrameLength(frame)
                             ELSE left[i - 1] - GetLength(SettingAt(frame, i))
        ends == {i \in turns : left[i] = 0}
    IN  [ends |-> ends # {},
         Settings |-> IF ends = {} THEN << >>
                      ELSE [i \in 1 .. Min(ends) |-> SettingAt(frame, i)]]

\* ParseFrame gives a frame of the wanted type; an unknown type is an error, another
\* one UpgradeWTS does not want.
ParseFrame(frame, type) == frame.type = type

\* WrapRequest after HeaderFrame.Parse: header fields that do not decode, a malformed
\* content-length or URI, or a protocol that UpgradeWTS does not want.
WrapRequest(r) == r.decodes /\ r.wellformed /\ r.protocol = "webtransport"

\* StreamHeader.Read: the types it knows.
KnownHeader(type) == type \in {"CONTROL", "PUSH", "QPACK", "UNI", "BI"}

-----------------------------------------------------------------------------
\* Listen

Handled(c, s) == state' = [state EXCEPT ![c] = s]

\* handleMOQ makes the session at once; another protocol is turned away.
Accept ==
    /\ lst = <<"accept">> /\ queue # << >>
    /\ queue' = Tail(queue)
    /\ \E c \in {Head(queue)} :
          CASE Alpn[c] = "moq-00" -> Handled(c, "session") /\ UNCHANGED <<lst, alive>>
            [] Alpn[c] = "h3" -> lst' = <<c, "open">> /\ UNCHANGED <<alive, state>>
            [] OTHER -> Handled(c, "closed") /\ alive' = alive \ {c} /\ UNCHANGED lst
    /\ UNCHANGED <<hello, arrived, settings, wtVars>>

Upgrading(c, step) == lst = <<c, step>>
Proceed(c, step) == lst' = <<c, step>> /\ UNCHANGED state

\* UpgradeWTS returns an error, which is logged; the connection stays open.
UpgradeFails(c) == Handled(c, "failed") /\ lst' = <<"accept">>

\* The server's control stream and settings.
UpgradeOpen(c) ==
    /\ Upgrading(c, "open")
    /\ (c \in alive /\ Proceed(c, "header")) \/ UpgradeFails(c)
    /\ UNCHANGED <<queue, hello, arrived, settings, alive, wtVars>>

\* The first stream the client has opened has to be its control stream.
UpgradeHeader(c) ==
    /\ Upgrading(c, "header")
    /\ c \notin alive \/ "first" \in arrived[c]
    /\ IF c \in alive /\ hello[c].first = "CONTROL" THEN Proceed(c, "settings") ELSE UpgradeFails(c)
    /\ UNCHANGED <<queue, hello, arrived, settings, alive, wtVars>>

\* ParseFrame on it has to give the client's settings.
UpgradeSettings(c) ==
    LET frame == hello[c].frame IN
    /\ Upgrading(c, "settings")
    /\ c \notin alive \/ "frame" \in arrived[c]
    /\ IF c \notin alive \/ ~ParseFrame(frame, "SETTINGS")
       THEN UpgradeFails(c) /\ UNCHANGED settings
       ELSE \E parsed \in {SettingsParse(frame)} :
               /\ Proceed(c, IF parsed.ends THEN "request" ELSE "endless")
               /\ settings' = [settings EXCEPT ![c] = parsed.Settings]
    /\ UNCHANGED <<queue, hello, arrived, alive, wtVars>>

\* Fault: a connection that is gone does not end the wait for the request.
UpgradeRequestWaits(c) ==
    LET frame == hello[c].request IN
    /\ Upgrading(c, "request") /\ "request" \in arrived[c]
    /\ IF ParseFrame(frame, "HEADERS") /\ WrapRequest(frame)
       THEN Handled(c, "upgraded") /\ lst' = <<"accept">>
       ELSE UpgradeFails(c)
    /\ UNCHANGED <<queue, hello, arrived, settings, alive, wtVars>>

\* ParseFrame on the first bidirectional stream has to give the request.
UpgradeRequest(c) ==
    LET frame == hello[c].request IN
    /\ Upgrading(c, "request")
    /\ c \notin alive \/ "request" \in arrived[c]
    /\ IF c \in alive /\ ParseFrame(frame, "HEADERS") /\ WrapRequest(frame)
       THEN Handled(c, "upgraded") /\ lst' = <<"accept">>
       ELSE UpgradeFails(c)
    /\ UNCHANGED <<queue, hello, arrived, settings, alive, wtVars>>

\* ServeHTTP in a goroutine of its own: AcceptSession answers 200 and starts
\* ProcesUniStreams; then the session is created and served.
ServeHTTP(c) ==
    /\ state[c] = "upgraded"
    /\ Handled(c, "session")
    /\ pump' = [pump EXCEPT ![c] = "accept"]
    /\ UNCHANGED <<lstVars, alive, uni, pumped, late, chan, taken, do, control>>

Listen ==
    Accept \/ \E c \in Conns : UpgradeOpen(c) \/ UpgradeHeader(c) \/ UpgradeSettings(c)
                                \/ UpgradeRequest(c)

-----------------------------------------------------------------------------
\* A WebTransport session

PumpStep(c, from, to) == pump[c] = from /\ pump' = [pump EXCEPT ![c] = to]

\* AcceptUniStream; it fails when the connection is gone.
PumpAccept(c) ==
    /\ IF c \in alive
       THEN /\ pumped[c] < Len(uni[c])
            /\ PumpStep(c, "accept", "read")
            /\ pumped' = [pumped EXCEPT ![c] = @ + 1]
       ELSE PumpStep(c, "accept", "end") /\ UNCHANGED pumped
    /\ UNCHANGED <<lstVars, alive, state, uni, late, chan, taken, do, control>>

\* The header has come in time. An unknown one, or a connection that is gone, ends
\* the goroutine.
PumpRead(c) ==
    LET stream == uni[c][pumped[c]] IN
    /\ pump[c] = "read" /\ (stream.come \/ c \notin alive)
    /\ PumpStep(c, "read", IF c \in alive /\ KnownHeader(stream.type) THEN "send" ELSE "failed")
    /\ UNCHANGED <<lstVars, alive, state, uni, pumped, late, chan, taken, do, control>>

\* The deadline of one second passes first: the stream is given up.
PumpTimeout(c) ==
    /\ PumpStep(c, "read", "accept")
    /\ ~uni[c][pumped[c]].come
    /\ late' = [late EXCEPT ![c] = @ \cup {pumped[c]}]
    /\ UNCHANGED <<lstVars, alive, state, uni, pumped, chan, taken, do, control>>

\* Fault: a stream for which there is no room is dropped.
PumpSendOrDrop(c) ==
    /\ PumpStep(c, "send", "accept")
    /\ chan' = [chan EXCEPT ![c] = IF Len(@) < ChanCap THEN Append(@, pumped[c]) ELSE @]
    /\ UNCHANGED <<lstVars, alive, state, uni, pumped, late, taken, do, control>>

\* uniStreamsChan <- stream, of whatever type the stream is.
PumpSend(c) ==
    /\ PumpStep(c, "send", "accept")
    /\ Len(chan[c]) < ChanCap
    /\ chan' = [chan EXCEPT ![c] = Append(@, pumped[c])]
    /\ UNCHANGED <<lstVars, alive, state, uni, pumped, late, taken, do, control>>

\* DoHandle looks at the context and calls AcceptUniStream ...
DoHandle(c) ==
    /\ do[c] = "loop" /\ state[c] \in {"session", "closed"}
    /\ do' = [do EXCEPT ![c] = IF state[c] = "session" THEN "accept" ELSE "end"]
    /\ UNCHANGED <<lstVars, alive, state, uni, pump, pumped, late, chan, taken, control>>

\* ... which takes from the channel and heeds nothing else.
AcceptUniStream(c) ==
    /\ do[c] = "accept" /\ chan[c] # << >>
    /\ taken' = [taken EXCEPT ![c] = Append(@, Head(chan[c]))]
    /\ chan' = [chan EXCEPT ![c] = Tail(@)]
    /\ do' = [do EXCEPT ![c] = "parse"]
    /\ UNCHANGED <<lstVars, alive, state, uni, pump, pumped, late, control>>

\* ParseMOQTStream is called inline. A stream of another type may never carry
\* anything it could read.
ParseMOQTStream(c) ==
    /\ do[c] = "parse"
    /\ do' = [do EXCEPT ![c] = "loop"]
    /\ UNCHANGED <<lstVars, alive, state, uni, pump, pumped, late, chan, taken, control>>

\* WTSession.AcceptStream. A connection that is gone is an error, a stream with another
\* header or with none, and a second control stream: handleControlStream closes the
\* session.
AcceptStream(c, type) ==
    /\ state[c] = "session" /\ Alpn[c] = "h3"
    /\ IF c \in alive /\ type = "BI" /\ ~control[c]
       THEN control' = [control EXCEPT ![c] = TRUE] /\ UNCHANGED <<state, alive>>
       ELSE Handled(c, "closed") /\ alive' = alive \ {c} /\ UNCHANGED control
    /\ UNCHANGED <<lstVars, uni, pump, pumped, late, chan, taken, do>>

Pump(c) == PumpAccept(c) \/ PumpRead(c) \/ PumpSend(c)

-----------------------------------------------------------------------------
\* Clients

Connect(c) ==
    /\ state[c] = "idle" /\ Handled(c, "new")
    /\ queue' = Append(queue, c) /\ alive' = alive \cup {c}
    /\ UNCHANGED <<lst, hello, arrived, settings, wtVars>>

\* The parts of hello[c] arrive; its first two are on one stream.
Hello(c, part) ==
    /\ c \in alive /\ Alpn[c] = "h3" /\ state[c] = "new" /\ part \notin arrived[c]
    /\ part = "frame" => "first" \in arrived[c]
    /\ arrived' = [arrived EXCEPT ![c] = @ \cup {part}]
    /\ UNCHANGED <<queue, lst, hello, settings, alive, state, wtVars>>

\* A stream of any kind that StreamHeader.Read knows (they are treated alike, QPACK's
\* too), or of another.
OpenUni(c, type) ==
    /\ c \in alive /\ state[c] = "session" /\ Alpn[c] = "h3" /\ Len(uni[c]) < MaxUni
    /\ uni' = [uni EXCEPT ![c] = Append(@, [type |-> type, come |-> FALSE])]
    /\ UNCHANGED <<lstVars, alive, state, pump, pumped, late, chan, taken, do, control>>

HeaderComes(c, i) ==
    /\ c \in alive /\ ~uni[c][i].come
    /\ uni' = [uni EXCEPT ![c][i].come = TRUE]
    /\ UNCHANGED <<lstVars, alive, state, pump, pumped, late, chan, taken, do, control>>

\* (What becomes of a plain QUIC connection is in Session.)
ConnLost(c) ==
    /\ c \in alive /\ Alpn[c] = "h3" /\ state[c] # "failed"
    /\ alive' = alive \ {c}
    /\ UNCHANGED <<lstVars, state, wtVars>>

Next ==
    \/ Listen
    \/ \E c \in Conns :
          \/ ServeHTTP(c) \/ Pump(c) \/ PumpTimeout(c)
          \/ DoHandle(c) \/ AcceptUniStream(c) \/ ParseMOQTStream(c)
          \/ Connect(c) \/ ConnLost(c)
          \/ \E type \in {"BI", "other"} : AcceptStream(c, type)
          \/ \E part \in {"first", "frame", "request"} : Hello(c, part)
          \/ \E type \in {"UNI", "other"} : OpenUni(c, type)
          \/ \E i \in DOMAIN uni[c] : HeaderComes(c, i)

\* The Go scheduler runs the goroutines; clients need not do anything.
Fairness ==
    /\ WF_vars(Listen)
    /\ \A c \in Conns : /\ WF_vars(ServeHTTP(c)) /\ WF_vars(Pump(c))
                       /\ WF_vars(DoHandle(c)) /\ WF_vars(AcceptUniStream(c))

Spec == Init /\ [][Next]_vars /\ Fairness

-----------------------------------------------------------------------------
\* What each step of the upgrade waits for.
Awaited == [header |-> "first", settings |-> "frame", request |-> "request"]

\* Listen is in an upgrade whose client keeps its connection open without sending what
\* is awaited, or has sent settings that Parse does not come to the end of.
StuckInUpgrade ==
    \E c \in Conns :
        \/ Upgrading(c, "endless")
        \/ \E step \in DOMAIN Awaited :
              c \in alive /\ Upgrading(c, step) /\ Awaited[step] \notin arrived[c]

\* A connection that is waiting is served in the end, however the upgrades before it
\* fail and whenever their connections are lost, unless Listen is stuck in one of them
\* for ever.
ConnectionsAreServed ==
    \A c \in Conns : [](state[c] = "new" => <>(state[c] # "new" \/ []StuckInUpgrade))

\* The settings of a client that encodes them as short as can be are parsed to the end
\* and as sent, with none left out and none made up, although Parse reckons with the
\* shortest encoding of what it has read and not with what it has read.
SettingsAsSent ==
    \A c \in DOMAIN hello :
        hello[c].frame.pad = 0 =>
            /\ ~Upgrading(c, "endless")
            /\ Upgrading(c, "request") => settings[c] = hello[c].frame.Settings

\* ProcesUniStreams has stopped, for a reason it has, before it was done with stream i:
\* the connection is gone, or an earlier stream, or i itself, has an unknown header.
Abandoned(c, i) ==
    \/ pump[c] = "end" /\ i > pumped[c] /\ c \notin alive
    \/ pump[c] = "failed" /\ i >= pumped[c]
          /\ (c \notin alive \/ ~KnownHeader(uni[c][pumped[c]].type))

\* ProcesUniStreams passes the streams on in the order they were opened, however slow
\* DoHandle is and however full the channel. A stream that is not passed on was late
\* with its header, is in the goroutine's hands or still to be accepted, or is lost
\* because the goroutine has ended: an unknown header costs its stream and all behind it.
PumpKeepsStreams ==
    \A c \in Conns :
        LET s == taken[c] \o chan[c]
            passed == {s[i] : i \in DOMAIN s}
        IN  /\ \A i, j \in DOMAIN s : i < j => s[i] < s[j]
            /\ passed \subseteq DOMAIN uni[c] \ late[c]
            /\ \A i \in DOMAIN uni[c] \ (passed \cup late[c]) :
                  \/ pump[c] \in {"read", "send"} /\ i = pumped[c]
                  \/ pump[c] \notin {"failed", "end"} /\ i > pumped[c]
                  \/ Abandoned(c, i)

PumpTypeOK ==
    /\ uni \in [Conns -> Seq([type : {"UNI", "other"}, come : BOOLEAN])]
    /\ pump \in [Conns -> {"none", "accept", "read", "send", "failed", "end"}]
    /\ pumped \in [Conns -> Nat]
    /\ late \in [Conns -> SUBSET Nat]
    /\ chan \in [Conns -> Seq(Nat)]
    /\ taken \in [Conns -> Seq(Nat)]

\* A connection is handled once: one that waits, or is being upgraded, is in one place,
\* and no goroutine of its session runs yet.
HandledOnce ==
    /\ state \in [Conns -> {"idle", "new", "upgraded", "session", "failed", "closed"}]
    /\ queue \in Seq(Conns)
    /\ \A i \in DOMAIN queue : /\ state[queue[i]] = "new"
                               /\ \A j \in DOMAIN queue : queue[j] = queue[i] => j = i
    /\ \/ lst = <<"accept">>
       \/ \E c \in Conns, step \in {"open", "header", "settings", "request", "endless"} :
             /\ lst = <<c, step>> /\ state[c] = "new"
             /\ \A i \in DOMAIN queue : queue[i] # c
    /\ \A c \in Conns : state[c] \in {"idle", "new", "upgraded"} => pump[c] = "none"

\* How many streams ProcesUniStreams has passed on or given up: all it has accepted, but
\* for the one it has in hand or ended with.
Passed(c) == pumped[c] - IF pump[c] \in {"read", "send", "failed"} THEN 1 ELSE 0

\* Why PumpKeepsStreams holds: a connection gets one ProcesUniStreams, which passes on
\* exactly what was not late of the streams it is done with and ends for no other reason
\* than those Abandoned names; only streams that were opened are accepted, there is one in
\* hand when the goroutine says so, and none is given up before it was accepted.
PumpInv ==
    /\ HandledOnce
    /\ PumpTypeOK
    /\ \A c \in Conns :
          /\ LET s == taken[c] \o chan[c] IN
             /\ \A i, j \in DOMAIN s : i < j => s[i] < s[j]
             /\ {s[i] : i \in DOMAIN s} = 1 .. Passed(c) \ late[c]
          /\ pump[c] \in {"failed", "end"} => Abandoned(c, pumped[c] + 1)
          /\ pumped[c] <= Len(uni[c])
          /\ pump[c] \in {"read", "send", "failed"} => pumped[c] >= 1
          /\ late[c] \subseteq 1 .. Passed(c)
          /\ Len(chan[c]) <= ChanCap
=============================================================================
