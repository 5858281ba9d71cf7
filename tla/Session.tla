------------------------------- MODULE Session -------------------------------
(***************************************************************************)
(* A MOQT session from both ends of its connection: Dial and the session   *)
(* it makes in a publisher or a subscriber, and the session the listener   *)
(* makes in the relay. At either end three goroutines share the session:   *)
(* the one that opens or accepts the control stream (InitiateHandshake,    *)
(* handleControlStream), ServeCS, which reads it, and the handler's        *)
(* DoHandle, which accepts the streams of objects.                         *)
(*                                                                         *)
(* An end that is not in own is a peer that runs some other program: it    *)
(* sends any messages in any order. Messages are what Parse makes of them  *)
(* (module Wire). What the relay does with the control messages is in      *)
(* RelayControl; here they matter as calls that may block or come late.    *)
(***************************************************************************)
EXTENDS Integers, Sequences

CONSTANTS ClientRoles,  \* the roles a client may have: "pub", "sub"
          MaxRetries,   \* maxRetries of DoHandle
          MaxCalls,     \* bound: calls the relay sends of its own accord
          MaxForeign    \* bound: messages another program sends

ASSUME SessionAssumption ==
    /\ ClientRoles \subseteq {"pub", "sub"}
    /\ MaxRetries \in Nat /\ MaxCalls \in Nat /\ MaxForeign \in Nat

Ends == {"client", "server"}
Other(e) == CHOOSE o \in Ends : o # e

VARIABLES own,            \* the ends that run this code
          role,           \* LocalRole of the client
          web,            \* the relay's end of the connection is a WTSession
          fanout,         \* a ForwardStream holds the SubscribersLock of a track the
                          \* relay's session subscribes to
          conn,           \* conn[e]: the connection is open, as end e sees it
          ctx,            \* ctx[e]: the session's context is not cancelled
          sessions,       \* the ends whose session is in their SessionManager
          streams,        \* control streams opened and not yet accepted
          inbox,          \* inbox[e]: messages on the control stream for e
          ended,          \* ended[e]: the peer has ended the control stream
          main,           \* main[e]: InitiateHandshake or handleControlStream
          cs,             \* cs[e]: ServeCS, "nil" before there is a ControlStream
          hsdone,         \* hsdone[e]: ishandshakedone
          remote,         \* remote[e]: RemoteRole
          signal,         \* signal[e]: HandshakeDone, a channel of capacity 1, is full
          closes,         \* closes[e]: how often HandleClose has closed the handler's channel
          handle, retry,  \* DoHandle and its retryCount
          dial,           \* Dial: "wait", "ok", "timeout"
          sent            \* sent[e]: counts what MaxCalls and MaxForeign bound

csVars == <<cs, hsdone, remote, signal>>
parties == <<own, role, web>>
vars == <<parties, fanout, conn, ctx, sessions, streams, inbox, ended, main, csVars, closes,
          handle, retry, dial, sent>>

\* LocalRole, which decides on the handler.
LocalRole(e) == IF e = "server" THEN "relay" ELSE role

Setup(t, ok, r) == [t |-> t, ok |-> ok, role |-> r]
Call(t) == [t |-> t]
SetupTypes == {"CLIENT_SETUP", "SERVER_SETUP"}
Calls == {Call(t) : t \in {"ANNOUNCE", "SUBSCRIBE", "SUBSCRIBE_OK"}}
\* ok: the draft is supported. "none": there is no role parameter.
Setups == {Setup(t, TRUE, r) : t \in SetupTypes, r \in {"pub", "sub", "relay", "none"}}
              \cup {Setup(t, FALSE, "relay") : t \in SetupTypes}

\* CreateMOQSession and ServeMOQ at both ends; PubHandler.DoHandle returns at once. Dial
\* makes plain QUIC connections: a client over WebTransport is another program.
Init ==
    /\ own \in SUBSET Ends \ {{}}
    /\ role \in IF "client" \in own THEN ClientRoles ELSE {"none"}
    /\ web \in IF "client" \in own THEN {FALSE} ELSE BOOLEAN
    /\ fanout = FALSE
    /\ conn = [e \in Ends |-> TRUE] /\ ctx = [e \in Ends |-> TRUE]
    /\ sessions = own
    /\ streams = 0 /\ inbox = [e \in Ends |-> << >>] /\ ended = [e \in Ends |-> FALSE]
    /\ main = [e \in Ends |-> IF e \notin own THEN "end"
                              ELSE IF e = "client" THEN "open" ELSE "accept"]
    /\ cs = [e \in Ends |-> "nil"]
    /\ hsdone = [e \in Ends |-> FALSE] /\ remote = [e \in Ends |-> "none"]
    /\ signal = [e \in Ends |-> FALSE]
    /\ closes = [e \in Ends |-> 0]
    /\ handle = [e \in Ends |-> IF e \notin own \/ LocalRole(e) = "pub" THEN "end" ELSE "accept"]
    /\ retry = [e \in Ends |-> 0]
    /\ dial = IF "client" \in own THEN "wait" ELSE "ok"
    /\ sent = [e \in Ends |-> 0]

-----------------------------------------------------------------------------
\* Closing a session

\* Close up to HandleClose: the connection is closed and the context cancelled.
CloseConn(e) == conn' = [conn EXCEPT ![e] = FALSE] /\ ctx' = [ctx EXCEPT ![e] = FALSE]

\* HandleClose of a publisher or a subscriber closes the channel to its program.
HandleClose(e) ==
    closes' = [closes EXCEPT ![e] = IF LocalRole(e) = "relay" THEN 0 ELSE @ + 1]

\* The rest of Close.
CloseHandler(e) ==
    /\ HandleClose(e)
    /\ sessions' = sessions \ {e}
    /\ UNCHANGED <<parties, fanout, conn, ctx, streams, inbox, ended, hsdone, remote, signal,
                   handle, retry, dial, sent>>

\* ServeCS closed the session in handleSetupMessage and goes on reading. The relay's
\* HandleClose waits for nothing then: there has been no SUBSCRIBE yet.
ServeCloses(e) ==
    /\ cs[e] = "close" /\ CloseHandler(e)
    /\ cs' = [cs EXCEPT ![e] = "read"] /\ UNCHANGED main

\* The relay's HandleClose calls RemoveSubscriber: a writer that waits for
\* SubscribersLock keeps later readers out ...
RemoveSubscriber ==
    /\ main["server"] = "close"
    /\ main' = [main EXCEPT !["server"] = "lock"]
    /\ UNCHANGED <<parties, fanout, conn, ctx, sessions, streams, inbox, ended, csVars, closes,
                   handle, retry, dial, sent>>

\* ... and has it when the last reader is gone. The session is removed only then.
MainCloses(e) ==
    /\ \/ main[e] = "close" /\ LocalRole(e) # "relay"
       \/ main[e] = "lock" /\ ~fanout
    /\ CloseHandler(e)
    /\ main' = [main EXCEPT ![e] = "end"] /\ UNCHANGED cs

\* ForwardStream of a track the session subscribes to, in a goroutine of the track's
\* publisher, holds the lock until every subscriber's copy has its header (RelayStream).
\* Only the one that is under way when HandleClose asks for the lock is shown.
FanOut ==
    /\ hsdone["server"] /\ main["server"] = "close"
    /\ ~fanout /\ fanout' = TRUE
    /\ UNCHANGED <<parties, conn, ctx, sessions, streams, inbox, ended, main, csVars, closes,
                   handle, retry, dial, sent>>

FanOutEnds ==
    /\ fanout /\ fanout' = FALSE
    /\ UNCHANGED <<parties, conn, ctx, sessions, streams, inbox, ended, main, csVars, closes,
                   handle, retry, dial, sent>>

-----------------------------------------------------------------------------
\* The goroutine of the control stream

\* The error of a failed Write is logged. What arrives on a lost connection is not read.
WriteControlMessage(e, m) ==
    inbox' = IF conn[e] /\ conn[Other(e)] THEN [inbox EXCEPT ![Other(e)] = Append(@, m)] ELSE inbox

\* InitiateHandshake: OpenStream, and ServeCS is started.
OpenStream ==
    /\ main["client"] = "open" /\ conn["client"]
    /\ streams' = streams + 1
    /\ cs' = [cs EXCEPT !["client"] = "read"]
    /\ main' = [main EXCEPT !["client"] = "write"]
    /\ UNCHANGED <<parties, fanout, conn, ctx, sessions, inbox, ended, hsdone, remote, signal,
                   closes, handle, retry, dial, sent>>

OpenStreamFails ==
    /\ main["client"] = "open"
    /\ CloseConn("client")
    /\ main' = [main EXCEPT !["client"] = "close"]
    /\ UNCHANGED <<parties, fanout, sessions, streams, inbox, ended, csVars, closes, handle,
                   retry, dial, sent>>

SendClientSetup ==
    /\ main["client"] = "write"
    /\ WriteControlMessage("client", Setup("CLIENT_SETUP", TRUE, role))
    /\ main' = [main EXCEPT !["client"] = "end"]
    /\ UNCHANGED <<parties, fanout, conn, ctx, sessions, streams, ended, csVars, closes, handle,
                   retry, dial, sent>>

\* handleControlStream accepts the control stream.
AcceptStream ==
    /\ main["server"] = "accept" /\ conn["server"] /\ ctx["server"] /\ streams > 0
    /\ cs["server"] = "nil"
    /\ streams' = streams - 1
    /\ cs' = [cs EXCEPT !["server"] = "read"]
    /\ UNCHANGED <<parties, fanout, conn, ctx, sessions, inbox, ended, main, hsdone, remote,
                   signal, closes, handle, retry, dial, sent>>

\* Fault: the error of AcceptStream ends the goroutine and nothing else.
StopAcceptingOnly ==
    /\ main["server"] = "accept"
    /\ ~conn["server"] \/ ~ctx["server"]
    /\ main' = [main EXCEPT !["server"] = "end"]
    /\ UNCHANGED <<parties, fanout, conn, ctx, sessions, streams, inbox, ended, csVars, closes,
                   handle, retry, dial, sent>>

\* AcceptStream fails, or a second stream is opened: the session is closed.
StopAccepting ==
    /\ main["server"] = "accept"
    /\ ~conn["server"] \/ ~ctx["server"] \/ (streams > 0 /\ cs["server"] # "nil")
    /\ CloseConn("server")
    /\ main' = [main EXCEPT !["server"] = "close"]
    /\ UNCHANGED <<parties, fanout, sessions, streams, inbox, ended, csVars, closes, handle,
                   retry, dial, sent>>

-----------------------------------------------------------------------------
\* ServeCS

\* Fault: ServeCS closes the session when it cannot read on.
ServeEndsAndCloses(e) ==
    /\ cs[e] = "read"
    /\ ~conn[e] \/ (ended[e] /\ inbox[e] = << >>)
    /\ CloseConn(e)
    /\ cs' = [cs EXCEPT ![e] = "close"]
    /\ UNCHANGED <<parties, fanout, sessions, streams, inbox, ended, main, hsdone, remote, signal,
                   closes, handle, retry, dial, sent>>

\* ParseMOQTMessage fails: the loop is left and the session stays.
ServeEnds(e) ==
    /\ cs[e] = "read"
    /\ ~conn[e] \/ (ended[e] /\ inbox[e] = << >>)
    /\ cs' = [cs EXCEPT ![e] = "end"]
    /\ UNCHANGED <<parties, fanout, conn, ctx, sessions, streams, inbox, ended, main, hsdone,
                   remote, signal, closes, handle, retry, dial, sent>>

Received(e) ==
    /\ cs[e] = "read" /\ conn[e] /\ inbox[e] # << >>
    /\ inbox' = [inbox EXCEPT ![e] = Tail(@)]
    /\ UNCHANGED <<parties, fanout, sessions, streams, ended, main, signal, closes, handle, retry,
                   dial, sent>>

CheckDraftSupport(m) == m.ok
GetRoleParam(m) == m.role # "none"

\* The draft, the role, and SetRemoteRole's own check.
Acceptable(e, m) ==
    /\ CheckDraftSupport(m) /\ GetRoleParam(m)
    /\ m.role = LocalRole(e) => LocalRole(e) = "relay"

\* Fault: ishandshakedone is not set.
SetRemoteRoleOnly(e) ==
    /\ ~hsdone[e] /\ Received(e)
    /\ \E m \in {Head(inbox[e])} :
          /\ m.t \in SetupTypes /\ Acceptable(e, m)
          /\ remote' = [remote EXCEPT ![e] = m.role]
          /\ cs' = [cs EXCEPT ![e] = m.t]
    /\ UNCHANGED <<conn, ctx, hsdone>>

\* handleSetupMessage up to ishandshakedone. A setup of either type will do; cs
\* remembers which it was.
SetRemoteRole(e) ==
    /\ ~hsdone[e] /\ Received(e)
    /\ \E m \in {Head(inbox[e])} :
          /\ m.t \in SetupTypes /\ Acceptable(e, m)
          /\ remote' = [remote EXCEPT ![e] = m.role]
          /\ cs' = [cs EXCEPT ![e] = m.t]
    /\ hsdone' = [hsdone EXCEPT ![e] = TRUE]
    /\ UNCHANGED <<conn, ctx>>

\* HandshakeDone <- true, which waits if the channel is full.
SignalDone(e) ==
    /\ cs[e] \in SetupTypes /\ ~signal[e]
    /\ signal' = [signal EXCEPT ![e] = TRUE]
    /\ cs' = [cs EXCEPT ![e] = IF @ = "CLIENT_SETUP" THEN "answer" ELSE "read"]
    /\ UNCHANGED <<parties, fanout, conn, ctx, sessions, streams, inbox, ended, main, hsdone,
                   remote, closes, handle, retry, dial, sent>>

\* Fault: the answer is written while the setup is still being looked at.
SendServerSetupEarly(e) ==
    /\ cs[e] \in {"read", "answer"}
    /\ cs[e] = "read" =>
          inbox[e] # << >> /\ Head(inbox[e]).t = "CLIENT_SETUP" /\ sent[e] < MaxCalls
    /\ WriteControlMessage(e, Setup("SERVER_SETUP", TRUE, LocalRole(e)))
    /\ cs' = [cs EXCEPT ![e] = "read"]
    /\ sent' = [sent EXCEPT ![e] = IF cs[e] = "read" THEN @ + 1 ELSE @]
    /\ UNCHANGED <<parties, fanout, conn, ctx, sessions, streams, ended, main, hsdone, remote,
                   signal, closes, handle, retry, dial>>

SendServerSetup(e) ==
    /\ cs[e] = "answer"
    /\ WriteControlMessage(e, Setup("SERVER_SETUP", TRUE, LocalRole(e)))
    /\ cs' = [cs EXCEPT ![e] = "read"]
    /\ UNCHANGED <<parties, fanout, conn, ctx, sessions, streams, ended, main, hsdone, remote,
                   signal, closes, handle, retry, dial, sent>>

\* handleSetupMessage finds fault with a setup and closes the session.
RejectSetup(e) ==
    /\ ~hsdone[e] /\ Received(e)
    /\ \E m \in {Head(inbox[e])} : m.t \in SetupTypes /\ ~Acceptable(e, m)
    /\ CloseConn(e)
    /\ cs' = [cs EXCEPT ![e] = "close"]
    /\ UNCHANGED <<hsdone, remote>>

\* The handlers of a client that hand something to the program, on an unbuffered channel.
Delivers(e, m) == <<LocalRole(e), m.t>> \in {<<"sub", "ANNOUNCE">>, <<"sub", "SUBSCRIBE_OK">>,
                                             <<"pub", "SUBSCRIBE">>}

\* handleControlMessage, and what handleSetupMessage drops. A publisher closes
\* the connection, but not its session, when it is sent an ANNOUNCE.
handleControlMessage(e) ==
    /\ Received(e)
    /\ \E m \in {Head(inbox[e])} :
          /\ hsdone[e] \/ m.t \notin SetupTypes
          /\ cs' = [cs EXCEPT ![e] = IF hsdone[e] /\ Delivers(e, m) THEN "deliver" ELSE "read"]
          /\ conn' = [conn EXCEPT ![e] =
                         @ /\ ~(hsdone[e] /\ LocalRole(e) = "pub" /\ m.t = "ANNOUNCE")]
    /\ UNCHANGED <<ctx, hsdone, remote>>

\* The program takes it: the goroutines of Connect, which run once Dial has returned.
Deliver(e) ==
    /\ cs[e] = "deliver" /\ dial = "ok"
    /\ cs' = [cs EXCEPT ![e] = "read"]
    /\ UNCHANGED <<parties, fanout, conn, ctx, sessions, streams, inbox, ended, main, hsdone,
                   remote, signal, closes, handle, retry, dial, sent>>

ServeCS(e) ==
    \/ ServeEnds(e) \/ ServeCloses(e) \/ SetRemoteRole(e) \/ SignalDone(e) \/ SendServerSetup(e)
    \/ RejectSetup(e) \/ handleControlMessage(e) \/ Deliver(e)

-----------------------------------------------------------------------------
\* Dial: the select between HandshakeDone and the timer. After a timeout the
\* session stays as it is.
DialReturns ==
    /\ dial = "wait"
    /\ \/ signal["client"] /\ dial' = "ok" /\ signal' = [signal EXCEPT !["client"] = FALSE]
       \/ dial' = "timeout" /\ UNCHANGED signal
    /\ UNCHANGED <<parties, fanout, conn, ctx, sessions, streams, inbox, ended, main, cs, hsdone,
                   remote, closes, handle, retry, sent>>

\* DoHandle of the relay and of a subscriber: AcceptUniStream, which on a WTSession is a
\* receive on the channel of its pump (Listener) that heeds neither the context nor the
\* connection and returns no error.
Web(e) == web /\ e = "server"

DoHandleAccept(e) ==
    /\ handle[e] = "accept"
    /\ Web(e) \/ (ctx[e] /\ conn[e])
    /\ handle' = [handle EXCEPT ![e] = "parse"]
    /\ retry' = [retry EXCEPT ![e] = 0]
    /\ UNCHANGED <<parties, fanout, conn, ctx, sessions, streams, inbox, ended, main, csVars,
                   closes, dial, sent>>

AcceptUniStreamFails(e) == handle[e] = "accept" /\ ~Web(e) /\ (ctx[e] => ~conn[e])

\* Fault: the count starts afresh on every turn.
DoHandleRetryUncounted(e) ==
    /\ AcceptUniStreamFails(e)
    /\ handle' = [handle EXCEPT ![e] = IF ctx[e] THEN "accept" ELSE "end"]
    /\ retry' = [retry EXCEPT ![e] = 0]
    /\ UNCHANGED <<parties, fanout, conn, ctx, sessions, streams, inbox, ended, main, csVars,
                   closes, dial, sent>>

\* AcceptUniStream fails: try again, at most MaxRetries times and not if the context is
\* cancelled.
DoHandleRetry(e) ==
    /\ AcceptUniStreamFails(e)
    /\ handle' = [handle EXCEPT ![e] = IF ctx[e] /\ retry[e] < MaxRetries THEN "accept" ELSE "end"]
    /\ retry' = [retry EXCEPT ![e] = IF ctx[e] THEN @ + 1 ELSE @]
    /\ UNCHANGED <<parties, fanout, conn, ctx, sessions, streams, inbox, ended, main, csVars,
                   closes, dial, sent>>

\* ParseMOQTStream has its header, or its error; the objects are another goroutine's.
\* The next turn begins with a look at the context.
DoHandleParse(e) ==
    /\ handle[e] = "parse"
    /\ handle' = [handle EXCEPT ![e] = IF ctx[e] THEN "accept" ELSE "end"]
    /\ UNCHANGED <<parties, fanout, conn, ctx, sessions, streams, inbox, ended, main, csVars,
                   closes, retry, dial, sent>>

-----------------------------------------------------------------------------
\* The connection is lost to one end, or the peer's close arrives.
ConnLost(e) ==
    /\ conn[e] /\ conn' = [conn EXCEPT ![e] = FALSE]
    /\ inbox' = [inbox EXCEPT ![e] = << >>]
    /\ UNCHANGED <<parties, fanout, ctx, sessions, streams, ended, main, csVars, closes, handle,
                   retry, dial, sent>>

\* What e sends of its own accord: the relay its calls once it knows the role
\* (addPublisher does not wait for SERVER_SETUP), another program anything.
Send(e, m) ==
    /\ conn[e]
    /\ IF e \in own
       THEN e = "server" /\ remote[e] # "none" /\ m \in Calls /\ sent[e] < MaxCalls
       ELSE sent[e] < MaxForeign /\ (e = "client" => streams > 0 \/ cs["server"] # "nil")
    /\ WriteControlMessage(e, m)
    /\ sent' = [sent EXCEPT ![e] = @ + 1]
    /\ UNCHANGED <<parties, fanout, conn, ctx, sessions, streams, ended, main, csVars, closes,
                   handle, retry, dial>>

ForeignOpens ==
    /\ "client" \notin own /\ conn["client"] /\ streams + (IF cs["server"] = "nil" THEN 0 ELSE 1) < 2
    /\ streams' = streams + 1
    /\ UNCHANGED <<parties, fanout, conn, ctx, sessions, inbox, ended, main, csVars, closes,
                   handle, retry, dial, sent>>

ForeignEnds(e) ==
    /\ e \notin own /\ ~ended[Other(e)]
    /\ ended' = [ended EXCEPT ![Other(e)] = TRUE]
    /\ sent' = [sent EXCEPT ![e] = MaxForeign]
    /\ UNCHANGED <<parties, fanout, conn, ctx, sessions, streams, inbox, main, csVars, closes,
                   handle, retry, dial>>

Main == OpenStream \/ OpenStreamFails \/ SendClientSetup \/ AcceptStream \/ StopAccepting

Next ==
    \/ Main \/ DialReturns \/ ForeignOpens \/ RemoveSubscriber \/ FanOut \/ FanOutEnds
    \/ \E e \in Ends : \/ ServeCS(e) \/ MainCloses(e)
                       \/ DoHandleAccept(e) \/ DoHandleRetry(e) \/ DoHandleParse(e)
    \/ \E e \in Ends : ConnLost(e) \/ ForeignEnds(e) \/ \E m \in Setups \cup Calls : Send(e, m)

Spec == Init /\ [][Next]_vars

\* The Go scheduler runs the goroutines. Reading a stream's header goes on by itself
\* only when the connection is gone: a peer need not send one. A close arrives. A
\* ForwardStream need not end: another subscriber may give its copy no credit.
Fairness ==
    /\ WF_vars(Main) /\ WF_vars(DialReturns) /\ WF_vars(RemoveSubscriber)
    /\ \A e \in Ends :
          /\ WF_vars(ServeCS(e)) /\ WF_vars(MainCloses(e))
          /\ WF_vars(DoHandleRetry(e)) /\ WF_vars(~conn[e] /\ DoHandleParse(e))
          /\ WF_vars(~conn[Other(e)] /\ ConnLost(e))
FairSpec == Spec /\ Fairness

-----------------------------------------------------------------------------
\* Nothing panics on the channels between a handler and its program: HandleClose
\* closes SubscribeChan or StreamsChan at most once, and never while ServeCS is about
\* to send on it. ServeCS relies on not closing the session when it cannot read on,
\* because handleSetupMessage may have closed it.
ChannelsClosedOnce ==
    \A e \in Ends : closes[e] <= 1 /\ (cs[e] = "deliver" => closes[e] = 0)

\* ServeCS never waits for room in HandshakeDone, which nobody empties in the relay
\* and nobody empties again in a client, whatever setups the peer repeats.
HandshakeSignalledOnce == \A e \in Ends : cs[e] \in SetupTypes => ~signal[e]

\* When Dial returns a session, both ends are done and know each other's role.
DialMeansAgreement ==
    (own = Ends /\ dial = "ok") =>
        hsdone["server"] /\ remote["server"] = role /\ remote["client"] = "relay"

\* Types, and why the three are inductive. A session is closed by its main goroutine
\* only when there is no ServeCS, and by ServeCS only once, because it reads nothing
\* more; what goes on after that neither closes nor delivers ...
TypeOK ==
    /\ own \subseteq Ends
    /\ role \in {"pub", "sub", "none"}
    /\ web \in BOOLEAN /\ fanout \in BOOLEAN
    /\ conn \in [Ends -> BOOLEAN] /\ ctx \in [Ends -> BOOLEAN]
    /\ sessions \subseteq Ends
    /\ streams \in Nat
    /\ inbox \in [Ends -> Seq(Setups \cup Calls)]
    /\ ended \in [Ends -> BOOLEAN]
    /\ main \in [Ends -> {"open", "write", "accept", "close", "lock", "end"}]
    /\ cs \in [Ends -> {"nil", "read", "answer", "deliver", "close", "end"} \cup SetupTypes]
    /\ hsdone \in [Ends -> BOOLEAN]
    /\ remote \in [Ends -> {"pub", "sub", "relay", "none"}]
    /\ signal \in [Ends -> BOOLEAN]
    /\ closes \in [Ends -> Nat]
    /\ handle \in [Ends -> {"accept", "parse", "end"}]
    /\ retry \in [Ends -> Nat]
    /\ dial \in {"wait", "ok", "timeout"}
    /\ sent \in [Ends -> Nat]

CloseInv ==
    /\ main["client"] \in {"open", "close"} => cs["client"] = "nil" /\ closes["client"] = 0
    /\ main["client"] # "lock"
    /\ \A e \in Ends :
          /\ closes[e] \in {0, 1}
          /\ main[e] \in {"close", "lock"} => ~conn[e]
          /\ cs[e] = "close" => ~conn[e] /\ closes[e] = 0
          /\ closes[e] = 1 => ~conn[e] /\ cs[e] \in {"nil", "read", "end"}

\* ... HandshakeDone is signalled once, by the ServeCS that sets ishandshakedone ...
SignalInv ==
    \A e \in Ends :
        /\ signal[e] => hsdone[e]
        /\ cs[e] \in SetupTypes => hsdone[e] /\ ~signal[e]

\* ... and nothing comes to the client from this code's relay before the relay has
\* accepted its CLIENT_SETUP, the only message that the client sends.
AgreeInv ==
    own = Ends =>
        /\ inbox["server"] \in Seq({Setup("CLIENT_SETUP", TRUE, role)})
        /\ inbox["client"] \in Seq(Calls \cup {Setup("SERVER_SETUP", TRUE, "relay")})
        /\ ~hsdone["server"] => inbox["client"] = << >> /\ remote["server"] = "none"
        /\ hsdone["server"] => remote["server"] = role
        /\ cs["server"] = "answer" => hsdone["server"]
        /\ cs["client"] \notin {"CLIENT_SETUP", "answer"}
        /\ hsdone["client"] => hsdone["server"] /\ remote["client"] = "relay"
        /\ dial = "ok" => hsdone["client"]

\* The inductive invariant of a session, whatever program is at its other end: types,
\* the goroutine that may still close it, at most one signal, and what the ends know of
\* each other.
SessionInv == TypeOK /\ CloseInv /\ SignalInv /\ AgreeInv

\* The relay forgets the session of a lost connection: handleControlStream is still
\* waiting for a second control stream and meets the error, whatever ServeCS was doing.
\* The exception is a ForwardStream that never lets go of SubscribersLock, because
\* another subscriber of the track leaves it without credit: RemoveSubscriber waits.
LostSessionIsForgotten == [](~conn["server"] => <>("server" \notin sessions \/ []fanout))

\* DoHandle ends when a QUIC connection is gone, with the context cancelled or, in a
\* client, where nobody cancels it, after its retries. Over WebTransport it may wait in
\* AcceptUniStream for ever.
DoHandleEnds == \A e \in Ends : ~conn[e] /\ ~Web(e) ~> handle[e] = "end"
=============================================================================
