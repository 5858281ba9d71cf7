---------------------------- MODULE SessionProof ----------------------------
(***************************************************************************)
(* Proofs about Session, for any bounds on what the ends send and whatever *)
(* program is at the other end: nothing panics on the handlers' channels,  *)
(* ServeCS never waits for HandshakeDone, and Dial returns a session only  *)
(* when both ends agree.                                                   *)
(***************************************************************************)
EXTENDS Session, TLAPS

-----------------------------------------------------------------------------
\* The two ends.
LEMMA EndFacts ==
    /\ Ends = {"client", "server"}
    /\ Other("client") = "server" /\ Other("server") = "client"
    /\ \A e \in Ends : Other(e) \in Ends /\ Other(e) # e
<1>1. Ends = {"client", "server"}
      BY DEF Ends
<1>2. \E o \in Ends : o # "client"
      BY <1>1
<1>3. Other("client") \in Ends /\ Other("client") # "client"
      BY <1>2 DEF Other
<1>4. \E o \in Ends : o # "server"
      BY <1>1
<1>5. Other("server") \in Ends /\ Other("server") # "server"
      BY <1>4 DEF Other
<1> QED BY <1>1, <1>3, <1>5

\* A setup and a call are told apart by their type.
LEMMA MessageFacts ==
    /\ \A m \in Calls : m.t \notin SetupTypes
    /\ \A m \in Setups : m.role \in {"pub", "sub", "relay", "none"} /\ m.t \in SetupTypes
    /\ \A t, ok, r : /\ Setup(t, ok, r).t = t /\ Setup(t, ok, r).role = r
    /\ \A t \in SetupTypes, r \in {"pub", "sub", "relay", "none"} : Setup(t, TRUE, r) \in Setups
    BY DEF Calls, Call, Setups, Setup, SetupTypes

LEMMA SeqFacts ==
    ASSUME NEW T, NEW s \in Seq(T)
    PROVE  /\ s # << >> => Head(s) \in T /\ Tail(s) \in Seq(T)
           /\ \A m \in T : Append(s, m) \in Seq(T)
    OBVIOUS

\* The first message of an inbox.
LEMMA InboxFacts ==
    ASSUME TypeOK, NEW e \in Ends, inbox[e] # << >>
    PROVE  /\ Head(inbox[e]) \in Setups \cup Calls
           /\ Head(inbox[e]).t \in SetupTypes => Head(inbox[e]).role \in {"pub", "sub", "relay", "none"}
           /\ [inbox EXCEPT ![e] = Tail(@)] \in [Ends -> Seq(Setups \cup Calls)]
<1>1. inbox \in [Ends -> Seq(Setups \cup Calls)] /\ inbox[e] \in Seq(Setups \cup Calls)
      BY DEF TypeOK
<1>2. Head(inbox[e]) \in Setups \cup Calls /\ Tail(inbox[e]) \in Seq(Setups \cup Calls)
      BY <1>1
<1> QED BY <1>1, <1>2, MessageFacts

\* What the writer does to the other end's inbox, whether the message is lost or not.
LEMMA WriteFacts ==
    ASSUME TypeOK, NEW e \in Ends, NEW m \in Setups \cup Calls, WriteControlMessage(e, m)
    PROVE  /\ inbox' \in [Ends -> Seq(Setups \cup Calls)]
           /\ inbox'[e] = inbox[e]
           /\ inbox'[Other(e)] = inbox[Other(e)] \/ inbox'[Other(e)] = Append(inbox[Other(e)], m)
<1>1. inbox \in [Ends -> Seq(Setups \cup Calls)]
      BY DEF TypeOK
<1>2. Other(e) \in Ends /\ Other(e) # e
      BY EndFacts
<1>3. Append(inbox[Other(e)], m) \in Seq(Setups \cup Calls)
      BY <1>1, <1>2
<1> QED BY <1>1, <1>2, <1>3 DEF WriteControlMessage

\* The steps.
LEMMA StepCases ==
    ASSUME [Next]_vars
    PROVE  \/ OpenStream \/ OpenStreamFails \/ SendClientSetup \/ AcceptStream \/ StopAccepting
           \/ DialReturns \/ ForeignOpens \/ RemoveSubscriber \/ FanOut \/ FanOutEnds
           \/ \E e \in Ends : \/ ServeEnds(e) \/ ServeCloses(e) \/ SetRemoteRole(e) \/ SignalDone(e)
                              \/ SendServerSetup(e) \/ RejectSetup(e) \/ handleControlMessage(e)
                              \/ Deliver(e) \/ MainCloses(e)
           \/ \E e \in Ends : \/ DoHandleAccept(e) \/ DoHandleRetry(e) \/ DoHandleParse(e)
                              \/ ConnLost(e) \/ ForeignEnds(e)
           \/ \E e \in Ends : \E m \in Setups \cup Calls : Send(e, m)
           \/ UNCHANGED vars
    BY DEF Next, Main, ServeCS

-----------------------------------------------------------------------------
\* The steps keep the types.
LEMMA TypeStep ==
    ASSUME TypeOK, [Next]_vars
    PROVE  TypeOK'
<1> USE DEF csVars, parties
<1>0. Ends = {"client", "server"} /\ SetupTypes = {"CLIENT_SETUP", "SERVER_SETUP"}
      BY DEF Ends, SetupTypes
<1>1. CASE OpenStream
      BY <1>0, <1>1 DEF OpenStream, TypeOK
<1>2. CASE OpenStreamFails
      BY <1>0, <1>2 DEF OpenStreamFails, CloseConn, TypeOK
<1>3. CASE SendClientSetup
      <2>1. Setup("CLIENT_SETUP", TRUE, role) \in Setups
            BY <1>0, MessageFacts DEF TypeOK
      <2>2. inbox' \in [Ends -> Seq(Setups \cup Calls)]
            BY <1>0, <1>3, <2>1, WriteFacts DEF SendClientSetup
      <2> QED BY <1>0, <1>3, <2>2 DEF SendClientSetup, TypeOK
<1>4. CASE AcceptStream
      BY <1>0, <1>4 DEF AcceptStream, TypeOK
<1>5. CASE StopAccepting
      BY <1>0, <1>5 DEF StopAccepting, CloseConn, TypeOK
<1>6. CASE DialReturns
      BY <1>0, <1>6 DEF DialReturns, TypeOK
<1>7. CASE ForeignOpens
      BY <1>0, <1>7 DEF ForeignOpens, TypeOK
<1>7a. CASE RemoveSubscriber \/ FanOut \/ FanOutEnds
      <2>1. CASE RemoveSubscriber
            BY <1>0, <2>1 DEF RemoveSubscriber, TypeOK
      <2>2. CASE FanOut \/ FanOutEnds
            <3>1. fanout' \in BOOLEAN
                  BY <2>2, Zenon DEF FanOut, FanOutEnds
            <3>2. UNCHANGED <<own, role, web, conn, ctx, sessions, streams, inbox, ended, main, cs,
                              hsdone, remote, signal, closes, handle, retry, dial, sent>>
                  BY <2>2 DEF FanOut, FanOutEnds
            <3> QED BY <3>1, <3>2 DEF TypeOK
      <2> QED BY <1>7a, <2>1, <2>2
<1>8. ASSUME NEW e \in Ends, ServeEnds(e) \/ SignalDone(e) \/ Deliver(e) PROVE TypeOK'
      <2>1. CASE ServeEnds(e)
            BY <1>0, <2>1 DEF ServeEnds, TypeOK
      <2>2. CASE SignalDone(e)
            BY <1>0, <2>2 DEF SignalDone, TypeOK
      <2>3. CASE Deliver(e)
            BY <1>0, <2>3 DEF Deliver, TypeOK
      <2> QED BY <1>8, <2>1, <2>2, <2>3
<1>9. ASSUME NEW e \in Ends, ServeCloses(e) \/ MainCloses(e) PROVE TypeOK'
      <2>1. closes' \in [Ends -> Nat]
            <3>1. HandleClose(e) /\ closes \in [Ends -> Nat]
                  BY <1>9 DEF ServeCloses, MainCloses, CloseHandler, TypeOK
            <3>2. closes[e] + 1 \in Nat /\ 0 \in Nat
                  BY <3>1
            <3> QED BY <3>1, <3>2 DEF HandleClose
      <2>2. CASE ServeCloses(e)
            BY <1>0, <2>1, <2>2 DEF ServeCloses, CloseHandler, TypeOK
      <2>3. CASE MainCloses(e)
            BY <1>0, <2>1, <2>3 DEF MainCloses, CloseHandler, TypeOK
      <2> QED BY <1>9, <2>2, <2>3
<1>10. ASSUME NEW e \in Ends, SetRemoteRole(e) PROVE TypeOK'
      <2>1. inbox' \in [Ends -> Seq(Setups \cup Calls)]
            BY <1>0, <1>10, InboxFacts DEF SetRemoteRole, Received
      <2>2. cs' \in [Ends -> {"nil", "read", "answer", "deliver", "close", "end"} \cup SetupTypes]
            BY <1>0, <1>10 DEF SetRemoteRole, TypeOK
      <2>3. remote' \in [Ends -> {"pub", "sub", "relay", "none"}]
            BY <1>0, <1>10, InboxFacts DEF SetRemoteRole, Received, TypeOK
      <2>4. hsdone' \in [Ends -> BOOLEAN]
            BY <1>0, <1>10 DEF SetRemoteRole, TypeOK
      <2> QED BY <1>0, <1>10, <2>1, <2>2, <2>3, <2>4 DEF SetRemoteRole, Received, TypeOK
<1>11. ASSUME NEW e \in Ends, SendServerSetup(e) PROVE TypeOK'
      <2>1. Setup("SERVER_SETUP", TRUE, LocalRole(e)) \in Setups
            BY <1>0, MessageFacts DEF TypeOK, LocalRole
      <2>2. inbox' \in [Ends -> Seq(Setups \cup Calls)]
            BY <1>11, <2>1, WriteFacts DEF SendServerSetup
      <2> QED BY <1>0, <1>11, <2>2 DEF SendServerSetup, TypeOK
<1>12. ASSUME NEW e \in Ends, RejectSetup(e) PROVE TypeOK'
      BY <1>0, <1>12, InboxFacts DEF RejectSetup, Received, CloseConn, TypeOK
<1>13. ASSUME NEW e \in Ends, handleControlMessage(e) PROVE TypeOK'
      <2>1. conn' \in [Ends -> BOOLEAN]
            BY <1>13 DEF handleControlMessage, TypeOK
      <2>2. cs' \in [Ends -> {"nil", "read", "answer", "deliver", "close", "end"} \cup SetupTypes]
            BY <1>0, <1>13 DEF handleControlMessage, TypeOK
      <2>3. inbox' \in [Ends -> Seq(Setups \cup Calls)]
            BY <1>13, InboxFacts DEF handleControlMessage, Received
      <2>4. UNCHANGED <<own, role, web, fanout, sessions, streams, ended, main, signal, closes, handle,
                        retry, dial, sent, ctx, hsdone, remote>>
            BY <1>13 DEF handleControlMessage, Received
      <2> QED BY <2>1, <2>2, <2>3, <2>4 DEF TypeOK
<1>14. ASSUME NEW e \in Ends, DoHandleAccept(e) \/ DoHandleRetry(e) \/ DoHandleParse(e) PROVE TypeOK'
      <2>1. CASE DoHandleAccept(e)
            BY <2>1 DEF DoHandleAccept, TypeOK
      <2>2. CASE DoHandleRetry(e)
            <3>1. retry[e] + 1 \in Nat
                  BY DEF TypeOK
            <3> QED BY <2>2, <3>1 DEF DoHandleRetry, TypeOK
      <2>3. CASE DoHandleParse(e)
            BY <2>3 DEF DoHandleParse, TypeOK
      <2> QED BY <1>14, <2>1, <2>2, <2>3
<1>15. ASSUME NEW e \in Ends, ConnLost(e) PROVE TypeOK'
      BY <1>0, <1>15 DEF ConnLost, TypeOK
<1>16. ASSUME NEW e \in Ends, ForeignEnds(e) PROVE TypeOK'
      BY <1>0, <1>16, EndFacts, SessionAssumption DEF ForeignEnds, TypeOK
<1>17. ASSUME NEW e \in Ends, NEW m \in Setups \cup Calls, Send(e, m) PROVE TypeOK'
      <2>1. inbox' \in [Ends -> Seq(Setups \cup Calls)]
            BY <1>17, WriteFacts DEF Send
      <2> QED BY <1>0, <1>17, <2>1 DEF Send, TypeOK
<1>18. CASE UNCHANGED vars
      BY <1>18 DEF vars, TypeOK
<1> QED BY <1>1, <1>2, <1>3, <1>4, <1>5, <1>6, <1>7, <1>7a, <1>8, <1>9, <1>10, <1>11, <1>12, <1>13, <1>14,
           <1>15, <1>16, <1>17, <1>18, StepCases

-----------------------------------------------------------------------------
\* Closing.

\* A connection that is gone stays so.
LEMMA ConnStaysClosed ==
    ASSUME TypeOK, [Next]_vars, NEW e \in Ends, ~conn[e]
    PROVE  ~conn'[e]
<1> USE DEF csVars, parties
<1>0. conn \in [Ends -> BOOLEAN]
      BY DEF TypeOK
<1>1. CASE OpenStreamFails \/ StopAccepting
      BY <1>0, <1>1 DEF OpenStreamFails, StopAccepting, CloseConn
<1>2. ASSUME NEW x \in Ends, RejectSetup(x) \/ ConnLost(x) PROVE ~conn'[e]
      BY <1>0, <1>2 DEF RejectSetup, ConnLost, CloseConn
<1>3. ASSUME NEW x \in Ends, handleControlMessage(x) PROVE ~conn'[e]
      BY <1>0, <1>3 DEF handleControlMessage
<1>4. CASE \/ OpenStream \/ SendClientSetup \/ AcceptStream \/ DialReturns \/ ForeignOpens
           \/ RemoveSubscriber \/ FanOut \/ FanOutEnds \/ UNCHANGED vars
      BY <1>4 DEF OpenStream, SendClientSetup, AcceptStream, DialReturns, ForeignOpens,
         RemoveSubscriber, FanOut, FanOutEnds, vars
<1>5. ASSUME NEW x \in Ends,
             \/ ServeEnds(x) \/ ServeCloses(x) \/ SetRemoteRole(x) \/ SignalDone(x)
             \/ SendServerSetup(x) \/ Deliver(x) \/ MainCloses(x)
             \/ DoHandleAccept(x) \/ DoHandleRetry(x) \/ DoHandleParse(x) \/ ForeignEnds(x)
             \/ \E m \in Setups \cup Calls : Send(x, m)
      PROVE  UNCHANGED conn
      BY <1>5 DEF ServeEnds, ServeCloses, SetRemoteRole, SignalDone, SendServerSetup, Deliver,
         MainCloses, CloseHandler, DoHandleAccept, DoHandleRetry, DoHandleParse, ForeignEnds, Send
<1> QED BY <1>1, <1>2, <1>3, <1>4, <1>5, StepCases

LEMMA CloseStep ==
    ASSUME TypeOK, CloseInv, [Next]_vars
    PROVE  CloseInv'
<1> USE DEF csVars, parties
<1>0. /\ Ends = {"client", "server"} /\ SetupTypes = {"CLIENT_SETUP", "SERVER_SETUP"}
      /\ main \in [Ends -> {"open", "write", "accept", "close", "lock", "end"}]
      /\ cs \in [Ends -> {"nil", "read", "answer", "deliver", "close", "end"} \cup SetupTypes]
      /\ closes \in [Ends -> Nat] /\ conn \in [Ends -> BOOLEAN]
      BY DEF Ends, SetupTypes, TypeOK
<1>a. \A e \in Ends : ~conn[e] => ~conn'[e]
      BY ConnStaysClosed
<1>1. CASE OpenStream \/ OpenStreamFails \/ SendClientSetup
      <2>1. UNCHANGED closes
            BY <1>1 DEF OpenStream, OpenStreamFails, SendClientSetup
      <2>2. CASE OpenStream
            BY <1>0, <1>a, <2>1, <2>2 DEF OpenStream, CloseInv
      <2>3. CASE OpenStreamFails
            BY <1>0, <1>a, <2>1, <2>3 DEF OpenStreamFails, CloseConn, CloseInv
      <2>4. CASE SendClientSetup
            BY <1>0, <1>a, <2>1, <2>4 DEF SendClientSetup, CloseInv
      <2> QED BY <1>1, <2>2, <2>3, <2>4
<1>2. CASE AcceptStream
      BY <1>0, <1>a, <1>2 DEF AcceptStream, CloseInv
<1>3. CASE StopAccepting
      BY <1>0, <1>a, <1>3 DEF StopAccepting, CloseConn, CloseInv
<1>4. ASSUME NEW e \in Ends, ServeCloses(e) PROVE CloseInv'
      <2>1. closes'[e] \in {0, 1} /\ \A x \in Ends \ {e} : closes'[x] = closes[x]
            BY <1>0, <1>4 DEF ServeCloses, CloseHandler, HandleClose, CloseInv
      <2>2. /\ cs[e] = "close" /\ cs'[e] = "read" /\ \A x \in Ends \ {e} : cs'[x] = cs[x]
            /\ UNCHANGED <<main, conn>>
            BY <1>0, <1>4 DEF ServeCloses, CloseHandler
      <2> QED BY <1>0, <2>1, <2>2 DEF CloseInv
<1>5. ASSUME NEW e \in Ends, MainCloses(e) PROVE CloseInv'
      <2>1. /\ closes'[e] = IF LocalRole(e) = "relay" THEN 0 ELSE closes[e] + 1
            /\ \A x \in Ends \ {e} : closes'[x] = closes[x]
            BY <1>0, <1>5 DEF MainCloses, CloseHandler, HandleClose
      <2>2. /\ main[e] \in {"close", "lock"} /\ main'[e] = "end" /\ \A x \in Ends \ {e} : main'[x] = main[x]
            /\ UNCHANGED <<cs, conn>>
            BY <1>0, <1>5 DEF MainCloses, CloseHandler
      <2>3. CASE e = "client"
            BY <1>0, <2>1, <2>2, <2>3 DEF CloseInv
      <2>4. CASE e = "server"
            BY <1>0, <2>1, <2>2, <2>4 DEF CloseInv, LocalRole
      <2> QED BY <1>0, <2>3, <2>4
<1>6. ASSUME NEW e \in Ends,
             \/ ServeEnds(e) \/ SetRemoteRole(e) \/ SignalDone(e)
             \/ SendServerSetup(e) \/ RejectSetup(e) \/ handleControlMessage(e) \/ Deliver(e)
      PROVE  CloseInv'
      <2>1. /\ UNCHANGED <<main, closes>> /\ cs[e] # "nil"
            /\ \A x \in Ends \ {e} : cs'[x] = cs[x]
            BY <1>0, <1>6 DEF ServeEnds, SetRemoteRole, SignalDone, SendServerSetup, RejectSetup,
               handleControlMessage, Deliver, Received
      <2>2. \/ cs'[e] = "end" /\ ServeEnds(e)
            \/ conn[e] /\ cs[e] = "read" /\ cs'[e] # "close"
            \/ conn[e] /\ cs[e] = "read" /\ ~conn'[e] /\ cs'[e] = "close"
            \/ cs[e] \in SetupTypes \cup {"answer", "deliver"} /\ cs'[e] \in {"read", "answer"}
            <3>1. CASE ServeEnds(e)
                  BY <1>0, <3>1 DEF ServeEnds
            <3>2. CASE SetRemoteRole(e)
                  BY <1>0, <3>2 DEF SetRemoteRole, Received
            <3>3. CASE SignalDone(e) \/ SendServerSetup(e) \/ Deliver(e)
                  BY <1>0, <3>3 DEF SignalDone, SendServerSetup, Deliver
            <3>4. CASE RejectSetup(e)
                  BY <1>0, <3>4 DEF RejectSetup, Received, CloseConn
            <3>5. CASE handleControlMessage(e)
                  BY <1>0, <3>5 DEF handleControlMessage, Received
            <3> QED BY <1>6, <3>1, <3>2, <3>3, <3>4, <3>5
      <2>3. closes[e] = 1 => cs'[e] \in {"nil", "read", "end"}
            BY <1>0, <2>2 DEF CloseInv
      <2>4. cs'[e] = "close" => ~conn'[e] /\ closes[e] = 0
            BY <1>0, <2>2 DEF CloseInv
      <2> QED BY <1>0, <1>a, <2>1, <2>3, <2>4 DEF CloseInv
<1>7. ASSUME UNCHANGED <<main, cs, closes>> PROVE CloseInv'
      BY <1>a, <1>7 DEF CloseInv
<1>8. CASE DialReturns \/ ForeignOpens \/ FanOut \/ FanOutEnds \/ UNCHANGED vars
      BY <1>7, <1>8 DEF DialReturns, ForeignOpens, FanOut, FanOutEnds, vars
<1>8a. CASE RemoveSubscriber
      BY <1>0, <1>8a DEF RemoveSubscriber, CloseInv
<1>9. ASSUME NEW e \in Ends,
             \/ DoHandleAccept(e) \/ DoHandleRetry(e) \/ DoHandleParse(e)
             \/ ConnLost(e) \/ ForeignEnds(e) \/ \E m \in Setups \cup Calls : Send(e, m)
      PROVE  CloseInv'
      <2>1. UNCHANGED <<main, cs, closes>>
            BY <1>9 DEF DoHandleAccept, DoHandleRetry, DoHandleParse, ConnLost, ForeignEnds, Send
      <2> QED BY <1>7, <2>1
<1> QED BY <1>1, <1>2, <1>3, <1>4, <1>5, <1>6, <1>8, <1>8a, <1>9, StepCases

-----------------------------------------------------------------------------
\* The signal.
LEMMA SignalStep ==
    ASSUME TypeOK, SignalInv, [Next]_vars
    PROVE  SignalInv'
<1> USE DEF csVars, parties
<1>0. /\ Ends = {"client", "server"} /\ SetupTypes = {"CLIENT_SETUP", "SERVER_SETUP"}
      /\ cs \in [Ends -> {"nil", "read", "answer", "deliver", "close", "end"} \cup SetupTypes]
      /\ hsdone \in [Ends -> BOOLEAN] /\ signal \in [Ends -> BOOLEAN]
      BY DEF Ends, SetupTypes, TypeOK
<1>1. CASE OpenStream \/ AcceptStream
      BY <1>0, <1>1 DEF OpenStream, AcceptStream, SignalInv
<1>2. CASE DialReturns
      BY <1>0, <1>2 DEF DialReturns, SignalInv
<1>3. ASSUME NEW e \in Ends, SetRemoteRole(e) PROVE SignalInv'
      <2>1. /\ ~hsdone[e] /\ hsdone' = [hsdone EXCEPT ![e] = TRUE] /\ UNCHANGED signal
            /\ \A x \in Ends \ {e} : cs'[x] = cs[x]
            BY <1>0, <1>3 DEF SetRemoteRole, Received
      <2> QED BY <1>0, <2>1 DEF SignalInv
<1>4. ASSUME NEW e \in Ends, SignalDone(e) PROVE SignalInv'
      BY <1>0, <1>4 DEF SignalDone, SignalInv
<1>5. ASSUME NEW e \in Ends,
             \/ ServeEnds(e) \/ ServeCloses(e) \/ SendServerSetup(e) \/ RejectSetup(e)
             \/ handleControlMessage(e) \/ Deliver(e)
      PROVE  SignalInv'
      <2>1. /\ UNCHANGED <<hsdone, signal>> /\ cs'[e] \notin SetupTypes
            /\ \A x \in Ends \ {e} : cs'[x] = cs[x]
            BY <1>0, <1>5 DEF ServeEnds, ServeCloses, CloseHandler, SendServerSetup, RejectSetup,
               handleControlMessage, Received, Deliver
      <2> QED BY <1>0, <2>1 DEF SignalInv
<1>6. CASE \/ OpenStreamFails \/ SendClientSetup \/ StopAccepting \/ ForeignOpens
           \/ RemoveSubscriber \/ FanOut \/ FanOutEnds \/ UNCHANGED vars
      BY <1>6 DEF OpenStreamFails, SendClientSetup, StopAccepting, ForeignOpens, RemoveSubscriber,
         FanOut, FanOutEnds, vars, SignalInv
<1>7. ASSUME NEW e \in Ends,
             \/ MainCloses(e) \/ DoHandleAccept(e) \/ DoHandleRetry(e) \/ DoHandleParse(e)
             \/ ConnLost(e) \/ ForeignEnds(e) \/ \E m \in Setups \cup Calls : Send(e, m)
      PROVE  SignalInv'
      <2>1. UNCHANGED <<cs, hsdone, signal>>
            BY <1>7 DEF MainCloses, CloseHandler, DoHandleAccept, DoHandleRetry, DoHandleParse, ConnLost,
               ForeignEnds, Send
      <2> QED BY <2>1 DEF SignalInv
<1> QED BY <1>1, <1>2, <1>3, <1>4, <1>5, <1>6, <1>7, StepCases

-----------------------------------------------------------------------------
\* Agreement.

\* The parts of AgreeInv, when both ends run this code.
LEMMA AgreeFacts ==
    ASSUME TypeOK, AgreeInv, own = Ends
    PROVE  /\ inbox["server"] \in Seq({Setup("CLIENT_SETUP", TRUE, role)})
           /\ inbox["client"] \in Seq(Calls \cup {Setup("SERVER_SETUP", TRUE, "relay")})
           /\ inbox["server"] # << >> => Head(inbox["server"]) = Setup("CLIENT_SETUP", TRUE, role)
           /\ inbox["client"] # << >> =>
                 /\ hsdone["server"]
                 /\ \/ Head(inbox["client"]).t \notin SetupTypes
                    \/ Head(inbox["client"]) = Setup("SERVER_SETUP", TRUE, "relay")
<1>1. /\ inbox["server"] \in Seq({Setup("CLIENT_SETUP", TRUE, role)})
      /\ inbox["client"] \in Seq(Calls \cup {Setup("SERVER_SETUP", TRUE, "relay")})
      /\ ~hsdone["server"] => inbox["client"] = << >>
      BY DEF AgreeInv
<1>2. inbox["server"] # << >> => Head(inbox["server"]) = Setup("CLIENT_SETUP", TRUE, role)
      <2>1. inbox["server"] # << >> => Head(inbox["server"]) \in {Setup("CLIENT_SETUP", TRUE, role)}
            BY <1>1, SeqFacts
      <2> QED BY <2>1
<1>3. inbox["client"] # << >> =>
         Head(inbox["client"]) \in Calls \cup {Setup("SERVER_SETUP", TRUE, "relay")}
      BY <1>1, SeqFacts
<1> QED BY <1>1, <1>2, <1>3, MessageFacts

LEMMA AgreeStep ==
    ASSUME TypeOK, SignalInv, AgreeInv, [Next]_vars
    PROVE  AgreeInv'
<1> USE DEF csVars, parties
<1>a. UNCHANGED <<own, role>>
      BY StepCases DEF OpenStream, OpenStreamFails, SendClientSetup, AcceptStream, StopAccepting,
         DialReturns, ForeignOpens, RemoveSubscriber, FanOut, FanOutEnds, ServeEnds, ServeCloses, SetRemoteRole, SignalDone, SendServerSetup,
         RejectSetup, handleControlMessage, Received, Deliver, MainCloses, CloseHandler, DoHandleAccept,
         DoHandleRetry, DoHandleParse, ConnLost, ForeignEnds, Send, vars
<1> SUFFICES ASSUME own = Ends PROVE AgreeInv'
    BY <1>a DEF AgreeInv
<1> DEFINE S == {Setup("CLIENT_SETUP", TRUE, role)}
           C == Calls \cup {Setup("SERVER_SETUP", TRUE, "relay")}
<1>0. /\ Ends = {"client", "server"} /\ SetupTypes = {"CLIENT_SETUP", "SERVER_SETUP"}
      /\ cs \in [Ends -> {"nil", "read", "answer", "deliver", "close", "end"} \cup SetupTypes]
      /\ hsdone \in [Ends -> BOOLEAN] /\ signal \in [Ends -> BOOLEAN]
      /\ remote \in [Ends -> {"pub", "sub", "relay", "none"}]
      /\ inbox \in [Ends -> Seq(Setups \cup Calls)]
      BY DEF Ends, SetupTypes, TypeOK
<1>b. /\ inbox["server"] \in Seq(S)
      /\ inbox["client"] \in Seq(C)
      /\ ~hsdone["server"] => inbox["client"] = << >> /\ remote["server"] = "none"
      /\ hsdone["server"] => remote["server"] = role
      /\ cs["server"] = "answer" => hsdone["server"]
      /\ cs["client"] \notin {"CLIENT_SETUP", "answer"}
      /\ hsdone["client"] => hsdone["server"] /\ remote["client"] = "relay"
      /\ dial = "ok" => hsdone["client"]
      BY DEF AgreeInv
<1> HIDE DEF S, C
<1>c. ASSUME inbox'["server"] \in Seq(S), inbox'["client"] \in Seq(C),
             ~hsdone'["server"] => inbox'["client"] = << >> /\ remote'["server"] = "none",
             hsdone'["server"] => remote'["server"] = role,
             cs'["server"] = "answer" => hsdone'["server"],
             cs'["client"] \notin {"CLIENT_SETUP", "answer"},
             hsdone'["client"] => hsdone'["server"] /\ remote'["client"] = "relay",
             dial' = "ok" => hsdone'["client"]
      PROVE  AgreeInv'
      BY <1>a, <1>c DEF AgreeInv, S, C
\* The steps that leave the inboxes and what the ends know alone.
<1>d. ASSUME UNCHANGED <<inbox, hsdone, remote>>, UNCHANGED dial,
             cs'["server"] = "answer" => hsdone["server"],
             cs'["client"] \notin {"CLIENT_SETUP", "answer"}
      PROVE  AgreeInv'
      BY <1>b, <1>c, <1>d
<1>1. CASE \/ OpenStream \/ OpenStreamFails \/ AcceptStream \/ StopAccepting \/ ForeignOpens
           \/ RemoveSubscriber \/ FanOut \/ FanOutEnds \/ UNCHANGED vars
      <2>1. /\ UNCHANGED <<inbox, hsdone, remote, dial>>
            /\ \A e \in Ends : cs'[e] = cs[e] \/ cs'[e] = "read"
            BY <1>0, <1>1 DEF OpenStream, OpenStreamFails, AcceptStream, StopAccepting, ForeignOpens,
               RemoveSubscriber, FanOut, FanOutEnds, vars
      <2> QED BY <1>0, <1>b, <1>d, <2>1
<1>2. CASE SendClientSetup
      <2>1. /\ UNCHANGED <<hsdone, remote, dial, cs>>
            /\ WriteControlMessage("client", Setup("CLIENT_SETUP", TRUE, role))
            BY <1>2 DEF SendClientSetup
      <2>2. Setup("CLIENT_SETUP", TRUE, role) \in Setups /\ Setup("CLIENT_SETUP", TRUE, role) \in S
            BY <1>0, MessageFacts DEF TypeOK, S
      <2>3. /\ inbox'["client"] = inbox["client"]
            /\ \/ inbox'["server"] = inbox["server"]
               \/ inbox'["server"] = Append(inbox["server"], Setup("CLIENT_SETUP", TRUE, role))
            <3>1. "client" \in Ends /\ Other("client") = "server"
                  BY EndFacts
            <3>2. /\ inbox'["client"] = inbox["client"]
                  /\ \/ inbox'[Other("client")] = inbox[Other("client")]
                     \/ inbox'[Other("client")]
                           = Append(inbox[Other("client")], Setup("CLIENT_SETUP", TRUE, role))
                  BY <2>1, <2>2, <3>1, WriteFacts, Zenon
            <3> QED BY <3>1, <3>2, Zenon
      <2>4. inbox'["server"] \in Seq(S)
            BY <1>b, <2>2, <2>3, SeqFacts
      <2> QED BY <1>b, <1>c, <2>1, <2>3, <2>4
<1>3. CASE DialReturns
      <2>1. UNCHANGED <<inbox, hsdone, remote, cs>> /\ (dial' = "ok" => hsdone["client"])
            BY <1>0, <1>3 DEF DialReturns, SignalInv
      <2> QED BY <1>b, <1>c, <2>1
<1>4. ASSUME NEW e \in Ends,
             \/ ServeEnds(e) \/ ServeCloses(e) \/ SignalDone(e) \/ Deliver(e) \/ MainCloses(e)
             \/ DoHandleAccept(e) \/ DoHandleRetry(e) \/ DoHandleParse(e) \/ ForeignEnds(e)
      PROVE  AgreeInv'
      <2>1. UNCHANGED <<inbox, hsdone, remote>> /\ UNCHANGED dial
            BY <1>4 DEF ServeEnds, ServeCloses, CloseHandler, SignalDone, Deliver, MainCloses,
               DoHandleAccept, DoHandleRetry, DoHandleParse, ForeignEnds
      <2>2. CASE SignalDone(e)
            BY <1>0, <1>b, <1>d, <2>1, <2>2 DEF SignalDone, SignalInv
      <2>3. CASE ~SignalDone(e)
            <3>1. \A x \in Ends : cs'[x] = cs[x] \/ cs'[x] \in {"read", "end"}
                  BY <1>0, <1>4, <2>3 DEF ServeEnds, ServeCloses, CloseHandler, Deliver, MainCloses,
                     DoHandleAccept, DoHandleRetry, DoHandleParse, ForeignEnds
            <3> QED BY <1>0, <1>b, <1>d, <2>1, <3>1
      <2> QED BY <2>2, <2>3
<1>5. ASSUME NEW e \in Ends, SetRemoteRole(e) PROVE AgreeInv'
      <2>1. /\ ~hsdone[e] /\ hsdone' = [hsdone EXCEPT ![e] = TRUE] /\ UNCHANGED dial
            /\ inbox[e] # << >> /\ inbox' = [inbox EXCEPT ![e] = Tail(@)]
            /\ Head(inbox[e]).t \in SetupTypes
            /\ remote' = [remote EXCEPT ![e] = Head(inbox[e]).role]
            /\ cs' = [cs EXCEPT ![e] = Head(inbox[e]).t]
            BY <1>5 DEF SetRemoteRole, Received
      <2>2. CASE e = "server"
            <3>1. Head(inbox["server"]).role = role /\ Head(inbox["server"]).t = "CLIENT_SETUP"
                  <4>1. inbox["server"] # << >>
                        BY <2>1, <2>2
                  <4>2. Head(inbox["server"]) = Setup("CLIENT_SETUP", TRUE, role)
                        BY <4>1, AgreeFacts
                  <4>3. /\ Setup("CLIENT_SETUP", TRUE, role).role = role
                        /\ Setup("CLIENT_SETUP", TRUE, role).t = "CLIENT_SETUP"
                        BY DEF Setup
                  <4> QED BY <4>2, <4>3
            <3>2. inbox'["server"] \in Seq(S) /\ inbox'["client"] = inbox["client"]
                  BY <1>0, <1>b, <2>1, <2>2
            <3>3. /\ hsdone'["server"] /\ hsdone'["client"] = hsdone["client"]
                  /\ remote'["server"] = role /\ remote'["client"] = remote["client"]
                  /\ cs'["server"] = "CLIENT_SETUP" /\ cs'["client"] = cs["client"]
                  BY <1>0, <2>1, <2>2, <3>1
            <3> QED BY <1>b, <1>c, <2>1, <3>2, <3>3
      <2>3. CASE e = "client"
            <3>1. /\ Head(inbox["client"]).role = "relay" /\ Head(inbox["client"]).t = "SERVER_SETUP"
                  /\ hsdone["server"]
                  <4>1. inbox["client"] # << >> /\ Head(inbox["client"]).t \in SetupTypes
                        BY <2>1, <2>3
                  <4>2. Head(inbox["client"]) = Setup("SERVER_SETUP", TRUE, "relay") /\ hsdone["server"]
                        BY <4>1, AgreeFacts
                  <4>3. /\ Setup("SERVER_SETUP", TRUE, "relay").role = "relay"
                        /\ Setup("SERVER_SETUP", TRUE, "relay").t = "SERVER_SETUP"
                        BY DEF Setup
                  <4> QED BY <4>2, <4>3
            <3>2. inbox'["client"] \in Seq(C) /\ inbox'["server"] = inbox["server"]
                  BY <1>0, <1>b, <2>1, <2>3
            <3>3. /\ hsdone'["client"] /\ hsdone'["server"] = hsdone["server"]
                  /\ remote'["client"] = "relay" /\ remote'["server"] = remote["server"]
                  /\ cs'["client"] = "SERVER_SETUP" /\ cs'["server"] = cs["server"]
                  BY <1>0, <2>1, <2>3, <3>1
            <3> QED BY <1>b, <1>c, <2>1, <3>1, <3>2, <3>3
      <2> QED BY <1>0, <2>2, <2>3
<1>6. ASSUME NEW e \in Ends, RejectSetup(e) \/ handleControlMessage(e) \/ ConnLost(e) PROVE AgreeInv'
      <2>1. /\ UNCHANGED <<hsdone, remote, dial>>
            /\ \A x \in Ends : cs'[x] = cs[x] \/ cs'[x] \in {"close", "deliver", "read"}
            BY <1>0, <1>6 DEF RejectSetup, handleControlMessage, Received, ConnLost
      <2>2. \A x \in Ends : \/ inbox'[x] = inbox[x] \/ inbox'[x] = << >>
                            \/ inbox[x] # << >> /\ inbox'[x] = Tail(inbox[x])
            BY <1>0, <1>6 DEF RejectSetup, handleControlMessage, Received, ConnLost
      <2>3. inbox'["server"] \in Seq(S)
            <3>1. << >> \in Seq(S)
                  OBVIOUS
            <3>2. \/ inbox'["server"] = inbox["server"] \/ inbox'["server"] = << >>
                  \/ inbox["server"] # << >> /\ inbox'["server"] = Tail(inbox["server"])
                  BY <1>0, <2>2
            <3>3. inbox["server"] # << >> => Tail(inbox["server"]) \in Seq(S)
                  BY <1>b, SeqFacts
            <3> QED BY <1>b, <3>1, <3>2, <3>3, Zenon
      <2>4. inbox'["client"] \in Seq(C)
            <3>1. << >> \in Seq(C)
                  OBVIOUS
            <3>2. \/ inbox'["client"] = inbox["client"] \/ inbox'["client"] = << >>
                  \/ inbox["client"] # << >> /\ inbox'["client"] = Tail(inbox["client"])
                  BY <1>0, <2>2
            <3>3. inbox["client"] # << >> => Tail(inbox["client"]) \in Seq(C)
                  BY <1>b, SeqFacts
            <3> QED BY <1>b, <3>1, <3>2, <3>3, Zenon
      <2>5. inbox["client"] = << >> => inbox'["client"] = << >>
            BY <1>0, <2>2
      <2> QED BY <1>0, <1>b, <1>c, <2>1, <2>3, <2>4, <2>5
<1>7. ASSUME NEW e \in Ends, NEW m \in Setups \cup Calls, WriteControlMessage(e, m),
             UNCHANGED <<hsdone, remote, dial>>, e = "server", hsdone["server"], m \in C,
             \A x \in Ends : cs'[x] = cs[x] \/ cs'[x] = "read"
      PROVE  AgreeInv'
      <2>1. /\ inbox'["server"] = inbox["server"]
            /\ \/ inbox'["client"] = inbox["client"] \/ inbox'["client"] = Append(inbox["client"], m)
            BY <1>7, WriteFacts, EndFacts
      <2>2. inbox'["client"] \in Seq(C)
            BY <1>b, <1>7, <2>1
      <2> QED BY <1>0, <1>b, <1>c, <1>7, <2>1, <2>2
<1>8. ASSUME NEW e \in Ends, SendServerSetup(e) PROVE AgreeInv'
      <2>1. /\ cs[e] = "answer" /\ UNCHANGED <<hsdone, remote, dial>>
            /\ WriteControlMessage(e, Setup("SERVER_SETUP", TRUE, LocalRole(e)))
            /\ \A x \in Ends : cs'[x] = cs[x] \/ cs'[x] = "read"
            BY <1>0, <1>8 DEF SendServerSetup
      <2>2. e = "server" /\ hsdone["server"]
            BY <1>0, <1>b, <2>1
      <2>3. /\ LocalRole(e) = "relay"
            /\ Setup("SERVER_SETUP", TRUE, "relay") \in Setups
            /\ Setup("SERVER_SETUP", TRUE, "relay") \in C
            BY <1>0, <2>2, MessageFacts DEF LocalRole, C
      <2> QED BY <1>7, <2>1, <2>2, <2>3
<1>9. ASSUME NEW e \in Ends, NEW m \in Setups \cup Calls, Send(e, m) PROVE AgreeInv'
      <2>1. /\ e = "server" /\ remote["server"] # "none" /\ m \in Calls
            /\ WriteControlMessage(e, m) /\ UNCHANGED <<hsdone, remote, dial, cs>>
            BY <1>9 DEF Send
      <2>2. hsdone["server"] /\ m \in C
            BY <1>b, <2>1 DEF C
      <2> QED BY <1>7, <2>1, <2>2
<1> QED BY <1>1, <1>2, <1>3, <1>4, <1>5, <1>6, <1>8, <1>9, StepCases

-----------------------------------------------------------------------------
LEMMA InitInv == Init => SessionInv
<1> SUFFICES ASSUME Init PROVE SessionInv
    OBVIOUS
<1>0. Ends = {"client", "server"} /\ SetupTypes = {"CLIENT_SETUP", "SERVER_SETUP"}
      BY DEF Ends, SetupTypes
<1>1. TypeOK
      <2>1. web \in BOOLEAN /\ fanout \in BOOLEAN
            BY Zenon DEF Init
      <2> QED BY <1>0, <2>1, SessionAssumption DEF Init, TypeOK
<1>2. CloseInv
      BY <1>0 DEF Init, CloseInv
<1>3. SignalInv
      BY <1>0 DEF Init, SignalInv
<1>4. AgreeInv
      BY <1>0 DEF Init, AgreeInv
<1> QED BY <1>1, <1>2, <1>3, <1>4 DEF SessionInv

LEMMA NextInv == SessionInv /\ [Next]_vars => SessionInv'
    BY TypeStep, CloseStep, SignalStep, AgreeStep DEF SessionInv

\* The inductive invariant of InitiateHandshake, handleControlStream, ServeCS and Close
\* holds throughout, whatever the other end sends and whenever the connection is lost.
THEOREM Invariance == Spec => []SessionInv
    BY InitInv, NextInv, PTL DEF Spec

\* HandleClose closes a handler's channel at most once and never before a send of
\* ServeCS: no handler panics.
THEOREM NoPanicOnChannels == Spec => []ChannelsClosedOnce
<1>1. SessionInv => ChannelsClosedOnce
      <2> SUFFICES ASSUME SessionInv, NEW e \in Ends
                   PROVE  closes[e] <= 1 /\ (cs[e] = "deliver" => closes[e] = 0)
          BY DEF ChannelsClosedOnce
      <2>1. closes[e] = 0 \/ (closes[e] = 1 /\ cs[e] # "deliver")
            BY DEF SessionInv, CloseInv
      <2> QED BY <2>1
<1> QED BY <1>1, Invariance, PTL

\* HandshakeDone has room when handleSetupMessage signals: ishandshakedone keeps every
\* later setup away from it.
THEOREM SignalNeverWaits == Spec => []HandshakeSignalledOnce
<1>1. SessionInv => HandshakeSignalledOnce
      BY DEF SessionInv, SignalInv, HandshakeSignalledOnce
<1> QED BY <1>1, Invariance, PTL

\* When Dial returns a session with this code's relay, the relay has accepted it under
\* the client's role and the client knows that it is a relay.
THEOREM DialAgrees == Spec => []DialMeansAgreement
<1>1. SessionInv => DialMeansAgreement
      BY DEF SessionInv, AgreeInv, DialMeansAgreement
<1> QED BY <1>1, Invariance, PTL
=============================================================================
