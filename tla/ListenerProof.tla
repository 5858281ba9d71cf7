---------------------------- MODULE ListenerProof -----------------------------
(***************************************************************************)
(* Proofs about Listener, for any connections, channel capacity and number *)
(* of streams: a connection is handled once, ProcesUniStreams passes the   *)
(* streams of an upgraded one on in order and loses one only for a reason  *)
(* it has, and settings in the shortest encoding are parsed as sent.       *)
(***************************************************************************)
EXTENDS Listener, WellFoundedInduction, TLAPS

-----------------------------------------------------------------------------
\* Sequences: what is taken from the head of the channel, and what is appended to it.

LEMMA SeqFacts ==
    ASSUME NEW S, NEW s \in Seq(S)
    PROVE  Len(s) \in Nat /\ DOMAIN s = 1 .. Len(s) /\ \A i \in 1 .. Len(s) : s[i] \in S
    OBVIOUS

LEMMA AppendFacts ==
    ASSUME NEW S, NEW s \in Seq(S), NEW e \in S
    PROVE  /\ Append(s, e) \in Seq(S)
           /\ Len(Append(s, e)) = Len(s) + 1
           /\ \A i \in 1 .. Len(s) : Append(s, e)[i] = s[i]
           /\ Append(s, e)[Len(s) + 1] = e
    OBVIOUS

LEMMA TailFacts ==
    ASSUME NEW S, NEW s \in Seq(S), s # << >>
    PROVE  /\ Tail(s) \in Seq(S) /\ Head(s) \in S /\ Head(s) = s[1]
           /\ Len(s) >= 1 /\ Len(Tail(s)) = Len(s) - 1
           /\ \A i \in 1 .. Len(s) - 1 : Tail(s)[i] = s[i + 1]
    OBVIOUS

LEMMA ConcatFacts ==
    ASSUME NEW S, NEW s \in Seq(S), NEW t \in Seq(S)
    PROVE  /\ s \o t \in Seq(S)
           /\ Len(s \o t) = Len(s) + Len(t)
           /\ \A i \in 1 .. Len(s) : (s \o t)[i] = s[i]
           /\ \A i \in 1 .. Len(t) : (s \o t)[Len(s) + i] = t[i]
    OBVIOUS

\* Two sequences with the same elements are the same.
LEMMA SeqEqual ==
    ASSUME NEW S, NEW s \in Seq(S), NEW t \in Seq(S), Len(s) = Len(t),
           \A i \in 1 .. Len(s) : s[i] = t[i]
    PROVE  s = t
    OBVIOUS

\* AcceptUniStream moves the head of the channel: the two together do not change.
LEMMA MoveHead ==
    ASSUME NEW S, NEW s \in Seq(S), NEW t \in Seq(S), t # << >>
    PROVE  Append(s, Head(t)) \o Tail(t) = s \o t
<1> DEFINE a == Append(s, Head(t))
           b == Tail(t)
           u == a \o b
           v == s \o t
<1>1. /\ b \in Seq(S) /\ Head(t) \in S /\ Head(t) = t[1] /\ Len(t) >= 1
      /\ Len(b) = Len(t) - 1 /\ \A i \in 1 .. Len(t) - 1 : b[i] = t[i + 1]
      BY TailFacts
<1>2. /\ a \in Seq(S) /\ Len(a) = Len(s) + 1
      /\ \A i \in 1 .. Len(s) : a[i] = s[i]
      /\ a[Len(s) + 1] = t[1]
      BY <1>1, AppendFacts
<1>3. Len(s) \in Nat /\ Len(t) \in Nat
      BY SeqFacts
<1> HIDE DEF a, b
<1>4. /\ u \in Seq(S) /\ Len(u) = Len(a) + Len(b)
      /\ \A i \in 1 .. Len(a) : u[i] = a[i]
      /\ \A i \in 1 .. Len(b) : u[Len(a) + i] = b[i]
      <2>1. a \in Seq(S) /\ b \in Seq(S)
            BY <1>1, <1>2
      <2> QED BY ONLY <2>1, ConcatFacts
<1>5. /\ v \in Seq(S) /\ Len(v) = Len(s) + Len(t)
      /\ \A i \in 1 .. Len(s) : v[i] = s[i]
      /\ \A i \in 1 .. Len(t) : v[Len(s) + i] = t[i]
      BY ConcatFacts
<1> HIDE DEF u, v
<1>6. Len(u) = Len(v)
      BY <1>1, <1>2, <1>3, <1>4, <1>5
<1>7. ASSUME NEW i \in 1 .. Len(u) PROVE u[i] = v[i]
      <2>1. CASE i \in 1 .. Len(s)
            BY <2>1, <1>2, <1>3, <1>4, <1>5
      <2>2. CASE i = Len(s) + 1
            <3>1. u[i] = t[1]
                  BY <2>2, <1>2, <1>3, <1>4
            <3>2. v[Len(s) + 1] = t[1]
                  BY <1>1, <1>3, <1>5
            <3> QED BY <2>2, <3>1, <3>2
      <2>3. CASE i > Len(s) + 1
            <3> DEFINE k == i - (Len(s) + 1)
            <3>1. k \in 1 .. Len(b) /\ i = Len(a) + k /\ i = Len(s) + (k + 1) /\ k + 1 \in 1 .. Len(t)
                  BY <2>3, <1>1, <1>2, <1>3, <1>4
            <3> HIDE DEF k
            <3>2. u[i] = b[k] /\ b[k] = t[k + 1]
                  BY <3>1, <1>1, <1>4
            <3>3. v[Len(s) + (k + 1)] = t[k + 1]
                  BY <3>1, <1>5
            <3> QED BY <3>1, <3>2, <3>3
      <2> QED BY <2>1, <2>2, <2>3, <1>2, <1>3, <1>4
<1> QED BY <1>4, <1>5, <1>6, <1>7, SeqEqual DEF u, v, a, b

\* A send on the channel is an append to the two together.
LEMMA AppendLast ==
    ASSUME NEW S, NEW s \in Seq(S), NEW t \in Seq(S), NEW e \in S
    PROVE  s \o Append(t, e) = Append(s \o t, e)
<1> DEFINE b == Append(t, e)
           u == s \o b
           w == s \o t
           v == Append(w, e)
<1>1. /\ b \in Seq(S) /\ Len(b) = Len(t) + 1
      /\ \A i \in 1 .. Len(t) : b[i] = t[i]
      /\ b[Len(t) + 1] = e
      BY AppendFacts
<1>2. Len(s) \in Nat /\ Len(t) \in Nat
      BY SeqFacts
<1> HIDE DEF b
<1>3. /\ u \in Seq(S) /\ Len(u) = Len(s) + Len(b)
      /\ \A i \in 1 .. Len(s) : u[i] = s[i]
      /\ \A i \in 1 .. Len(b) : u[Len(s) + i] = b[i]
      <2>1. s \in Seq(S) /\ b \in Seq(S)
            BY <1>1
      <2> QED BY ONLY <2>1, ConcatFacts
<1>4. /\ w \in Seq(S) /\ Len(w) = Len(s) + Len(t)
      /\ \A i \in 1 .. Len(s) : w[i] = s[i]
      /\ \A i \in 1 .. Len(t) : w[Len(s) + i] = t[i]
      BY ConcatFacts
<1> HIDE DEF u, w
<1>5. /\ v \in Seq(S) /\ Len(v) = Len(w) + 1
      /\ \A i \in 1 .. Len(w) : v[i] = w[i]
      /\ v[Len(w) + 1] = e
      BY <1>4, AppendFacts
<1> HIDE DEF v
<1>6. Len(u) = Len(v)
      BY <1>1, <1>2, <1>3, <1>4, <1>5
<1>7. ASSUME NEW i \in 1 .. Len(u) PROVE u[i] = v[i]
      <2>1. CASE i \in 1 .. Len(s)
            BY <2>1, <1>2, <1>3, <1>4, <1>5
      <2>2. CASE i > Len(s)
            <3> DEFINE k == i - Len(s)
            <3>1. k \in 1 .. Len(b) /\ i = Len(s) + k
                  BY <2>2, <1>1, <1>2, <1>3
            <3> HIDE DEF k
            <3>2. u[i] = b[k]
                  BY <3>1, <1>3
            <3>3. CASE k \in 1 .. Len(t)
                  <4>1. v[i] = w[i] /\ w[i] = t[k] /\ b[k] = t[k]
                        BY <3>1, <3>3, <1>1, <1>2, <1>4, <1>5
                  <4> QED BY <4>1, <3>2
            <3>4. CASE k = Len(t) + 1
                  BY <3>1, <3>2, <3>4, <1>1, <1>2, <1>4, <1>5
            <3> QED BY <3>1, <3>3, <3>4, <1>1, <1>2
      <2> QED BY <2>1, <2>2, <1>2, <1>3
<1> QED BY <1>3, <1>5, <1>6, <1>7, SeqEqual DEF u, v, w, b


-----------------------------------------------------------------------------
\* A connection is handled once.

Steps == {"open", "header", "settings", "request", "endless"}
States == {"idle", "new", "upgraded", "session", "failed", "closed"}

\* Where the goroutine of Listen may be, given the queue.
ListensTo(l, q, st) ==
    \/ l = <<"accept">>
    \/ \E c \in Conns, step \in Steps :
          l = <<c, step>> /\ st[c] = "new" /\ \A i \in DOMAIN q : q[i] # c

LEMMA HandledOnceParts ==
    HandledOnce <=>
       /\ state \in [Conns -> States]
       /\ queue \in Seq(Conns)
       /\ \A i \in DOMAIN queue : state[queue[i]] = "new"
       /\ \A i, j \in DOMAIN queue : queue[j] = queue[i] => j = i
       /\ ListensTo(lst, queue, state)
       /\ \A c \in Conns : state[c] \in {"idle", "new", "upgraded"} => pump[c] = "none"
    BY DEF HandledOnce, States, ListensTo, Steps

\* A connection whose upgrade is at a step is new and not in the queue.
LEMMA UpgradingIsNew ==
    ASSUME HandledOnce, NEW c \in Conns, NEW step \in Steps, lst = <<c, step>>
    PROVE  state[c] = "new" /\ \A i \in DOMAIN queue : queue[i] # c
    BY DEF HandledOnce, Steps

\* A step of the upgrade of c either goes on or leaves c handled.
LEMMA UpgradeStepOnce ==
    ASSUME HandledOnce, NEW c \in Conns, NEW step \in Steps, lst = <<c, step>>,
           UNCHANGED <<queue, pump>>,
           \/ UNCHANGED state /\ \E to \in Steps : lst' = <<c, to>>
           \/ lst' = <<"accept">> /\ \E s \in {"upgraded", "failed"} :
                                        state' = [state EXCEPT ![c] = s]
    PROVE  HandledOnce'
<1>1. state[c] = "new" /\ \A i \in DOMAIN queue : queue[i] # c
      BY UpgradingIsNew
<1>2. CASE UNCHANGED state /\ \E to \in Steps : lst' = <<c, to>>
      <2>1. ListensTo(lst, queue, state)'
            BY <1>1, <1>2 DEF ListensTo
      <2> QED BY <1>2, <2>1, HandledOnceParts DEF HandledOnce, States, ListensTo, Steps
<1>3. ASSUME lst' = <<"accept">>, NEW s \in {"upgraded", "failed"},
             state' = [state EXCEPT ![c] = s]
      PROVE  HandledOnce'
      <2>1. state' \in [Conns -> States] /\ \A d \in Conns : d # c => state'[d] = state[d]
            BY <1>3, HandledOnceParts DEF States
      <2>2. \A i \in DOMAIN queue : queue[i] \in Conns /\ queue[i] # c
            BY <1>1, HandledOnceParts
      <2>3. \A i \in DOMAIN queue : state'[queue[i]] = "new"
            BY <2>1, <2>2, HandledOnceParts
      <2>4. \A d \in Conns : state'[d] \in {"idle", "new", "upgraded"} => pump[d] = "none"
            BY <1>1, <1>3, <2>1, HandledOnceParts
      <2> QED BY <1>3, <2>1, <2>3, <2>4 DEF HandledOnce, States
<1> QED BY <1>2, <1>3

\* What the other actions do to a connection that Listen is done with.
LEMMA SessionStepOnce ==
    ASSUME HandledOnce, NEW c \in Conns, UNCHANGED <<queue, lst>>,
           state[c] \in {"upgraded", "session"}, NEW s \in {"session", "closed"},
           state' = [state EXCEPT ![c] = s],
           \A d \in Conns : d # c => pump'[d] = pump[d]
    PROVE  HandledOnce'
<1>1. state' \in [Conns -> States] /\ \A d \in Conns : d # c => state'[d] = state[d]
      BY HandledOnceParts DEF States
<1>2. \A d \in Conns : state[d] = "new" => state'[d] = "new"
      BY <1>1
<1>3. \A i \in DOMAIN queue : queue[i] \in Conns
      BY HandledOnceParts
<1>4. \A i \in DOMAIN queue : state'[queue[i]] = "new"
      BY <1>2, <1>3, HandledOnceParts
<1>5. ListensTo(lst, queue, state)'
      BY <1>2, HandledOnceParts DEF ListensTo
<1>6. state'[c] = s
      BY HandledOnceParts
<1>7. \A d \in Conns : state'[d] \in {"idle", "new", "upgraded"} => pump'[d] = "none"
      BY <1>1, <1>6, HandledOnceParts
<1> QED BY <1>1, <1>4, <1>5, <1>7 DEF HandledOnce, States, ListensTo, Steps

LEMMA QuietOnce ==
    ASSUME HandledOnce, UNCHANGED <<queue, lst, state>>,
           \A c \in Conns : pump[c] = "none" => pump'[c] = "none"
    PROVE  HandledOnce'
<1>1. ListensTo(lst, queue, state)'
      BY HandledOnceParts DEF ListensTo
<1> QED BY <1>1 DEF HandledOnce, ListensTo, Steps

LEMMA AcceptOnce ==
    ASSUME HandledOnce, Accept
    PROVE  HandledOnce'
<1> DEFINE c == Head(queue)
<1>1. /\ queue # << >> /\ queue' = Tail(queue) /\ UNCHANGED pump /\ lst = <<"accept">>
      /\ \/ lst' = lst /\ \E s \in {"session", "closed"} : state' = [state EXCEPT ![c] = s]
         \/ lst' = <<c, "open">> /\ state' = state
      BY DEF Accept, Handled, wtVars
<1>2. queue \in Seq(Conns)
      BY HandledOnceParts
<1>3. /\ queue' \in Seq(Conns) /\ c \in Conns /\ c = queue[1] /\ Len(queue) \in Nat
      /\ Len(queue) >= 1 /\ Len(queue') = Len(queue) - 1
      /\ \A i \in 1 .. Len(queue) - 1 : queue'[i] = queue[i + 1]
      BY <1>1, <1>2, TailFacts, SeqFacts
<1> HIDE DEF c
<1>4. DOMAIN queue' = 1 .. Len(queue) - 1 /\ DOMAIN queue = 1 .. Len(queue)
      BY <1>2, <1>3, SeqFacts
<1>5. \A i \in DOMAIN queue' :
         /\ i + 1 \in DOMAIN queue /\ queue'[i] = queue[i + 1]
         /\ i \in Nat /\ i + 1 # 1
      BY <1>3, <1>4
<1>6. 1 \in DOMAIN queue
      BY <1>3, <1>4
<1>7. \A i \in DOMAIN queue' : queue'[i] # c /\ queue'[i] \in Conns
      BY <1>2, <1>3, <1>5, <1>6, HandledOnceParts
<1>8. \A i, j \in DOMAIN queue' : queue'[j] = queue'[i] => j = i
      <2> SUFFICES ASSUME NEW i \in DOMAIN queue', NEW j \in DOMAIN queue',
                          queue'[j] = queue'[i]
                   PROVE  j = i
          OBVIOUS
      <2>1. j + 1 = i + 1
            BY <1>5, HandledOnceParts
      <2> QED BY <2>1, <1>5
<1>9. /\ state' \in [Conns -> States] /\ \A d \in Conns : d # c => state'[d] = state[d]
      /\ state'[c] = state[c] \/ state'[c] \in {"session", "closed"}
      BY <1>1, <1>3, HandledOnceParts DEF States
<1>10. \A i \in DOMAIN queue' : state'[queue'[i]] = "new"
      <2> SUFFICES ASSUME NEW i \in DOMAIN queue' PROVE state'[queue'[i]] = "new"
          OBVIOUS
      <2>1. state[queue[i + 1]] = "new"
            BY <1>5, HandledOnceParts
      <2> QED BY <2>1, <1>5, <1>7, <1>9
<1>11. ListensTo(lst', queue', state')
      <2>1. CASE lst' = lst
            BY <2>1, <1>1 DEF ListensTo
      <2>2. CASE lst' = <<c, "open">> /\ state' = state
            <3>1. state[c] = "new"
                  BY <1>3, <1>6, HandledOnceParts
            <3> QED BY <2>2, <3>1, <1>3, <1>7 DEF ListensTo, Steps
      <2> QED BY <2>1, <2>2, <1>1
<1>12. \A d \in Conns : state'[d] \in {"idle", "new", "upgraded"} => pump'[d] = "none"
      BY <1>1, <1>9, HandledOnceParts
<1> QED BY <1>3, <1>8, <1>9, <1>10, <1>11, <1>12 DEF HandledOnce, States, ListensTo, Steps

LEMMA ConnectOnce ==
    ASSUME HandledOnce, NEW c \in Conns, Connect(c)
    PROVE  HandledOnce'
<1>1. /\ state[c] = "idle" /\ state' = [state EXCEPT ![c] = "new"]
      /\ queue' = Append(queue, c) /\ UNCHANGED <<lst, pump>>
      BY DEF Connect, Handled, wtVars
<1>2. queue \in Seq(Conns) /\ DOMAIN queue = 1 .. Len(queue) /\ Len(queue) \in Nat
      BY HandledOnceParts, SeqFacts
<1>3. /\ queue' \in Seq(Conns) /\ Len(queue') = Len(queue) + 1
      /\ \A i \in 1 .. Len(queue) : queue'[i] = queue[i]
      /\ queue'[Len(queue) + 1] = c
      BY <1>1, <1>2, AppendFacts
<1>4. DOMAIN queue' = 1 .. Len(queue) + 1
      BY <1>3, SeqFacts
<1>5. \A i \in DOMAIN queue' :
         \/ i \in DOMAIN queue /\ queue'[i] = queue[i]
         \/ i = Len(queue) + 1 /\ queue'[i] = c
      BY <1>2, <1>3, <1>4
<1>6. \A i \in DOMAIN queue : queue[i] # c /\ queue[i] \in Conns
      BY <1>1, <1>2, HandledOnceParts
<1>7. \A i, j \in DOMAIN queue' : queue'[j] = queue'[i] => j = i
      BY <1>5, <1>6, HandledOnceParts
<1>8. /\ state' \in [Conns -> States] /\ \A d \in Conns : d # c => state'[d] = state[d]
      /\ state'[c] = "new"
      BY <1>1, HandledOnceParts DEF States
<1>9. \A i \in DOMAIN queue' : state'[queue'[i]] = "new"
      BY <1>5, <1>6, <1>8, HandledOnceParts
<1>10. ListensTo(lst', queue', state')
      <2>1. ListensTo(lst, queue, state)
            BY HandledOnceParts
      <2>2. ASSUME NEW d \in Conns, state[d] = "new", \A i \in DOMAIN queue : queue[i] # d
            PROVE  state'[d] = "new" /\ \A i \in DOMAIN queue' : queue'[i] # d
            BY <2>2, <1>1, <1>5, <1>8
      <2> QED BY <2>1, <2>2, <1>1 DEF ListensTo
<1>11. \A d \in Conns : state'[d] \in {"idle", "new", "upgraded"} => pump'[d] = "none"
      BY <1>1, <1>8, HandledOnceParts
<1> QED BY <1>3, <1>7, <1>8, <1>9, <1>10, <1>11 DEF HandledOnce, States, ListensTo, Steps


\* The steps of Listen that upgrade, each by what it does to lst and state.
LEMMA UpgradeOnce ==
    ASSUME HandledOnce, NEW c \in Conns,
           UpgradeOpen(c) \/ UpgradeHeader(c) \/ UpgradeSettings(c) \/ UpgradeRequest(c)
    PROVE  HandledOnce'
<1>1. UNCHANGED <<queue, pump>>
      BY DEF UpgradeOpen, UpgradeHeader, UpgradeSettings, UpgradeRequest, wtVars
<1>2. \E step \in Steps : lst = <<c, step>>
      BY DEF UpgradeOpen, UpgradeHeader, UpgradeSettings, UpgradeRequest, Upgrading, Steps
<1>3. \/ UNCHANGED state /\ \E to \in Steps : lst' = <<c, to>>
      \/ lst' = <<"accept">> /\ \E s \in {"upgraded", "failed"} :
                                   state' = [state EXCEPT ![c] = s]
      <2>1. CASE UpgradeOpen(c)
            BY <2>1 DEF UpgradeOpen, Proceed, UpgradeFails, Handled, Steps
      <2>2. CASE UpgradeHeader(c)
            BY <2>2 DEF UpgradeHeader, Proceed, UpgradeFails, Handled, Steps
      <2>3. CASE UpgradeSettings(c)
            <3>1. \/ UpgradeFails(c)
                  \/ \E b : Proceed(c, IF b THEN "request" ELSE "endless")
                  BY <2>3 DEF UpgradeSettings
            <3> QED BY <3>1 DEF Proceed, UpgradeFails, Handled, Steps
      <2>4. CASE UpgradeRequest(c)
            BY <2>4 DEF UpgradeRequest, UpgradeFails, Handled
      <2> QED BY <2>1, <2>2, <2>3, <2>4
<1> QED BY <1>1, <1>2, <1>3, UpgradeStepOnce

\* The actions of an upgraded session and of the clients that leave Listen alone.
Quiet(c) ==
    \/ PumpAccept(c) \/ PumpRead(c) \/ PumpSend(c) \/ PumpTimeout(c)
    \/ DoHandle(c) \/ AcceptUniStream(c) \/ ParseMOQTStream(c) \/ ConnLost(c)
    \/ \E part \in {"first", "frame", "request"} : Hello(c, part)
    \/ \E type \in {"UNI", "other"} : OpenUni(c, type)
    \/ \E i \in DOMAIN uni[c] : HeaderComes(c, i)

LEMMA StepCases ==
    ASSUME [Next]_vars
    PROVE  \/ Accept \/ UNCHANGED vars
           \/ \E c \in Conns :
                 \/ UpgradeOpen(c) \/ UpgradeHeader(c) \/ UpgradeSettings(c) \/ UpgradeRequest(c)
                 \/ ServeHTTP(c) \/ Connect(c) \/ Quiet(c)
                 \/ \E type \in {"BI", "other"} : AcceptStream(c, type)
    BY DEF Next, Listen, Pump, Quiet

LEMMA OnceNext == HandledOnce /\ PumpTypeOK /\ [Next]_vars => HandledOnce'
<1> SUFFICES ASSUME HandledOnce, PumpTypeOK, [Next]_vars PROVE HandledOnce'
    OBVIOUS
<1>1. CASE Accept
      BY <1>1, AcceptOnce
<1>2. CASE UNCHANGED vars
      BY <1>2, QuietOnce DEF vars, lstVars, wtVars
<1>3. ASSUME NEW c \in Conns,
             UpgradeOpen(c) \/ UpgradeHeader(c) \/ UpgradeSettings(c) \/ UpgradeRequest(c)
      PROVE  HandledOnce'
      BY <1>3, UpgradeOnce
<1>4. ASSUME NEW c \in Conns, ServeHTTP(c) PROVE HandledOnce'
      <2>1. /\ state[c] = "upgraded" /\ state' = [state EXCEPT ![c] = "session"]
            /\ UNCHANGED <<queue, lst>> /\ \A d \in Conns : d # c => pump'[d] = pump[d]
            BY <1>4 DEF ServeHTTP, Handled, lstVars, PumpTypeOK
      <2> QED BY <2>1, SessionStepOnce
<1>5. ASSUME NEW c \in Conns, Connect(c) PROVE HandledOnce'
      BY <1>5, ConnectOnce
<1>6. ASSUME NEW c \in Conns, Quiet(c) PROVE HandledOnce'
      <2>1. UNCHANGED <<queue, lst, state>>
            BY <1>6 DEF Quiet, PumpAccept, PumpRead, PumpSend, PumpTimeout, DoHandle,
                  AcceptUniStream, ParseMOQTStream, ConnLost, Hello, OpenUni, HeaderComes, lstVars
      <2>2. \A d \in Conns : pump[d] = "none" => pump'[d] = "none"
            <3>1. \/ UNCHANGED pump
                  \/ \E from \in {"accept", "read", "send"} : \E to : PumpStep(c, from, to)
                  BY <1>6 DEF Quiet, PumpAccept, PumpRead, PumpSend, PumpTimeout, DoHandle,
                        AcceptUniStream, ParseMOQTStream, ConnLost, Hello, OpenUni,
                        HeaderComes, wtVars
            <3> QED BY <3>1 DEF PumpStep, PumpTypeOK
      <2> QED BY <2>1, <2>2, QuietOnce
<1>7. ASSUME NEW c \in Conns, NEW type \in {"BI", "other"}, AcceptStream(c, type)
      PROVE  HandledOnce'
      <2>1. /\ UNCHANGED <<queue, lst, pump>> /\ state[c] = "session"
            /\ UNCHANGED state \/ state' = [state EXCEPT ![c] = "closed"]
            BY <1>7 DEF AcceptStream, Handled, lstVars
      <2>2. CASE UNCHANGED state
            BY <2>1, <2>2, QuietOnce
      <2>3. CASE state' = [state EXCEPT ![c] = "closed"]
            BY <2>1, <2>3, SessionStepOnce
      <2> QED BY <2>1, <2>2, <2>3
<1> QED BY <1>1, <1>2, <1>3, <1>4, <1>5, <1>6, <1>7, StepCases

-----------------------------------------------------------------------------
(***************************************************************************)
(* The pump. PumpOf(u, p, n, l, ch, tk) is what PumpInv says of one        *)
(* connection: streams u, the goroutine at p after accepting n of them and *)
(* giving up those in l, the channel ch, and tk taken from it.             *)
(***************************************************************************)
UniStream == [type : {"UNI", "other"}, come : BOOLEAN]
Hand == {"read", "send", "failed"}
PassedOf(p, n) == n - IF p \in Hand THEN 1 ELSE 0

\* s is the streams 1 .. m without those in l, in order.
InOrder(s, m, l) ==
    /\ \A i, j \in DOMAIN s : i < j => s[i] < s[j]
    /\ {s[i] : i \in DOMAIN s} = 1 .. m \ l

PumpOf(u, p, n, l, ch, tk) ==
    /\ u \in Seq(UniStream) /\ p \in {"none", "accept", "read", "send", "failed", "end"}
    /\ n \in Nat /\ l \in SUBSET Nat /\ ch \in Seq(Nat) /\ tk \in Seq(Nat)
    /\ InOrder(tk \o ch, PassedOf(p, n), l)
    /\ n <= Len(u) /\ Len(ch) <= ChanCap
    /\ p \in Hand => n >= 1
    /\ l \subseteq 1 .. PassedOf(p, n)

PumpFuns == /\ uni = [c \in Conns |-> uni[c]] /\ pump = [c \in Conns |-> pump[c]]
            /\ pumped = [c \in Conns |-> pumped[c]] /\ late = [c \in Conns |-> late[c]]
            /\ chan = [c \in Conns |-> chan[c]] /\ taken = [c \in Conns |-> taken[c]]

Pumps == /\ PumpFuns
         /\ \A c \in Conns : PumpOf(uni[c], pump[c], pumped[c], late[c], chan[c], taken[c])

\* A goroutine that has ended had a reason, which lasts.
ReasonOf(c, p, n) ==
    /\ p = "end" => c \notin alive
    /\ p = "failed" => c \notin alive \/ ~KnownHeader(uni[c][n].type)

Reasons == \A c \in Conns : ReasonOf(c, pump[c], pumped[c])

LEMMA PumpInvParts == PumpInv <=> HandledOnce /\ Pumps /\ Reasons
<1>1. PumpTypeOK <=> /\ PumpFuns
                     /\ \A c \in Conns :
                           /\ uni[c] \in Seq(UniStream)
                           /\ pump[c] \in {"none", "accept", "read", "send", "failed", "end"}
                           /\ pumped[c] \in Nat /\ late[c] \in SUBSET Nat
                           /\ chan[c] \in Seq(Nat) /\ taken[c] \in Seq(Nat)
      BY DEF PumpTypeOK, PumpFuns, UniStream
<1>2. \A c \in Conns : Passed(c) = PassedOf(pump[c], pumped[c])
      BY DEF Passed, PassedOf, Hand
<1>3. ASSUME NEW c \in Conns, pumped[c] \in Nat
      PROVE  (pump[c] \in {"failed", "end"} => Abandoned(c, pumped[c] + 1))
                <=> ReasonOf(c, pump[c], pumped[c])
      BY <1>3 DEF Abandoned, ReasonOf
<1> DEFINE Ordered(c) == InOrder(taken[c] \o chan[c], PassedOf(pump[c], pumped[c]), late[c])
           Rest(c) == /\ pumped[c] <= Len(uni[c])
                      /\ pump[c] \in Hand => pumped[c] >= 1
                      /\ late[c] \subseteq 1 .. PassedOf(pump[c], pumped[c])
                      /\ Len(chan[c]) <= ChanCap
<1>4. PumpInv <=> /\ HandledOnce /\ PumpTypeOK
                  /\ \A c \in Conns :
                        /\ Ordered(c) /\ Rest(c)
                        /\ pump[c] \in {"failed", "end"} => Abandoned(c, pumped[c] + 1)
      BY <1>2 DEF PumpInv, InOrder, Hand
<1>5. PumpInv <=> /\ HandledOnce /\ PumpTypeOK
                  /\ \A c \in Conns : Ordered(c) /\ Rest(c) /\ ReasonOf(c, pump[c], pumped[c])
      BY <1>1, <1>3, <1>4
<1> QED BY <1>1, <1>5 DEF Pumps, PumpOf, Reasons

LEMMA PumpFrame ==
    ASSUME Pumps, NEW c \in Conns, NEW u, NEW p, NEW n, NEW l, NEW ch, NEW tk,
           uni' = [uni EXCEPT ![c] = u], pump' = [pump EXCEPT ![c] = p],
           pumped' = [pumped EXCEPT ![c] = n], late' = [late EXCEPT ![c] = l],
           chan' = [chan EXCEPT ![c] = ch], taken' = [taken EXCEPT ![c] = tk],
           PumpOf(u, p, n, l, ch, tk)
    PROVE  Pumps'
<1>1. PumpFuns'
      BY DEF Pumps, PumpFuns
<1>2. ASSUME NEW d \in Conns
      PROVE  PumpOf(uni'[d], pump'[d], pumped'[d], late'[d], chan'[d], taken'[d])
      <2>1. CASE d = c
            BY <2>1 DEF Pumps, PumpFuns
      <2>2. CASE d # c
            <3>1. /\ uni'[d] = uni[d] /\ pump'[d] = pump[d] /\ pumped'[d] = pumped[d]
                  /\ late'[d] = late[d] /\ chan'[d] = chan[d] /\ taken'[d] = taken[d]
                  BY <2>2 DEF Pumps, PumpFuns
            <3> QED BY <3>1 DEF Pumps
      <2> QED BY <2>1, <2>2
<1> QED BY <1>1, <1>2 DEF Pumps

\* A stream put behind the others in order, as one more is passed.
LEMMA OneMoreInOrder ==
    ASSUME NEW m \in Nat, NEW l \in SUBSET (1 .. m), NEW s \in Seq(Nat), InOrder(s, m, l)
    PROVE  InOrder(Append(s, m + 1), m + 1, l)
<1> DEFINE t == Append(s, m + 1)
<1>1. /\ t \in Seq(Nat) /\ Len(t) = Len(s) + 1 /\ Len(s) \in Nat
      /\ \A i \in 1 .. Len(s) : t[i] = s[i]
      /\ t[Len(s) + 1] = m + 1
      BY AppendFacts, SeqFacts
<1> HIDE DEF t
<1>2. DOMAIN t = 1 .. Len(s) + 1 /\ DOMAIN s = 1 .. Len(s)
      BY <1>1, SeqFacts
<1>3. \A i \in DOMAIN s : s[i] \in 1 .. m /\ s[i] \notin l
      BY DEF InOrder
<1>4. ASSUME NEW i \in DOMAIN t, NEW j \in DOMAIN t, i < j PROVE t[i] < t[j]
      <2>1. i \in 1 .. Len(s) /\ t[i] = s[i] /\ s[i] \in 1 .. m
            BY <1>1, <1>2, <1>3, <1>4
      <2>2. CASE j \in 1 .. Len(s)
            BY <2>1, <2>2, <1>1, <1>2, <1>4 DEF InOrder
      <2>3. CASE j = Len(s) + 1
            BY <2>1, <2>3, <1>1
      <2> QED BY <2>2, <2>3, <1>1, <1>2
<1>5. ASSUME NEW i \in DOMAIN t PROVE t[i] \in (1 .. m + 1) \ l
      <2>1. CASE i \in 1 .. Len(s)
            BY <2>1, <1>1, <1>2, <1>3
      <2>2. CASE i = Len(s) + 1
            <3>1. m + 1 \notin l /\ m + 1 \in 1 .. m + 1
                  OBVIOUS
            <3> QED BY <2>2, <3>1, <1>1
      <2> QED BY <2>1, <2>2, <1>1, <1>2
<1>6. ASSUME NEW k \in (1 .. m + 1) \ l PROVE \E i \in DOMAIN t : t[i] = k
      <2>1. CASE k = m + 1
            BY <2>1, <1>1, <1>2
      <2>2. CASE k \in 1 .. m
            <3>1. \E i \in DOMAIN s : s[i] = k
                  BY <2>2 DEF InOrder
            <3> QED BY <3>1, <1>1, <1>2
      <2> QED BY <2>1, <2>2
<1> QED BY <1>4, <1>5, <1>6 DEF InOrder, t

LEMMA PumpsKept ==
    ASSUME Pumps, UNCHANGED <<uni, pump, pumped, late, chan, taken>>
    PROVE  Pumps'
    BY DEF Pumps, PumpFuns

\* The steps of one pump.
LEMMA PumpNext == HandledOnce /\ Pumps /\ [Next]_vars => Pumps'
<1> SUFFICES ASSUME HandledOnce, Pumps, [Next]_vars PROVE Pumps'
    OBVIOUS
<1>1. CASE Accept \/ UNCHANGED vars
      BY <1>1, PumpsKept DEF Accept, vars, wtVars
<1>2. ASSUME NEW c \in Conns,
             \/ UpgradeOpen(c) \/ UpgradeHeader(c) \/ UpgradeSettings(c) \/ UpgradeRequest(c)
             \/ Connect(c) \/ ConnLost(c) \/ DoHandle(c) \/ ParseMOQTStream(c)
             \/ \E part \in {"first", "frame", "request"} : Hello(c, part)
             \/ \E type \in {"BI", "other"} : AcceptStream(c, type)
      PROVE  Pumps'
      BY <1>2, PumpsKept DEF UpgradeOpen, UpgradeHeader, UpgradeSettings, UpgradeRequest,
         Connect, ConnLost, DoHandle, ParseMOQTStream, Hello, AcceptStream, wtVars
<1>3. ASSUME NEW c \in Conns
      PROVE  /\ PumpOf(uni[c], pump[c], pumped[c], late[c], chan[c], taken[c])
             /\ uni = [uni EXCEPT ![c] = uni[c]] /\ pump = [pump EXCEPT ![c] = pump[c]]
             /\ pumped = [pumped EXCEPT ![c] = pumped[c]]
             /\ late = [late EXCEPT ![c] = late[c]]
             /\ chan = [chan EXCEPT ![c] = chan[c]]
             /\ taken = [taken EXCEPT ![c] = taken[c]]
      BY DEF Pumps, PumpFuns
<1>4. ASSUME NEW c \in Conns, ServeHTTP(c) PROVE Pumps'
      <2>1. /\ pump' = [pump EXCEPT ![c] = "accept"] /\ pump[c] = "none"
            /\ UNCHANGED <<uni, pumped, late, chan, taken>>
            BY <1>4, HandledOnceParts DEF ServeHTTP
      <2>2. PumpOf(uni[c], "accept", pumped[c], late[c], chan[c], taken[c])
            BY <1>3, <2>1 DEF PumpOf, PassedOf, Hand
      <2>9. /\ uni' = [uni EXCEPT ![c] = uni[c]] /\ pump' = [pump EXCEPT ![c] = "accept"]
           /\ pumped' = [pumped EXCEPT ![c] = pumped[c]] /\ late' = [late EXCEPT ![c] = late[c]]
           /\ chan' = [chan EXCEPT ![c] = chan[c]] /\ taken' = [taken EXCEPT ![c] = taken[c]]
           BY <1>3, <2>1
      <2> QED BY <2>9, <2>2, PumpFrame
<1>5. ASSUME NEW c \in Conns, PumpAccept(c) PROVE Pumps'
      <2>1. UNCHANGED <<uni, late, chan, taken>> /\ pump[c] = "accept"
            BY <1>5 DEF PumpAccept, PumpStep
      <2>2. CASE c \in alive
            <3>1. /\ pumped[c] < Len(uni[c]) /\ pump' = [pump EXCEPT ![c] = "read"]
                  /\ pumped' = [pumped EXCEPT ![c] = pumped[c] + 1]
                  BY <1>5, <2>2 DEF PumpAccept, PumpStep
            <3>2. PassedOf("read", pumped[c] + 1) = PassedOf(pump[c], pumped[c])
                  BY <1>3, <2>1 DEF PassedOf, Hand, PumpOf
            <3>3. pumped[c] + 1 \in Nat /\ pumped[c] + 1 >= 1 /\ pumped[c] + 1 <= Len(uni[c])
                  BY <1>3, <3>1 DEF PumpOf
            <3>4. PumpOf(uni[c], "read", pumped[c] + 1, late[c], chan[c], taken[c])
                  BY <1>3, <3>2, <3>3 DEF PumpOf
            <3>9. /\ uni' = [uni EXCEPT ![c] = uni[c]] /\ pump' = [pump EXCEPT ![c] = "read"]
                 /\ pumped' = [pumped EXCEPT ![c] = pumped[c] + 1] /\ late' = [late EXCEPT ![c] = late[c]]
                 /\ chan' = [chan EXCEPT ![c] = chan[c]] /\ taken' = [taken EXCEPT ![c] = taken[c]]
                 BY <1>3, <2>1, <3>1
            <3> QED BY <3>9, <3>4, PumpFrame
      <2>3. CASE c \notin alive
            <3>1. pump' = [pump EXCEPT ![c] = "end"] /\ UNCHANGED pumped
                  BY <1>5, <2>3 DEF PumpAccept, PumpStep
            <3>2. PumpOf(uni[c], "end", pumped[c], late[c], chan[c], taken[c])
                  BY <1>3, <2>1 DEF PumpOf, PassedOf, Hand
            <3>9. /\ uni' = [uni EXCEPT ![c] = uni[c]] /\ pump' = [pump EXCEPT ![c] = "end"]
                 /\ pumped' = [pumped EXCEPT ![c] = pumped[c]] /\ late' = [late EXCEPT ![c] = late[c]]
                 /\ chan' = [chan EXCEPT ![c] = chan[c]] /\ taken' = [taken EXCEPT ![c] = taken[c]]
                 BY <1>3, <2>1, <3>1
            <3> QED BY <3>9, <3>2, PumpFrame
      <2> QED BY <2>2, <2>3
<1>6. ASSUME NEW c \in Conns, PumpRead(c) PROVE Pumps'
      <2>1. PICK p \in {"send", "failed"} : pump' = [pump EXCEPT ![c] = p]
            BY <1>6 DEF PumpRead, PumpStep
      <2>2. UNCHANGED <<uni, pumped, late, chan, taken>> /\ pump[c] = "read"
            BY <1>6 DEF PumpRead
      <2>3. PumpOf(uni[c], p, pumped[c], late[c], chan[c], taken[c])
            BY <1>3, <2>2 DEF PumpOf, PassedOf, Hand
      <2>9. /\ uni' = [uni EXCEPT ![c] = uni[c]] /\ pump' = [pump EXCEPT ![c] = p]
           /\ pumped' = [pumped EXCEPT ![c] = pumped[c]] /\ late' = [late EXCEPT ![c] = late[c]]
           /\ chan' = [chan EXCEPT ![c] = chan[c]] /\ taken' = [taken EXCEPT ![c] = taken[c]]
           BY <1>3, <2>1, <2>2
      <2> QED BY <2>9, <2>3, PumpFrame
<1>7. ASSUME NEW c \in Conns, PumpTimeout(c) PROVE Pumps'
      <2> DEFINE n == pumped[c]
                 s == taken[c] \o chan[c]
                 l == late[c] \cup {n}
      <2>1. /\ pump[c] = "read" /\ pump' = [pump EXCEPT ![c] = "accept"]
            /\ late' = [late EXCEPT ![c] = l] /\ UNCHANGED <<uni, pumped, chan, taken>>
            BY <1>7 DEF PumpTimeout, PumpStep
      <2>2. n \in Nat /\ n >= 1 /\ InOrder(s, n - 1, late[c]) /\ late[c] \subseteq 1 .. n - 1
            BY <1>3, <2>1 DEF PumpOf, PassedOf, Hand
      <2> HIDE DEF s
      <2>3. (1 .. n) \ l = (1 .. n - 1) \ late[c]
            BY <2>2
      <2>4. InOrder(s, n, l)
            BY <2>2, <2>3 DEF InOrder
      <2>5. l \in SUBSET Nat /\ l \subseteq 1 .. n
            BY <2>2
      <2>6. PumpOf(uni[c], "accept", n, l, chan[c], taken[c])
            BY <1>3, <2>4, <2>5 DEF PumpOf, PassedOf, Hand, s
      <2> HIDE DEF l
      <2>9. /\ uni' = [uni EXCEPT ![c] = uni[c]] /\ pump' = [pump EXCEPT ![c] = "accept"]
           /\ pumped' = [pumped EXCEPT ![c] = n] /\ late' = [late EXCEPT ![c] = l]
           /\ chan' = [chan EXCEPT ![c] = chan[c]] /\ taken' = [taken EXCEPT ![c] = taken[c]]
           BY <1>3, <2>1
      <2> QED BY <2>9, <2>6, PumpFrame
<1>8. ASSUME NEW c \in Conns, PumpSend(c) PROVE Pumps'
      <2> DEFINE n == pumped[c]
                 ch == Append(chan[c], n)
                 s == taken[c] \o chan[c]
      <2>1. /\ pump[c] = "send" /\ pump' = [pump EXCEPT ![c] = "accept"]
            /\ chan' = [chan EXCEPT ![c] = ch] /\ UNCHANGED <<uni, pumped, late, taken>>
            /\ Len(chan[c]) < ChanCap
            BY <1>8 DEF PumpSend, PumpStep
      <2>2. /\ n \in Nat /\ n >= 1 /\ InOrder(s, n - 1, late[c]) /\ late[c] \subseteq 1 .. n - 1
            /\ taken[c] \in Seq(Nat) /\ chan[c] \in Seq(Nat)
            BY <1>3, <2>1 DEF PumpOf, PassedOf, Hand
      <2>3. s \in Seq(Nat) /\ taken[c] \o ch = Append(s, n)
            <3>1. s \in Seq(Nat)
                  BY <2>2, ConcatFacts
            <3>2. taken[c] \o ch = Append(s, n)
                  <4>1. \A a, b \in Seq(Nat) : \A e \in Nat :
                           a \o Append(b, e) = Append(a \o b, e)
                        BY AppendLast
                  <4> QED BY <4>1, <2>2, Zenon
            <3> QED BY <3>1, <3>2
      <2>4. ch \in Seq(Nat) /\ Len(ch) = Len(chan[c]) + 1
            BY <2>2, AppendFacts
      <2> HIDE DEF s, ch
      <2>5. InOrder(Append(s, (n - 1) + 1), (n - 1) + 1, late[c])
            <3>1. n - 1 \in Nat /\ late[c] \in SUBSET (1 .. n - 1)
                  BY <2>2
            <3> QED BY <3>1, <2>2, <2>3, OneMoreInOrder
      <2>6. InOrder(taken[c] \o ch, n, late[c])
            <3>1. (n - 1) + 1 = n
                  BY <2>2
            <3> QED BY <3>1, <2>3, <2>5
      <2>7. late[c] \subseteq 1 .. n /\ Len(ch) <= ChanCap
            BY <2>1, <2>2, <2>4, ListenerAssumption, SeqFacts
      <2>8. PumpOf(uni[c], "accept", n, late[c], ch, taken[c])
            BY <1>3, <2>4, <2>6, <2>7 DEF PumpOf, PassedOf, Hand
      <2>9. /\ uni' = [uni EXCEPT ![c] = uni[c]] /\ pump' = [pump EXCEPT ![c] = "accept"]
           /\ pumped' = [pumped EXCEPT ![c] = n] /\ late' = [late EXCEPT ![c] = late[c]]
           /\ chan' = [chan EXCEPT ![c] = ch] /\ taken' = [taken EXCEPT ![c] = taken[c]]
           BY <1>3, <2>1
      <2> QED BY <2>9, <2>8, PumpFrame
<1>9. ASSUME NEW c \in Conns, AcceptUniStream(c) PROVE Pumps'
      <2> DEFINE tk == Append(taken[c], Head(chan[c]))
                 ch == Tail(chan[c])
      <2>1. /\ chan[c] # << >> /\ taken' = [taken EXCEPT ![c] = tk]
            /\ chan' = [chan EXCEPT ![c] = ch] /\ UNCHANGED <<uni, pump, pumped, late>>
            BY <1>9 DEF AcceptUniStream
      <2>2. taken[c] \in Seq(Nat) /\ chan[c] \in Seq(Nat)
            BY <1>3 DEF PumpOf
      <2>3. tk \o ch = taken[c] \o chan[c]
            BY <2>1, <2>2, MoveHead
      <2>4. ch \in Seq(Nat) /\ Head(chan[c]) \in Nat /\ Len(ch) = Len(chan[c]) - 1
            /\ Len(chan[c]) \in Nat
            BY <2>1, <2>2, TailFacts, SeqFacts
      <2>5. tk \in Seq(Nat)
            BY <2>2, <2>4, AppendFacts
      <2>6. Len(chan[c]) <= ChanCap
            BY <1>3 DEF PumpOf
      <2> HIDE DEF tk, ch
      <2>7. Len(ch) <= ChanCap
            BY <2>4, <2>6, ListenerAssumption
      <2>8. PumpOf(uni[c], pump[c], pumped[c], late[c], ch, tk)
            BY <1>3, <2>3, <2>4, <2>5, <2>7 DEF PumpOf
      <2>9. /\ uni' = [uni EXCEPT ![c] = uni[c]] /\ pump' = [pump EXCEPT ![c] = pump[c]]
           /\ pumped' = [pumped EXCEPT ![c] = pumped[c]] /\ late' = [late EXCEPT ![c] = late[c]]
           /\ chan' = [chan EXCEPT ![c] = ch] /\ taken' = [taken EXCEPT ![c] = tk]
           BY <1>3, <2>1
      <2> QED BY <2>9, <2>8, PumpFrame
<1>10. ASSUME NEW c \in Conns, NEW u \in Seq(UniStream), uni' = [uni EXCEPT ![c] = u],
              Len(u) >= Len(uni[c]), UNCHANGED <<pump, pumped, late, chan, taken>>
       PROVE  Pumps'
      <2>1. pumped[c] <= Len(u)
            BY <1>3, <1>10, SeqFacts DEF PumpOf
      <2>2. PumpOf(u, pump[c], pumped[c], late[c], chan[c], taken[c])
            BY <1>3, <2>1 DEF PumpOf
      <2>9. /\ uni' = [uni EXCEPT ![c] = u] /\ pump' = [pump EXCEPT ![c] = pump[c]]
           /\ pumped' = [pumped EXCEPT ![c] = pumped[c]] /\ late' = [late EXCEPT ![c] = late[c]]
           /\ chan' = [chan EXCEPT ![c] = chan[c]] /\ taken' = [taken EXCEPT ![c] = taken[c]]
           BY <1>3, <1>10
      <2> QED BY <2>9, <2>2, PumpFrame
<1>11. ASSUME NEW c \in Conns, NEW type \in {"UNI", "other"}, OpenUni(c, type) PROVE Pumps'
      <2> DEFINE e == [type |-> type, come |-> FALSE]
                 u == Append(uni[c], e)
      <2>1. uni' = [uni EXCEPT ![c] = u] /\ UNCHANGED <<pump, pumped, late, chan, taken>>
            BY <1>11 DEF OpenUni
      <2>2. e \in UniStream /\ uni[c] \in Seq(UniStream)
            BY <1>3 DEF UniStream, PumpOf
      <2> HIDE DEF e
      <2>3. u \in Seq(UniStream) /\ Len(u) >= Len(uni[c])
            BY <2>2, AppendFacts, SeqFacts
      <2> HIDE DEF u
      <2> QED BY <1>10, <2>1, <2>3
<1>12. ASSUME NEW c \in Conns, NEW i \in DOMAIN uni[c], HeaderComes(c, i) PROVE Pumps'
      <2> DEFINE u == [uni[c] EXCEPT ![i] = [uni[c][i] EXCEPT !.come = TRUE]]
      <2>1. uni' = [uni EXCEPT ![c] = u] /\ UNCHANGED <<pump, pumped, late, chan, taken>>
            BY <1>12 DEF HeaderComes
      <2>2. uni[c] \in Seq(UniStream)
            BY <1>3 DEF PumpOf
      <2>3. [uni[c][i] EXCEPT !.come = TRUE] \in UniStream
            <3>1. uni[c][i] \in UniStream
                  BY <2>2, SeqFacts
            <3> QED BY <3>1 DEF UniStream
      <2>4. u \in Seq(UniStream) /\ Len(u) = Len(uni[c]) /\ Len(u) \in Nat
            BY <2>2, <2>3
      <2> HIDE DEF u
      <2>5. Len(u) >= Len(uni[c])
            BY <2>4
      <2> QED BY <1>10, <2>1, <2>4, <2>5
<1> QED BY <1>1, <1>2, <1>4, <1>5, <1>6, <1>7, <1>8, <1>9, <1>11, <1>12, StepCases DEF Quiet

\* A goroutine ends for one of its reasons, and a connection that is gone stays so while
\* it has a goroutine.
LEMMA ReasonsNext == HandledOnce /\ Pumps /\ Reasons /\ [Next]_vars => Reasons'
<1> SUFFICES ASSUME HandledOnce, Pumps, Reasons, [Next]_vars, NEW d \in Conns
             PROVE  ReasonOf(d, pump[d], pumped[d])'
    BY DEF Reasons
<1>0. /\ ReasonOf(d, pump[d], pumped[d])
      /\ pump = [c \in Conns |-> pump[c]] /\ pumped = [c \in Conns |-> pumped[c]]
      /\ uni = [c \in Conns |-> uni[c]]
      BY DEF Reasons, Pumps, PumpFuns
<1>1. ASSUME pump'[d] = pump[d], pumped'[d] = pumped[d], UNCHANGED uni,
             d \in alive' => d \in alive \/ pump[d] = "none"
      PROVE  ReasonOf(d, pump[d], pumped[d])'
      BY <1>0, <1>1 DEF ReasonOf
<1>2. CASE Accept \/ UNCHANGED vars
      <2>1. UNCHANGED <<uni, pump, pumped>> /\ alive' \subseteq alive
            BY <1>2 DEF Accept, vars, wtVars
      <2> QED BY <1>1, <2>1
<1>3. ASSUME NEW c \in Conns,
             \/ UpgradeOpen(c) \/ UpgradeHeader(c) \/ UpgradeSettings(c) \/ UpgradeRequest(c)
             \/ ConnLost(c) \/ DoHandle(c) \/ AcceptUniStream(c) \/ ParseMOQTStream(c)
             \/ \E part \in {"first", "frame", "request"} : Hello(c, part)
             \/ \E type \in {"BI", "other"} : AcceptStream(c, type)
      PROVE  ReasonOf(d, pump[d], pumped[d])'
      <2>1. UNCHANGED <<uni, pump, pumped>> /\ alive' \subseteq alive
            BY <1>3 DEF UpgradeOpen, UpgradeHeader, UpgradeSettings, UpgradeRequest, ConnLost,
               DoHandle, AcceptUniStream, ParseMOQTStream, Hello, AcceptStream, wtVars
      <2> QED BY <1>1, <2>1
<1>4. ASSUME NEW c \in Conns, Connect(c) PROVE ReasonOf(d, pump[d], pumped[d])'
      <2>1. /\ UNCHANGED <<uni, pump, pumped>> /\ alive' = alive \cup {c} /\ state[c] = "idle"
            BY <1>4 DEF Connect, wtVars
      <2>2. pump[c] = "none"
            BY <2>1, HandledOnceParts
      <2> QED BY <1>1, <2>1, <2>2
<1>5. ASSUME NEW c \in Conns, UNCHANGED <<alive, uni>>, UNCHANGED pumped \/ d = c,
             NEW p, pump' = [pump EXCEPT ![c] = p],
             d = c => ReasonOf(c, p, pumped'[c])
      PROVE  ReasonOf(d, pump[d], pumped[d])'
      <2>1. CASE d = c
            <3>1. pump'[d] = p
                  BY <1>0, <1>5, <2>1
            <3> QED BY <1>5, <2>1, <3>1 DEF ReasonOf
      <2>2. CASE d # c
            BY <1>0, <1>1, <1>5, <2>2
      <2> QED BY <2>1, <2>2
<1>6. ASSUME NEW c \in Conns, ServeHTTP(c) \/ PumpTimeout(c) \/ PumpSend(c)
      PROVE  ReasonOf(d, pump[d], pumped[d])'
      <2>1. /\ UNCHANGED <<alive, uni, pumped>> /\ pump' = [pump EXCEPT ![c] = "accept"]
            BY <1>6 DEF ServeHTTP, PumpTimeout, PumpSend, PumpStep
      <2>2. ReasonOf(c, "accept", pumped'[c])
            BY DEF ReasonOf
      <2> QED BY <1>5, <2>1, <2>2
<1>7. ASSUME NEW c \in Conns, PumpAccept(c) PROVE ReasonOf(d, pump[d], pumped[d])'
      <2>1. CASE c \in alive
            <3>1. /\ UNCHANGED <<alive, uni>> /\ pump' = [pump EXCEPT ![c] = "read"]
                  /\ pumped' = [pumped EXCEPT ![c] = pumped[c] + 1]
                  BY <1>7, <2>1 DEF PumpAccept, PumpStep
            <3>2. ReasonOf(c, "read", pumped'[c])
                  BY DEF ReasonOf
            <3>3. CASE d = c
                  BY <1>5, <3>1, <3>2, <3>3
            <3>4. CASE d # c
                  BY <1>0, <1>1, <3>1, <3>4
            <3> QED BY <3>3, <3>4
      <2>2. CASE c \notin alive
            <3>1. /\ UNCHANGED <<alive, uni, pumped>> /\ pump' = [pump EXCEPT ![c] = "end"]
                  BY <1>7, <2>2 DEF PumpAccept, PumpStep
            <3>2. ReasonOf(c, "end", pumped'[c])
                  BY <2>2 DEF ReasonOf
            <3> QED BY <1>5, <3>1, <3>2
      <2> QED BY <2>1, <2>2
<1>8. ASSUME NEW c \in Conns, PumpRead(c) PROVE ReasonOf(d, pump[d], pumped[d])'
      <2>1. UNCHANGED <<alive, uni, pumped>>
            BY <1>8 DEF PumpRead
      <2>2. CASE c \in alive /\ KnownHeader(uni[c][pumped[c]].type)
            <3>1. pump' = [pump EXCEPT ![c] = "send"]
                  BY <1>8, <2>2 DEF PumpRead, PumpStep
            <3>2. ReasonOf(c, "send", pumped'[c])
                  BY DEF ReasonOf
            <3> QED BY <1>5, <2>1, <3>1, <3>2
      <2>3. CASE ~(c \in alive /\ KnownHeader(uni[c][pumped[c]].type))
            <3>1. pump' = [pump EXCEPT ![c] = "failed"]
                  BY <1>8, <2>3 DEF PumpRead, PumpStep
            <3>2. ReasonOf(c, "failed", pumped'[c])
                  BY <2>1, <2>3 DEF ReasonOf
            <3> QED BY <1>5, <2>1, <3>1, <3>2
      <2> QED BY <2>2, <2>3
\* New streams come behind the others, and a stream keeps its type.
<1>9. ASSUME NEW c \in Conns, UNCHANGED <<alive, pump, pumped>>,
             d = c => \A i \in 1 .. Len(uni[c]) : uni'[c][i].type = uni[c][i].type,
             d # c => uni'[d] = uni[d]
      PROVE  ReasonOf(d, pump[d], pumped[d])'
      <2>1. pump[d] = "failed" => pumped[d] \in 1 .. Len(uni[d])
            <3>1. PumpOf(uni[d], pump[d], pumped[d], late[d], chan[d], taken[d])
                  BY DEF Pumps
            <3> QED BY <3>1, SeqFacts DEF PumpOf, Hand
      <2> QED BY <1>0, <1>9, <2>1 DEF ReasonOf
<1>10. ASSUME NEW c \in Conns, NEW type \in {"UNI", "other"}, OpenUni(c, type)
       PROVE  ReasonOf(d, pump[d], pumped[d])'
      <2> DEFINE e == [type |-> type, come |-> FALSE]
      <2>1. uni' = [uni EXCEPT ![c] = Append(uni[c], e)] /\ UNCHANGED <<alive, pump, pumped>>
            BY <1>10 DEF OpenUni
      <2>2. e \in UniStream /\ uni[c] \in Seq(UniStream)
            BY DEF UniStream, Pumps, PumpOf
      <2> HIDE DEF e
      <2>3. \A i \in 1 .. Len(uni[c]) : Append(uni[c], e)[i] = uni[c][i]
            BY <2>2, AppendFacts
      <2>4. uni'[c] = Append(uni[c], e) /\ (d # c => uni'[d] = uni[d])
            BY <1>0, <2>1
      <2> QED BY <1>9, <2>1, <2>3, <2>4
<1>11. ASSUME NEW c \in Conns, NEW i \in DOMAIN uni[c], HeaderComes(c, i)
       PROVE  ReasonOf(d, pump[d], pumped[d])'
      <2> DEFINE u == [uni[c] EXCEPT ![i] = [uni[c][i] EXCEPT !.come = TRUE]]
      <2>1. uni' = [uni EXCEPT ![c] = u] /\ UNCHANGED <<alive, pump, pumped>>
            BY <1>11 DEF HeaderComes
      <2>2. uni[c] \in Seq(UniStream) /\ DOMAIN uni[c] = 1 .. Len(uni[c])
            <3>1. uni[c] \in Seq(UniStream)
                  BY DEF Pumps, PumpOf
            <3> QED BY <3>1, SeqFacts
      <2>3. \A j \in 1 .. Len(uni[c]) : u[j].type = uni[c][j].type
            <3> SUFFICES ASSUME NEW j \in 1 .. Len(uni[c]) PROVE u[j].type = uni[c][j].type
                OBVIOUS
            <3>1. uni[c][j] \in UniStream /\ j \in DOMAIN uni[c]
                  BY <2>2
            <3> QED BY <3>1 DEF UniStream
      <2> HIDE DEF u
      <2>4. uni'[c] = u /\ (d # c => uni'[d] = uni[d])
            BY <1>0, <2>1
      <2> QED BY <1>9, <2>1, <2>3, <2>4
<1> QED BY <1>2, <1>3, <1>4, <1>6, <1>7, <1>8, <1>10, <1>11, StepCases DEF Quiet

-----------------------------------------------------------------------------
LEMMA InitInv == Init => PumpInv
<1> SUFFICES ASSUME Init PROVE HandledOnce /\ Pumps /\ Reasons
    BY PumpInvParts
<1>1. HandledOnce
      BY DEF Init, HandledOnce
<1>2. << >> \o << >> = << >> /\ Len(<< >>) = 0
      OBVIOUS
<1>3. InOrder(<< >> \o << >>, PassedOf("none", 0), {})
      BY <1>2 DEF InOrder, PassedOf, Hand
<1>4. PumpOf(<< >>, "none", 0, {}, << >>, << >>)
      BY <1>2, <1>3, ListenerAssumption DEF PumpOf, PassedOf, Hand
<1>5. PumpFuns
      BY DEF Init, PumpFuns
<1>6. Reasons
      BY DEF Init, Reasons, ReasonOf
<1> QED BY <1>1, <1>4, <1>5, <1>6 DEF Init, Pumps

LEMMA NextInv == PumpInv /\ [Next]_vars => PumpInv'
<1>1. (HandledOnce /\ Pumps /\ Reasons)' => PumpInv'
      BY PumpInvParts, PTL
<1>2. PumpInv => HandledOnce /\ Pumps /\ Reasons /\ PumpTypeOK
      BY PumpInvParts DEF PumpInv
<1> QED BY <1>1, <1>2, OnceNext, PumpNext, ReasonsNext

\* The invariant of the listener and of the pumps it starts.
THEOREM Invariance == Spec => []PumpInv
    BY InitInv, NextInv, PTL DEF Spec

\* For any capacity of the channel and any number of streams: what DoHandle has taken
\* and what the channel holds are streams in the order they were opened, each once. Every
\* other stream was late with its header, is in the hands of ProcesUniStreams or to come,
\* or is lost with the goroutine, to an unknown header or a connection that is gone.
THEOREM StreamsInOrder == Spec => []PumpKeepsStreams
<1>1. PumpInv => PumpKeepsStreams
      <2> SUFFICES ASSUME PumpInv, NEW c \in Conns
                   PROVE  LET s == taken[c] \o chan[c]
                              passed == {s[i] : i \in DOMAIN s}
                          IN
                          /\ \A i, j \in DOMAIN s : i < j => s[i] < s[j]
                          /\ passed \subseteq DOMAIN uni[c] \ late[c]
                          /\ \A i \in DOMAIN uni[c] \ (passed \cup late[c]) :
                                \/ pump[c] \in {"read", "send"} /\ i = pumped[c]
                                \/ pump[c] \notin {"failed", "end"} /\ i > pumped[c]
                                \/ Abandoned(c, i)
          BY DEF PumpKeepsStreams
      <2>1. /\ PumpOf(uni[c], pump[c], pumped[c], late[c], chan[c], taken[c])
            /\ ReasonOf(c, pump[c], pumped[c])
            BY PumpInvParts DEF Pumps, Reasons
      <2>2. DOMAIN uni[c] = 1 .. Len(uni[c]) /\ Len(uni[c]) \in Nat
            BY <2>1, SeqFacts DEF PumpOf
      <2> DEFINE s == taken[c] \o chan[c]
                 passed == {s[i] : i \in DOMAIN s}
                 m == PassedOf(pump[c], pumped[c])
      <2>3. /\ \A i, j \in DOMAIN s : i < j => s[i] < s[j]
            /\ passed = 1 .. m \ late[c]
            BY <2>1 DEF PumpOf, InOrder
      <2>4. /\ pumped[c] \in Nat /\ pumped[c] <= Len(uni[c])
            /\ m = IF pump[c] \in {"read", "send", "failed"} THEN pumped[c] - 1 ELSE pumped[c]
            BY <2>1 DEF PumpOf, PassedOf, Hand
      <2>5a. m \in Int /\ m <= Len(uni[c])
            BY <2>2, <2>4
      <2> HIDE DEF m, passed, s
      <2>5. passed \subseteq DOMAIN uni[c] \ late[c]
            BY <2>2, <2>3, <2>5a
      <2>6. ASSUME NEW i \in DOMAIN uni[c] \ (passed \cup late[c])
            PROVE  \/ pump[c] \in {"read", "send"} /\ i = pumped[c]
                   \/ pump[c] \notin {"failed", "end"} /\ i > pumped[c]
                   \/ Abandoned(c, i)
            <3>1. i \in Nat /\ i > m
                  BY <2>2, <2>3, <2>5a
            <3>2. CASE pump[c] = "failed"
                  BY <2>1, <2>4, <3>1, <3>2 DEF Abandoned, ReasonOf
            <3>3. CASE pump[c] = "end"
                  BY <2>1, <2>4, <3>1, <3>3 DEF Abandoned, ReasonOf
            <3>4. CASE pump[c] \notin {"failed", "end"}
                  BY <2>4, <3>1, <3>4
            <3> QED BY <3>2, <3>3, <3>4
      <2> QED BY <2>3, <2>5, <2>6 DEF s, passed
<1> QED BY <1>1, Invariance, PTL

\* A connection is in the queue once or with Listen or handled, and gets at most one
\* ProcesUniStreams.
THEOREM ConnectionsHandledOnce == Spec => []HandledOnce
    BY Invariance, PTL DEF PumpInv

-----------------------------------------------------------------------------
\* SettingsFrame.Parse. Induction over a set of naturals is a first-order fact.
LEMMA LessThanWellFounded ==
    IsWellFoundedOn({p \in Nat \X Nat : p[1] < p[2]}, Nat)
    BY NatLessThanWellFounded DEF OpToRel

LEMMA SetInduction ==
    ASSUME NEW S \in SUBSET Nat, 0 \in S, \A n \in S : n + 1 \in S
    PROVE  S = Nat
<1> DEFINE T == Nat \ S
           R == {p \in Nat \X Nat : p[1] < p[2]}
<1>1. SUFFICES ASSUME T # {} PROVE FALSE
      OBVIOUS
<1>2. T \subseteq Nat /\ IsWellFoundedOn(R, Nat)
      BY LessThanWellFounded
<1>3. PICK x \in T : \A y \in T : ~ (<<y, x>> \in R)
      <2> HIDE DEF T, R
      <2> QED BY <1>1, <1>2, WFMin
<1>4. x \in Nat /\ x # 0 /\ x - 1 \in Nat /\ <<x - 1, x>> \in R
      OBVIOUS
<1>5. x - 1 \in S
      BY <1>3, <1>4
<1> QED BY <1>4, <1>5

\* Running totals: f starts at a and adds w[i] in its i-th step.
Totals(f, n, a, w) == /\ f \in [0 .. n -> Int] /\ f[0] = a
                      /\ \A i \in 1 .. n : f[i] = f[i - 1] + w[i]

LEMMA TotalsExist ==
    ASSUME NEW n \in Nat, NEW a \in Int, NEW w \in [1 .. n -> Int]
    PROVE  \E f : Totals(f, n, a, w)
<1> DEFINE S == {m \in Nat : m <= n => \E f : Totals(f, m, a, w)}
<1>1. 0 \in S
      <2>1. Totals([i \in 0 .. 0 |-> a], 0, a, w)
            BY DEF Totals
      <2> QED BY <2>1
<1>2. ASSUME NEW m \in S PROVE m + 1 \in S
      <2> SUFFICES ASSUME m + 1 <= n PROVE \E f : Totals(f, m + 1, a, w)
          OBVIOUS
      <2>1. PICK f : Totals(f, m, a, w)
            BY <1>2
      <2> DEFINE g == [i \in 0 .. m + 1 |-> IF i <= m THEN f[i] ELSE f[m] + w[m + 1]]
      <2>2. m \in Nat /\ m + 1 \in 1 .. n /\ w[m + 1] \in Int /\ f[m] \in Int
            BY <2>1 DEF Totals
      <2>3. g \in [0 .. m + 1 -> Int] /\ g[0] = a
            BY <2>1, <2>2 DEF Totals
      <2>4. ASSUME NEW i \in 1 .. m + 1 PROVE g[i] = g[i - 1] + w[i]
            <3>1. CASE i <= m
                  BY <2>1, <2>2, <3>1 DEF Totals
            <3>2. CASE i = m + 1
                  BY <2>1, <2>2, <3>2 DEF Totals
            <3> QED BY <2>2, <3>1, <3>2
      <2>5. Totals(g, m + 1, a, w)
            <3> HIDE DEF g
            <3> QED BY <2>3, <2>4 DEF Totals
      <2> QED BY <2>5
<1>3. S = Nat
      <2>1. S \in SUBSET Nat
            OBVIOUS
      <2> HIDE DEF S
      <2> QED BY <1>1, <1>2, <2>1, SetInduction
<1>4. n \in S
      BY <1>3
<1> QED BY <1>4

\* Totals of positive numbers grow.
LEMMA TotalsGrow ==
    ASSUME NEW n \in Nat, NEW a \in Int, NEW w \in [1 .. n -> Nat \ {0}], NEW f,
           Totals(f, n, a, w)
    PROVE  \A i \in 0 .. n : f[n] >= f[i] + (n - i)
<1> DEFINE S == {d \in Nat : d <= n => f[n] >= f[n - d] + d}
<1>1. 0 \in S
      BY DEF Totals
<1>2. ASSUME NEW d \in S PROVE d + 1 \in S
      <2> SUFFICES ASSUME d + 1 <= n PROVE f[n] >= f[n - (d + 1)] + (d + 1)
          OBVIOUS
      <2> DEFINE i == n - d
      <2>1. i \in 1 .. n /\ i - 1 = n - (d + 1) /\ i - 1 \in 0 .. n
            OBVIOUS
      <2>2. f[i] = f[i - 1] + w[i] /\ w[i] \in Nat \ {0} /\ f[i - 1] \in Int
            BY <2>1 DEF Totals
      <2>3. f[n] >= f[i] + d /\ f[n] \in Int
            BY <1>2 DEF Totals
      <2>4. d \in Nat /\ f[n - (d + 1)] = f[i - 1]
            BY <2>1
      <2>5. \A x, y, z, u \in Int : x >= y + d /\ y = z + u /\ u > 0 => x >= z + (d + 1)
            BY <2>4
      <2>6. f[i] \in Int /\ w[i] \in Int /\ w[i] > 0
            BY <2>1, <2>2
      <2> HIDE DEF i, S
      <2> QED BY <2>2, <2>3, <2>4, <2>5, <2>6
<1>3. S = Nat
      <2>1. S \in SUBSET Nat
            OBVIOUS
      <2> HIDE DEF S
      <2> QED BY <1>1, <1>2, <2>1, SetInduction
<1>4. ASSUME NEW i \in 0 .. n PROVE f[n] >= f[i] + (n - i)
      <2>1. n - i \in Nat /\ n - (n - i) = i /\ n - i <= n
            OBVIOUS
      <2>2. n - i \in S
            BY <1>3, <2>1
      <2> QED BY <2>1, <2>2
<1> QED BY <1>4

\* The two recursive definitions of SettingsFrame.Parse, as equations.
Adds(f, n, a, w) == f = [i \in 0 .. n |-> IF i = 0 THEN a ELSE f[i - 1] + w[i]]
TakesOff(f, n, a, w) == f = [i \in 0 .. n |-> IF i = 0 THEN a ELSE f[i - 1] - w[i]]

\* A function defined recursively by adding is a function of totals.
LEMMA RecursionIsTotals ==
    ASSUME NEW n \in Nat, NEW a \in Int, NEW w \in [1 .. n -> Int], NEW f,
           Adds(f, n, a, w)
    PROVE  Totals(f, n, a, w)
<1> DEFINE S == {i \in Nat : i <= n => f[i] \in Int}
<1>1. f[0] = a /\ \A i \in 1 .. n : f[i] = f[i - 1] + w[i]
      BY DEF Adds
<1>2. 0 \in S
      BY <1>1
<1>3. ASSUME NEW i \in S PROVE i + 1 \in S
      <2> SUFFICES ASSUME i + 1 <= n PROVE f[i + 1] \in Int
          OBVIOUS
      <2>1. i + 1 \in 1 .. n /\ (i + 1) - 1 = i /\ f[i] \in Int
            BY <1>3
      <2>2. f[i + 1] = f[i] + w[i + 1] /\ w[i + 1] \in Int
            BY <1>1, <2>1
      <2> QED BY <2>1, <2>2
<1>4. S = Nat
      <2>1. S \in SUBSET Nat
            OBVIOUS
      <2> HIDE DEF S
      <2> QED BY <1>2, <1>3, <2>1, SetInduction
<1>5. \A i \in 0 .. n : f[i] \in Int
      <2>1. ASSUME NEW i \in 0 .. n PROVE f[i] \in Int
            <3>1. i \in Nat /\ i <= n
                  OBVIOUS
            <3>2. i \in S
                  BY <1>4, <3>1
            <3> QED BY <3>1, <3>2
      <2> QED BY <2>1
<1>6. f \in [0 .. n -> Int]
      BY <1>5 DEF Adds
<1> QED BY <1>1, <1>6 DEF Totals

LEMMA LengthsPositive ==
    ASSUME NEW s \in [Key : Nat, Value : Nat]
    PROVE  GetLength(s) \in Nat \ {0} /\ GetLength(s) = VarLen(s.Key) + VarLen(s.Value)
<1>1. \A v \in Nat : VarLen(v) \in Nat \ {0}
      BY DEF VarLen
<1>2. VarLen(s.Key) \in Nat \ {0} /\ VarLen(s.Value) \in Nat \ {0}
      BY <1>1
<1> HIDE DEF VarLen
<1> QED BY <1>2 DEF GetLength

\* A frame whose settings are in the shortest encoding.
Shortest(frame) == frame.pad = 0 /\ frame.Settings \in Seq([Key : Nat, Value : Nat])

LEMMA SettingsFacts ==
    ASSUME NEW frame, Shortest(frame)
    PROVE  /\ Len(frame.Settings) \in Nat
           /\ \A i \in Nat \ {0} : GetLength(SettingAt(frame, i)) \in Nat \ {0}
           /\ \A i \in 1 .. Len(frame.Settings) :
                 GetLength(SettingAt(frame, i))
                     = VarLen(frame.Settings[i].Key) + VarLen(frame.Settings[i].Value)
           /\ [i \in 1 .. Len(frame.Settings) |-> SettingAt(frame, i)] = frame.Settings
<1> DEFINE n == Len(frame.Settings)
<1>1. n \in Nat /\ frame.Settings \in Seq([Key : Nat, Value : Nat])
      BY DEF Shortest
<1>2. ASSUME NEW i \in 1 .. n
      PROVE  SettingAt(frame, i) = frame.Settings[i] /\ frame.Settings[i] \in [Key : Nat, Value : Nat]
      <2>1. SettingAt(frame, i) = frame.Settings[i]
            BY <1>1 DEF SettingAt
      <2>2. frame.Settings[i] \in [Key : Nat, Value : Nat]
            BY <1>1, SeqFacts
      <2> QED BY <2>1, <2>2
<1>3. ASSUME NEW i \in Nat \ {0} PROVE SettingAt(frame, i) \in [Key : Nat, Value : Nat]
      <2>1. CASE i <= n
            <3>1. i \in 1 .. n
                  BY <1>1, <2>1
            <3> QED BY <1>2, <3>1
      <2>2. CASE ~(i <= n)
            BY <2>2 DEF SettingAt
      <2> QED BY <2>1, <2>2
<1>4. \A i \in Nat \ {0} : GetLength(SettingAt(frame, i)) \in Nat \ {0}
      BY <1>3, LengthsPositive
<1>5. \A i \in 1 .. n : GetLength(SettingAt(frame, i))
                     = VarLen(frame.Settings[i].Key) + VarLen(frame.Settings[i].Value)
      BY <1>2, LengthsPositive
<1>6. [i \in 1 .. n |-> SettingAt(frame, i)] = frame.Settings
      BY <1>1, <1>2, SMTT(30)
<1> QED BY <1>1, <1>4, <1>5, <1>6

\* The frame's length is the total of the lengths that Parse takes off.
LEMMA FrameLengthIsTotal ==
    ASSUME NEW frame, Shortest(frame)
    PROVE  \E size : /\ Totals(size, Len(frame.Settings), 0,
                               [i \in 1 .. Len(frame.Settings) |-> GetLength(SettingAt(frame, i))])
                     /\ FrameLength(frame) = size[Len(frame.Settings)]
<1> DEFINE n == Len(frame.Settings)
           w == [i \in 1 .. n |-> GetLength(SettingAt(frame, i))]
           Len2(i) == VarLen(frame.Settings[i].Key) + VarLen(frame.Settings[i].Value)
           size == CHOOSE f : f = [i \in 0 .. n |->
                                      IF i = 0 THEN frame.pad ELSE f[i - 1] + Len2(i)]
<1>1. n \in Nat /\ frame.pad = 0 /\ w \in [1 .. n -> Int]
      <2>1. n \in Nat /\ \A i \in Nat \ {0} : GetLength(SettingAt(frame, i)) \in Nat \ {0}
            BY SettingsFacts
      <2>2. \A i \in 1 .. n : i \in Nat \ {0}
            BY <2>1
      <2>3. frame.pad = 0
            BY DEF Shortest
      <2> QED BY <2>1, <2>2, <2>3
<1>2. \A i \in 1 .. n : w[i] = Len2(i)
      BY SettingsFacts
<1>3. FrameLength(frame) = size[n]
      BY DEF FrameLength
<1> HIDE DEF n, w, Len2
<1>4. PICK f : Totals(f, n, 0, w)
      BY <1>1, TotalsExist
<1>5. f = [i \in 0 .. n |-> IF i = 0 THEN frame.pad ELSE f[i - 1] + Len2(i)]
      BY <1>1, <1>2, <1>4 DEF Totals
<1>6. size = [i \in 0 .. n |-> IF i = 0 THEN frame.pad ELSE size[i - 1] + Len2(i)]
      BY <1>5
<1> HIDE DEF size
<1>7. Adds(size, n, 0, w)
      BY <1>1, <1>2, <1>6 DEF Adds
<1>8. Totals(size, n, 0, w)
      BY <1>1, <1>7, RecursionIsTotals
<1> QED BY <1>3, <1>8 DEF n, w

\* What is left comes down from the length to 0, one setting at a time.
LEMMA LeftIsRest ==
    ASSUME NEW n \in Nat, NEW length \in Nat, NEW w \in [1 .. n -> Int], NEW size,
           Totals(size, n, 0, w), NEW N \in Nat, n <= N,
           NEW g, NEW left, TakesOff(left, N, length, g),
           \A i \in 1 .. n : g[i] = w[i]
    PROVE  \A i \in 0 .. n : left[i] = length - size[i]
<1> DEFINE T == {i \in Nat : i <= n => left[i] = length - size[i]}
<1>1. 0 \in T
      BY DEF Totals, TakesOff
<1>2. ASSUME NEW i \in T PROVE i + 1 \in T
      <2> SUFFICES ASSUME i + 1 <= n PROVE left[i + 1] = length - size[i + 1]
          OBVIOUS
      <2>1. /\ i + 1 \in 1 .. n /\ i + 1 \in 0 .. N /\ i + 1 # 0
            /\ (i + 1) - 1 = i /\ i \in 0 .. n
            OBVIOUS
      <2>2. left[i + 1] = left[i] - w[i + 1] /\ w[i + 1] \in Int
            BY <2>1 DEF TakesOff
      <2>3. size[i + 1] = size[i] + w[i + 1] /\ size[i] \in Int
            BY <2>1 DEF Totals
      <2>4. left[i] = length - size[i]
            BY <1>2, <2>1
      <2> QED BY <2>2, <2>3, <2>4
<1>3. T = Nat
      <2>1. T \in SUBSET Nat
            OBVIOUS
      <2> HIDE DEF T
      <2> QED BY <1>1, <1>2, <2>1, SetInduction
<1>4. ASSUME NEW i \in 0 .. n PROVE left[i] = length - size[i]
      <2>1. i \in Nat /\ i <= n
            OBVIOUS
      <2>2. i \in T
            BY <1>3, <2>1
      <2> QED BY <2>1, <2>2
<1> QED BY <1>4

\* The recursion over what is left has a solution.
LEMMA LeftExists ==
    ASSUME NEW N \in Nat, NEW length \in Int, NEW g \in [1 .. N -> Int]
    PROVE  \E left : TakesOff(left, N, length, g)
<1> DEFINE v == [i \in 1 .. N |-> - g[i]]
<1>1. v \in [1 .. N -> Int]
      OBVIOUS
<1>2. PICK f : Totals(f, N, length, v)
      <2> HIDE DEF v
      <2> QED BY <1>1, TotalsExist
<1>3. ASSUME NEW i \in 1 .. N PROVE f[i] = f[i - 1] - g[i]
      <2>1. i - 1 \in 0 .. N /\ g[i] \in Int /\ v[i] = - g[i]
            OBVIOUS
      <2>2. f[i] = f[i - 1] + v[i] /\ f[i - 1] \in Int
            BY <1>2, <2>1 DEF Totals
      <2> QED BY <2>1, <2>2
<1>4. TakesOff(f, N, length, g)
      <2>1. f \in [0 .. N -> Int] /\ f[0] = length
            BY <1>2 DEF Totals
      <2>2. \A i \in 0 .. N : i # 0 => i \in 1 .. N
            OBVIOUS
      <2> QED BY <1>3, <2>1, <2>2 DEF TakesOff
<1> QED BY <1>4

\* In the shortest encoding, the loop of SettingsFrame.Parse ends after the last setting
\* and not before, and gives the settings that were sent.
LEMMA ParseShortest ==
    ASSUME NEW frame, Shortest(frame)
    PROVE  SettingsParse(frame).ends /\ SettingsParse(frame).Settings = frame.Settings
<1> DEFINE n == Len(frame.Settings)
           length == FrameLength(frame)
           G(i) == GetLength(SettingAt(frame, i))
           left == CHOOSE f : f = [i \in 0 .. n + length |->
                                      IF i = 0 THEN length ELSE f[i - 1] - G(i)]
           ends == {i \in 0 .. n + length : left[i] = 0}
           w == [i \in 1 .. n |-> G(i)]
<1>1. /\ SettingsParse(frame).ends = (ends # {})
      /\ SettingsParse(frame).Settings
            = IF ends = {} THEN << >> ELSE [i \in 1 .. Min(ends) |-> SettingAt(frame, i)]
      BY DEF SettingsParse
<1>2. n \in Nat /\ \A i \in Nat \ {0} : G(i) \in Nat \ {0}
      BY SettingsFacts
<1>3. PICK size : Totals(size, n, 0, w) /\ length = size[n]
      BY FrameLengthIsTotal
<1>4. [i \in 1 .. n |-> SettingAt(frame, i)] = frame.Settings
      BY SettingsFacts
<1> HIDE DEF n, length, G
<1>5. w \in [1 .. n -> Nat \ {0}] /\ w \in [1 .. n -> Int]
      <2>1. \A i \in 1 .. n : i \in Nat \ {0}
            BY <1>2
      <2> QED BY <1>2, <2>1
<1>6. /\ length \in Nat /\ n <= length
      /\ \A i \in 0 .. n : size[i] \in Int /\ length >= size[i] + (n - i)
      <2> HIDE DEF w
      <2>1. \A i \in 0 .. n : size[n] >= size[i] + (n - i)
            BY <1>2, <1>3, <1>5, TotalsGrow
      <2>2. size[0] = 0 /\ \A i \in 0 .. n : size[i] \in Int
            BY <1>3 DEF Totals
      <2> QED BY <1>2, <1>3, <2>1, <2>2
<1> DEFINE g == [i \in 1 .. n + length |-> G(i)]
<1>7. n + length \in Nat /\ g \in [1 .. n + length -> Int]
      <2>1. \A i \in 1 .. n + length : i \in Nat \ {0}
            BY <1>2, <1>6
      <2> QED BY <1>2, <1>6, <2>1
<1>8. TakesOff(left, n + length, length, g)
      <2>1. PICK f : TakesOff(f, n + length, length, g)
            <3> HIDE DEF g
            <3> QED BY <1>6, <1>7, LeftExists
      <2>2. f = [i \in 0 .. n + length |-> IF i = 0 THEN length ELSE f[i - 1] - G(i)]
            <3>1. \A i \in 0 .. n + length : i # 0 => g[i] = G(i)
                  BY <1>2, <1>6
            <3> HIDE DEF g
            <3> QED BY <2>1, <3>1 DEF TakesOff
      <2>3. left = [i \in 0 .. n + length |-> IF i = 0 THEN length ELSE left[i - 1] - G(i)]
            BY <2>2
      <2> HIDE DEF left
      <2> QED BY <1>7, <2>3 DEF TakesOff
<1> HIDE DEF left
<1>9. \A i \in 0 .. n : left[i] = length - size[i]
      <2>1. \A i \in 1 .. n : g[i] = w[i]
            BY <1>2, <1>6
      <2> HIDE DEF g, w
      <2>2. n \in Nat /\ length \in Nat /\ n + length \in Nat /\ n <= n + length
            BY <1>2, <1>6
      <2> DEFINE N == n + length
      <2>3. N \in Nat /\ n <= N /\ TakesOff(left, N, length, g)
            BY <2>2, <1>8
      <2>4. Totals(size, n, 0, w) /\ w \in [1 .. n -> Int]
            BY <1>3, <1>5
      <2> HIDE DEF N
      <2> QED BY ONLY <2>1, <2>2, <2>3, <2>4, LeftIsRest, SMTT(60)
<1>10. n \in ends /\ \A i \in ends : n <= i
      <2>1. n \in 0 .. n /\ n \in 0 .. n + length
            BY <1>2, <1>6
      <2>2. n \in ends
            <3>1. left[n] = length - size[n]
                  BY <1>9, <2>1
            <3>2. left[n] = 0
                  BY <1>3, <1>6, <3>1
            <3> QED BY <2>1, <3>2
      <2>3. ASSUME NEW i \in ends, i < n PROVE FALSE
            <3>1. i \in 0 .. n /\ left[i] = 0
                  BY <1>2, <1>6, <2>3
            <3> QED BY <1>2, <1>6, <1>9, <2>3, <3>1
      <2> QED BY <1>2, <1>6, <2>2, <2>3
<1>11. Min(ends) = n
      <2>1. \A i \in ends : i \in Int
            BY <1>2, <1>6
      <2> HIDE DEF ends
      <2>2. \A x \in ends : (\A y \in ends : x <= y) => x = n
            BY <1>2, <1>10, <2>1
      <2>3. \E x \in ends : \A y \in ends : x <= y
            BY <1>10
      <2> QED BY <2>2, <2>3 DEF Min
<1> HIDE DEF ends
<1> QED BY <1>1, <1>4, <1>10, <1>11

\* What the client has sent is a frame of settings, and the record of what was parsed
\* is a function on the connections.
SettingsInv ==
    /\ DOMAIN settings = Conns /\ DOMAIN hello \subseteq Conns
    /\ \A c \in DOMAIN hello : hello[c] \in Hellos
    /\ SettingsAsSent

LEMMA SettingsInit == Init => SettingsInv
    BY DEF Init, SettingsInv, SettingsAsSent, Upgrading

\* A step that neither reads settings nor starts to wait for a request.
LEMMA SettingsKept ==
    ASSUME SettingsInv, UNCHANGED <<hello, settings>>,
           lst' = lst \/ \A c \in Conns : lst' # <<c, "request">> /\ lst' # <<c, "endless">>
    PROVE  SettingsInv'
    BY DEF SettingsInv, SettingsAsSent, Upgrading

LEMMA SettingsRead ==
    ASSUME SettingsInv, NEW c \in Conns, UpgradeSettings(c)
    PROVE  SettingsInv'
<1> DEFINE frame == hello[c].frame
<1>1. UNCHANGED hello
      BY DEF UpgradeSettings
<1>2. CASE c \notin alive \/ ~ParseFrame(frame, "SETTINGS")
      <2>1. UNCHANGED settings /\ lst' = <<"accept">>
            BY <1>2 DEF UpgradeSettings, UpgradeFails
      <2>2. \A d \in Conns : lst' # <<d, "request">> /\ lst' # <<d, "endless">>
            BY <2>1
      <2> QED BY <1>1, <2>1, <2>2, SettingsKept
<1>3. CASE ~(c \notin alive \/ ~ParseFrame(frame, "SETTINGS"))
      <2> DEFINE step == IF SettingsParse(frame).ends THEN "request" ELSE "endless"
                 got == SettingsParse(frame).Settings
      <2>1. lst' = <<c, step>> /\ settings' = [settings EXCEPT ![c] = got]
            BY <1>3 DEF UpgradeSettings, Proceed
      <2>2. ASSUME c \in DOMAIN hello
            PROVE  frame.pad = 0 => step = "request" /\ got = frame.Settings
            <3>1. frame.Settings \in Seq([Key : Nat, Value : Nat])
                  BY <2>2, ListenerAssumption DEF SettingsInv
            <3>2. frame.pad = 0 => Shortest(frame)
                  BY <3>1 DEF Shortest
            <3> QED BY <3>2, ParseShortest
      <2> HIDE DEF step, got
      <2>3. ASSUME NEW d \in DOMAIN hello, lst' = <<d, "request">>, hello[d].frame.pad = 0
            PROVE  settings'[d] = hello[d].frame.Settings
            <3>1. d = c
                  BY <2>1, <2>3
            <3> QED BY <2>1, <2>2, <2>3, <3>1 DEF SettingsInv
      <2>5. ASSUME NEW d \in DOMAIN hello, hello[d].frame.pad = 0
            PROVE  lst' # <<d, "endless">>
            <3>1. CASE d = c
                  BY <2>1, <2>2, <2>5, <3>1
            <3>2. CASE d # c
                  BY <2>1, <3>2
            <3> QED BY <3>1, <3>2
      <2>4. DOMAIN settings' = Conns
            BY <2>1 DEF SettingsInv
      <2> QED BY <1>1, <2>3, <2>4, <2>5 DEF SettingsInv, SettingsAsSent, Upgrading
<1> QED BY <1>2, <1>3

LEMMA SettingsNext == SettingsInv /\ [Next]_vars => SettingsInv'
<1> SUFFICES ASSUME SettingsInv, [Next]_vars PROVE SettingsInv'
    OBVIOUS
<1>1. CASE Accept
      <2>1. UNCHANGED <<hello, settings>>
            BY <1>1 DEF Accept
      <2>2. lst' = lst \/ lst' = <<Head(queue), "open">>
            BY <1>1 DEF Accept
      <2>3. lst' = lst \/ \A c \in Conns : lst' # <<c, "request">> /\ lst' # <<c, "endless">>
            BY <2>2
      <2> QED BY <2>1, <2>3, SettingsKept
<1>2. CASE UNCHANGED vars
      BY <1>2, SettingsKept DEF vars, lstVars
<1>3. ASSUME NEW c \in Conns, UpgradeOpen(c) \/ UpgradeHeader(c) \/ UpgradeRequest(c)
      PROVE  SettingsInv'
      <2>1. UNCHANGED <<hello, settings>>
            BY <1>3 DEF UpgradeOpen, UpgradeHeader, UpgradeRequest
      <2>2. lst' \in {<<"accept">>, <<c, "header">>, <<c, "settings">>}
            BY <1>3 DEF UpgradeOpen, UpgradeHeader, UpgradeRequest, UpgradeFails, Proceed
      <2>3. \A d \in Conns : lst' # <<d, "request">> /\ lst' # <<d, "endless">>
            BY <2>2
      <2> QED BY <2>1, <2>3, SettingsKept
<1>4. ASSUME NEW c \in Conns,
             \/ ServeHTTP(c) \/ Connect(c) \/ Quiet(c)
             \/ \E type \in {"BI", "other"} : AcceptStream(c, type)
      PROVE  SettingsInv'
      <2>1. UNCHANGED <<hello, settings, lst>>
            BY <1>4 DEF ServeHTTP, Connect, Quiet, AcceptStream, PumpAccept, PumpRead, PumpSend,
                        PumpTimeout, DoHandle, AcceptUniStream, ParseMOQTStream, ConnLost, Hello,
                        OpenUni, HeaderComes, lstVars
      <2> QED BY <2>1, SettingsKept
<1> QED BY <1>1, <1>2, <1>3, <1>4, SettingsRead, StepCases

\* The settings of a client that encodes them as short as can be are parsed to the end and
\* as they were sent, for any settings and any number of them: the length that Parse
\* reckons with comes to 0 after the last one and not before.
THEOREM SettingsParsedAsSent == Spec => []SettingsAsSent
<1>1. SettingsInv => SettingsAsSent
      BY DEF SettingsInv
<1> QED BY <1>1, SettingsInit, SettingsNext, PTL DEF Spec
=============================================================================
