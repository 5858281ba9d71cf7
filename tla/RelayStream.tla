----------------------------- MODULE RelayStream -----------------------------
(***************************************************************************)
(* One track at the relay: a RelayStream (moqt/relaystream.go) with the    *)
(* goroutines that meet in it.                                             *)
(*                                                                         *)
(*  - ProcessObjects, one per incoming stream of the track: ForwardStream  *)
(*    spawns a copy for every subscriber while it holds the read lock, and *)
(*    keeps the lock until every copy has written its header or given up   *)
(*    (WgWait); then it reads objects into the stream's buffer and caches  *)
(*    them.                                                                *)
(*  - ProcessMOQTStream, one per copy: finds its subscription, opens a     *)
(*    QUIC stream, writes the header, and pipes the buffer.                *)
(*  - HandleSubscribe and HandleUnsubscribe on the subscriber's control    *)
(*    stream, and the subscriber session's Close on another goroutine.     *)
(*                                                                         *)
(* The buffers and the piping are GroupStream's. The cache is reduced to   *)
(* the sequence of cached objects, which RelayCache studies in detail; it  *)
(* does not overflow here.                                                 *)
(***************************************************************************)
EXTENDS Integers, Sequences, FiniteSets

CONSTANTS Streams,      \* incoming streams of the track
          Subs,         \* subscriber sessions
          First,        \* the one whose SUBSCRIBE made the relay subscribe upstream
          MaxObjects,   \* bound: objects of one stream
          Piped,        \* bound: the copies that are followed after their header
          Unsteady,     \* bound: the sessions that may unsubscribe, stall or close
          NoWriter      \* no goroutine wants SubscribersLock for writing

ASSUME RelayAssumption ==
    /\ First \in Subs
    /\ Unsteady \subseteq Subs
    /\ Piped \subseteq Streams \X Subs
    /\ MaxObjects \in Nat
    /\ NoWriter \notin ({"add", "unsubscribe", "close"} \X Subs)

Copies == Streams \X Subs
Objects == Streams \X (1 .. MaxObjects)
PubStreams == {}

VARIABLES ObjectsArr, IsEOF, pc, index, data, ordered, out, broken,  \* GroupStream's
          Subscribers,  \* rs.Subscribers, the sessions objects are forwarded to
          readers,      \* the streams whose ForwardStream holds the read lock
          writer,       \* the goroutine that waits for the write lock: <<why, session>>
          registered,   \* sessions whose SubscribedStreams knows the track
          hs,           \* hs[r]: progress of r's control message handler
          cl,           \* cl[r]: progress of r's session Close
          conn,         \* conn[r]: r's connection: open, stalled (no credit) or closed
          fw,           \* fw[s]: progress of ProcessObjects for stream s
          wg,           \* wg[s]: the stream's WaitGroup counter
          pm,           \* pm[q]: progress of ProcessMOQTStream before it pipes
          cache,        \* rs.ObjectCache
          replaying,    \* sessions whose SendCachedObjects goroutine is to run
          replayed,     \* replayed[r]: what SendCachedObjects copied for r
          amid          \* (history) amid[r]: streams under way without a copy for r
                        \* when its subscription was registered

gsVars  == <<ObjectsArr, IsEOF, pc, index, data, ordered, out, broken>>
lockVars == <<Subscribers, readers, writer>>
sessVars == <<registered, hs, cl, conn, replaying, replayed, amid>>
fwVars  == <<fw, wg, pm, cache>>
vars    == <<gsVars, lockVars, sessVars, fwVars>>

GS == INSTANCE GroupStream WITH Pipes <- Piped

Init ==
    /\ GS!Init
    /\ Subscribers = {} /\ readers = {} /\ writer = NoWriter
    /\ registered = {}
    /\ hs = [r \in Subs |-> IF r = First THEN "adding" ELSE "idle"]
    /\ cl = [r \in Subs |-> "open"]
    /\ conn = [r \in Subs |-> "open"]
    /\ fw = [s \in Streams |-> "new"]
    /\ wg = [s \in Streams |-> 0]
    /\ pm = [q \in Copies |-> "none"]
    /\ cache = << >>
    /\ replaying = {}
    /\ replayed = [r \in Subs |-> << >>]
    /\ amid = [r \in Subs |-> {}]

-----------------------------------------------------------------------------
\* ProcessObjects of stream s

\* DoHandle accepts the stream and parses its header; the track is known because
\* SendSubscribe recorded it before it sent SUBSCRIBE upstream.
AcceptStream(s) ==
    /\ fw[s] = "new"
    /\ fw' = [fw EXCEPT ![s] = "start"]
    /\ UNCHANGED <<gsVars, lockVars, sessVars, wg, pm, cache>>

\* ForwardStream: RLock (a waiting writer goes first), then WgAdd and a goroutine
\* for every subscriber. The lock stays held.
ForwardStream(s) ==
    /\ fw[s] = "start"
    /\ writer = NoWriter
    /\ readers' = readers \cup {s}
    /\ wg' = [wg EXCEPT ![s] = Cardinality(Subscribers)]
    /\ pm' = [q \in Copies |-> IF q[1] = s /\ q[2] \in Subscribers THEN "spawned" ELSE pm[q]]
    /\ fw' = [fw EXCEPT ![s] = "wgwait"]
    /\ UNCHANGED <<gsVars, Subscribers, writer, sessVars, cache>>

\* Fault: the read lock is given up before the copies have written their headers.
WgWaitNot(s) ==
    /\ fw[s] = "wgwait"
    /\ readers' = readers \ {s}
    /\ fw' = [fw EXCEPT ![s] = "read"]
    /\ UNCHANGED <<gsVars, Subscribers, writer, sessVars, wg, pm, cache>>

\* Fault: RUnlock is missing.
WgWaitKeepsLock(s) ==
    /\ fw[s] = "wgwait"
    /\ wg[s] = 0
    /\ fw' = [fw EXCEPT ![s] = "read"]
    /\ UNCHANGED <<gsVars, lockVars, sessVars, wg, pm, cache>>

\* WgWait returns; RUnlock.
WgWait(s) ==
    /\ fw[s] = "wgwait"
    /\ wg[s] = 0
    /\ readers' = readers \ {s}
    /\ fw' = [fw EXCEPT ![s] = "read"]
    /\ UNCHANGED <<gsVars, Subscribers, writer, sessVars, wg, pm, cache>>

\* ReadObject returns an object, which is in the buffer and broadcast. (A payload
\* cut short by the end of the incoming stream is returned as an object too: its
\* ReadFull error is ignored. The next call returns EOF.)
ReadObject(s) ==
    /\ fw[s] = "read"
    /\ Len(ObjectsArr[s]) < MaxObjects
    /\ GS!WriteObject(s, <<s, Len(ObjectsArr[s]) + 1>>)
    /\ fw' = [fw EXCEPT ![s] = "cache"]
    /\ UNCHANGED <<lockVars, sessVars, wg, pm, cache>>

\* cacheObject
CacheObject(s) ==
    /\ fw[s] = "cache"
    /\ cache' = Append(cache, <<s, Len(ObjectsArr[s])>>)
    /\ fw' = [fw EXCEPT ![s] = "read"]
    /\ UNCHANGED <<gsVars, lockVars, sessVars, wg, pm>>

\* Fault: EOF does not leave the loop.
ReadEOFGoesOn(s) ==
    /\ fw[s] = "read"
    /\ GS!Close(s)
    /\ UNCHANGED <<lockVars, sessVars, fwVars>>

\* ReadObject meets the end of the incoming stream: Close, and the loop is left.
ReadEOF(s) ==
    /\ fw[s] = "read"
    /\ GS!Close(s)
    /\ fw' = [fw EXCEPT ![s] = "done"]
    /\ UNCHANGED <<lockVars, sessVars, wg, pm, cache>>

\* ReadObject fails otherwise (stream reset, publisher's connection lost):
\* ProcessObjects returns and the buffer is not closed.
ReadFails(s) ==
    /\ fw[s] = "read"
    /\ fw' = [fw EXCEPT ![s] = "failed"]
    /\ UNCHANGED <<gsVars, lockVars, sessVars, wg, pm, cache>>

-----------------------------------------------------------------------------
\* ProcessMOQTStream of copy q = <<stream, subscriber>>

\* Fault: a copy counts down in its early return and again when it ends.
WgDoneTwice(s) == wg' = [wg EXCEPT ![s] = @ - 2]

\* stream.WgDone()
WgDone(s) == wg' = [wg EXCEPT ![s] = @ - 1]

\* Fault: the early return forgets WgDone.
CopyUnknownKeepsWg(q) ==
    /\ pm[q] = "spawned"
    /\ q[2] \notin registered
    /\ pm' = [pm EXCEPT ![q] = "unknown"]
    /\ UNCHANGED <<gsVars, lockVars, sessVars, fw, wg, cache>>

\* GetSubID does not find the track: the handler has added the session to
\* Subscribers but not yet registered the subscription. The copy is given up.
CopyUnknown(q) ==
    /\ pm[q] = "spawned"
    /\ q[2] \notin registered
    /\ WgDone(q[1])
    /\ pm' = [pm EXCEPT ![q] = "unknown"]
    /\ UNCHANGED <<gsVars, lockVars, sessVars, fw, cache>>

\* OpenUniStream does not wait for credit: it succeeds on a live connection ...
CopyOpen(q) ==
    /\ pm[q] = "spawned"
    /\ q[2] \in registered
    /\ conn[q[2]] # "closed"
    /\ pm' = [pm EXCEPT ![q] = "header"]
    /\ UNCHANGED <<gsVars, lockVars, sessVars, fw, wg, cache>>

\* ... or fails: too many streams are open, or the connection is closed.
CopyOpenFails(q) ==
    /\ pm[q] = "spawned"
    /\ q[2] \in registered
    /\ WgDone(q[1])
    /\ pm' = [pm EXCEPT ![q] = "refused"]
    /\ UNCHANGED <<gsVars, lockVars, sessVars, fw, cache>>

\* Write blocks while the peer gives no credit, and returns when it does or when
\* the connection is closed. The header Write's error is ignored; WgDone follows.
CanReturn(r) == conn[r] # "stalled"
CopyHeader(q) ==
    /\ pm[q] = "header"
    /\ CanReturn(q[2])
    /\ WgDone(q[1])
    /\ pm' = [pm EXCEPT ![q] = "piping"]
    /\ IF q \in Piped THEN GS!PipeStart(q) ELSE UNCHANGED gsVars
    /\ UNCHANGED <<lockVars, sessVars, fw, cache>>

\* The loop over Pipe: GroupStream's steps. Write returns without an error on an
\* open connection only; it may fail there too (the peer stops the stream).
CopyPipe(q) ==
    /\ \/ GS!PipeWait(q) \/ GS!PipeCollect(q)
       \/ GS!PipeReturnEOF(q) \/ GS!PipeReturnNil(q)
       \/ GS!PipeFinish(q) \/ GS!PipeAfterError(q)
       \/ conn[q[2]] = "open" /\ GS!PipeWrite(q)
       \/ \E n \in 0 .. Len(data[q]) : GS!PipeWriteFails(q, n)
    /\ UNCHANGED <<lockVars, sessVars, fwVars>>

-----------------------------------------------------------------------------
\* The subscriber's control stream (one goroutine: a handler at a time)

\* SubscribersLock.Lock(): one writer at a time waits for the readers to leave and
\* keeps new ones out.
Lock(why, r) ==
    /\ writer = NoWriter
    /\ writer' = <<why, r>>
    /\ UNCHANGED <<gsVars, Subscribers, readers, sessVars, fwVars>>

Locked(why, r) == writer = <<why, r>> /\ readers = {}

\* HandleSubscribe of a session after the first: GetObjectStream finds the track
\* (First's handler starts in "adding": it found nothing and SendSubscribe has sent
\* SUBSCRIBE upstream).
HandleSubscribe(r) ==
    /\ hs[r] = "idle"
    /\ conn[r] # "closed"
    /\ hs' = [hs EXCEPT ![r] = "adding"]
    /\ UNCHANGED <<gsVars, lockVars, registered, cl, conn, replaying, replayed, amid, fwVars>>

\* Nothing of stream s goes to r: r was no subscriber at its fan-out, or the copy
\* was given up for want of r's subscription.
Unserved(s, r) == pm[<<s, r>>] \in {"none", "unknown"}

\* The streams whose copies were started while they still bring objects, r unserved.
UnderWay(r) ==
    {s \in Streams : \/ fw[s] \in {"read", "cache"} /\ Unserved(s, r)
                     \/ fw[s] = "wgwait" /\ pm[<<s, r>>] = "unknown"}

\* Fault: AddSubscriber does not take the lock.
AddSubscriberUnlocked(r) ==
    /\ hs[r] = "adding"
    /\ Subscribers' = Subscribers \cup {r}
    /\ writer' = NoWriter
    /\ hs' = [hs EXCEPT ![r] = "adding2"]
    /\ UNCHANGED <<gsVars, readers, registered, cl, conn, replaying, replayed, amid, fwVars>>

\* AddSubscriber
AddSubscriber(r) ==
    /\ hs[r] = "adding"
    /\ Locked("add", r)
    /\ Subscribers' = Subscribers \cup {r}
    /\ writer' = NoWriter
    /\ hs' = [hs EXCEPT ![r] = "adding2"]
    /\ UNCHANGED <<gsVars, readers, registered, cl, conn, replaying, replayed, amid, fwVars>>

\* SubscribedStreams.AddStream; First's handler returns, another looks at the cache.
AddStream(r) ==
    /\ hs[r] = "adding2"
    /\ registered' = registered \cup {r}
    /\ amid' = [amid EXCEPT ![r] = UnderWay(r)]
    /\ hs' = [hs EXCEPT ![r] = IF r = First THEN "subscribed" ELSE "stats"]
    /\ UNCHANGED <<gsVars, lockVars, cl, conn, replaying, replayed, fwVars>>

\* GetCacheStats; a goroutine for SendCachedObjects if anything is cached.
CacheStats(r) ==
    /\ hs[r] = "stats"
    /\ hs' = [hs EXCEPT ![r] = "subscribed"]
    /\ replaying' = IF cache # << >> THEN replaying \cup {r} ELSE replaying
    /\ UNCHANGED <<gsVars, lockVars, registered, cl, conn, replayed, amid, fwVars>>

\* SendCachedObjects copies the cache under CacheLock and sends the copy.
SendCachedObjects(r) ==
    /\ r \in replaying
    /\ replayed' = [replayed EXCEPT ![r] = cache]
    /\ replaying' = replaying \ {r}
    /\ UNCHANGED <<gsVars, lockVars, registered, hs, cl, conn, amid, fwVars>>

\* HandleUnsubscribe: RemoveSubscriber; SubscribedStreams keeps the track.
HandleUnsubscribe(r) ==
    /\ hs[r] = "subscribed"
    /\ conn[r] # "closed"
    /\ hs' = [hs EXCEPT ![r] = "unsubscribing"]
    /\ UNCHANGED <<gsVars, lockVars, registered, cl, conn, replaying, replayed, amid, fwVars>>

UnsubscribeRemoves(r) ==
    /\ hs[r] = "unsubscribing"
    /\ Locked("unsubscribe", r)
    /\ Subscribers' = Subscribers \ {r}
    /\ writer' = NoWriter
    /\ hs' = [hs EXCEPT ![r] = "unsubscribed"]
    /\ UNCHANGED <<gsVars, readers, registered, cl, conn, replaying, replayed, amid, fwVars>>

-----------------------------------------------------------------------------
\* The subscriber's connection, and Close on the goroutine that accepts its
\* control stream (the connection failed, or the peer opened a second one).

ConnStalls(r) ==
    /\ conn[r] = "open"
    /\ conn' = [conn EXCEPT ![r] = "stalled"]
    /\ UNCHANGED <<gsVars, lockVars, registered, hs, cl, replaying, replayed, amid, fwVars>>

ConnResumes(r) ==
    /\ conn[r] = "stalled"
    /\ conn' = [conn EXCEPT ![r] = "open"]
    /\ UNCHANGED <<gsVars, lockVars, registered, hs, cl, replaying, replayed, amid, fwVars>>

\* Fault: the handler is closed before the connection.
CloseWithErrorLast(r) ==
    /\ cl[r] = "open"
    /\ cl' = [cl EXCEPT ![r] = "handler"]
    /\ UNCHANGED <<gsVars, lockVars, registered, hs, conn, replaying, replayed, amid, fwVars>>

\* CloseWithError, which ends every Write on the connection; cancelFunc.
CloseWithError(r) ==
    /\ cl[r] = "open"
    /\ conn' = [conn EXCEPT ![r] = "closed"]
    /\ cl' = [cl EXCEPT ![r] = "handler"]
    /\ UNCHANGED <<gsVars, lockVars, registered, hs, replaying, replayed, amid, fwVars>>

\* HandleClose: RemoveSubscriber for every track in SubscribedStreams.
HandleClose(r) ==
    /\ cl[r] = "handler"
    /\ cl' = [cl EXCEPT ![r] = IF r \in registered THEN "removing" ELSE "closed"]
    /\ UNCHANGED <<gsVars, lockVars, registered, hs, conn, replaying, replayed, amid, fwVars>>

CloseRemoves(r) ==
    /\ cl[r] = "removing"
    /\ Locked("close", r)
    /\ Subscribers' = Subscribers \ {r}
    /\ writer' = NoWriter
    /\ cl' = [cl EXCEPT ![r] = "closed"]
    /\ UNCHANGED <<gsVars, readers, registered, hs, conn, replaying, replayed, amid, fwVars>>

-----------------------------------------------------------------------------
ForwardStep(s) == ForwardStream(s) \/ WgWait(s) \/ CacheObject(s)
CopyStep(q) == CopyUnknown(q) \/ CopyOpen(q) \/ CopyOpenFails(q) \/ CopyHeader(q)
HandlerStep(r) ==
    \/ hs[r] = "adding" /\ Lock("add", r)
    \/ hs[r] = "unsubscribing" /\ Lock("unsubscribe", r)
    \/ AddSubscriber(r) \/ AddStream(r) \/ CacheStats(r)
    \/ UnsubscribeRemoves(r)
CloseStep(r) ==
    \/ HandleClose(r) \/ CloseRemoves(r)
    \/ cl[r] = "removing" /\ Lock("close", r)

Next ==
    \/ \E s \in Streams : \/ ForwardStep(s) \/ AcceptStream(s)
                          \/ ReadObject(s) \/ ReadEOF(s) \/ ReadFails(s)
    \/ \E q \in Copies : CopyStep(q)
    \/ \E q \in Piped : CopyPipe(q)
    \/ \E r \in Subs : \/ HandlerStep(r) \/ SendCachedObjects(r)
                       \/ HandleSubscribe(r) \/ CloseStep(r)
    \/ \E r \in Unsteady : \/ HandleUnsubscribe(r) \/ CloseWithError(r)
                           \/ ConnStalls(r) \/ ConnResumes(r)

Spec == Init /\ [][Next]_vars

\* A goroutine that can run is run, a mutex that is free is acquired. Nothing is
\* assumed of the peers: streams may never end, credit may never come, and
\* nobody need close a session.
Fairness ==
    /\ \A s \in Streams : WF_vars(ForwardStep(s))
    /\ \A q \in Copies : WF_vars(CopyStep(q))
    /\ \A r \in Subs : WF_vars(HandlerStep(r)) /\ WF_vars(CloseStep(r))
FairSpec == Spec /\ Fairness

-----------------------------------------------------------------------------
LockTypeOK ==
    /\ Subscribers \subseteq Subs
    /\ readers \subseteq Streams
    /\ writer \in ({"add", "unsubscribe", "close"} \X Subs) \cup {NoWriter}

SessTypeOK ==
    /\ registered \subseteq Subs
    /\ hs \in [Subs -> {"idle", "adding", "adding2", "stats", "subscribed",
                        "unsubscribing", "unsubscribed"}]
    /\ cl \in [Subs -> {"open", "handler", "removing", "closed"}]
    /\ conn \in [Subs -> {"open", "stalled", "closed"}]
    /\ replaying \subseteq Subs
    /\ replayed \in [Subs -> Seq(Objects)]
    /\ amid \in [Subs -> SUBSET Streams]

ForwardTypeOK ==
    /\ fw \in [Streams -> {"new", "start", "wgwait", "read", "cache", "done", "failed"}]
    /\ wg \in [Streams -> Nat]
    /\ pm \in [Copies -> {"none", "spawned", "header", "piping", "unknown", "refused"}]
    /\ cache \in Seq(Objects)

TypeOK == GS!TypeOK /\ LockTypeOK /\ SessTypeOK /\ ForwardTypeOK

\* The copies of s that WgWait waits for.
Pending(s) == {q \in Copies : q[1] = s /\ pm[q] \in {"spawned", "header"}}

\* The WaitGroup counts the copies that have not written their header, on every
\* early return of ProcessMOQTStream too, and ReadObject puts nothing into the
\* buffer before it is zero: no copy's first wake-up finds its header unsent.
HeadersBeforeObjects ==
    \A s \in Streams :
        /\ wg[s] = Cardinality(Pending(s))
        /\ fw[s] \notin {"new", "start", "wgwait"} => Pending(s) = {}

\* While ForwardStream holds the read lock, the copies it spawned are those of the
\* current subscribers: nobody joins or leaves between the fan-out and the first
\* object, and a writer excludes every fan-out.
FanOutStable ==
    /\ \A s \in Streams : s \in readers <=> fw[s] = "wgwait"
    /\ \A s \in readers : {r \in Subs : pm[<<s, r>>] # "none"} = Subscribers

\* A late subscriber gets every stream that has ended: it was forwarded to it, or all
\* of its objects are in the replay. The exceptions are the streams that were under
\* way without a copy for it when its subscription was registered, a copy that was
\* given up before that included, and those for which OpenUniStream failed. It rests
\* on HandleSubscribe adding and registering the session before it looks at the
\* cache, and on the lock that AddSubscriber shares with ForwardStream.
LateSubscriberNoGap ==
    \A r \in Subs \ {First} : \A s \in Streams :
        (/\ hs[r] = "subscribed" /\ cl[r] = "open" /\ r \notin replaying
         /\ fw[s] \in {"done", "failed"})
        => \/ s \in amid[r]
           \/ pm[<<s, r>>] \in {"piping", "refused"}
           \/ \A i \in 1 .. Len(ObjectsArr[s]) :
                 \E k \in 1 .. Len(replayed[r]) : replayed[r][k] = ObjectsArr[s][i]

\* Why the four properties above and the use of GroupStream are inductive. A stream
\* that has not ended is open to its producer, holds its own objects in order, and
\* nothing before its fan-out is over ...
BufferInv ==
    \A s \in Streams :
        /\ IsEOF[s] => fw[s] = "done"
        /\ fw[s] \in {"new", "start", "wgwait"} => ObjectsArr[s] = << >>
        /\ fw[s] = "cache" => ObjectsArr[s] # << >>
        /\ Len(ObjectsArr[s]) <= MaxObjects
        /\ \A i \in 1 .. Len(ObjectsArr[s]) : ObjectsArr[s][i] = <<s, i>>

\* ... what was read is cached, except the object that is about to be ...
Holds(objs, o) == \E k \in 1 .. Len(objs) : objs[k] = o
CachedInv ==
    \A s \in Streams : \A i \in 1 .. Len(ObjectsArr[s]) :
        Holds(cache, <<s, i>>) \/ (fw[s] = "cache" /\ i = Len(ObjectsArr[s]))

\* ... a stream has no copies before its fan-out, then finitely many, and those that
\* are followed pipe once their header is written ...
CopiesInv ==
    /\ IsFiniteSet(Subscribers)
    /\ \A s \in Streams : IsFiniteSet(Pending(s))
    /\ \A q \in Copies : fw[q[1]] \in {"new", "start"} => pm[q] = "none"
    /\ \A q \in Piped : pc[q] # "idle" <=> pm[q] = "piping"

\* ... a session stays a subscriber until its unsubscription or its Close removes it,
\* and once it is registered a stream that it gets nothing of, and that was not under
\* way then, is still to be fanned out, or over and in what it is replayed.
Added(r) == hs[r] \in {"adding2", "stats", "subscribed", "unsubscribing"} /\ cl[r] # "closed"
Owed(r, s) ==
    \/ fw[s] \in {"new", "start"}
    \/ /\ fw[s] \in {"done", "failed"}
       /\ (r # First /\ hs[r] \in {"subscribed", "unsubscribing"} /\ r \notin replaying) =>
             \A i \in 1 .. Len(ObjectsArr[s]) : Holds(replayed[r], <<s, i>>)
LateInv ==
    \A r \in Subs : Added(r) =>
        /\ r \in Subscribers
        /\ hs[r] # "adding2" =>
              /\ r \in registered
              /\ \A s \in Streams \ amid[r] : Unserved(s, r) => Owed(r, s)

\* The inductive invariant of the track: the locks, the WaitGroups and the copies of
\* each stream agree with where its ForwardStream is and with Subscribers, the cache
\* holds what was read, and a late subscriber is owed nothing but streams under way.
TrackInv ==
    /\ TypeOK /\ GS!PipeInv
    /\ BufferInv /\ CachedInv /\ CopiesInv
    /\ HeadersBeforeObjects /\ FanOutStable /\ LateInv

\* The track's buffers are used as GroupStream says: in particular nothing is
\* appended after the end, and a copy pipes only after its header.
GroupStreamSpec == GS!Spec

\* A copy of stream s hangs in the Write of its header for want of r's credit.
Hangs(s, r) == pm[<<s, r>>] = "header" /\ conn[r] = "stalled"

\* ForwardStream waits for nothing but a subscriber that gives no credit: every
\* early return of ProcessMOQTStream counts down, no lock is waited for in a circle.
ForwardReleased ==
    \A s \in Streams :
        fw[s] = "wgwait" ~> (fw[s] # "wgwait" \/ \E r \in Subs : Hangs(s, r))

\* A session's Close ends: what it waits for, if anything, is another subscriber
\* of the track that gives no credit, never its own, because the connection is
\* closed before the handler.
CloseTerminates ==
    \A r \in Subs :
        cl[r] = "handler" ~> \/ cl[r] = "closed"
                             \/ \E s \in Streams, x \in Subs \ {r} : Hangs(s, x)

\* A SUBSCRIBE is served: AddSubscriber gets the write lock, unless a subscriber
\* gives no credit while a stream is fanned out.
SubscribeIsServed ==
    \A r \in Subs :
        hs[r] = "adding" ~> \/ hs[r] # "adding"
                            \/ \E s \in Streams, x \in Subs : Hangs(s, x)
=============================================================================
