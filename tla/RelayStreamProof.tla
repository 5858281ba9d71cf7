-------------------------- MODULE RelayStreamProof ---------------------------
(***************************************************************************)
(* Proofs about RelayStream, for every set of streams and sessions: its    *)
(* types, that ForwardStream's WaitGroup and lock do what the fan-out      *)
(* needs, that a late subscriber has no gap, and that the track uses its   *)
(* buffers as GroupStream says, so that what is proved of GroupStream holds*)
(* of the track.                                                           *)
(***************************************************************************)
EXTENDS RelayStream, FiniteSetTheorems, TLAPS

\* The theorems of GroupStreamProof, about the track's buffers.
GSP == INSTANCE GroupStreamProof WITH Pipes <- Piped

-----------------------------------------------------------------------------
\* GS and GSP instantiate the same definitions: GroupStream's invariant and steps.

LEMMA SameInv == (GSP!PipeInv <=> GS!PipeInv) /\ (GSP!PipeInv' <=> GS!PipeInv')
    BY DEF GS!PipeInv, GS!TypeOK, GS!DeliveredIsPrefix, GS!CollectedIsNext,
           GS!EndIsJustified, GS!PCs, GS!Begins, GS!Joined,
           GSP!PipeInv, GSP!TypeOK, GSP!DeliveredIsPrefix, GSP!CollectedIsNext,
           GSP!EndIsJustified, GSP!PCs, GSP!Begins, GSP!Joined

LEMMA SameNext == [GS!Next]_(GS!gsVars) <=> [GSP!Next]_(GSP!gsVars)
    BY DEF GS!Next, GS!Produce, GS!WriteObject, GS!Close, GS!Broadcast, GS!PipeStart,
           GS!PipeStep, GS!PipeWait, GS!PipeCollect, GS!PipeWrite, GS!PipeWriteFails,
           GS!PipeReturnEOF, GS!PipeReturnNil, GS!PipeFinish, GS!PipeAfterError,
           GS!bufVars, GS!gsVars,
           GSP!Next, GSP!Produce, GSP!WriteObject, GSP!Close, GSP!Broadcast, GSP!PipeStart,
           GSP!PipeStep, GSP!PipeWait, GSP!PipeCollect, GSP!PipeWrite, GSP!PipeWriteFails,
           GSP!PipeReturnEOF, GSP!PipeReturnNil, GSP!PipeFinish, GSP!PipeAfterError,
           GSP!bufVars, GSP!gsVars

LEMMA BufferAssumption == GSP!StreamsAssumption
    BY RelayAssumption DEF GSP!StreamsAssumption, PubStreams

LEMMA PipeInvStep == GS!PipeInv /\ [GS!Next]_(GS!gsVars) => GS!PipeInv'
    BY BufferAssumption, SameInv, SameNext, GSP!NextInv

LEMMA PipeInvInit == GS!Init => GS!PipeInv
<1>1. GS!Init => GSP!Init
      BY DEF GS!Init, GSP!Init
<1> QED BY <1>1, BufferAssumption, SameInv, GSP!InitInv

-----------------------------------------------------------------------------
\* The shape of the steps: what the goroutines of the control streams and of Close
\* leave alone, and the steps of the streams and copies one by one.

StreamStep(s) ==
    \/ AcceptStream(s) \/ ForwardStream(s) \/ WgWait(s)
    \/ ReadObject(s) \/ CacheObject(s) \/ ReadEOF(s) \/ ReadFails(s)
SessionStep(r) ==
    \/ HandlerStep(r) \/ SendCachedObjects(r) \/ HandleSubscribe(r) \/ CloseStep(r)
    \/ HandleUnsubscribe(r) \/ CloseWithError(r) \/ ConnStalls(r) \/ ConnResumes(r)

LEMMA StepCases ==
    ASSUME [Next]_vars
    PROVE  \/ \E s \in Streams : StreamStep(s)
           \/ \E q \in Copies : CopyStep(q)
           \/ \E q \in Piped : CopyPipe(q)
           \/ \E r \in Subs : SessionStep(r)
           \/ UNCHANGED vars
    BY RelayAssumption DEF Next, StreamStep, ForwardStep, SessionStep

LEMMA SessionFrame ==
    ASSUME NEW r \in Subs, SessionStep(r)
    PROVE  UNCHANGED <<gsVars, readers, fwVars>>
    BY DEF SessionStep, HandlerStep, CloseStep, Lock, SendCachedObjects, HandleSubscribe,
           AddSubscriber, AddStream, CacheStats, UnsubscribeRemoves, HandleUnsubscribe,
           CloseWithError, ConnStalls, ConnResumes, HandleClose, CloseRemoves, lockVars

LEMMA PipeFrame ==
    ASSUME NEW q \in Piped, CopyPipe(q)
    PROVE  /\ GS!PipeStep(q)
           /\ UNCHANGED <<ObjectsArr, IsEOF, lockVars, sessVars, fwVars>>
    BY DEF CopyPipe, GS!PipeStep, GS!PipeWait, GS!PipeCollect, GS!PipeWrite,
           GS!PipeWriteFails, GS!PipeReturnEOF, GS!PipeReturnNil, GS!PipeFinish,
           GS!PipeAfterError, GS!bufVars

LEMMA CopyFrame ==
    ASSUME NEW q \in Copies, CopyStep(q)
    PROVE  UNCHANGED <<ObjectsArr, IsEOF, lockVars, sessVars, fw, cache>>
    BY DEF CopyStep, CopyUnknown, CopyOpen, CopyOpenFails, CopyHeader, GS!PipeStart,
           GS!bufVars, gsVars

\* The object that ReadObject appends is the next of its stream.
LEMMA NextObject ==
    ASSUME TrackInv, NEW s \in Streams, Len(ObjectsArr[s]) < MaxObjects
    PROVE  <<s, Len(ObjectsArr[s]) + 1>> \in Objects
    BY RelayAssumption DEF TrackInv, TypeOK, GS!TypeOK, Objects

\* Every step of the track is a step of GroupStream or leaves the buffers alone.
LEMMA MapsToGroupStream ==
    ASSUME TrackInv, [Next]_vars
    PROVE  [GS!Next]_(GS!gsVars)
<1>1. ASSUME NEW s \in Streams, StreamStep(s) PROVE [GS!Next]_(GS!gsVars)
      <2>1. CASE ReadObject(s)
            <3>1. ~IsEOF[s] /\ Len(ObjectsArr[s]) < MaxObjects
                  BY <2>1 DEF ReadObject, TrackInv, BufferInv
            <3>2. GS!Produce(s)
                  BY <2>1, <3>1, NextObject DEF ReadObject, GS!Produce
            <3> QED BY <3>2 DEF GS!Next
      <2>2. CASE ReadEOF(s)
            <3>1. ~IsEOF[s] /\ GS!Close(s)
                  BY <2>2 DEF ReadEOF, TrackInv, BufferInv
            <3> QED BY <3>1 DEF GS!Next, GS!Produce
      <2>3. CASE AcceptStream(s) \/ ForwardStream(s) \/ WgWait(s) \/ CacheObject(s)
                    \/ ReadFails(s)
            BY <2>3 DEF AcceptStream, ForwardStream, WgWait, CacheObject, ReadFails, gsVars,
                        GS!gsVars
      <2> QED BY <1>1, <2>1, <2>2, <2>3 DEF StreamStep
<1>2. ASSUME NEW q \in Copies, CopyStep(q) PROVE [GS!Next]_(GS!gsVars)
      BY <1>2 DEF CopyStep, CopyUnknown, CopyOpen, CopyOpenFails, CopyHeader, gsVars,
                  GS!gsVars, GS!Next
<1>3. ASSUME NEW q \in Piped, CopyPipe(q) PROVE [GS!Next]_(GS!gsVars)
      BY <1>3, PipeFrame DEF GS!Next
<1>4. ASSUME NEW r \in Subs, SessionStep(r) PROVE [GS!Next]_(GS!gsVars)
      BY <1>4, SessionFrame DEF gsVars, GS!gsVars
<1>5. CASE UNCHANGED vars
      BY <1>5 DEF vars, gsVars, GS!gsVars
<1> QED BY <1>1, <1>2, <1>3, <1>4, <1>5, StepCases

-----------------------------------------------------------------------------
\* The type invariant, action by action.

\* What cacheObject appends is an object of the stream.
LEMMA CachedObjectType ==
    ASSUME TrackInv, NEW s \in Streams, CacheObject(s)
    PROVE  <<s, Len(ObjectsArr[s])>> \in Objects /\ cache' \in Seq(Objects)
<1>1. Len(ObjectsArr[s]) \in 1 .. MaxObjects
      BY RelayAssumption DEF CacheObject, TrackInv, TypeOK, GS!TypeOK, BufferInv
<1>2. <<s, Len(ObjectsArr[s])>> \in Objects
      BY <1>1 DEF Objects
<1> QED BY <1>2 DEF CacheObject, TrackInv, TypeOK, ForwardTypeOK

\* WgDone is called by copies that WgWait counts: the counter is positive.
LEMMA PendingCounted ==
    ASSUME TrackInv, NEW q \in Copies, pm[q] \in {"spawned", "header"}
    PROVE  /\ q[1] \in Streams /\ q \in Pending(q[1])
           /\ IsFiniteSet(Pending(q[1])) /\ wg[q[1]] = Cardinality(Pending(q[1]))
           /\ wg[q[1]] - 1 \in Nat
           /\ fw[q[1]] = "wgwait"
<1>1. q[1] \in Streams /\ q \in Pending(q[1])
      BY DEF Copies, Pending
<1>2. IsFiniteSet(Pending(q[1])) /\ wg[q[1]] = Cardinality(Pending(q[1]))
      BY <1>1 DEF TrackInv, CopiesInv, HeadersBeforeObjects
<1>3. wg[q[1]] - 1 \in Nat
      BY <1>1, <1>2, FS_CardinalityType, FS_EmptySet
<1>4. fw[q[1]] = "wgwait"
      <2>1. fw[q[1]] \notin {"new", "start"}
            BY DEF TrackInv, CopiesInv
      <2> QED BY <1>1, <2>1 DEF TrackInv, HeadersBeforeObjects
<1> QED BY <1>1, <1>2, <1>3, <1>4

LEMMA LockTypeStep ==
    ASSUME TrackInv, [Next]_vars
    PROVE  LockTypeOK'
<1> USE RelayAssumption DEF gsVars, lockVars, sessVars, fwVars
<1>0. LockTypeOK
      BY DEF TrackInv, TypeOK
<1>1. ASSUME NEW s \in Streams, StreamStep(s) PROVE LockTypeOK'
      BY <1>0, <1>1 DEF StreamStep, AcceptStream, ForwardStream, WgWait, ReadObject,
         CacheObject, ReadEOF, ReadFails, LockTypeOK
<1>2. ASSUME NEW q \in Copies, CopyStep(q) PROVE LockTypeOK'
      BY <1>0, <1>2, CopyFrame DEF LockTypeOK
<1>3. ASSUME NEW q \in Piped, CopyPipe(q) PROVE LockTypeOK'
      BY <1>0, <1>3, PipeFrame DEF LockTypeOK
<1>4. ASSUME NEW r \in Subs, SessionStep(r) PROVE LockTypeOK'
      BY <1>0, <1>4 DEF SessionStep, HandlerStep, CloseStep, Lock, SendCachedObjects,
         HandleSubscribe, AddSubscriber, AddStream, CacheStats, UnsubscribeRemoves,
         HandleUnsubscribe, CloseWithError, ConnStalls, ConnResumes, HandleClose,
         CloseRemoves, LockTypeOK
<1>5. CASE UNCHANGED vars
      BY <1>0, <1>5 DEF vars, LockTypeOK
<1> QED BY <1>1, <1>2, <1>3, <1>4, <1>5, StepCases

LEMMA ForwardTypeStep ==
    ASSUME TrackInv, [Next]_vars
    PROVE  ForwardTypeOK'
<1> USE DEF gsVars, lockVars, sessVars, fwVars
<1>0. ForwardTypeOK
      BY DEF TrackInv, TypeOK
<1>1. ASSUME NEW s \in Streams, StreamStep(s) PROVE ForwardTypeOK'
      <2>1. CASE AcceptStream(s) \/ WgWait(s) \/ ReadFails(s) \/ ReadObject(s) \/ ReadEOF(s)
            BY <1>0, <2>1 DEF AcceptStream, WgWait, ReadFails, ReadObject, ReadEOF,
                              ForwardTypeOK
      <2>2. CASE CacheObject(s)
            <3>1. cache' \in Seq(Objects)
                  BY <2>2, CachedObjectType
            <3> QED BY <1>0, <2>2, <3>1 DEF CacheObject, ForwardTypeOK
      <2>3. CASE ForwardStream(s)
            <3>1. Cardinality(Subscribers) \in Nat
                  BY FS_CardinalityType DEF TrackInv, CopiesInv
            <3> QED BY <1>0, <2>3, <3>1 DEF ForwardStream, ForwardTypeOK
      <2> QED BY <1>1, <2>1, <2>2, <2>3 DEF StreamStep
<1>2. ASSUME NEW q \in Copies, CopyStep(q) PROVE ForwardTypeOK'
      <2>1. CASE CopyOpen(q)
            BY <1>0, <2>1 DEF CopyOpen, ForwardTypeOK
      <2>2. CASE CopyUnknown(q) \/ CopyOpenFails(q) \/ CopyHeader(q)
            <3>1. wg' = [wg EXCEPT ![q[1]] = @ - 1] /\ pm[q] \in {"spawned", "header"}
                  BY <2>2 DEF CopyUnknown, CopyOpenFails, CopyHeader, WgDone
            <3>2. wg' \in [Streams -> Nat]
                  BY <1>0, <3>1, PendingCounted DEF ForwardTypeOK
            <3>3. pm' \in [Copies -> {"none", "spawned", "header", "piping", "unknown", "refused"}]
                  BY <1>0, <2>2 DEF CopyUnknown, CopyOpenFails, CopyHeader, ForwardTypeOK
            <3> QED BY <1>0, <1>2, <3>2, <3>3, CopyFrame DEF ForwardTypeOK
      <2> QED BY <1>2, <2>1, <2>2 DEF CopyStep
<1>3. ASSUME NEW q \in Piped, CopyPipe(q) PROVE ForwardTypeOK'
      BY <1>0, <1>3, PipeFrame DEF ForwardTypeOK
<1>4. ASSUME NEW r \in Subs, SessionStep(r) PROVE ForwardTypeOK'
      BY <1>0, <1>4, SessionFrame DEF ForwardTypeOK
<1>5. CASE UNCHANGED vars
      BY <1>0, <1>5 DEF vars, ForwardTypeOK
<1> QED BY <1>1, <1>2, <1>3, <1>4, <1>5, StepCases

LEMMA SessTypeStep ==
    ASSUME TrackInv, [Next]_vars
    PROVE  SessTypeOK'
<1> USE DEF gsVars, lockVars, sessVars, fwVars
<1>0. SessTypeOK
      BY DEF TrackInv, TypeOK
<1>1. ASSUME NEW s \in Streams, StreamStep(s) PROVE SessTypeOK'
      BY <1>0, <1>1 DEF StreamStep, AcceptStream, ForwardStream, WgWait, ReadObject,
         CacheObject, ReadEOF, ReadFails, SessTypeOK
<1>2. ASSUME NEW q \in Copies, CopyStep(q) PROVE SessTypeOK'
      BY <1>0, <1>2, CopyFrame DEF SessTypeOK
<1>3. ASSUME NEW q \in Piped, CopyPipe(q) PROVE SessTypeOK'
      BY <1>0, <1>3, PipeFrame DEF SessTypeOK
<1>4. ASSUME NEW r \in Subs, SessionStep(r) PROVE SessTypeOK'
      <2>1. CASE HandlerStep(r)
            <3>1. CASE AddStream(r)
                  <4>1. UnderWay(r) \in SUBSET Streams
                        BY DEF UnderWay
                  <4> QED BY <1>0, <3>1, <4>1 DEF AddStream, SessTypeOK
            <3>2. CASE AddSubscriber(r) \/ CacheStats(r)
                  BY <1>0, <3>2 DEF AddSubscriber, CacheStats, SessTypeOK
            <3>3. CASE UnsubscribeRemoves(r) \/ \E why \in {"add", "unsubscribe"} : Lock(why, r)
                  BY <1>0, <3>3 DEF UnsubscribeRemoves, Lock, SessTypeOK
            <3> QED BY <2>1, <3>1, <3>2, <3>3 DEF HandlerStep
      <2>2. CASE CloseStep(r)
            BY <1>0, <2>2 DEF CloseStep, Lock, HandleClose, CloseRemoves, SessTypeOK
      <2>3. CASE SendCachedObjects(r)
            <3>1. cache \in Seq(Objects)
                  BY DEF TrackInv, TypeOK, ForwardTypeOK
            <3> QED BY <1>0, <2>3, <3>1 DEF SendCachedObjects, SessTypeOK
      <2>4. CASE HandleSubscribe(r) \/ HandleUnsubscribe(r)
            BY <1>0, <2>4 DEF HandleSubscribe, HandleUnsubscribe, SessTypeOK
      <2>5. CASE CloseWithError(r) \/ ConnStalls(r) \/ ConnResumes(r)
            BY <1>0, <2>5 DEF CloseWithError, ConnStalls, ConnResumes, SessTypeOK
      <2> QED BY <1>4, <2>1, <2>2, <2>3, <2>4, <2>5 DEF SessionStep
<1>5. CASE UNCHANGED vars
      BY <1>0, <1>5 DEF vars, SessTypeOK
<1> QED BY <1>1, <1>2, <1>3, <1>4, <1>5, StepCases

LEMMA TypeStep ==
    ASSUME TrackInv, [Next]_vars, GS!PipeInv'
    PROVE  TypeOK'
    BY LockTypeStep, SessTypeStep, ForwardTypeStep DEF TypeOK, GS!PipeInv

-----------------------------------------------------------------------------
\* The buffers and the cache.

\* The first of a sequence's elements stay where they are when one is appended.
LEMMA AppendFacts ==
    ASSUME NEW S, NEW s \in Seq(S), NEW e \in S
    PROVE  /\ Append(s, e) \in Seq(S)
           /\ Len(Append(s, e)) = Len(s) + 1
           /\ \A i \in 1 .. Len(s) : Append(s, e)[i] = s[i]
           /\ Append(s, e)[Len(s) + 1] = e
           /\ Append(s, e) # << >>
    OBVIOUS

LEMMA HoldsAppend ==
    ASSUME NEW S, NEW s \in Seq(S), NEW e \in S, NEW o
    PROVE  Holds(s, o) \/ o = e => Holds(Append(s, e), o)
<1>1. /\ Len(s) \in Nat /\ Len(Append(s, e)) = Len(s) + 1
      /\ \A i \in 1 .. Len(s) : Append(s, e)[i] = s[i]
      /\ Append(s, e)[Len(s) + 1] = e
      BY AppendFacts
<1>2. CASE Holds(s, o)
      BY <1>1, <1>2 DEF Holds
<1>3. CASE o = e
      <2>1. Len(s) + 1 \in 1 .. Len(Append(s, e))
            BY <1>1
      <2> QED BY <1>1, <1>3, <2>1 DEF Holds
<1> QED BY <1>2, <1>3

\* What ReadObject does to the buffer of its stream.
LEMMA ReadObjectBuffer ==
    ASSUME TrackInv, NEW s \in Streams, ReadObject(s)
    PROVE  /\ ObjectsArr' = [ObjectsArr EXCEPT ![s] = ObjectsArr'[s]]
           /\ fw' = [fw EXCEPT ![s] = "cache"] /\ fw[s] = "read"
           /\ IsEOF' = IsEOF /\ cache' = cache
           /\ ObjectsArr'[s] # << >>
           /\ Len(ObjectsArr'[s]) = Len(ObjectsArr[s]) + 1
           /\ Len(ObjectsArr[s]) \in Nat /\ Len(ObjectsArr[s]) < MaxObjects
           /\ \A i \in 1 .. Len(ObjectsArr'[s]) :
                 \/ i \in 1 .. Len(ObjectsArr[s]) /\ ObjectsArr'[s][i] = ObjectsArr[s][i]
                 \/ i = Len(ObjectsArr[s]) + 1 /\ ObjectsArr'[s][i] = <<s, i>>
<1> DEFINE o == <<s, Len(ObjectsArr[s]) + 1>>
<1>1. ObjectsArr \in [Streams -> Seq(Objects)] /\ fw \in [Streams -> {"new", "start", "wgwait", "read", "cache", "done", "failed"}]
      BY DEF TrackInv, TypeOK, GS!TypeOK, ForwardTypeOK
<1>2. /\ ObjectsArr' = [ObjectsArr EXCEPT ![s] = Append(@, o)] /\ IsEOF' = IsEOF
      /\ fw' = [fw EXCEPT ![s] = "cache"] /\ fw[s] = "read" /\ cache' = cache
      /\ Len(ObjectsArr[s]) < MaxObjects
      BY DEF ReadObject, GS!WriteObject
<1>3. o \in Objects
      BY <1>2, NextObject
<1>4. ObjectsArr[s] \in Seq(Objects) /\ ObjectsArr'[s] = Append(ObjectsArr[s], o)
      BY <1>1, <1>2
<1> HIDE DEF o
<1>5. /\ ObjectsArr'[s] # << >> /\ Len(ObjectsArr'[s]) = Len(ObjectsArr[s]) + 1
      /\ Len(ObjectsArr[s]) \in Nat
      /\ \A i \in 1 .. Len(ObjectsArr[s]) : ObjectsArr'[s][i] = ObjectsArr[s][i]
      /\ ObjectsArr'[s][Len(ObjectsArr[s]) + 1] = o
      BY <1>3, <1>4, AppendFacts
<1>6. ObjectsArr' = [ObjectsArr EXCEPT ![s] = ObjectsArr'[s]]
      BY <1>1, <1>2, <1>4
<1> QED BY <1>2, <1>5, <1>6 DEF o

LEMMA BufferStep ==
    ASSUME TrackInv, [Next]_vars
    PROVE  BufferInv'
<1> USE DEF gsVars, lockVars, sessVars, fwVars
<1>0. /\ BufferInv /\ ObjectsArr \in [Streams -> Seq(Objects)]
      /\ IsEOF \in [Streams -> BOOLEAN] /\ ForwardTypeOK /\ MaxObjects \in Nat
      BY RelayAssumption DEF TrackInv, TypeOK, GS!TypeOK
<1>1. ASSUME NEW s \in Streams, StreamStep(s) PROVE BufferInv'
      <2>1. CASE ReadObject(s)
            <3> SUFFICES ASSUME NEW x \in Streams
                         PROVE  /\ IsEOF'[x] => fw'[x] = "done"
                                /\ fw'[x] \in {"new", "start", "wgwait"} => ObjectsArr'[x] = << >>
                                /\ fw'[x] = "cache" => ObjectsArr'[x] # << >>
                                /\ Len(ObjectsArr'[x]) <= MaxObjects
                                /\ \A i \in 1 .. Len(ObjectsArr'[x]) : ObjectsArr'[x][i] = <<x, i>>
                BY DEF BufferInv
            <3>1. CASE x = s
                  BY <1>0, <2>1, <3>1, ReadObjectBuffer DEF BufferInv, ForwardTypeOK
            <3>2. CASE x # s
                  BY <1>0, <2>1, <3>2, ReadObjectBuffer DEF BufferInv, ForwardTypeOK
            <3> QED BY <3>1, <3>2
      <2>2. CASE ReadEOF(s)
            BY <1>0, <2>2 DEF ReadEOF, GS!Close, BufferInv, ForwardTypeOK
      <2>3. CASE \/ AcceptStream(s) \/ ForwardStream(s) \/ WgWait(s) \/ CacheObject(s)
                 \/ ReadFails(s)
            BY <1>0, <2>3 DEF AcceptStream, ForwardStream, WgWait, CacheObject, ReadFails,
                              BufferInv, ForwardTypeOK
      <2> QED BY <1>1, <2>1, <2>2, <2>3 DEF StreamStep
<1>2. ASSUME NEW q \in Copies, CopyStep(q) PROVE BufferInv'
      BY <1>0, <1>2, CopyFrame DEF BufferInv
<1>3. ASSUME NEW q \in Piped, CopyPipe(q) PROVE BufferInv'
      BY <1>0, <1>3, PipeFrame DEF BufferInv
<1>4. ASSUME NEW r \in Subs, SessionStep(r) PROVE BufferInv'
      BY <1>0, <1>4, SessionFrame DEF BufferInv
<1>5. CASE UNCHANGED vars
      BY <1>0, <1>5 DEF vars, BufferInv
<1> QED BY <1>1, <1>2, <1>3, <1>4, <1>5, StepCases

LEMMA CachedStep ==
    ASSUME TrackInv, [Next]_vars
    PROVE  CachedInv'
<1> USE DEF gsVars, lockVars, sessVars, fwVars
<1>0. /\ CachedInv /\ ObjectsArr \in [Streams -> Seq(Objects)] /\ ForwardTypeOK
      BY DEF TrackInv, TypeOK, GS!TypeOK
<1>1. ASSUME NEW s \in Streams, StreamStep(s) PROVE CachedInv'
      <2>1. CASE ReadObject(s)
            <3> SUFFICES ASSUME NEW x \in Streams, NEW i \in 1 .. Len(ObjectsArr'[x])
                         PROVE  \/ Holds(cache, <<x, i>>)
                                \/ fw'[x] = "cache" /\ i = Len(ObjectsArr'[x])
                BY <2>1, ReadObjectBuffer DEF CachedInv
            <3>1. CASE x = s
                  BY <1>0, <2>1, <3>1, ReadObjectBuffer DEF CachedInv, ForwardTypeOK
            <3>2. CASE x # s
                  BY <1>0, <2>1, <3>2, ReadObjectBuffer DEF CachedInv, ForwardTypeOK
            <3> QED BY <3>1, <3>2
      <2>2. CASE CacheObject(s)
            <3> SUFFICES ASSUME NEW x \in Streams, NEW i \in 1 .. Len(ObjectsArr[x])
                         PROVE  \/ Holds(cache', <<x, i>>)
                                \/ fw'[x] = "cache" /\ i = Len(ObjectsArr[x])
                BY <2>2 DEF CacheObject, CachedInv
            <3>1. /\ cache' = Append(cache, <<s, Len(ObjectsArr[s])>>)
                  /\ cache \in Seq(Objects) /\ <<s, Len(ObjectsArr[s])>> \in Objects
                  BY <1>0, <2>2, CachedObjectType DEF CacheObject, ForwardTypeOK
            <3>2. Holds(cache, <<x, i>>) \/ (x = s /\ i = Len(ObjectsArr[s]))
                     \/ (x # s /\ fw[x] = "cache" /\ i = Len(ObjectsArr[x]))
                  BY <1>0 DEF CachedInv
            <3>3. x # s => fw'[x] = fw[x]
                  BY <1>0, <2>2 DEF CacheObject, ForwardTypeOK
            <3>4. Holds(cache, <<x, i>>) \/ <<x, i>> = <<s, Len(ObjectsArr[s])>>
                     => Holds(cache', <<x, i>>)
                  BY <3>1, HoldsAppend
            <3> QED BY <3>2, <3>3, <3>4
      <2>3. CASE \/ AcceptStream(s) \/ ForwardStream(s) \/ WgWait(s) \/ ReadEOF(s)
                 \/ ReadFails(s)
            <3>1. /\ UNCHANGED <<ObjectsArr, cache>>
                  /\ fw[s] # "cache" /\ \A x \in Streams \ {s} : fw'[x] = fw[x]
                  BY <1>0, <2>3 DEF AcceptStream, ForwardStream, WgWait, ReadEOF, ReadFails,
                     GS!Close, ForwardTypeOK
            <3> QED BY <1>0, <3>1 DEF CachedInv
      <2> QED BY <1>1, <2>1, <2>2, <2>3 DEF StreamStep
<1>2. ASSUME NEW q \in Copies, CopyStep(q) PROVE CachedInv'
      BY <1>0, <1>2, CopyFrame DEF CachedInv
<1>3. ASSUME NEW q \in Piped, CopyPipe(q) PROVE CachedInv'
      BY <1>0, <1>3, PipeFrame DEF CachedInv
<1>4. ASSUME NEW r \in Subs, SessionStep(r) PROVE CachedInv'
      BY <1>0, <1>4, SessionFrame DEF CachedInv
<1>5. CASE UNCHANGED vars
      BY <1>0, <1>5 DEF vars, CachedInv
<1> QED BY <1>1, <1>2, <1>3, <1>4, <1>5, StepCases

-----------------------------------------------------------------------------
\* The fan-out: the WaitGroup, the read lock and the copies.

\* A fan-out to finitely many subscribers counts them right.
LEMMA FanOutCount ==
    ASSUME NEW s, IsFiniteSet(Subscribers)
    PROVE  /\ IsFiniteSet({s} \X Subscribers)
           /\ Cardinality({s} \X Subscribers) = Cardinality(Subscribers)
<1> DEFINE f == [r \in Subscribers |-> <<s, r>>]
<1>1. f \in Bijection(Subscribers, {s} \X Subscribers)
      <2>1. f \in [Subscribers -> {s} \X Subscribers]
            OBVIOUS
      <2>2. IsInjective(f)
            BY DEF IsInjective
      <2>3. \A c \in {s} \X Subscribers : \E r \in Subscribers : f[r] = c
            OBVIOUS
      <2> HIDE DEF f
      <2> QED BY <2>1, <2>2, <2>3 DEF Bijection, Injection, Surjection
<1>2. ExistsBijection(Subscribers, {s} \X Subscribers)
      BY <1>1 DEF ExistsBijection
<1> QED BY <1>2, FS_Bijection

\* The copies of stream s for the session r, as pairs.
LEMMA CopyPair ==
    ASSUME NEW q \in Copies
    PROVE  q[1] \in Streams /\ q[2] \in Subs /\ q = <<q[1], q[2]>>
    BY DEF Copies

\* ForwardStream's part: the copies it spawns are those it counted.
LEMMA ForwardPending ==
    ASSUME TrackInv, NEW s \in Streams, ForwardStream(s)
    PROVE  /\ Pending(s)' = {s} \X Subscribers
           /\ \A x \in Streams \ {s} : Pending(x)' = Pending(x)
           /\ wg'[s] = Cardinality(Subscribers)
           /\ \A x \in Streams \ {s} : wg'[x] = wg[x]
           /\ {r \in Subs : pm'[<<s, r>>] # "none"} = Subscribers
           /\ \A q \in Copies : q[1] # s => pm'[q] = pm[q]
           /\ \A q \in Copies : q[1] = s => pm[q] = "none" /\ pm'[q] \in {"none", "spawned"}
<1>1. /\ Subscribers \subseteq Subs /\ ForwardTypeOK
      BY DEF TrackInv, TypeOK, LockTypeOK
<1>2. \A q \in Copies : q[1] = s => pm[q] = "none"
      BY DEF ForwardStream, TrackInv, CopiesInv
<1>3. \A q \in Copies : pm'[q] = IF q[1] = s /\ q[2] \in Subscribers THEN "spawned" ELSE pm[q]
      BY DEF ForwardStream
<1>4. Pending(s)' = {s} \X Subscribers
      <2>1. ASSUME NEW q \in Pending(s)' PROVE q \in {s} \X Subscribers
            BY <1>2, <1>3, CopyPair DEF Pending
      <2>2. ASSUME NEW q \in {s} \X Subscribers PROVE q \in Pending(s)'
            <3>1. q \in Copies /\ q[1] = s /\ q[2] \in Subscribers
                  BY <1>1 DEF Copies
            <3> QED BY <1>3, <3>1 DEF Pending
      <2> QED BY <2>1, <2>2
<1>5. \A x \in Streams \ {s} : Pending(x)' = Pending(x)
      BY <1>3 DEF Pending
<1>6. wg'[s] = Cardinality(Subscribers) /\ \A x \in Streams \ {s} : wg'[x] = wg[x]
      BY <1>1 DEF ForwardStream, ForwardTypeOK
<1>7. {r \in Subs : pm'[<<s, r>>] # "none"} = Subscribers
      <2>1. ASSUME NEW r \in Subs PROVE pm'[<<s, r>>] # "none" <=> r \in Subscribers
            <3>1. <<s, r>> \in Copies
                  BY DEF Copies
            <3> QED BY <1>2, <1>3, <3>1
      <2> QED BY <1>1, <2>1
<1> QED BY <1>2, <1>3, <1>4, <1>5, <1>6, <1>7

\* WgDone's part: the copy that counts down is no longer waited for.
LEMMA DonePending ==
    ASSUME TrackInv, NEW q \in Copies, pm[q] \in {"spawned", "header"}, WgDone(q[1]),
           NEW end \in {"unknown", "refused", "piping"}, pm' = [pm EXCEPT ![q] = end]
    PROVE  \A s \in Streams :
               /\ IsFiniteSet(Pending(s)') /\ wg'[s] = Cardinality(Pending(s)')
               /\ Pending(s)' \subseteq Pending(s)
<1>1. ForwardTypeOK
      BY DEF TrackInv, TypeOK
<1>2. \A c \in Copies : pm'[c] = IF c = q THEN end ELSE pm[c]
      BY <1>1 DEF ForwardTypeOK
<1>3. Pending(q[1])' = Pending(q[1]) \ {q}
      BY <1>2 DEF Pending
<1>4. \A s \in Streams \ {q[1]} : Pending(s)' = Pending(s) /\ wg'[s] = wg[s]
      BY <1>1, <1>2 DEF Pending, WgDone, ForwardTypeOK
<1>5. /\ q[1] \in Streams /\ q \in Pending(q[1]) /\ IsFiniteSet(Pending(q[1]))
      /\ wg[q[1]] = Cardinality(Pending(q[1]))
      BY PendingCounted
<1>6. wg'[q[1]] = wg[q[1]] - 1
      BY <1>1, <1>5 DEF WgDone, ForwardTypeOK
<1>7. IsFiniteSet(Pending(q[1]) \ {q}) /\ Cardinality(Pending(q[1]) \ {q}) = Cardinality(Pending(q[1])) - 1
      BY <1>5, FS_RemoveElement
<1>8. \A s \in Streams : IsFiniteSet(Pending(s)) /\ wg[s] = Cardinality(Pending(s))
      BY DEF TrackInv, CopiesInv, HeadersBeforeObjects
<1>9. /\ IsFiniteSet(Pending(q[1])') /\ wg'[q[1]] = Cardinality(Pending(q[1])')
      /\ Pending(q[1])' \subseteq Pending(q[1])
      BY <1>3, <1>5, <1>6, <1>7
<1> QED BY <1>4, <1>8, <1>9

LEMMA CountStep ==
    ASSUME TrackInv, [Next]_vars
    PROVE  \A s \in Streams : IsFiniteSet(Pending(s)') /\ wg'[s] = Cardinality(Pending(s)')
<1> USE DEF gsVars, lockVars, sessVars, fwVars
<1> DEFINE Goal(s) == IsFiniteSet(Pending(s)') /\ wg'[s] = Cardinality(Pending(s)')
<1>0. /\ ForwardTypeOK
      /\ \A s \in Streams : IsFiniteSet(Pending(s)) /\ wg[s] = Cardinality(Pending(s))
      BY DEF TrackInv, TypeOK, CopiesInv, HeadersBeforeObjects
<1>a. ASSUME pm' = pm, wg' = wg PROVE \A s \in Streams : Goal(s)
      <2>1. \A s \in Streams : Pending(s)' = Pending(s)
            BY <1>a DEF Pending
      <2> QED BY <1>0, <1>a, <2>1
<1>1. ASSUME NEW s \in Streams, StreamStep(s) PROVE \A x \in Streams : Goal(x)
      <2>1. CASE ForwardStream(s)
            <3>1. /\ IsFiniteSet({s} \X Subscribers)
                  /\ Cardinality({s} \X Subscribers) = Cardinality(Subscribers)
                  BY FanOutCount DEF TrackInv, CopiesInv
            <3>2. Goal(s)
                  BY <2>1, <3>1, ForwardPending
            <3>3. ASSUME NEW x \in Streams \ {s} PROVE Goal(x)
                  BY <1>0, <2>1, ForwardPending
            <3> QED BY <3>2, <3>3
      <2>2. CASE \/ AcceptStream(s) \/ WgWait(s) \/ ReadObject(s) \/ CacheObject(s)
                 \/ ReadEOF(s) \/ ReadFails(s)
            <3>1. pm' = pm /\ wg' = wg
                  BY <2>2 DEF AcceptStream, WgWait, ReadObject, CacheObject, ReadEOF, ReadFails
            <3> QED BY <1>a, <3>1
      <2> QED BY <1>1, <2>1, <2>2 DEF StreamStep
<1>2. ASSUME NEW q \in Copies, CopyStep(q) PROVE \A s \in Streams : Goal(s)
      <2>1. CASE CopyOpen(q)
            <3>1. wg' = wg /\ pm[q] = "spawned" /\ pm' = [pm EXCEPT ![q] = "header"]
                  BY <2>1 DEF CopyOpen
            <3>2. \A s \in Streams : Pending(s)' = Pending(s)
                  BY <1>0, <3>1 DEF Pending, ForwardTypeOK
            <3> QED BY <1>0, <3>1, <3>2
      <2>2. CASE CopyUnknown(q) \/ CopyOpenFails(q) \/ CopyHeader(q)
            <3>1. /\ pm[q] \in {"spawned", "header"} /\ WgDone(q[1])
                  /\ \E end \in {"unknown", "refused", "piping"} : pm' = [pm EXCEPT ![q] = end]
                  BY <2>2 DEF CopyUnknown, CopyOpenFails, CopyHeader
            <3> QED BY <3>1, DonePending
      <2> QED BY <1>2, <2>1, <2>2 DEF CopyStep
<1>3. ASSUME NEW q \in Piped, CopyPipe(q) PROVE \A s \in Streams : Goal(s)
      BY <1>a, <1>3, PipeFrame
<1>4. ASSUME NEW r \in Subs, SessionStep(r) PROVE \A s \in Streams : Goal(s)
      BY <1>a, <1>4, SessionFrame
<1>5. CASE UNCHANGED vars
      BY <1>a, <1>5 DEF vars
<1> QED BY <1>1, <1>2, <1>3, <1>4, <1>5, StepCases

LEMMA EmptyStep ==
    ASSUME TrackInv, [Next]_vars, NEW s \in Streams,
           fw'[s] \notin {"new", "start", "wgwait"}, NEW q \in Copies, q[1] = s
    PROVE  pm'[q] \notin {"spawned", "header"}
<1> USE DEF gsVars, lockVars, sessVars, fwVars
<1>0. /\ ForwardTypeOK
      /\ fw[s] \notin {"new", "start", "wgwait"} => pm[q] \notin {"spawned", "header"}
      BY DEF TrackInv, TypeOK, HeadersBeforeObjects, Pending
<1>1. ASSUME NEW x \in Streams, StreamStep(x) PROVE pm'[q] \notin {"spawned", "header"}
      <2>1. CASE ForwardStream(x)
            <3>1. fw'[x] = "wgwait" /\ \A y \in Streams \ {x} : fw'[y] = fw[y]
                  BY <1>0, <2>1 DEF ForwardStream, ForwardTypeOK
            <3> QED BY <1>0, <2>1, <3>1, ForwardPending
      <2>2. CASE WgWait(x)
            <3>1. pm' = pm /\ \A y \in Streams \ {x} : fw'[y] = fw[y]
                  BY <1>0, <2>2 DEF WgWait, ForwardTypeOK
            <3>2. Pending(x) = {}
                  <4>1. wg[x] = 0 /\ wg[x] = Cardinality(Pending(x)) /\ IsFiniteSet(Pending(x))
                        BY <2>2 DEF WgWait, TrackInv, CopiesInv, HeadersBeforeObjects
                  <4> QED BY <4>1, FS_EmptySet
            <3>3. x = s => pm[q] \notin {"spawned", "header"}
                  BY <3>2 DEF Pending
            <3> QED BY <1>0, <3>1, <3>3
      <2>3. CASE \/ AcceptStream(x) \/ ReadObject(x) \/ CacheObject(x) \/ ReadEOF(x)
                 \/ ReadFails(x)
            <3>1. /\ pm' = pm
                  /\ \A y \in Streams : \/ fw'[y] = fw[y]
                                         \/ fw[y] \notin {"new", "start", "wgwait"}
                                         \/ fw'[y] = "start"
                  BY <1>0, <2>3 DEF AcceptStream, ReadObject, CacheObject, ReadEOF, ReadFails,
                                    ForwardTypeOK
            <3> QED BY <1>0, <3>1
      <2> QED BY <1>1, <2>1, <2>2, <2>3 DEF StreamStep
<1>2. ASSUME NEW c \in Copies, CopyStep(c) PROVE pm'[q] \notin {"spawned", "header"}
      <2>1. fw' = fw
            BY <1>2, CopyFrame
      <2>2. pm[c] \in {"spawned", "header"}
            BY <1>2 DEF CopyStep, CopyUnknown, CopyOpen, CopyOpenFails, CopyHeader
      <2>3. fw[c[1]] = "wgwait"
            BY <2>2, PendingCounted
      <2>4. q # c => pm'[q] = pm[q]
            BY <1>0, <1>2 DEF CopyStep, CopyUnknown, CopyOpen, CopyOpenFails, CopyHeader,
                              ForwardTypeOK
      <2> QED BY <1>0, <2>1, <2>3, <2>4
<1>3. ASSUME NEW c \in Piped, CopyPipe(c) PROVE pm'[q] \notin {"spawned", "header"}
      BY <1>0, <1>3, PipeFrame
<1>4. ASSUME NEW r \in Subs, SessionStep(r) PROVE pm'[q] \notin {"spawned", "header"}
      BY <1>0, <1>4, SessionFrame
<1>5. CASE UNCHANGED vars
      BY <1>0, <1>5 DEF vars
<1> QED BY <1>1, <1>2, <1>3, <1>4, <1>5, StepCases

LEMMA HeadersStep ==
    ASSUME TrackInv, [Next]_vars
    PROVE  HeadersBeforeObjects'
<1>1. \A s \in Streams : wg'[s] = Cardinality(Pending(s)')
      BY CountStep
<1>2. ASSUME NEW s \in Streams, fw'[s] \notin {"new", "start", "wgwait"}
      PROVE  Pending(s)' = {}
      BY <1>2, EmptyStep DEF Pending
<1> QED BY <1>1, <1>2, Zenon DEF HeadersBeforeObjects

\* While a stream is fanned out, no session is added or removed: both need the lock.
LEMMA SubscribersStep ==
    ASSUME TrackInv, [Next]_vars
    PROVE  /\ IsFiniteSet(Subscribers')
           /\ Subscribers' # Subscribers => readers = {} /\ readers' = {}
<1> USE DEF gsVars, lockVars, sessVars, fwVars
<1>0. IsFiniteSet(Subscribers)
      BY DEF TrackInv, CopiesInv
<1>1. \A r : IsFiniteSet(Subscribers \cup {r}) /\ IsFiniteSet(Subscribers \ {r})
      BY <1>0, FS_AddElement, FS_RemoveElement
<1>2. ASSUME NEW r \in Subs, SessionStep(r)
      PROVE  \/ Subscribers' = Subscribers
             \/ /\ readers = {} /\ readers' = {}
                /\ Subscribers' \in {Subscribers \cup {r}, Subscribers \ {r}}
      BY <1>2 DEF SessionStep, HandlerStep, CloseStep, Lock, Locked, SendCachedObjects,
         HandleSubscribe, AddSubscriber, AddStream, CacheStats, UnsubscribeRemoves,
         HandleUnsubscribe, CloseWithError, ConnStalls, ConnResumes, HandleClose,
         CloseRemoves
<1>3. ASSUME NEW s \in Streams, StreamStep(s) PROVE Subscribers' = Subscribers
      BY <1>3 DEF StreamStep, AcceptStream, ForwardStream, WgWait, ReadObject,
         CacheObject, ReadEOF, ReadFails
<1>4. ASSUME \/ \E q \in Copies : CopyStep(q)
             \/ \E q \in Piped : CopyPipe(q)
             \/ UNCHANGED vars
      PROVE  Subscribers' = Subscribers
      BY <1>4, CopyFrame, PipeFrame DEF vars
<1>5. ASSUME NEW r \in Subs, SessionStep(r)
      PROVE  /\ IsFiniteSet(Subscribers')
             /\ Subscribers' # Subscribers => readers = {} /\ readers' = {}
      <2>1. CASE Subscribers' = Subscribers
            BY <1>0, <2>1
      <2>2. CASE Subscribers' = Subscribers \cup {r}
            BY <1>1, <1>2, <1>5, <2>2
      <2>3. CASE Subscribers' = Subscribers \ {r}
            BY <1>1, <1>2, <1>5, <2>3
      <2> QED BY <1>2, <1>5, <2>1, <2>2, <2>3
<1> QED BY <1>0, <1>3, <1>4, <1>5, StepCases

\* A copy that a step of its own or of its stream does not concern stays as it is, and
\* none is forgotten.
LEMMA CopyStays ==
    ASSUME TrackInv, [Next]_vars, NEW q \in Copies
    PROVE  /\ pm'[q] = "none" => pm[q] = "none"
           /\ fw'[q[1]] \in {"new", "start"} => pm'[q] = "none"
           /\ pm[q] = "none" /\ pm'[q] # "none" => ForwardStream(q[1])
<1> USE DEF gsVars, lockVars, sessVars, fwVars
<1>0. /\ ForwardTypeOK
      /\ fw[q[1]] \in {"new", "start"} => pm[q] = "none"
      BY DEF TrackInv, TypeOK, CopiesInv
<1>1. ASSUME NEW s \in Streams, StreamStep(s)
      PROVE  /\ pm'[q] = "none" => pm[q] = "none"
             /\ fw'[q[1]] \in {"new", "start"} => pm'[q] = "none"
             /\ pm[q] = "none" /\ pm'[q] # "none" => ForwardStream(q[1])
      <2>1. CASE ForwardStream(s)
            <3>1. fw'[s] = "wgwait" /\ \A x \in Streams \ {s} : fw'[x] = fw[x]
                  BY <1>0, <2>1 DEF ForwardStream, ForwardTypeOK
            <3>2. q[1] \in Streams
                  BY CopyPair
            <3> QED BY <1>0, <2>1, <3>1, <3>2, ForwardPending
      <2>2. CASE \/ AcceptStream(s) \/ WgWait(s) \/ ReadObject(s) \/ CacheObject(s)
                 \/ ReadEOF(s) \/ ReadFails(s)
            <3>1. /\ pm' = pm
                  /\ \A y \in Streams : fw'[y] \in {"new", "start"} => fw[y] \in {"new", "start"}
                  BY <1>0, <2>2 DEF AcceptStream, WgWait, ReadObject, CacheObject, ReadEOF,
                                    ReadFails, ForwardTypeOK
            <3> QED BY <1>0, <3>1, CopyPair
      <2> QED BY <1>1, <2>1, <2>2 DEF StreamStep
<1>2. ASSUME NEW c \in Copies, CopyStep(c)
      PROVE  /\ fw' = fw /\ fw[c[1]] = "wgwait" /\ pm[c] # "none"
             /\ pm'[c] # "none" /\ (q # c => pm'[q] = pm[q])
      <2>1. /\ pm[c] \in {"spawned", "header"}
            /\ pm'[c] # "none" /\ (q # c => pm'[q] = pm[q])
            BY <1>0, <1>2 DEF CopyStep, CopyUnknown, CopyOpen, CopyOpenFails, CopyHeader,
                              ForwardTypeOK
      <2> QED BY <1>2, <2>1, CopyFrame, PendingCounted
<1>3. ASSUME \/ \E c \in Piped : CopyPipe(c)
             \/ \E r \in Subs : SessionStep(r)
             \/ UNCHANGED vars
      PROVE  pm' = pm /\ fw' = fw
      BY <1>3, PipeFrame, SessionFrame DEF vars
<1> QED BY <1>0, <1>1, <1>2, <1>3, StepCases

\* A copy that is followed pipes exactly when its header is written.
LEMMA PipingStep ==
    ASSUME TrackInv, [Next]_vars, NEW q \in Piped
    PROVE  pc'[q] # "idle" <=> pm'[q] = "piping"
<1> USE DEF gsVars, lockVars, sessVars, fwVars
<1>0. /\ pc[q] # "idle" <=> pm[q] = "piping"
      /\ q \in Copies /\ pc \in [Piped -> GS!PCs] /\ ForwardTypeOK
      BY RelayAssumption DEF TrackInv, CopiesInv, TypeOK, GS!TypeOK, Copies
<1>1. ASSUME NEW s \in Streams, StreamStep(s)
      PROVE  /\ pc'[q] = "idle" <=> pc[q] = "idle"
             /\ pm'[q] = "piping" <=> pm[q] = "piping"
      <2>1. CASE ForwardStream(s)
            <3>1. pc' = pc
                  BY <2>1 DEF ForwardStream
            <3>2. pm'[q] = "piping" <=> pm[q] = "piping"
                  BY <1>0, <2>1, ForwardPending
            <3> QED BY <3>1, <3>2
      <2>2. CASE ReadObject(s) \/ ReadEOF(s)
            BY <1>0, <2>2 DEF ReadObject, ReadEOF, GS!WriteObject, GS!Close, GS!Broadcast
      <2>3. CASE AcceptStream(s) \/ WgWait(s) \/ CacheObject(s) \/ ReadFails(s)
            BY <2>3 DEF AcceptStream, WgWait, CacheObject, ReadFails
      <2> QED BY <1>1, <2>1, <2>2, <2>3 DEF StreamStep
<1>2. ASSUME NEW c \in Copies, CopyStep(c) PROVE pc'[q] # "idle" <=> pm'[q] = "piping"
      <2>1. CASE CopyHeader(c)
            BY <1>0, <2>1 DEF CopyHeader, GS!PipeStart, GS!bufVars, ForwardTypeOK
      <2>2. CASE CopyUnknown(c) \/ CopyOpen(c) \/ CopyOpenFails(c)
            BY <1>0, <2>2 DEF CopyUnknown, CopyOpen, CopyOpenFails, ForwardTypeOK
      <2> QED BY <1>2, <2>1, <2>2 DEF CopyStep
<1>3. ASSUME NEW c \in Piped, CopyPipe(c)
      PROVE  (pc'[q] = "idle" <=> pc[q] = "idle") /\ pm' = pm
      <2>1. pm' = pm /\ GS!PipeStep(c)
            BY <1>3, PipeFrame
      <2> QED BY <1>0, <2>1 DEF GS!PipeStep, GS!PipeWait, GS!PipeCollect, GS!PipeWrite,
                 GS!PipeWriteFails, GS!PipeReturnEOF, GS!PipeReturnNil, GS!PipeFinish,
                 GS!PipeAfterError
<1>4. ASSUME (\E r \in Subs : SessionStep(r)) \/ UNCHANGED vars
      PROVE  pm' = pm /\ pc' = pc
      BY <1>4, SessionFrame DEF vars
<1> QED BY <1>0, <1>1, <1>2, <1>3, <1>4, StepCases

LEMMA CopiesStep ==
    ASSUME TrackInv, [Next]_vars
    PROVE  CopiesInv'
<1>1. \A s \in Streams : IsFiniteSet(Pending(s)')
      BY CountStep
<1>2. \A q \in Copies : fw'[q[1]] \in {"new", "start"} => pm'[q] = "none"
      BY CopyStays
<1> QED BY <1>1, <1>2, SubscribersStep, PipingStep DEF CopiesInv

LEMMA FanOutStep ==
    ASSUME TrackInv, [Next]_vars
    PROVE  FanOutStable'
<1> USE DEF gsVars, lockVars, sessVars, fwVars
<1>0. /\ \A s \in Streams : s \in readers <=> fw[s] = "wgwait"
      /\ \A s \in readers : {r \in Subs : pm[<<s, r>>] # "none"} = Subscribers
      /\ ForwardTypeOK /\ readers \subseteq Streams
      BY DEF TrackInv, TypeOK, LockTypeOK, FanOutStable
<1>1. \A s \in Streams : s \in readers' <=> fw'[s] = "wgwait"
      <2>1. ASSUME NEW s \in Streams, StreamStep(s)
            PROVE  \A x \in Streams : x \in readers' <=> fw'[x] = "wgwait"
            BY <1>0, <2>1 DEF StreamStep, AcceptStream, ForwardStream, WgWait, ReadObject,
               CacheObject, ReadEOF, ReadFails, ForwardTypeOK
      <2>2. ASSUME \/ \E q \in Copies : CopyStep(q)
                   \/ \E q \in Piped : CopyPipe(q)
                   \/ \E r \in Subs : SessionStep(r)
                   \/ UNCHANGED vars
            PROVE  readers' = readers /\ fw' = fw
            BY <2>2, CopyFrame, PipeFrame, SessionFrame DEF vars
      <2> QED BY <1>0, <2>1, <2>2, StepCases
<1>2. ASSUME NEW s \in readers'
      PROVE  {r \in Subs : pm'[<<s, r>>] # "none"} = Subscribers'
      <2>0. s \in Streams
            BY LockTypeStep DEF LockTypeOK
      <2>1. Subscribers' = Subscribers
            BY SubscribersStep
      <2>2. CASE s \in readers
            <3>1. \A r \in Subs : <<s, r>> \in Copies /\ ~ForwardStream(s)
                  BY <1>0, <2>0, <2>2 DEF Copies, ForwardStream
            <3>2. \A r \in Subs : pm'[<<s, r>>] # "none" <=> pm[<<s, r>>] # "none"
                  BY <3>1, CopyStays
            <3> QED BY <1>0, <2>1, <2>2, <3>2
      <2>3. CASE s \notin readers
            <3>1. ASSUME NEW x \in Streams, StreamStep(x), readers' # readers, s # x
                  PROVE  s \notin readers'
                  BY <2>3, <3>1 DEF StreamStep, AcceptStream, ForwardStream, WgWait,
                     ReadObject, CacheObject, ReadEOF, ReadFails
            <3>2. ASSUME StreamStep(s), s \in readers' PROVE ForwardStream(s)
                  BY <2>3, <3>2 DEF StreamStep, AcceptStream, WgWait, ReadObject,
                     CacheObject, ReadEOF, ReadFails
            <3>3. ASSUME \/ \E q \in Copies : CopyStep(q)
                         \/ \E q \in Piped : CopyPipe(q)
                         \/ \E r \in Subs : SessionStep(r)
                         \/ UNCHANGED vars
                  PROVE  readers' = readers
                  BY <3>3, CopyFrame, PipeFrame, SessionFrame DEF vars
            <3>4. ForwardStream(s)
                  BY <1>2, <2>0, <2>3, <3>1, <3>2, <3>3, StepCases
            <3> QED BY <2>0, <2>1, <3>4, ForwardPending
      <2> QED BY <2>2, <2>3
<1> QED BY <1>1, <1>2 DEF FanOutStable

-----------------------------------------------------------------------------
\* Late subscribers.

\* What LateInv says of a registered session: the part about its streams.
OwedAll(r) == \A s \in Streams \ amid[r] : Unserved(s, r) => Owed(r, s)

\* The steps of other sessions leave a session's own state alone.
LEMMA OtherSession ==
    ASSUME TrackInv, NEW x \in Subs, SessionStep(x), NEW r \in Subs, r # x
    PROVE  /\ hs'[r] = hs[r] /\ cl'[r] = cl[r] /\ amid'[r] = amid[r]
           /\ (r \in registered => r \in registered')
           /\ replayed'[r] = replayed[r] /\ (r \in replaying' <=> r \in replaying)
           /\ (r \in Subscribers => r \in Subscribers')
<1>1. SessTypeOK
      BY DEF TrackInv, TypeOK
<1>2. CASE HandlerStep(x)
      BY <1>1, <1>2 DEF HandlerStep, Lock, AddSubscriber, AddStream, CacheStats,
                        UnsubscribeRemoves, SessTypeOK, lockVars, sessVars
<1>3. CASE CloseStep(x)
      BY <1>1, <1>3 DEF CloseStep, Lock, HandleClose, CloseRemoves, SessTypeOK, lockVars,
                        sessVars
<1>4. CASE SendCachedObjects(x) \/ HandleSubscribe(x) \/ HandleUnsubscribe(x)
      BY <1>1, <1>4 DEF SendCachedObjects, HandleSubscribe, HandleUnsubscribe, SessTypeOK,
                        lockVars
<1>5. CASE CloseWithError(x) \/ ConnStalls(x) \/ ConnResumes(x)
      BY <1>1, <1>5 DEF CloseWithError, ConnStalls, ConnResumes, SessTypeOK, lockVars
<1> QED BY <1>2, <1>3, <1>4, <1>5, SessionStep(x) DEF SessionStep

\* A session that its own step leaves added is a subscriber, and its progress changed
\* in one of four ways only.
LEMMA OwnSession ==
    ASSUME TrackInv, NEW r \in Subs, SessionStep(r), Added(r)'
    PROVE  /\ r \in Subscribers'
           /\ hs'[r] # "adding2" => r \in registered'
           /\ \/ hs'[r] = "adding2"
              \/ Added(r) /\ AddStream(r)
              \/ /\ Added(r) /\ hs[r] # "adding2" /\ amid' = amid
                 /\ CacheStats(r) \/ SendCachedObjects(r)
              \/ /\ Added(r) /\ hs[r] # "adding2" /\ UNCHANGED <<amid, replaying, replayed>>
                 /\ hs[r] \in {"subscribed", "unsubscribing"} <=> hs'[r] \in {"subscribed", "unsubscribing"}
<1>1. /\ SessTypeOK /\ (Added(r) => r \in Subscribers)
      /\ (Added(r) /\ hs[r] # "adding2") => r \in registered
      BY DEF TrackInv, TypeOK, LateInv
<1>2. CASE AddSubscriber(r)
      BY <1>1, <1>2 DEF AddSubscriber, SessTypeOK
<1>3. CASE AddStream(r) \/ CacheStats(r)
      BY <1>1, <1>3 DEF AddStream, CacheStats, Added, SessTypeOK, lockVars
<1>a. CASE SendCachedObjects(r)
      BY <1>1, <1>a DEF SendCachedObjects, Added, SessTypeOK, lockVars
<1>4. CASE UnsubscribeRemoves(r) \/ HandleSubscribe(r) \/ CloseRemoves(r)
      BY <1>1, <1>4 DEF UnsubscribeRemoves, HandleSubscribe, CloseRemoves, Added, SessTypeOK
<1>5. CASE HandleClose(r) \/ CloseWithError(r) \/ ConnStalls(r) \/ ConnResumes(r)
      BY <1>1, <1>5 DEF HandleClose, CloseWithError, ConnStalls, ConnResumes, Added, SessTypeOK,
                        lockVars
<1>6. CASE HandleUnsubscribe(r) \/ \E why \in {"add", "unsubscribe", "close"} : Lock(why, r)
      BY <1>1, <1>6 DEF HandleUnsubscribe, Lock, Added, SessTypeOK, lockVars, sessVars
<1> QED BY <1>2, <1>3, <1>a, <1>4, <1>5, <1>6, SessionStep(r)
        DEF SessionStep, HandlerStep, CloseStep

\* A stream that is over is in the cache.
LEMMA OverIsCached ==
    ASSUME TrackInv, NEW s \in Streams, fw[s] \in {"done", "failed"},
           NEW i \in 1 .. Len(ObjectsArr[s])
    PROVE  Holds(cache, <<s, i>>)
    BY DEF TrackInv, CachedInv

LEMMA LateOwnStep ==
    ASSUME TrackInv, NEW r \in Subs, SessionStep(r), Added(r)', hs'[r] # "adding2",
           NEW s \in Streams \ amid'[r], Unserved(s, r)'
    PROVE  Owed(r, s)'
<1>1. /\ UNCHANGED <<fw, ObjectsArr, pm, cache>> /\ SessTypeOK
      BY SessionFrame DEF gsVars, fwVars, TrackInv, TypeOK
<1>2. Unserved(s, r)
      BY <1>1 DEF Unserved
<1>3. ASSUME Added(r), hs[r] # "adding2", amid' = amid
      PROVE  Owed(r, s)
      BY <1>2, <1>3 DEF TrackInv, LateInv
<1>4. CASE Added(r) /\ AddStream(r)
      <2>1. /\ r # First => hs'[r] = "stats"
            /\ s \notin UnderWay(r)
            BY <1>1, <1>4 DEF AddStream, SessTypeOK
      <2>2. fw[s] = "wgwait" => pm[<<s, r>>] # "none"
            BY <1>4 DEF TrackInv, LateInv, FanOutStable
      <2>3. fw[s] \notin {"read", "cache", "wgwait"}
            BY <1>2, <2>1, <2>2 DEF UnderWay, Unserved
      <2>4. fw[s] \in {"new", "start", "done", "failed"}
            BY <2>3 DEF TrackInv, TypeOK, ForwardTypeOK
      <2> QED BY <1>1, <2>1, <2>4 DEF Owed
<1>5. CASE Added(r) /\ hs[r] # "adding2" /\ amid' = amid /\ CacheStats(r)
      <2>1. Owed(r, s) /\ (cache # << >> => r \in replaying')
            BY <1>3, <1>5 DEF CacheStats
      <2>2. ASSUME fw[s] \in {"done", "failed"}, r \notin replaying', NEW i \in 1 .. Len(ObjectsArr[s])
            PROVE  FALSE
            <3>1. Holds(cache, <<s, i>>) /\ cache = << >>
                  BY <2>1, <2>2, OverIsCached
            <3> QED BY <3>1 DEF Holds
      <2> QED BY <1>1, <2>1, <2>2 DEF Owed
<1>6. CASE Added(r) /\ hs[r] # "adding2" /\ amid' = amid /\ SendCachedObjects(r)
      <2>1. Owed(r, s) /\ replayed'[r] = cache
            BY <1>1, <1>3, <1>6 DEF SendCachedObjects, SessTypeOK
      <2> QED BY <1>1, <2>1, OverIsCached DEF Owed
<1>7. CASE /\ Added(r) /\ hs[r] # "adding2" /\ UNCHANGED <<amid, replaying, replayed>>
           /\ hs[r] \in {"subscribed", "unsubscribing"} <=> hs'[r] \in {"subscribed", "unsubscribing"}
      BY <1>1, <1>3, <1>7 DEF Owed
<1> QED BY <1>4, <1>5, <1>6, <1>7, OwnSession

\* The steps of the streams: a stream that goes on was forwarded to the session.
LEMMA LateStreamStep ==
    ASSUME TrackInv, NEW x \in Streams, StreamStep(x), NEW r \in Subs, Added(r),
           NEW s \in Streams, Owed(r, s), Unserved(s, r)', sessVars' = sessVars
    PROVE  Owed(r, s)'
<1>1. ForwardTypeOK /\ ObjectsArr \in [Streams -> Seq(Objects)] /\ r \in Subscribers
      BY DEF TrackInv, TypeOK, GS!TypeOK, LateInv
<1>2. CASE x # s
      <2>1. fw'[s] = fw[s] /\ ObjectsArr'[s] = ObjectsArr[s]
            BY <1>1, <1>2 DEF StreamStep, AcceptStream, ForwardStream, WgWait, ReadObject,
               CacheObject, ReadEOF, ReadFails, GS!WriteObject, GS!Close, ForwardTypeOK, gsVars
      <2> QED BY <2>1 DEF Owed, sessVars
<1>3. CASE x = s
      <2>1. fw[s] \in {"new", "start"}
            BY <1>1, <1>3 DEF StreamStep, AcceptStream, ForwardStream, WgWait, ReadObject,
               CacheObject, ReadEOF, ReadFails, Owed
      <2>2. ~ForwardStream(s)
            <3>1. <<s, r>> \in Copies
                  BY DEF Copies
            <3> QED BY <1>1, <3>1 DEF ForwardStream, Unserved
      <2>3. fw'[s] = "start"
            BY <1>1, <1>3, <2>1, <2>2 DEF StreamStep, AcceptStream, WgWait, ReadObject,
               CacheObject, ReadEOF, ReadFails, ForwardTypeOK
      <2> QED BY <2>3 DEF Owed
<1> QED BY <1>2, <1>3

\* A copy for a registered session is not given up: what it is not sent was given up
\* before, or never started.
LEMMA UnservedStays ==
    ASSUME TrackInv, [Next]_vars, NEW s \in Streams, NEW r \in registered, r \in Subs,
           Unserved(s, r)'
    PROVE  Unserved(s, r)
<1> USE DEF gsVars, lockVars, sessVars, fwVars
<1>0. <<s, r>> \in Copies /\ <<s, r>>[2] = r /\ ForwardTypeOK
      BY DEF Copies, TrackInv, TypeOK
<1>1. ASSUME NEW x \in Streams, StreamStep(x) PROVE Unserved(s, r)
      BY <1>0, <1>1 DEF StreamStep, AcceptStream, ForwardStream, WgWait, ReadObject,
         CacheObject, ReadEOF, ReadFails, Unserved
<1>2. ASSUME NEW q \in Copies, CopyStep(q) PROVE Unserved(s, r)
      BY <1>0, <1>2 DEF CopyStep, CopyUnknown, CopyOpen, CopyOpenFails, CopyHeader,
         ForwardTypeOK, Unserved
<1>3. ASSUME NEW q \in Piped, CopyPipe(q) PROVE Unserved(s, r)
      BY <1>3, PipeFrame DEF Unserved
<1>4. ASSUME NEW x \in Subs, SessionStep(x) PROVE Unserved(s, r)
      BY <1>4, SessionFrame DEF Unserved
<1>5. CASE UNCHANGED vars
      BY <1>5 DEF vars, Unserved
<1> QED BY <1>1, <1>2, <1>3, <1>4, <1>5, StepCases

LEMMA LateStep ==
    ASSUME TrackInv, [Next]_vars
    PROVE  LateInv'
<1> USE DEF gsVars, lockVars, sessVars, fwVars
<1> DEFINE Goal(r) == /\ r \in Subscribers'
                      /\ hs'[r] # "adding2" => r \in registered' /\ OwedAll(r)'
<1> SUFFICES ASSUME NEW r \in Subs, Added(r)' PROVE Goal(r)
    BY DEF LateInv, OwedAll
<1>0. Added(r) => /\ r \in Subscribers
                  /\ hs[r] # "adding2" => r \in registered /\ OwedAll(r)
      BY DEF TrackInv, LateInv, OwedAll
<1>a. \A s \in Streams : r \in registered /\ Unserved(s, r)' => Unserved(s, r)
      BY UnservedStays
<1>1. ASSUME NEW x \in Streams, StreamStep(x) PROVE Goal(r)
      <2>1. sessVars' = sessVars /\ Subscribers' = Subscribers
            BY <1>1 DEF StreamStep, AcceptStream, ForwardStream, WgWait, ReadObject,
               CacheObject, ReadEOF, ReadFails
      <2>2. Added(r) /\ UNCHANGED <<hs, amid, registered>>
            BY <2>1 DEF Added
      <2>3. ASSUME hs[r] # "adding2", NEW s \in Streams \ amid'[r], Unserved(s, r)'
            PROVE  Owed(r, s)'
            <3>1. Owed(r, s)
                  BY <1>0, <1>a, <2>2, <2>3 DEF OwedAll
            <3> QED BY <1>1, <2>1, <2>2, <2>3, <3>1, LateStreamStep
      <2> QED BY <1>0, <2>1, <2>2, <2>3 DEF OwedAll
<1>2. ASSUME NEW x \in Subs, SessionStep(x) PROVE Goal(r)
      <2>1. CASE x = r
            BY <1>2, <2>1, OwnSession, LateOwnStep DEF OwedAll
      <2>2. CASE x # r
            <3>1. UNCHANGED <<fw, ObjectsArr, pm>>
                  BY <1>2, SessionFrame
            <3>2. Added(r) /\ hs'[r] = hs[r] /\ amid'[r] = amid[r]
                  BY <1>2, <2>2, OtherSession DEF Added
            <3>3. r \in Subscribers' /\ (r \in registered => r \in registered')
                  BY <1>0, <1>2, <2>2, <3>2, OtherSession
            <3>4. ASSUME NEW s \in Streams, Owed(r, s) PROVE Owed(r, s)'
                  BY <1>2, <2>2, <3>1, <3>4, OtherSession DEF Owed
            <3> QED BY <1>0, <1>a, <3>2, <3>3, <3>4 DEF OwedAll
      <2> QED BY <2>1, <2>2
<1>3. ASSUME \/ \E q \in Copies : CopyStep(q)
             \/ \E q \in Piped : CopyPipe(q)
             \/ UNCHANGED vars
      PROVE  Goal(r)
      <2>1. UNCHANGED <<ObjectsArr, fw, lockVars, sessVars>>
            BY <1>3, CopyFrame, PipeFrame DEF vars
      <2>2. Added(r)
            BY <2>1 DEF Added
      <2>3. \A s \in Streams : Owed(r, s) => Owed(r, s)'
            BY <2>1 DEF Owed
      <2> QED BY <1>0, <1>a, <2>1, <2>2, <2>3 DEF OwedAll
<1> QED BY <1>1, <1>2, <1>3, StepCases

-----------------------------------------------------------------------------
LEMMA InitInv == Init => TrackInv
<1> SUFFICES ASSUME Init PROVE TrackInv
    OBVIOUS
<1> USE RelayAssumption
<1>1. GS!PipeInv
      BY PipeInvInit DEF Init
<1>2. TypeOK
      BY <1>1 DEF Init, GS!PipeInv, TypeOK, LockTypeOK, SessTypeOK, ForwardTypeOK
<1>3. BufferInv /\ CachedInv
      BY DEF Init, GS!Init, BufferInv, CachedInv
<1>4. \A s \in Streams : Pending(s) = {}
      BY DEF Init, Pending
<1>5. CopiesInv
      BY <1>4, FS_EmptySet DEF Init, GS!Init, CopiesInv, Copies
<1>6. HeadersBeforeObjects
      BY <1>4, FS_EmptySet DEF Init, HeadersBeforeObjects
<1>7. FanOutStable
      BY DEF Init, FanOutStable
<1>8. LateInv
      BY DEF Init, LateInv, Added
<1> QED BY <1>1, <1>2, <1>3, <1>5, <1>6, <1>7, <1>8 DEF TrackInv

LEMMA NextInv == TrackInv /\ [Next]_vars => TrackInv'
<1> SUFFICES ASSUME TrackInv, [Next]_vars PROVE TrackInv'
    OBVIOUS
<1>1. GS!PipeInv'
      BY MapsToGroupStream, PipeInvStep DEF TrackInv
<1> QED BY <1>1, TypeStep, BufferStep, CachedStep, CopiesStep, HeadersStep, FanOutStep,
           LateStep DEF TrackInv

\* The inductive invariant of the track, which contains its type invariant, holds
\* throughout.
THEOREM Invariance == Spec => []TrackInv
    BY InitInv, NextInv, PTL DEF Spec

\* Whatever the early returns of ProcessMOQTStream, the WaitGroup counts the copies
\* whose header is unsent, and no object is read before it is zero.
THEOREM HeadersFirst == Spec => []HeadersBeforeObjects
    BY Invariance, PTL DEF TrackInv

\* However sessions come, go and close, those a stream is fanned out to are those that
\* are subscribed until its first object is read.
THEOREM FanOutIsStable == Spec => []FanOutStable
    BY Invariance, PTL DEF TrackInv

\* For any number of streams and sessions, a late subscriber gets every stream that has
\* ended, in a copy or in its replay, unless it was under way without a copy for it
\* when the subscription was registered, or no QUIC stream could be opened for it.
THEOREM NoGapForLateSubscriber == Spec => []LateSubscriberNoGap
<1>1. TrackInv => LateSubscriberNoGap
      <2> SUFFICES ASSUME TrackInv, NEW r \in Subs \ {First}, NEW s \in Streams \ amid[r],
                          hs[r] = "subscribed", cl[r] = "open", r \notin replaying,
                          fw[s] \in {"done", "failed"},
                          pm[<<s, r>>] \notin {"piping", "refused"},
                          NEW i \in 1 .. Len(ObjectsArr[s])
                   PROVE  \E k \in 1 .. Len(replayed[r]) : replayed[r][k] = ObjectsArr[s][i]
          BY DEF LateSubscriberNoGap
      <2>1. Unserved(s, r)
            <3>1. <<s, r>> \in Copies /\ <<s, r>>[1] = s /\ <<s, r>> \notin Pending(s)
                  BY DEF Copies, TrackInv, HeadersBeforeObjects
            <3> QED BY <3>1 DEF Pending, Unserved, TrackInv, TypeOK, ForwardTypeOK
      <2>2. Holds(replayed[r], <<s, i>>)
            BY <2>1 DEF TrackInv, LateInv, Added, Owed
      <2>3. ObjectsArr[s][i] = <<s, i>>
            BY DEF TrackInv, BufferInv
      <2> QED BY <2>2, <2>3 DEF Holds
<1> QED BY <1>1, Invariance, PTL

\* The track uses its buffers as GroupStream says, whatever its sessions do.
THEOREM ImplementsGroupStream == Spec => GroupStreamSpec
<1>1. Init => GS!Init
      BY DEF Init
<1>2. TrackInv /\ [Next]_vars => [GS!Next]_(GS!gsVars)
      BY MapsToGroupStream
<1> QED BY <1>1, <1>2, Invariance, PTL DEF Spec, GroupStreamSpec, GS!Spec

\* So what any subscriber of the track was sent is a prefix of the incoming stream.
THEOREM TrackDeliversPrefix == Spec => []GS!DeliveredIsPrefix
    BY Invariance, PTL DEF TrackInv, GS!PipeInv

\* And each stream of the track is the multicast that PrefixMulticast promises.
THEOREM TrackMulticasts == Spec => GSP!MulticastSpec
<1>1. Init => GSP!Init
      BY DEF Init, GS!Init, GSP!Init
<1>2. TrackInv /\ [Next]_vars => [GSP!Next]_(GSP!gsVars)
      BY MapsToGroupStream, SameNext
<1>3. Spec => GSP!Spec
      BY <1>1, <1>2, Invariance, PTL DEF Spec, GSP!Spec
<1> QED BY <1>3, BufferAssumption, GSP!ImplementsMulticast
=============================================================================
