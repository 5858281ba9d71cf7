---------------------------- MODULE PublisherProof ----------------------------
(***************************************************************************)
(* Proofs about Publisher, for any number of groups, objects and attempts: *)
(* the program skips no group, and a program that publishes                *)
(* through PubStream keeps the promises of the buffer, although it opens   *)
(* the QUIC streams one by one and may find the connection lost.           *)
(***************************************************************************)
EXTENDS Publisher, GroupStreamProof

\* What the constants say: a group is a stream, and has one copy.
LEMMA GroupFacts ==
    /\ MaxGroups \in Nat /\ MaxRetries \in Nat /\ MaxObjects \in Nat
    /\ Streams = 0 .. MaxGroups - 1
    /\ \A g \in Streams : <<g, relay>> \in Pipes /\ <<g, relay>>[1] = g
    /\ \A q \in Pipes : q[1] \in Streams /\ q = <<q[1], relay>>
    BY PublisherAssumption, StreamsAssumption

LEMMA PubInitInv == PubInit => PubInv
<1> SUFFICES ASSUME PubInit PROVE PubInv
    OBVIOUS
<1>1. PipeInv
      BY InitInv DEF PubInit
<1>2. ProgTypeOK
      <2>1. groupid \in 0 .. MaxGroups /\ tries \in 0 .. MaxRetries
            BY GroupFacts DEF PubInit
      <2>2. wg \in [Streams -> Int] /\ opened \subseteq Streams
            BY DEF PubInit
      <2>3. lost \in BOOLEAN
            BY Zenon DEF PubInit
      <2> QED BY <2>1, <2>2, <2>3 DEF PubInit, ProgTypeOK
<1>3. \A g \in Streams : NotBegun(<<g, relay>>) /\ ~IsEOF[g]
      BY GroupFacts DEF PubInit, Init, NotBegun
<1>4. /\ prog = "next" /\ opened = {}
      /\ \A h : h \notin 0 .. groupid - 1
      BY DEF PubInit
<1> QED BY <1>1, <1>2, <1>3, <1>4 DEF PubInv

\* A step of the program or of a pipe is one of the buffer's, but for the opening
\* of a QUIC stream. An append or a close finds the group open.
LEMMA StepOfBuffer ==
    ASSUME PubInv, [PubNext]_pubVars
    PROVE  [Next]_gsVars \/ OpenUniStream
<1>1. CASE AppendObject
      <2>1. groupid \in Streams /\ ~IsEOF[groupid] /\ ObjectsArr[groupid] \in Seq(Objects)
            BY <1>1, GroupFacts DEF AppendObject, PubInv, ProgTypeOK, PipeInv, TypeOK
      <2>2. Len(ObjectsArr[groupid]) \in Objects
            BY <1>1, <2>1, GroupFacts, PublisherAssumption DEF AppendObject
      <2>3. Produce(groupid)
            BY <1>1, <2>1, <2>2 DEF AppendObject, Produce
      <2> QED BY <2>1, <2>3 DEF Next
<1>2. CASE CloseGroup
      <2>1. groupid \in Streams /\ ~IsEOF[groupid]
            BY <1>2, GroupFacts DEF CloseGroup, PubInv, ProgTypeOK
      <2> QED BY <1>2, <2>1 DEF CloseGroup, Produce, Next
<1>3. ASSUME NEW q \in Pipes, GoPipe(q) PROVE Next
      BY <1>3 DEF GoPipe, Next
<1>4. ASSUME NEW q \in Pipes, Pipe(q) PROVE Next
      BY <1>4 DEF Pipe, Next
<1>5. CASE NewGroup \/ OpenUniStreamFails \/ NewStreamFails \/ WgWait
           \/ TransferComplete \/ ConnLost \/ UNCHANGED pubVars
      BY <1>5 DEF NewGroup, OpenUniStreamFails, NewStreamFails, WgWait,
                  TransferComplete, ConnLost, pubVars
<1> QED BY <1>1, <1>2, <1>3, <1>4, <1>5 DEF PubNext, handleStream, NewStream

\* A QUIC stream is opened for a goroutine that does not run yet: whether or not
\* its header could be written, nothing was collected for it or sent on it.
LEMMA OpenKeepsPipes ==
    ASSUME PubInv, OpenUniStream
    PROVE  /\ PipeInv'
           /\ \E fails \in BOOLEAN :
                 broken' = [broken EXCEPT ![<<groupid, relay>>] = fails]
           /\ <<groupid, relay>> \in Pipes /\ NotBegun(<<groupid, relay>>)
<1> DEFINE p == <<groupid, relay>>
<1>1. groupid \in Streams /\ p \in Pipes /\ NotBegun(p)
      BY GroupFacts DEF OpenUniStream, PubInv, ProgTypeOK
<1>2. PICK fails \in BOOLEAN : broken' = [broken EXCEPT ![p] = fails]
      BY DEF OpenUniStream
<1>3. UNCHANGED <<ObjectsArr, IsEOF, pc, index, data, ordered, out>>
      BY DEF OpenUniStream, bufVars
<1> HIDE DEF p
<1>4. TypeOK
      BY DEF PubInv, PipeInv
<1>5. TypeOK'
      BY <1>1, <1>2, <1>3, <1>4 DEF TypeOK
<1>6. DeliveredIsPrefix'
      BY <1>3 DEF PubInv, PipeInv, DeliveredIsPrefix, Begins
<1>7. \A q \in Pipes : q # p => broken'[q] = broken[q]
      BY <1>2, <1>4 DEF TypeOK
<1>8. CollectedIsNext'
      <2> SUFFICES ASSUME NEW q \in Pipes
                   PROVE  /\ index'[q] <= Len(ObjectsArr'[q[1]])
                          /\ pc'[q] # "write" => data'[q] = << >>
                          /\ ~broken'[q] => Joined(ObjectsArr'[q[1]], index'[q], out'[q], data'[q])
          BY DEF CollectedIsNext
      <2>1. /\ index[q] <= Len(ObjectsArr[q[1]])
            /\ pc[q] # "write" => data[q] = << >>
            /\ ~broken[q] => Joined(ObjectsArr[q[1]], index[q], out[q], data[q])
            BY DEF PubInv, PipeInv, CollectedIsNext
      <2>2. ~broken'[q] => ~broken[q]
            BY <1>1, <1>7 DEF NotBegun
      <2> QED BY <1>3, <2>1, <2>2
<1>9. EndIsJustified'
      BY <1>1, <1>3, <1>7 DEF PubInv, PipeInv, EndIsJustified, NotBegun
<1> QED BY <1>1, <1>2, <1>5, <1>6, <1>8, <1>9 DEF PipeInv, p

\* The pipes and the buffers as the steps of the program leave them.
LEMMA PipesKept ==
    ASSUME PubInv, [PubNext]_pubVars
    PROVE  PipeInv'
<1>1. PipeInv
      BY DEF PubInv
<1>2. CASE [Next]_gsVars
      BY <1>1, <1>2, NextInv
<1>3. CASE OpenUniStream
      BY <1>3, OpenKeepsPipes
<1> QED BY <1>2, <1>3, StepOfBuffer
-----------------------------------------------------------------------------
\* What is not begun stays so in every step but the opening of its QUIC stream and
\* the start of its goroutine: a broadcast wakes only who waits.
LEMMA NotBegunKept ==
    ASSUME TypeOK, NEW p \in Pipes, NotBegun(p),
           \/ UNCHANGED gsVars
           \/ \E s \in Streams : Close(s) \/ \E o : WriteObject(s, o)
           \/ \E q \in Pipes : PipeStep(q) \/ (q # p /\ PipeStart(q))
    PROVE  NotBegun(p)'
<1>1. CASE UNCHANGED gsVars
      BY <1>1 DEF gsVars, NotBegun
<1>2. ASSUME NEW s \in Streams, Close(s) \/ \E o : WriteObject(s, o) PROVE NotBegun(p)'
      BY <1>2 DEF Close, WriteObject, Broadcast, NotBegun, TypeOK
<1>3. ASSUME NEW q \in Pipes, q # p, PipeStart(q) PROVE NotBegun(p)'
      BY <1>3 DEF PipeStart, NotBegun, TypeOK
<1>4. ASSUME NEW q \in Pipes, PipeStep(q) PROVE NotBegun(p)'
      <2>1. pc[q] # "idle"
            BY <1>4 DEF PipeStep, PipeWait, PipeCollect, PipeWrite, PipeReturnEOF,
                        PipeReturnNil, PipeFinish, PipeAfterError, PipeWriteFails
      <2>2. q # p
            BY <2>1 DEF NotBegun
      <2>3. /\ pc'[p] = pc[p] /\ index'[p] = index[p] /\ data'[p] = data[p]
            /\ out'[p] = out[p] /\ broken'[p] = broken[p]
            BY <1>4, <2>2 DEF PipeStep, PipeWait, PipeCollect, PipeWrite, PipeReturnEOF,
                  PipeReturnNil, PipeFinish, PipeAfterError, PipeWriteFails, TypeOK
      <2> QED BY <2>3 DEF NotBegun
<1> QED BY <1>1, <1>2, <1>3, <1>4

LEMMA PubNextInv == PubInv /\ [PubNext]_pubVars => PubInv'
<1> SUFFICES ASSUME PubInv, [PubNext]_pubVars PROVE PubInv'
    OBVIOUS
<1> USE GroupFacts
<1>1. PipeInv' /\ TypeOK /\ ProgTypeOK
      BY PipesKept DEF PubInv, PipeInv
<1>2. ASSUME UNCHANGED <<gsVars, groupid, opened>>, ProgTypeOK',
             prog' \in {"open", "go", "wait", "write"} => groupid < MaxGroups,
             prog' \in {"go", "wait", "write"} => prog \in {"go", "wait", "write"},
             prog' \in {"next", "open", "returned"} =>
                 prog \in {"next", "open", "returned"} \/ groupid \notin Streams
      PROVE  PubInv'
      <2>1. UNCHANGED IsEOF /\ \A g \in Streams : NotBegun(<<g, relay>>)' <=> NotBegun(<<g, relay>>)
            BY <1>2 DEF gsVars, NotBegun
      <2> QED BY <1>1, <1>2, <2>1 DEF PubInv
<1>3. CASE NewGroup
      <2>1. groupid \in Streams /\ wg[groupid] + 1 \in Int
            BY <1>1, <1>3 DEF NewGroup, ProgTypeOK
      <2>2. ProgTypeOK'
            BY <1>1, <1>3, <2>1 DEF NewGroup, ProgTypeOK
      <2> QED BY <1>2, <1>3, <2>2 DEF NewGroup
<1>4. CASE OpenUniStreamFails
      <2>1. ProgTypeOK'
            BY <1>1, <1>4 DEF OpenUniStreamFails, ProgTypeOK
      <2> QED BY <1>2, <1>4, <2>1 DEF OpenUniStreamFails, PubInv
<1>5. CASE NewStreamFails
      <2>1. groupid \in Streams /\ wg[groupid] - 1 \in Int
            BY <1>1, <1>5 DEF NewStreamFails, ProgTypeOK, PubInv
      <2>2. ProgTypeOK'
            BY <1>1, <1>5, <2>1 DEF NewStreamFails, ProgTypeOK
      <2> QED BY <1>2, <1>5, <2>2 DEF NewStreamFails
<1>6. CASE WgWait
      <2>1. ProgTypeOK'
            BY <1>1, <1>6 DEF WgWait, ProgTypeOK
      <2> QED BY <1>2, <1>6, <2>1 DEF WgWait, PubInv
<1>7. CASE TransferComplete
      <2>1. ProgTypeOK'
            BY <1>1, <1>7 DEF TransferComplete, ProgTypeOK
      <2> QED BY <1>2, <1>7, <2>1 DEF TransferComplete, PubInv
<1>8. CASE ConnLost
      <2>1. ProgTypeOK'
            BY <1>1, <1>8 DEF ConnLost, ProgTypeOK
      <2> QED BY <1>2, <1>8, <2>1 DEF ConnLost, PubInv
<1>9. CASE UNCHANGED pubVars
      <2>1. ProgTypeOK'
            BY <1>1, <1>9 DEF pubVars, progVars, ProgTypeOK
      <2> QED BY <1>2, <1>9, <2>1 DEF pubVars, progVars, PubInv
<1>10. CASE OpenUniStream
      <2>1. /\ prog' = "go" /\ tries' = 0 /\ opened' = opened \cup {groupid}
            /\ UNCHANGED <<IsEOF, pc, index, data, out, groupid, wg, lost>>
            /\ prog = "open" /\ groupid \in Streams
            BY <1>1, <1>10 DEF OpenUniStream, bufVars, PubInv, ProgTypeOK
      <2>2. ProgTypeOK'
            BY <1>1, <2>1 DEF ProgTypeOK
      <2>3. ASSUME NEW g \in Streams, g > groupid PROVE NotBegun(<<g, relay>>)'
            <3>1. NotBegun(<<g, relay>>) /\ <<g, relay>> # <<groupid, relay>>
                  BY <2>3, <1>1 DEF PubInv, ProgTypeOK
            <3>2. broken'[<<g, relay>>] = broken[<<g, relay>>]
                  BY <1>1, <1>10, <3>1, OpenKeepsPipes DEF TypeOK
            <3> QED BY <2>1, <3>1, <3>2 DEF NotBegun
      <2>4. opened' \subseteq 0 .. groupid
            BY <1>1, <2>1 DEF PubInv, ProgTypeOK
      <2> QED BY <1>1, <2>1, <2>2, <2>3, <2>4 DEF PubInv
<1>11. ASSUME NEW q \in Pipes, GoPipe(q) PROVE PubInv'
      <2>1. /\ prog' = "wait" /\ prog = "go" /\ groupid = q[1] /\ PipeStart(q)
            /\ wg' = [wg EXCEPT ![groupid] = @ - 1]
            /\ UNCHANGED <<groupid, tries, opened, lost, IsEOF>>
            BY <1>11 DEF GoPipe, PipeStart, bufVars
      <2>2. groupid \in Streams /\ wg[groupid] - 1 \in Int
            BY <1>1, <2>1 DEF ProgTypeOK
      <2>3. ProgTypeOK'
            BY <1>1, <2>1, <2>2 DEF ProgTypeOK
      <2>4. ASSUME NEW g \in Streams, g > groupid PROVE NotBegun(<<g, relay>>)'
            <3>1. NotBegun(<<g, relay>>) /\ <<g, relay>> # q /\ <<g, relay>> \in Pipes
                  BY <2>1, <2>4, <1>1 DEF PubInv, ProgTypeOK
            <3> QED BY <1>1, <2>1, <3>1, NotBegunKept
      <2> QED BY <1>1, <2>1, <2>3, <2>4 DEF PubInv
<1>12. CASE AppendObject
      <2>1. /\ UNCHANGED progVars /\ prog = "write" /\ UNCHANGED IsEOF
            /\ groupid \in Streams /\ \E o : WriteObject(groupid, o)
            BY <1>1, <1>12 DEF AppendObject, WriteObject, PubInv, ProgTypeOK
      <2>2. \A g \in Streams : NotBegun(<<g, relay>>) => NotBegun(<<g, relay>>)'
            BY <1>1, <2>1, NotBegunKept
      <2>3. ProgTypeOK'
            BY <1>1, <2>1 DEF progVars, ProgTypeOK
      <2> QED BY <1>1, <2>1, <2>2, <2>3 DEF PubInv, progVars
<1>13. CASE CloseGroup
      <2>1. /\ UNCHANGED <<tries, wg, opened, lost>> /\ groupid' = groupid + 1
            /\ prog = "write" /\ prog' = "next" /\ groupid \in Streams
            /\ Close(groupid) /\ IsEOF' = [IsEOF EXCEPT ![groupid] = TRUE]
            BY <1>1, <1>13 DEF CloseGroup, Close, PubInv, ProgTypeOK
      <2>2. \A g \in Streams : NotBegun(<<g, relay>>) => NotBegun(<<g, relay>>)'
            BY <1>1, <2>1, NotBegunKept
      <2>3. groupid \in Nat /\ groupid + 1 \in 0 .. MaxGroups
            BY <1>1, <2>1 DEF ProgTypeOK
      <2>4. ProgTypeOK'
            BY <1>1, <2>1, <2>3 DEF ProgTypeOK
      <2>5. ASSUME NEW h \in 0 .. groupid' - 1 PROVE h \in opened' /\ IsEOF'[h]
            <3>1. h \in Streams /\ h \in opened
                  BY <2>1, <2>3 DEF PubInv
            <3>2. h # groupid => IsEOF[h]
                  BY <2>1, <2>3 DEF PubInv
            <3> QED BY <1>1, <2>1, <3>1, <3>2 DEF TypeOK
      <2>6. ASSUME NEW g \in Streams, g >= groupid'
            PROVE  ~IsEOF'[g] /\ NotBegun(<<g, relay>>)'
            <3>1. g > groupid
                  BY <2>1, <2>3, <2>6
            <3>2. ~IsEOF[g] /\ NotBegun(<<g, relay>>)
                  BY <3>1, <2>3 DEF PubInv
            <3> QED BY <1>1, <2>1, <2>2, <2>3, <3>1, <3>2 DEF TypeOK
      <2>7. opened' \subseteq 0 .. groupid'
            BY <2>1, <2>3 DEF PubInv
      <2> QED BY <1>1, <2>1, <2>3, <2>4, <2>5, <2>6, <2>7 DEF PubInv
<1>14. ASSUME NEW q \in Pipes, Pipe(q) PROVE PubInv'
      <2>1. UNCHANGED progVars /\ PipeStep(q)
            BY <1>14 DEF Pipe
      <2>2. UNCHANGED IsEOF
            BY <2>1 DEF PipeStep, PipeWait, PipeCollect, PipeWrite, PipeReturnEOF,
                  PipeReturnNil, PipeFinish, PipeAfterError, PipeWriteFails, bufVars
      <2>3. \A g \in Streams : NotBegun(<<g, relay>>) => NotBegun(<<g, relay>>)'
            BY <1>1, <2>1, NotBegunKept
      <2>4. ProgTypeOK'
            BY <1>1, <2>1 DEF progVars, ProgTypeOK
      <2> QED BY <1>1, <2>1, <2>2, <2>3, <2>4 DEF PubInv, progVars
<1> QED BY <1>3, <1>4, <1>5, <1>6, <1>7, <1>8, <1>9, <1>10, <1>11, <1>12, <1>13, <1>14
        DEF PubNext, handleStream, NewStream

-----------------------------------------------------------------------------
\* The invariant of the publishing program and its pipes.
THEOREM PubInvariance == PubSpec => []PubInv
    BY PubInitInv, PubNextInv, PTL DEF PubSpec

LEMMA InvIsContiguous == PubInv => GroupsAreContiguous
<1> SUFFICES ASSUME PubInv, NEW g \in opened, NEW h \in 0 .. g - 1
             PROVE  h \in opened /\ IsEOF[h]
    BY DEF GroupsAreContiguous
<1>1. g \in 0 .. groupid /\ groupid \in Nat
      BY GroupFacts DEF PubInv, ProgTypeOK
<1>2. h \in 0 .. groupid - 1
      BY <1>1
<1> QED BY <1>2 DEF PubInv

\* For any number of groups and attempts the program skips no group: when it has
\* opened a stream for one, it has opened and closed every group before it.
THEOREM NoGroupSkipped == PubSpec => []GroupsAreContiguous
    BY PubInvariance, InvIsContiguous, PTL

\* What the relay was sent of a published group is a prefix of what the program
\* appended to it, on a connection that may refuse streams, fail or be lost.
THEOREM PublishedPrefix == PubSpec => []DeliveredIsPrefix
    BY PubInvariance, PTL DEF PubInv, PipeInv

-----------------------------------------------------------------------------
\* A header that cannot be written fails the QUIC stream before anything is sent.
LEMMA OpenMapsToNext ==
    ASSUME PubInv, OpenUniStream
    PROVE  [Multicast!Next]_(Multicast!pmVars)
<1> DEFINE p == <<groupid, relay>>
           fin == [q \in Pipes |-> pc[q] = "closed"]
<1>1. PICK fails \in BOOLEAN : broken' = [broken EXCEPT ![p] = fails]
      BY OpenKeepsPipes
<1>2. p \in Pipes /\ p[1] \in Streams /\ NotBegun(p) /\ TypeOK
      BY OpenKeepsPipes, GroupFacts DEF PubInv, PipeInv
<1>3. UNCHANGED <<ObjectsArr, IsEOF, pc, out>>
      BY DEF OpenUniStream, bufVars
<1> HIDE DEF p
<1>4. /\ out[p] = << >> /\ ~broken[p] /\ pc[p] = "idle"
      /\ ObjectsArr[p[1]] \in Seq(Objects)
      BY <1>2 DEF NotBegun, TypeOK
<1>5. 0 \in 0 .. Len(ObjectsArr[p[1]]) /\ Len(out[p]) = 0
      BY <1>4
<1>6. SubSeq(ObjectsArr[p[1]], 1, 0) = << >>
      BY <1>4
<1>7. out' = [out EXCEPT ![p] = << >>]
      BY <1>2, <1>3, <1>4 DEF TypeOK
<1>8. ~fin[p] /\ UNCHANGED fin
      BY <1>2, <1>3, <1>4
<1>9. Multicast!Deliver(p, 0, fails)
      BY <1>1, <1>3, <1>4, <1>5, <1>6, <1>7, <1>8 DEF Multicast!Deliver
<1> QED BY <1>2, <1>5, <1>9 DEF Multicast!Next

LEMMA PubMapsToNext ==
    PubInv /\ [PubNext]_pubVars => [Multicast!Next]_(Multicast!pmVars)
    BY StepOfBuffer, MapsToNext, OpenMapsToNext DEF PubInv

\* The published groups keep the promise of PrefixMulticast: the relay's copy of a
\* group grows along the group, and is closed only when the group is or the QUIC
\* stream has failed.
THEOREM PublisherMulticasts == PubSpec => MulticastSpec
<1>1. PubInit => Multicast!Init
      BY MapsToInit DEF PubInit
<1> QED BY <1>1, PubMapsToNext, PubInvariance, PTL
        DEF PubSpec, MulticastSpec, Multicast!Spec
=============================================================================
