----------------------------- MODULE GroupStream -----------------------------
(***************************************************************************)
(* The object buffer of moqt/wire/groupstream.go and trackstream.go (the   *)
(* two have the same control): one producer appends objects under          *)
(* ObjectLock and broadcasts on ObjectCond; every copy of the stream is a  *)
(* goroutine that loops over Pipe, which parks on the condition, collects  *)
(* the objects it has not seen, releases the lock, writes them to its QUIC *)
(* stream, and only then reads IsEOF, without the lock.                    *)
(*                                                                         *)
(* A copy q = <<s, p>> is stream s piped to peer p. The loops around Pipe  *)
(* are those of RelayHandler.ProcessMOQTStream (stops on any error) and,   *)
(* for the streams of PubStreams, PubStream.NewStream (stops only on EOF). *)
(*                                                                         *)
(* The critical sections of ObjectLock contain no blocking call, so each   *)
(* is one step; Wait is two: parking, and re-acquiring after a broadcast.  *)
(***************************************************************************)
EXTENDS Integers, Sequences

CONSTANTS Streams,      \* streams being filled
          PubStreams,   \* those filled by an application through PubStream
          Pipes,        \* the copies: pairs <<stream, peer>>
          Objects,      \* the objects (identity is all that matters here)
          MaxObjects    \* bound: objects appended to one stream

ASSUME StreamsAssumption ==
    /\ PubStreams \subseteq Streams
    /\ \A q \in Pipes : q[1] \in Streams
    /\ MaxObjects \in Nat

VARIABLES ObjectsArr,   \* ObjectsArr[s]: the buffer
          IsEOF,        \* IsEOF[s]
          pc,           \* pc[q]: where the goroutine of copy q is
          index,        \* index[q]: Pipe's index / the caller's itr
          data,         \* data[q]: collected, not yet written
          ordered,      \* ordered[q]: IsEOF as the last critical section of q saw it
          out,          \* out[q]: the objects handed to the QUIC stream
          broken        \* broken[q]: a Write on the QUIC stream has failed

bufVars  == <<ObjectsArr, IsEOF>>
pipeVars == <<pc, index, data, ordered, out, broken>>
gsVars   == <<ObjectsArr, IsEOF, pc, index, data, ordered, out, broken>>

PCs == {"idle", "loop", "waiting", "woken", "write", "written",
        "eof", "error", "closed"}

Init ==
    /\ ObjectsArr = [s \in Streams |-> << >>]
    /\ IsEOF = [s \in Streams |-> FALSE]
    /\ pc = [q \in Pipes |-> "idle"]
    /\ index = [q \in Pipes |-> 0]
    /\ data = [q \in Pipes |-> << >>]
    /\ ordered = [q \in Pipes |-> FALSE]
    /\ out = [q \in Pipes |-> << >>]
    /\ broken = [q \in Pipes |-> FALSE]

-----------------------------------------------------------------------------
\* The producer's side.

\* Fault: Signal in place of Broadcast.
BroadcastAsSignal(s) ==
    LET parked == {q \in Pipes : q[1] = s /\ pc[q] = "waiting"} IN
    IF parked = {} THEN pc' = pc
    ELSE \E q \in parked : pc' = [pc EXCEPT ![q] = "woken"]

\* ObjectCond.Broadcast(): every goroutine parked on stream s becomes runnable.
Broadcast(s) ==
    pc' = [q \in Pipes |-> IF q[1] = s /\ pc[q] = "waiting" THEN "woken" ELSE pc[q]]

WriteObject(s, o) ==
    /\ ObjectsArr' = [ObjectsArr EXCEPT ![s] = Append(@, o)]
    /\ Broadcast(s)
    /\ UNCHANGED <<IsEOF, index, data, ordered, out, broken>>

Close(s) ==
    /\ IsEOF' = [IsEOF EXCEPT ![s] = TRUE]
    /\ Broadcast(s)
    /\ UNCHANGED <<ObjectsArr, index, data, ordered, out, broken>>

\* The callers append nothing after closing: ProcessObjects leaves its loop on
\* EOF, and the publishing programs close a stream after its last object.
Produce(s) ==
    /\ ~IsEOF[s]
    /\ \/ Close(s)
       \/ Len(ObjectsArr[s]) < MaxObjects /\ \E o \in Objects : WriteObject(s, o)

-----------------------------------------------------------------------------
\* The goroutine of one copy.

\* The goroutine enters its loop (itr := 0); its header is written.
PipeStart(q) ==
    /\ pc[q] = "idle"
    /\ pc' = [pc EXCEPT ![q] = "loop"]
    /\ UNCHANGED <<bufVars, index, data, ordered, out, broken>>

\* L.Lock(); Wait(): Pipe parks before it looks at the buffer.
PipeWait(q) ==
    /\ pc[q] = "loop"
    /\ pc' = [pc EXCEPT ![q] = "waiting"]
    /\ UNCHANGED <<bufVars, index, data, ordered, out, broken>>

\* Fault: the advanced index is not returned to the loop.
PipeCollectIndexLost(q) ==
    LET arr == ObjectsArr[q[1]] IN
    /\ pc[q] = "woken"
    /\ data' = [data EXCEPT ![q] = SubSeq(arr, index[q] + 1, Len(arr))]
    /\ ordered' = [ordered EXCEPT ![q] = IsEOF[q[1]]]
    /\ pc' = [pc EXCEPT ![q] = "write"]
    /\ UNCHANGED <<bufVars, index, out, broken>>

\* Wait returns with the lock; the unseen objects are collected; Unlock.
PipeCollect(q) ==
    LET arr == ObjectsArr[q[1]] IN
    /\ pc[q] = "woken"
    /\ data' = [data EXCEPT ![q] = SubSeq(arr, index[q] + 1, Len(arr))]
    /\ index' = [index EXCEPT ![q] = Len(arr)]
    /\ ordered' = [ordered EXCEPT ![q] = IsEOF[q[1]]]
    /\ pc' = [pc EXCEPT ![q] = "write"]
    /\ UNCHANGED <<bufVars, out, broken>>

\* Fault: a Write succeeds after an earlier one has failed.
PipeWriteResumes(q) ==
    /\ pc[q] = "write"
    /\ out' = [out EXCEPT ![q] = @ \o data[q]]
    /\ data' = [data EXCEPT ![q] = << >>]
    /\ pc' = [pc EXCEPT ![q] = "written"]
    /\ UNCHANGED <<bufVars, index, ordered, broken>>

\* stream.Write(data) succeeds. A QUIC send stream that has failed once fails
\* every later Write (the stream is reset or its connection is gone).
PipeWrite(q) ==
    /\ pc[q] = "write"
    /\ ~broken[q]
    /\ out' = [out EXCEPT ![q] = @ \o data[q]]
    /\ data' = [data EXCEPT ![q] = << >>]
    /\ pc' = [pc EXCEPT ![q] = "written"]
    /\ UNCHANGED <<bufVars, index, ordered, broken>>

\* stream.Write(data) fails: the first n objects of data had been sent, none of
\* them if the stream had failed before. Pipe returns the advanced index.
PipeWriteFails(q, n) ==
    /\ pc[q] = "write"
    /\ broken[q] => n = 0
    /\ out' = [out EXCEPT ![q] = @ \o SubSeq(data[q], 1, n)]
    /\ data' = [data EXCEPT ![q] = << >>]
    /\ broken' = [broken EXCEPT ![q] = TRUE]
    /\ pc' = [pc EXCEPT ![q] = "error"]
    /\ UNCHANGED <<bufVars, index, ordered>>

\* Pipe reads IsEOF without the lock. The read is ordered after the critical
\* section of PipeCollect and no other, so it may miss a Close that came later.
PipeReturnEOF(q) ==
    /\ pc[q] = "written"
    /\ IsEOF[q[1]]
    /\ pc' = [pc EXCEPT ![q] = "eof"]
    /\ UNCHANGED <<bufVars, index, data, ordered, out, broken>>

\* Fault: IsEOF was read before the objects were collected.
PipeReturnNilEarlyRead(q) ==
    /\ pc[q] = "written"
    /\ pc' = [pc EXCEPT ![q] = "loop"]
    /\ UNCHANGED <<bufVars, index, data, ordered, out, broken>>

PipeReturnNil(q) ==
    /\ pc[q] = "written"
    /\ ~ordered[q]
    /\ pc' = [pc EXCEPT ![q] = "loop"]
    /\ UNCHANGED <<bufVars, index, data, ordered, out, broken>>

\* Fault: the loop is left when a call of Pipe found nothing to send.
PipeFinishWhenIdle(q) ==
    /\ pc[q] \in {"eof", "written"}
    /\ pc' = [pc EXCEPT ![q] = "closed"]
    /\ UNCHANGED <<bufVars, index, data, ordered, out, broken>>

\* The loop was left on EOF: unistream.Close().
PipeFinish(q) ==
    /\ pc[q] = "eof"
    /\ pc' = [pc EXCEPT ![q] = "closed"]
    /\ UNCHANGED <<bufVars, index, data, ordered, out, broken>>

\* Fault: the relay's loop goes on after an error, as PubStream's does.
PipeAfterErrorLoops(q) ==
    /\ pc[q] = "error"
    /\ pc' = [pc EXCEPT ![q] = "loop"]
    /\ UNCHANGED <<bufVars, index, data, ordered, out, broken>>

\* After another error the relay leaves its loop and closes the QUIC stream;
\* PubStream logs the error and calls Pipe again.
PipeAfterError(q) ==
    /\ pc[q] = "error"
    /\ pc' = [pc EXCEPT ![q] = IF q[1] \in PubStreams THEN "loop" ELSE "closed"]
    /\ UNCHANGED <<bufVars, index, data, ordered, out, broken>>

\* What the goroutine does by itself once started.
PipeStep(q) ==
    \/ PipeWait(q) \/ PipeCollect(q) \/ PipeWrite(q)
    \/ PipeReturnEOF(q) \/ PipeReturnNil(q) \/ PipeFinish(q) \/ PipeAfterError(q)
    \/ \E n \in 0 .. Len(data[q]) : PipeWriteFails(q, n)

Next ==
    \/ \E s \in Streams : Produce(s)
    \/ \E q \in Pipes : PipeStart(q) \/ PipeStep(q)

Spec == Init /\ [][Next]_gsVars

\* The Go scheduler runs a runnable goroutine eventually, and a Write returns.
Fairness == \A q \in Pipes : WF_gsVars(PipeStart(q)) /\ WF_gsVars(PipeStep(q))
FairSpec == Spec /\ Fairness

-----------------------------------------------------------------------------
TypeOK ==
    /\ ObjectsArr \in [Streams -> Seq(Objects)]
    /\ IsEOF \in [Streams -> BOOLEAN]
    /\ pc \in [Pipes -> PCs]
    /\ index \in [Pipes -> Nat]
    /\ data \in [Pipes -> Seq(Objects)]
    /\ ordered \in [Pipes -> BOOLEAN]
    /\ out \in [Pipes -> Seq(Objects)]
    /\ broken \in [Pipes -> BOOLEAN]

\* s is the beginning of t.
Begins(s, t) == Len(s) <= Len(t) /\ \A i \in 1 .. Len(s) : s[i] = t[i]

\* What a peer was sent is a prefix of the stream: no object is skipped,
\* repeated or reordered, although Pipe collects under the lock, writes without
\* it, and advances its index even when the Write fails.
DeliveredIsPrefix == \A q \in Pipes : Begins(out[q], ObjectsArr[q[1]])

\* o and d are consecutive parts of arr that start at its first element and end
\* at its i-th.
Joined(arr, i, o, d) ==
    /\ Len(o) + Len(d) = i
    /\ \A k \in 1 .. Len(d) : d[k] = arr[Len(o) + k]

\* Why DeliveredIsPrefix is inductive: as long as no Write has failed, what was
\* written and what is collected are consecutive parts of the buffer that end at
\* index; once one has failed, nothing is written any more.
CollectedIsNext ==
    \A q \in Pipes :
        /\ index[q] <= Len(ObjectsArr[q[1]])
        /\ pc[q] # "write" => data[q] = << >>
        /\ ~broken[q] => Joined(ObjectsArr[q[1]], index[q], out[q], data[q])

\* A goroutine is past its loop only because the stream is closed or its QUIC
\* stream has failed.
EndIsJustified ==
    \A q \in Pipes :
        /\ pc[q] = "eof" => IsEOF[q[1]]
        /\ pc[q] = "error" => broken[q]
        /\ pc[q] = "closed" => IsEOF[q[1]] \/ broken[q]

\* The inductive invariant.
PipeInv == TypeOK /\ DeliveredIsPrefix /\ CollectedIsNext /\ EndIsJustified

\* The buffer promises what PrefixMulticast says, through the mapping that reads
\* a copy's progress off what its QUIC stream was handed.
Multicast == INSTANCE PrefixMulticast WITH
    log <- ObjectsArr, ended <- IsEOF, got <- out, lost <- broken,
    finished <- [q \in Pipes |-> pc[q] = "closed"]
MulticastSpec == Multicast!Spec

\* An append reaches every parked goroutine: one that is parked when the buffer
\* holds n objects sends the next object once there is one, unless its QUIC
\* stream fails.
ParkedPipeDelivers ==
    \A q \in Pipes : \A n \in 0 .. MaxObjects - 1 :
        [](   (/\ pc[q] = "waiting" /\ Len(ObjectsArr[q[1]]) = n
               /\ <>(Len(ObjectsArr[q[1]]) > n))
           => <>(Len(out[q]) > n \/ broken[q]))

\* A goroutine that is awake and finds the stream closed sends everything and
\* closes its QUIC stream, unless that stream fails.
ReachedPipeFinishes ==
    \A q \in Pipes :
        (pc[q] = "woken" /\ IsEOF[q[1]])
            ~> (broken[q] \/ (pc[q] = "closed" /\ out[q] = ObjectsArr[q[1]]))

\* A relayed copy whose QUIC stream failed is closed and its goroutine ends.
FailedRelayPipeCloses ==
    \A q \in Pipes : (broken[q] /\ q[1] \notin PubStreams) ~> pc[q] = "closed"

\* What the relay is documented to do, and does not: a copy of a closed stream is
\* finished, so that the subscriber's ReadObject loop meets the end, and then holds
\* every object of the stream, unless its QUIC stream fails.
ClosedStreamIsDelivered ==
    \A q \in Pipes :
        IsEOF[q[1]] ~> (broken[q] \/ (pc[q] = "closed" /\ out[q] = ObjectsArr[q[1]]))
=============================================================================
