----------------------------- MODULE Publisher ------------------------------
(***************************************************************************)
(* A publishing program (handleStream of examples/pub and of the two       *)
(* ffmpeg publishers) on top of PubStream.NewStream: for every group it    *)
(* opens a QUIC stream, starts the goroutine that pipes the group into it, *)
(* appends the objects and closes the group. The buffers and the pipes are *)
(* GroupStream's; group g is stream g, its one copy is <<g, relay>>.       *)
(*                                                                         *)
(* OpenUniStream fails while the relay grants no stream and for ever once  *)
(* the connection is lost; NewStream tries five times. Nothing makes the   *)
(* program ask for another group or append another object: examples/pub    *)
(* sleeps in between, the ffmpeg publishers wait for their input on a      *)
(* channel. MaxGroups is groupCount of examples/pub; for a program that    *)
(* has no last group, it and MaxObjects are bounds.                        *)
(***************************************************************************)
EXTENDS GroupStream

CONSTANTS MaxGroups,    \* groupCount; 0 .. MaxGroups - 1 are the streams
          MaxRetries,   \* maxRetries of NewStream: 5
          relay         \* the peer

ASSUME PublisherAssumption ==
    /\ MaxGroups \in Nat \ {0} /\ MaxRetries \in Nat \ {0}
    /\ Streams = 0 .. MaxGroups - 1 /\ PubStreams = Streams
    /\ Pipes = {<<g, relay>> : g \in Streams}
    /\ Objects = 0 .. MaxObjects - 1

VARIABLES prog,      \* where the program is
          groupid,   \* the group it is at
          tries,     \* i of NewStream's loop, 0 outside
          wg,        \* wg[g]: the WaitGroup of group g
          opened,    \* the groups that have a QUIC stream
          lost       \* the connection is lost

progVars == <<prog, groupid, tries, wg, opened, lost>>
pubVars == <<gsVars, progVars>>

PubInit ==
    /\ Init
    /\ prog = "next" /\ groupid = 0 /\ tries = 0
    /\ wg = [g \in Streams |-> 0]
    /\ opened = {} /\ lost = FALSE

-----------------------------------------------------------------------------
\* handleStream asks for the next group: NewGroup, and NewStream up to its loop.
\* (NewTrack differs in the type of the buffer.)
NewGroup ==
    /\ prog = "next" /\ groupid < MaxGroups
    /\ wg' = [wg EXCEPT ![groupid] = @ + 1]
    /\ prog' = "open"
    /\ UNCHANGED <<gsVars, groupid, tries, opened, lost>>

\* OpenUniStream succeeds; the header is written, and an error of that is ignored.
OpenUniStream ==
    /\ prog = "open" /\ tries < MaxRetries /\ ~lost
    /\ opened' = opened \cup {groupid}
    /\ \E failed \in BOOLEAN : broken' = [broken EXCEPT ![<<groupid, relay>>] = failed]
    /\ tries' = 0
    /\ prog' = "go"
    /\ UNCHANGED <<bufVars, pc, index, data, ordered, out, groupid, wg, lost>>

OpenUniStreamFails ==
    /\ prog = "open" /\ tries < MaxRetries
    /\ tries' = tries + 1
    /\ UNCHANGED <<gsVars, prog, groupid, wg, opened, lost>>

\* Fault: the program goes on with the next group when one cannot be opened.
NewStreamFailsGoesOn ==
    /\ prog = "open" /\ tries = MaxRetries
    /\ wg' = [wg EXCEPT ![groupid] = @ - 1]
    /\ groupid' = groupid + 1
    /\ tries' = 0
    /\ prog' = "next"
    /\ UNCHANGED <<gsVars, opened, lost>>

\* All attempts have failed: NewStream returns the error and the program gives up.
NewStreamFails ==
    /\ prog = "open" /\ tries = MaxRetries
    /\ wg' = [wg EXCEPT ![groupid] = @ - 1]
    /\ tries' = 0
    /\ prog' = "returned"
    /\ UNCHANGED <<gsVars, groupid, opened, lost>>

\* Fault: the goroutine counts down when it has left its loop.
GoPipeDoneLast(q) ==
    /\ prog \in {"go", "wait"} /\ groupid = q[1]
    /\ PipeStart(q)
    /\ prog' = "wait"
    /\ UNCHANGED <<groupid, tries, wg, opened, lost>>

\* The goroutine of group q[1]: WgDone, and on into its loop around Pipe.
GoPipe(q) ==
    /\ prog = "go" /\ groupid = q[1]
    /\ PipeStart(q)
    /\ wg' = [wg EXCEPT ![groupid] = @ - 1]
    /\ prog' = "wait"
    /\ UNCHANGED <<groupid, tries, opened, lost>>

\* NewStream returns.
WgWait ==
    /\ prog = "wait" /\ wg[groupid] = 0
    /\ prog' = "write"
    /\ UNCHANGED <<gsVars, groupid, tries, wg, opened, lost>>

\* The program has the next object of the group: objectid counts them.
AppendObject ==
    /\ prog = "write" /\ Len(ObjectsArr[groupid]) < MaxObjects
    /\ WriteObject(groupid, Len(ObjectsArr[groupid]))
    /\ UNCHANGED progVars

\* The group is full: it is closed and the next one is due.
CloseGroup ==
    /\ prog = "write" /\ Len(ObjectsArr[groupid]) = MaxObjects
    /\ Close(groupid)
    /\ groupid' = groupid + 1
    /\ prog' = "next"
    /\ UNCHANGED <<tries, wg, opened, lost>>

TransferComplete ==
    /\ prog = "next" /\ groupid = MaxGroups
    /\ prog' = "returned"
    /\ UNCHANGED <<gsVars, groupid, tries, wg, opened, lost>>

\* The rest of NewStream, once it is called.
NewStream ==
    \/ OpenUniStream \/ OpenUniStreamFails \/ NewStreamFails
    \/ (\E q \in Pipes : GoPipe(q))
    \/ WgWait

handleStream ==
    NewGroup \/ NewStream \/ AppendObject \/ CloseGroup \/ TransferComplete

\* A step of a pipe; on a lost connection every Write fails.
Pipe(q) ==
    /\ PipeStep(q)
    /\ (lost /\ pc[q] = "write") => broken'[q]
    /\ UNCHANGED progVars

ConnLost == ~lost /\ lost' = TRUE /\ UNCHANGED <<gsVars, prog, groupid, tries, wg, opened>>

PubNext ==
    \/ handleStream
    \/ \E q \in Pipes : Pipe(q)
    \/ ConnLost

\* The Go scheduler runs NewStream and the pipes, and a Write returns. The program
\* itself may wait for its input for ever.
PubFairness == WF_pubVars(NewStream) /\ \A q \in Pipes : WF_pubVars(Pipe(q))
PubSpec == PubInit /\ [][PubNext]_pubVars /\ PubFairness

-----------------------------------------------------------------------------
\* The program skips no group: when a group has a QUIC stream, every group before it
\* has one and is closed, although opening one may fail five times. (What the relay
\* gets is another matter: the header, or the objects, may fail to be written.)
GroupsAreContiguous ==
    \A g \in opened : \A h \in 0 .. g - 1 : h \in opened /\ IsEOF[h]

ProgTypeOK ==
    /\ prog \in {"next", "open", "go", "wait", "write", "returned"}
    /\ groupid \in 0 .. MaxGroups
    /\ tries \in 0 .. MaxRetries
    /\ wg \in [Streams -> Int]
    /\ opened \subseteq Streams
    /\ lost \in BOOLEAN

\* The goroutine of copy q does not run yet, and its QUIC stream is not open.
NotBegun(q) ==
    pc[q] = "idle" /\ index[q] = 0 /\ data[q] = << >> /\ out[q] = << >> /\ ~broken[q]

\* Why GroupsAreContiguous and the promises of the buffer are kept by the program:
\* the groups before groupid are opened and closed, none after it is touched, and
\* the one at groupid is open only between NewStream and Close. So nothing is
\* appended to a closed group, and no stream is opened under a running goroutine.
PubInv ==
    /\ ProgTypeOK
    /\ PipeInv
    /\ prog \in {"open", "go", "wait", "write"} => groupid < MaxGroups
    /\ \A h \in 0 .. groupid - 1 : h \in opened /\ IsEOF[h]
    /\ opened \subseteq 0 .. groupid
    /\ prog \in {"go", "wait", "write"} => groupid \in opened
    /\ \A g \in Streams : g >= groupid => ~IsEOF[g]
    /\ \A g \in Streams :
          g > groupid \/ (g = groupid /\ prog \in {"next", "open", "returned"})
              => NotBegun(<<g, relay>>)

\* A program that calls NewStream gets its stream or gives up, whatever becomes of the
\* connection and however slow the pipes of earlier groups are: no call hangs in its
\* WaitGroup, and none tries for ever.
NewStreamReturns == prog \in {"open", "go", "wait"} ~> prog \in {"write", "returned"}
=============================================================================
