-------------------------- MODULE GroupStreamProof ---------------------------
(***************************************************************************)
(* Proofs about GroupStream, for every set of streams, copies and objects: *)
(* its types, that what a peer was sent is a prefix of the stream, and     *)
(* that the buffer implements PrefixMulticast.                             *)
(***************************************************************************)
EXTENDS GroupStream, TLAPS

\* What the provers need to know of the sequence operators the buffer uses.
LEMMA AppendFacts ==
    ASSUME NEW S, NEW s \in Seq(S), NEW e \in S
    PROVE  /\ Append(s, e) \in Seq(S)
           /\ Len(Append(s, e)) = Len(s) + 1
           /\ \A i \in 1 .. Len(s) : Append(s, e)[i] = s[i]
    OBVIOUS

LEMMA SubSeqFacts ==
    ASSUME NEW S, NEW s \in Seq(S), NEW m \in Nat, NEW n \in Nat,
           m <= n, n <= Len(s)
    PROVE  /\ SubSeq(s, m + 1, n) \in Seq(S)
           /\ Len(SubSeq(s, m + 1, n)) = n - m
           /\ \A i \in 1 .. n - m : SubSeq(s, m + 1, n)[i] = s[m + i]
    OBVIOUS

LEMMA ConcatFacts ==
    ASSUME NEW S, NEW s \in Seq(S), NEW t \in Seq(S)
    PROVE  /\ s \o t \in Seq(S)
           /\ Len(s \o t) = Len(s) + Len(t)
           /\ \A i \in 1 .. Len(s) : (s \o t)[i] = s[i]
           /\ \A i \in 1 .. Len(t) : (s \o t)[Len(s) + i] = t[i]
    OBVIOUS

-----------------------------------------------------------------------------
\* The type invariant, action by action: TypeOK /\ [Next]_gsVars => TypeOK'.

LEMMA TypeStep == TypeOK /\ CollectedIsNext /\ [Next]_gsVars => TypeOK'
<1> SUFFICES ASSUME TypeOK, CollectedIsNext, [Next]_gsVars PROVE TypeOK'
    OBVIOUS
<1> USE StreamsAssumption
<1>1. ASSUME NEW s \in Streams, NEW o \in Objects, WriteObject(s, o) PROVE TypeOK'
      BY <1>1, AppendFacts DEF TypeOK, WriteObject, Broadcast, PCs
<1>2. ASSUME NEW s \in Streams, Close(s) PROVE TypeOK'
      BY <1>2 DEF TypeOK, Close, Broadcast, PCs
<1>3. ASSUME NEW q \in Pipes, PipeStart(q) PROVE TypeOK'
      BY <1>3 DEF TypeOK, PipeStart, bufVars, PCs
<1>4. ASSUME NEW q \in Pipes, PipeWait(q) PROVE TypeOK'
      BY <1>4 DEF TypeOK, PipeWait, bufVars, PCs
<1>5. ASSUME NEW q \in Pipes, PipeCollect(q) PROVE TypeOK'
      <2>1. /\ index[q] \in Nat /\ Len(ObjectsArr[q[1]]) \in Nat
            /\ index[q] <= Len(ObjectsArr[q[1]])
            /\ ObjectsArr[q[1]] \in Seq(Objects)
            BY <1>5 DEF TypeOK, CollectedIsNext
      <2>2. SubSeq(ObjectsArr[q[1]], index[q] + 1, Len(ObjectsArr[q[1]])) \in Seq(Objects)
            BY <2>1, SubSeqFacts
      <2> QED BY <1>5, <2>1, <2>2 DEF TypeOK, PipeCollect, bufVars, PCs
<1>6. ASSUME NEW q \in Pipes, PipeWrite(q) PROVE TypeOK'
      BY <1>6, ConcatFacts DEF TypeOK, PipeWrite, bufVars, PCs
<1>7. ASSUME NEW q \in Pipes, NEW n \in 0 .. Len(data[q]), PipeWriteFails(q, n)
      PROVE TypeOK'
      <2>1. SubSeq(data[q], 1, n) \in Seq(Objects)
            BY SubSeqFacts DEF TypeOK
      <2>2. out[q] \o SubSeq(data[q], 1, n) \in Seq(Objects)
            BY <2>1, ConcatFacts DEF TypeOK
      <2> QED BY <1>7, <2>2 DEF TypeOK, PipeWriteFails, bufVars, PCs
<1>8. ASSUME NEW q \in Pipes, PipeReturnEOF(q) PROVE TypeOK'
      BY <1>8 DEF TypeOK, PipeReturnEOF, bufVars, PCs
<1>9. ASSUME NEW q \in Pipes, PipeReturnNil(q) PROVE TypeOK'
      BY <1>9 DEF TypeOK, PipeReturnNil, bufVars, PCs
<1>10. ASSUME NEW q \in Pipes, PipeFinish(q) PROVE TypeOK'
      BY <1>10 DEF TypeOK, PipeFinish, bufVars, PCs
<1>11. ASSUME NEW q \in Pipes, PipeAfterError(q) PROVE TypeOK'
      BY <1>11 DEF TypeOK, PipeAfterError, bufVars, PCs
<1>12. CASE UNCHANGED gsVars
      BY <1>12 DEF TypeOK, gsVars
<1> QED BY <1>1, <1>2, <1>3, <1>4, <1>5, <1>6, <1>7, <1>8, <1>9, <1>10, <1>11, <1>12
        DEF Next, Produce, PipeStep

-----------------------------------------------------------------------------
\* Facts about the parts of a buffer, free of any state.

\* Appending to a buffer disturbs nothing that is said of its first elements.
LEMMA AppendKeeps ==
    ASSUME NEW S, NEW arr \in Seq(S), NEW e \in S, NEW i \in Nat,
           NEW o \in Seq(S), NEW d \in Seq(S), i <= Len(arr)
    PROVE  /\ Begins(o, arr) => Begins(o, Append(arr, e))
           /\ Joined(arr, i, o, d) => Joined(Append(arr, e), i, o, d)
           /\ i <= Len(Append(arr, e))
<1> DEFINE new == Append(arr, e)
<1>1. /\ new \in Seq(S) /\ Len(new) = Len(arr) + 1
      /\ \A k \in 1 .. Len(arr) : new[k] = arr[k]
      BY AppendFacts
<1> HIDE DEF new
<1>2. Len(arr) \in Nat /\ Len(o) \in Nat /\ Len(d) \in Nat
      OBVIOUS
<1>3. ASSUME Begins(o, arr) PROVE Begins(o, new)
      BY <1>1, <1>2, <1>3 DEF Begins
<1>4. ASSUME Joined(arr, i, o, d) PROVE Joined(new, i, o, d)
      <2>1. ASSUME NEW k \in 1 .. Len(d) PROVE d[k] = new[Len(o) + k]
            <3>1. d[k] = arr[Len(o) + k] /\ Len(o) + k \in 1 .. Len(arr)
                  BY <1>2, <1>4 DEF Joined
            <3> QED BY <3>1, <1>1
      <2> QED BY <2>1, <1>4 DEF Joined
<1>5. i <= Len(new)
      BY <1>1, <1>2
<1> QED BY <1>3, <1>4, <1>5 DEF new

\* Collecting takes what follows the index, which is what follows the written.
LEMMA CollectJoins ==
    ASSUME NEW S, NEW arr \in Seq(S), NEW o \in Seq(S), Len(o) <= Len(arr)
    PROVE  Joined(arr, Len(arr), o, SubSeq(arr, Len(o) + 1, Len(arr)))
<1> DEFINE new == SubSeq(arr, Len(o) + 1, Len(arr))
<1>1. Len(arr) \in Nat /\ Len(o) \in Nat
      OBVIOUS
<1>2. /\ Len(new) = Len(arr) - Len(o)
      /\ \A k \in 1 .. Len(arr) - Len(o) : new[k] = arr[Len(o) + k]
      BY <1>1, SubSeqFacts
<1> HIDE DEF new
<1>3. Joined(arr, Len(arr), o, new)
      BY <1>1, <1>2 DEF Joined
<1> QED BY <1>3 DEF new

\* Sending the first n collected objects extends the prefix that was written.
LEMMA SendExtends ==
    ASSUME NEW S, NEW arr \in Seq(S), NEW i \in Nat, i <= Len(arr),
           NEW o \in Seq(S), NEW d \in Seq(S), Begins(o, arr), Joined(arr, i, o, d),
           NEW n \in 0 .. Len(d)
    PROVE  /\ Begins(o \o SubSeq(d, 1, n), arr)
           /\ Len(o \o SubSeq(d, 1, n)) = Len(o) + n
           /\ Len(o) + n <= i
<1> DEFINE more == SubSeq(d, 1, n)
           new  == o \o more
<1>1. Len(arr) \in Nat /\ Len(o) \in Nat /\ Len(d) \in Nat /\ n \in Nat /\ n <= Len(d)
      /\ Len(o) + Len(d) = i
      /\ \A k \in 1 .. Len(d) : d[k] = arr[Len(o) + k]
      BY DEF Joined
<1>2. more \in Seq(S) /\ Len(more) = n /\ \A k \in 1 .. n : more[k] = d[k]
      BY <1>1, SubSeqFacts
<1> HIDE DEF more
<1>3. /\ new \in Seq(S) /\ Len(new) = Len(o) + n
      /\ \A k \in 1 .. Len(o) : new[k] = o[k]
      /\ \A k \in 1 .. n : new[Len(o) + k] = more[k]
      <2>1. new \in Seq(S)
            BY <1>2
      <2>2. Len(new) = Len(o) + n
            <3>1. more \in Seq(S) /\ Len(more) = n
                  BY <1>2
            <3>2. Len(new) = Len(o) + Len(more)
                  BY <3>1, ConcatFacts, Zenon
            <3> QED BY <3>1, <3>2, Zenon
      <2>3. \A k \in 1 .. Len(o) : new[k] = o[k]
            BY <1>2
      <2>4. \A k \in 1 .. n : new[Len(o) + k] = more[k]
            BY <1>2
      <2> QED BY <2>1, <2>2, <2>3, <2>4
<1> HIDE DEF new
<1>4. ASSUME NEW k \in 1 .. Len(new) PROVE new[k] = arr[k]
      <2>1. CASE k <= Len(o)
            BY <2>1, <1>1, <1>3 DEF Begins
      <2>2. CASE k > Len(o)
            <3> DEFINE j == k - Len(o)
            <3>1. j \in 1 .. n /\ j \in 1 .. Len(d) /\ k = Len(o) + j
                  BY <2>2, <1>1, <1>3
            <3> HIDE DEF j
            <3> QED BY <3>1, <1>1, <1>2, <1>3
      <2> QED BY <2>1, <2>2, <1>1, <1>3
<1>5. Begins(new, arr)
      BY <1>1, <1>3, <1>4 DEF Begins
<1> QED BY <1>1, <1>3, <1>5 DEF new, more

\* A Write that succeeds sends everything collected.
LEMMA WriteJoins ==
    ASSUME NEW S, NEW arr \in Seq(S), NEW i \in Nat, i <= Len(arr),
           NEW o \in Seq(S), NEW d \in Seq(S), Begins(o, arr), Joined(arr, i, o, d)
    PROVE  Begins(o \o d, arr) /\ Joined(arr, i, o \o d, << >>)
<1>1. SubSeq(d, 1, Len(d)) = d /\ Len(d) \in Nat /\ Len(d) \in 0 .. Len(d)
      OBVIOUS
<1>2. /\ Begins(o \o SubSeq(d, 1, Len(d)), arr)
      /\ Len(o \o SubSeq(d, 1, Len(d))) = Len(o) + Len(d)
      <2>1. \A n \in 0 .. Len(d) :
               /\ Begins(o \o SubSeq(d, 1, n), arr)
               /\ Len(o \o SubSeq(d, 1, n)) = Len(o) + n
            BY SendExtends
      <2> QED BY <1>1, <2>1
<1> DEFINE new == o \o d
<1>3. Begins(new, arr) /\ Len(new) = Len(o) + Len(d) /\ new \in Seq(S)
      <2>1. Begins(new, arr) /\ Len(new) = Len(o) + Len(d)
            BY <1>1, <1>2, Zenon
      <2>2. new \in Seq(S)
            OBVIOUS
      <2> QED BY <2>1, <2>2
<1> HIDE DEF new
<1>4. Joined(arr, i, new, << >>)
      BY <1>3, <1>1 DEF Joined
<1> QED BY <1>3, <1>4 DEF new

-----------------------------------------------------------------------------
\* What PipeInv says of one copy.
Relates(q) ==
    /\ Begins(out[q], ObjectsArr[q[1]])
    /\ index[q] <= Len(ObjectsArr[q[1]])
    /\ pc[q] # "write" => data[q] = << >>
    /\ ~broken[q] => Joined(ObjectsArr[q[1]], index[q], out[q], data[q])

LEMMA RelatesIsInv ==
    (\A q \in Pipes : Relates(q)) <=> DeliveredIsPrefix /\ CollectedIsNext
    BY DEF Relates, DeliveredIsPrefix, CollectedIsNext

LEMMA PipeTypes ==
    ASSUME TypeOK, NEW q \in Pipes
    PROVE  /\ q[1] \in Streams /\ ObjectsArr[q[1]] \in Seq(Objects)
           /\ out[q] \in Seq(Objects) /\ data[q] \in Seq(Objects)
           /\ index[q] \in Nat
    BY StreamsAssumption DEF TypeOK

LEMMA RelatesWriteObject ==
    ASSUME TypeOK, NEW q \in Pipes, Relates(q),
           NEW s \in Streams, NEW o \in Objects, WriteObject(s, o)
    PROVE  Relates(q)'
<1>1. UNCHANGED <<out, data, index, broken>> /\ (pc'[q] = "write" <=> pc[q] = "write")
      BY DEF WriteObject, Broadcast, TypeOK
<1>2. CASE q[1] # s
      <2>1. ObjectsArr'[q[1]] = ObjectsArr[q[1]]
            BY <1>2, PipeTypes DEF WriteObject, TypeOK
      <2> QED BY <2>1, <1>1 DEF Relates
<1>3. CASE q[1] = s
      <2>1. ObjectsArr'[q[1]] = Append(ObjectsArr[q[1]], o)
            BY <1>3, PipeTypes DEF WriteObject, TypeOK
      <2> DEFINE arr == ObjectsArr[q[1]]
      <2>2. /\ Begins(out[q], arr) => Begins(out[q], Append(arr, o))
            /\ Joined(arr, index[q], out[q], data[q])
                  => Joined(Append(arr, o), index[q], out[q], data[q])
            /\ index[q] <= Len(Append(arr, o))
            BY PipeTypes, AppendKeeps DEF Relates
      <2> QED BY <2>1, <2>2, <1>1 DEF Relates
<1> QED BY <1>2, <1>3

LEMMA RelatesCollect ==
    ASSUME TypeOK, NEW q \in Pipes, Relates(q), NEW p \in Pipes, PipeCollect(p)
    PROVE  Relates(q)'
<1>1. UNCHANGED <<ObjectsArr, out, broken>>
      BY DEF PipeCollect, bufVars
<1>2. CASE q # p
      <2>1. pc'[q] = pc[q] /\ data'[q] = data[q] /\ index'[q] = index[q]
            BY <1>2 DEF PipeCollect, TypeOK
      <2> QED BY <2>1, <1>1 DEF Relates
<1>3. CASE q = p
      <2> DEFINE arr == ObjectsArr[q[1]]
      <2>1. /\ data'[q] = SubSeq(arr, index[q] + 1, Len(arr))
            /\ index'[q] = Len(arr) /\ pc'[q] = "write" /\ data[q] = << >>
            BY <1>3 DEF PipeCollect, TypeOK, Relates
      <2>2. ASSUME ~broken[q]
            PROVE  Joined(arr, Len(arr), out[q], SubSeq(arr, index[q] + 1, Len(arr)))
            <3>1. Len(out[q]) = index[q] /\ Len(out[q]) <= Len(arr)
                  BY <2>1, <2>2, PipeTypes DEF Relates, Joined
            <3>2. Joined(arr, Len(arr), out[q], SubSeq(arr, Len(out[q]) + 1, Len(arr)))
                  BY <3>1, PipeTypes, CollectJoins
            <3> QED BY <3>1, <3>2, Zenon
      <2>3. Len(arr) <= Len(arr)
            BY PipeTypes
      <2> QED BY <2>1, <2>2, <2>3, <1>1 DEF Relates
<1> QED BY <1>2, <1>3

LEMMA RelatesWrite ==
    ASSUME TypeOK, NEW q \in Pipes, Relates(q), NEW p \in Pipes, PipeWrite(p)
    PROVE  Relates(q)'
<1>1. UNCHANGED <<ObjectsArr, index, broken>>
      BY DEF PipeWrite, bufVars
<1>2. CASE q # p
      <2>1. pc'[q] = pc[q] /\ data'[q] = data[q] /\ out'[q] = out[q]
            BY <1>2 DEF PipeWrite, TypeOK
      <2> QED BY <2>1, <1>1 DEF Relates
<1>3. CASE q = p
      <2>1. out'[q] = out[q] \o data[q] /\ data'[q] = << >> /\ ~broken[q]
            BY <1>3 DEF PipeWrite, TypeOK
      <2>2. /\ Begins(out[q] \o data[q], ObjectsArr[q[1]])
            /\ Joined(ObjectsArr[q[1]], index[q], out[q] \o data[q], << >>)
            BY <2>1, PipeTypes, WriteJoins DEF Relates
      <2> QED BY <2>1, <2>2, <1>1 DEF Relates
<1> QED BY <1>2, <1>3

LEMMA RelatesWriteFails ==
    ASSUME TypeOK, NEW q \in Pipes, Relates(q), NEW p \in Pipes,
           NEW n \in 0 .. Len(data[p]), PipeWriteFails(p, n)
    PROVE  Relates(q)'
<1>1. UNCHANGED <<ObjectsArr, index>>
      BY DEF PipeWriteFails, bufVars
<1>2. CASE q # p
      <2>1. pc'[q] = pc[q] /\ data'[q] = data[q] /\ out'[q] = out[q]
            /\ broken'[q] = broken[q]
            BY <1>2 DEF PipeWriteFails, TypeOK
      <2> QED BY <2>1, <1>1 DEF Relates
<1>3. CASE q = p
      <2>1. /\ out'[q] = out[q] \o SubSeq(data[q], 1, n) /\ data'[q] = << >>
            /\ broken'[q] /\ (broken[q] => n = 0)
            BY <1>3 DEF PipeWriteFails, TypeOK
      <2>2. Begins(out'[q], ObjectsArr[q[1]])
            <3>1. CASE broken[q]
                  <4>1. out'[q] = out[q]
                        BY <2>1, <3>1, PipeTypes
                  <4> QED BY <4>1 DEF Relates
            <3>2. CASE ~broken[q]
                  BY <2>1, <3>2, <1>3, PipeTypes, SendExtends DEF Relates
            <3> QED BY <3>1, <3>2
      <2> QED BY <2>1, <2>2, <1>1 DEF Relates
<1> QED BY <1>2, <1>3

\* Every step but the four above leaves buffer, index, data and out alone.
LEMMA RelatesQuiet ==
    ASSUME NEW q \in Pipes, Relates(q),
           UNCHANGED <<ObjectsArr, index, data, out, broken>>,
           pc'[q] # pc[q] => pc[q] # "write"
    PROVE  Relates(q)'
    BY DEF Relates

LEMMA RelatesStep ==
    ASSUME TypeOK, NEW q \in Pipes, Relates(q), [Next]_gsVars
    PROVE  Relates(q)'
<1>1. ASSUME NEW s \in Streams, NEW o \in Objects, WriteObject(s, o) PROVE Relates(q)'
      BY <1>1, RelatesWriteObject
<1>2. ASSUME NEW s \in Streams, Close(s) PROVE Relates(q)'
      BY <1>2, RelatesQuiet DEF Close, Broadcast
<1>3. ASSUME NEW p \in Pipes, PipeCollect(p) PROVE Relates(q)'
      BY <1>3, RelatesCollect
<1>4. ASSUME NEW p \in Pipes, PipeWrite(p) PROVE Relates(q)'
      BY <1>4, RelatesWrite
<1>5. ASSUME NEW p \in Pipes, NEW n \in 0 .. Len(data[p]), PipeWriteFails(p, n)
      PROVE Relates(q)'
      BY <1>5, RelatesWriteFails
<1>6. ASSUME NEW p \in Pipes,
             PipeStart(p) \/ PipeWait(p) \/ PipeReturnEOF(p) \/ PipeReturnNil(p)
                \/ PipeFinish(p) \/ PipeAfterError(p)
      PROVE Relates(q)'
      <2>1. UNCHANGED <<ObjectsArr, index, data, out, broken>>
            BY <1>6 DEF PipeStart, PipeWait, PipeReturnEOF, PipeReturnNil, PipeFinish,
                        PipeAfterError, bufVars
      <2>2. pc'[q] # pc[q] => pc[q] # "write"
            BY <1>6 DEF PipeStart, PipeWait, PipeReturnEOF, PipeReturnNil, PipeFinish,
                        PipeAfterError, TypeOK
      <2> QED BY <2>1, <2>2, RelatesQuiet
<1>7. CASE UNCHANGED gsVars
      BY <1>7, RelatesQuiet DEF gsVars
<1> QED BY <1>1, <1>2, <1>3, <1>4, <1>5, <1>6, <1>7 DEF Next, Produce, PipeStep

LEMMA EndStep == TypeOK /\ EndIsJustified /\ [Next]_gsVars => EndIsJustified'
<1> SUFFICES ASSUME TypeOK, EndIsJustified, [Next]_gsVars, NEW q \in Pipes
             PROVE  /\ pc'[q] = "eof" => IsEOF'[q[1]]
                    /\ pc'[q] = "error" => broken'[q]
                    /\ pc'[q] = "closed" => IsEOF'[q[1]] \/ broken'[q]
    BY DEF EndIsJustified
<1>1. /\ pc[q] = "eof" => IsEOF[q[1]]
      /\ pc[q] = "error" => broken[q]
      /\ pc[q] = "closed" => IsEOF[q[1]] \/ broken[q]
      /\ q[1] \in Streams
      BY StreamsAssumption DEF EndIsJustified
<1>2. ASSUME NEW s \in Streams, NEW o \in Objects, WriteObject(s, o)
      PROVE  /\ pc'[q] # "woken" => pc'[q] = pc[q]
             /\ broken' = broken
             /\ IsEOF[q[1]] => IsEOF'[q[1]]
      BY <1>1, <1>2 DEF WriteObject, Broadcast, TypeOK
<1>3. ASSUME NEW s \in Streams, Close(s)
      PROVE  /\ pc'[q] # "woken" => pc'[q] = pc[q]
             /\ broken' = broken
             /\ IsEOF[q[1]] => IsEOF'[q[1]]
      BY <1>1, <1>3 DEF Close, Broadcast, TypeOK
<1>4. ASSUME NEW p \in Pipes, PipeStart(p) \/ PipeStep(p)
      PROVE  /\ IsEOF' = IsEOF
             /\ broken[q] => broken'[q]
             /\ pc'[q] = "eof" => pc[q] = "eof" \/ IsEOF[q[1]]
             /\ pc'[q] = "error" => pc[q] = "error" \/ broken'[q]
             /\ pc'[q] = "closed" => pc[q] \in {"closed", "eof", "error"}
      BY <1>4 DEF PipeStart, PipeStep, PipeWait, PipeCollect, PipeWrite, PipeWriteFails,
         PipeReturnEOF, PipeReturnNil, PipeFinish, PipeAfterError, bufVars, TypeOK
<1>5. CASE UNCHANGED gsVars
      BY <1>5, <1>1 DEF gsVars
<1> QED BY <1>1, <1>2, <1>3, <1>4, <1>5 DEF Next, Produce

LEMMA InitInv == Init => PipeInv
<1> SUFFICES ASSUME Init PROVE PipeInv
    OBVIOUS
<1>1. TypeOK
      BY DEF Init, TypeOK, PCs
<1>2. DeliveredIsPrefix
      BY StreamsAssumption DEF Init, DeliveredIsPrefix, Begins
<1>3. CollectedIsNext
      BY StreamsAssumption DEF Init, CollectedIsNext, Joined
<1>4. EndIsJustified
      BY DEF Init, EndIsJustified
<1> QED BY <1>1, <1>2, <1>3, <1>4 DEF PipeInv

LEMMA NextInv == PipeInv /\ [Next]_gsVars => PipeInv'
<1> SUFFICES ASSUME PipeInv, [Next]_gsVars PROVE PipeInv'
    OBVIOUS
<1>1. TypeOK'
      BY TypeStep DEF PipeInv
<1>2. \A q \in Pipes : Relates(q)'
      BY RelatesStep, RelatesIsInv DEF PipeInv
<1>3. DeliveredIsPrefix' /\ CollectedIsNext'
      BY <1>2 DEF Relates, DeliveredIsPrefix, CollectedIsNext
<1>4. EndIsJustified'
      BY EndStep DEF PipeInv
<1> QED BY <1>1, <1>3, <1>4 DEF PipeInv

\* PipeInv, which contains the type invariant, holds throughout.
THEOREM Invariance == Spec => []PipeInv
    BY InitInv, NextInv, PTL DEF Spec

\* Every variable of the buffer and of its goroutines keeps its type.
THEOREM TypeCorrect == Spec => []TypeOK
    BY Invariance, PTL DEF PipeInv

\* For any number of copies and objects, what a peer was sent is at every moment
\* a prefix of what ReadObject or WriteObject appended to the stream.
THEOREM PrefixDelivery == Spec => []DeliveredIsPrefix
    BY Invariance, PTL DEF PipeInv

-----------------------------------------------------------------------------
\* The buffer implements PrefixMulticast: every step is one of its steps, or
\* changes nothing it speaks of.

LEMMA BeginsIsSubSeq ==
    ASSUME NEW S, NEW s \in Seq(S), NEW t \in Seq(S), Begins(s, t)
    PROVE  s = SubSeq(t, 1, Len(s)) /\ Len(s) \in 0 .. Len(t)
<1> DEFINE u == SubSeq(t, 1, Len(s))
<1>1. Len(s) \in Nat /\ Len(t) \in Nat /\ Len(s) <= Len(t)
      BY DEF Begins
<1>2. /\ u \in Seq(S) /\ Len(u) = Len(s)
      /\ \A i \in 1 .. Len(s) : u[i] = t[i]
      BY <1>1, SubSeqFacts
<1> HIDE DEF u
<1>3. s = u
      BY <1>1, <1>2 DEF Begins
<1> QED BY <1>1, <1>3 DEF u

\* Handing n more objects to the QUIC stream of q is the abstract Deliver.
LEMMA MapsToDeliver ==
    ASSUME TypeOK, NEW q \in Pipes, Relates(q), ~broken[q], pc[q] = "write",
           pc' = [pc EXCEPT ![q] = IF broken'[q] THEN "error" ELSE "written"],
           UNCHANGED bufVars, NEW fails \in BOOLEAN,
           broken' = [broken EXCEPT ![q] = fails], NEW new,
           out' = [out EXCEPT ![q] = new], new \in Seq(Objects),
           Begins(new, ObjectsArr[q[1]]), Len(new) >= Len(out[q])
    PROVE  Multicast!Next
<1>1. /\ new = SubSeq(ObjectsArr[q[1]], 1, Len(new))
      /\ Len(new) \in 0 .. Len(ObjectsArr[q[1]])
      BY PipeTypes, BeginsIsSubSeq
<1>2. Len(new) \in Len(out[q]) .. Len(ObjectsArr[q[1]])
      BY <1>1, PipeTypes
<1>3. out' = [out EXCEPT ![q] = SubSeq(ObjectsArr[q[1]], 1, Len(new))]
      BY <1>1, Zenon
<1>4. [r \in Pipes |-> pc'[r] = "closed"] = [r \in Pipes |-> pc[r] = "closed"]
      <2>1. ASSUME NEW r \in Pipes PROVE (pc'[r] = "closed") = (pc[r] = "closed")
            BY DEF TypeOK
      <2> QED BY <2>1, Zenon
<1>5. Multicast!Deliver(q, Len(new), fails)
      BY <1>2, <1>3, <1>4 DEF Multicast!Deliver, bufVars
<1> QED BY <1>1, <1>5 DEF Multicast!Next

\* A step that moves no copy to "closed" leaves the mapped `finished` alone.
LEMMA FinishedUnchanged ==
    ASSUME \A q \in Pipes : pc'[q] = "closed" <=> pc[q] = "closed"
    PROVE  [q \in Pipes |-> pc'[q] = "closed"] = [q \in Pipes |-> pc[q] = "closed"]
<1>1. ASSUME NEW q \in Pipes PROVE (pc'[q] = "closed") = (pc[q] = "closed")
      OBVIOUS
<1> QED BY <1>1, Zenon

LEMMA MapsToFinish ==
    ASSUME TypeOK, NEW q \in Pipes, pc[q] # "closed",
           pc' = [pc EXCEPT ![q] = "closed"], IsEOF[q[1]] \/ broken[q],
           UNCHANGED <<ObjectsArr, IsEOF, out, broken>>
    PROVE  Multicast!Next
<1> DEFINE fin == [r \in Pipes |-> pc[r] = "closed"]
           new == [r \in Pipes |-> pc'[r] = "closed"]
<1>1. new = [fin EXCEPT ![q] = TRUE]
      <2>1. ASSUME NEW r \in Pipes PROVE new[r] = [fin EXCEPT ![q] = TRUE][r]
            <3>1. CASE r = q
                  BY <3>1 DEF TypeOK
            <3>2. CASE r # q
                  BY <3>2 DEF TypeOK
            <3> QED BY <3>1, <3>2
      <2> QED BY <2>1, Zenon
<1>2. ~fin[q]
      OBVIOUS
<1>3. Multicast!Finish(q)
      BY <1>1, <1>2 DEF Multicast!Finish
<1> QED BY <1>3 DEF Multicast!Next

\* What the QUIC stream of a copy that has not failed holds after a Write.
LEMMA RelatesSent ==
    ASSUME TypeOK, NEW q \in Pipes, Relates(q), ~broken[q], NEW n \in 0 .. Len(data[q])
    PROVE  /\ Begins(out[q] \o SubSeq(data[q], 1, n), ObjectsArr[q[1]])
           /\ out[q] \o SubSeq(data[q], 1, n) \in Seq(Objects)
           /\ Len(out[q] \o SubSeq(data[q], 1, n)) >= Len(out[q])
<1> DEFINE new == out[q] \o SubSeq(data[q], 1, n)
<1>1. Begins(new, ObjectsArr[q[1]]) /\ Len(new) = Len(out[q]) + n
      BY PipeTypes, SendExtends, ZenonT(30) DEF Relates
<1>2. new \in Seq(Objects)
      <2>1. SubSeq(data[q], 1, n) \in Seq(Objects)
            BY PipeTypes, SubSeqFacts
      <2> QED BY <2>1, PipeTypes, ConcatFacts
<1>3. Len(out[q]) \in Nat /\ n \in Nat
      BY PipeTypes
<1> HIDE DEF new
<1>4. Len(new) >= Len(out[q])
      BY <1>1, <1>3
<1> QED BY <1>1, <1>2, <1>4 DEF new

LEMMA RelatesWritten ==
    ASSUME TypeOK, NEW q \in Pipes, Relates(q), ~broken[q]
    PROVE  /\ Begins(out[q] \o data[q], ObjectsArr[q[1]])
           /\ out[q] \o data[q] \in Seq(Objects)
           /\ Len(out[q] \o data[q]) >= Len(out[q])
<1>1. /\ SubSeq(data[q], 1, Len(data[q])) = data[q]
      /\ Len(data[q]) \in 0 .. Len(data[q])
      BY PipeTypes
<1>2. \A n \in 0 .. Len(data[q]) :
          /\ Begins(out[q] \o SubSeq(data[q], 1, n), ObjectsArr[q[1]])
          /\ out[q] \o SubSeq(data[q], 1, n) \in Seq(Objects)
          /\ Len(out[q] \o SubSeq(data[q], 1, n)) >= Len(out[q])
      BY RelatesSent
<1> QED BY <1>1, <1>2, Zenon

LEMMA MapsToNext ==
    ASSUME PipeInv, [Next]_gsVars
    PROVE  [Multicast!Next]_(Multicast!pmVars)
<1> USE StreamsAssumption
<1>1. TypeOK /\ \A q \in Pipes : Relates(q)
      BY RelatesIsInv DEF PipeInv
<1>2. ASSUME NEW s \in Streams, NEW o \in Objects, ~IsEOF[s], WriteObject(s, o)
      PROVE  Multicast!Next
      <2>1. \A q \in Pipes : pc'[q] = "closed" <=> pc[q] = "closed"
            BY <1>1, <1>2 DEF WriteObject, Broadcast, TypeOK
      <2>2. Multicast!Publish(s, o)
            BY <1>2, <2>1, FinishedUnchanged DEF WriteObject, Multicast!Publish
      <2> QED BY <2>2 DEF Multicast!Next
<1>3. ASSUME NEW s \in Streams, Close(s) PROVE Multicast!Next
      <2>1. \A q \in Pipes : pc'[q] = "closed" <=> pc[q] = "closed"
            BY <1>1, <1>3 DEF Close, Broadcast, TypeOK
      <2>2. Multicast!End(s)
            BY <1>3, <2>1, FinishedUnchanged DEF Close, Multicast!End
      <2> QED BY <2>2 DEF Multicast!Next
<1>4. ASSUME NEW q \in Pipes,
             PipeStart(q) \/ PipeWait(q) \/ PipeCollect(q) \/ PipeReturnEOF(q)
                \/ PipeReturnNil(q)
      PROVE  UNCHANGED Multicast!pmVars
      <2>1. \A r \in Pipes : pc'[r] = "closed" <=> pc[r] = "closed"
            BY <1>1, <1>4 DEF PipeStart, PipeWait, PipeCollect, PipeReturnEOF,
                              PipeReturnNil, TypeOK
      <2>2. UNCHANGED <<ObjectsArr, IsEOF, out, broken>>
            BY <1>4 DEF PipeStart, PipeWait, PipeCollect, PipeReturnEOF, PipeReturnNil,
                        bufVars
      <2> QED BY <2>1, <2>2, FinishedUnchanged DEF Multicast!pmVars
<1>5. ASSUME NEW q \in Pipes, PipeWrite(q) PROVE Multicast!Next
      <2>1. /\ Begins(out[q] \o data[q], ObjectsArr[q[1]])
            /\ out[q] \o data[q] \in Seq(Objects)
            /\ Len(out[q] \o data[q]) >= Len(out[q])
            BY <1>1, <1>5, RelatesWritten DEF PipeWrite
      <2>2. /\ ~broken[q] /\ pc[q] = "write" /\ broken' = [broken EXCEPT ![q] = FALSE]
            /\ out' = [out EXCEPT ![q] = out[q] \o data[q]]
            /\ pc' = [pc EXCEPT ![q] = IF broken'[q] THEN "error" ELSE "written"]
            /\ UNCHANGED bufVars
            BY <1>1, <1>5 DEF PipeWrite, TypeOK
      <2> QED BY <1>1, <2>1, <2>2, MapsToDeliver
<1>6. ASSUME NEW q \in Pipes, NEW n \in 0 .. Len(data[q]), PipeWriteFails(q, n)
      PROVE  Multicast!Next \/ UNCHANGED Multicast!pmVars
      <2>1. CASE broken[q]
            <3>1. out' = out /\ broken' = broken /\ UNCHANGED bufVars
                  BY <1>1, <1>6, <2>1, PipeTypes DEF PipeWriteFails, TypeOK
            <3>2. \A r \in Pipes : pc'[r] = "closed" <=> pc[r] = "closed"
                  BY <1>1, <1>6 DEF PipeWriteFails, TypeOK
            <3> QED BY <3>1, <3>2, FinishedUnchanged DEF Multicast!pmVars, bufVars
      <2>2. CASE ~broken[q]
            <3> DEFINE new == out[q] \o SubSeq(data[q], 1, n)
            <3>1. /\ Begins(new, ObjectsArr[q[1]]) /\ new \in Seq(Objects)
                  /\ Len(new) >= Len(out[q])
                  BY <1>1, <2>2, RelatesSent
            <3>2. /\ pc[q] = "write" /\ broken' = [broken EXCEPT ![q] = TRUE]
                  /\ out' = [out EXCEPT ![q] = new]
                  /\ pc' = [pc EXCEPT ![q] = IF broken'[q] THEN "error" ELSE "written"]
                  /\ UNCHANGED bufVars
                  BY <1>1, <1>6 DEF PipeWriteFails, TypeOK
            <3> HIDE DEF new
            <3> QED BY <1>1, <2>2, <3>1, <3>2, MapsToDeliver
      <2> QED BY <2>1, <2>2
<1>7. ASSUME NEW q \in Pipes, PipeFinish(q) PROVE Multicast!Next
      BY <1>1, <1>7, MapsToFinish
         DEF PipeFinish, PipeInv, EndIsJustified, bufVars
<1>8. ASSUME NEW q \in Pipes, PipeAfterError(q)
      PROVE  Multicast!Next \/ UNCHANGED Multicast!pmVars
      <2>1. CASE q[1] \in PubStreams
            <3>1. \A r \in Pipes : pc'[r] = "closed" <=> pc[r] = "closed"
                  BY <1>1, <1>8, <2>1 DEF PipeAfterError, TypeOK
            <3>2. UNCHANGED <<ObjectsArr, IsEOF, out, broken>>
                  BY <1>8 DEF PipeAfterError, bufVars
            <3> QED BY <3>1, <3>2, FinishedUnchanged DEF Multicast!pmVars
      <2>2. CASE q[1] \notin PubStreams
            <3>1. /\ pc[q] = "error" /\ broken[q] /\ pc' = [pc EXCEPT ![q] = "closed"]
                  /\ UNCHANGED <<ObjectsArr, IsEOF, out, broken>>
                  BY <1>8, <2>2 DEF PipeAfterError, PipeInv, EndIsJustified, bufVars
            <3> QED BY <1>1, <3>1, MapsToFinish
      <2> QED BY <2>1, <2>2
<1>9. CASE UNCHANGED gsVars
      BY <1>9 DEF gsVars, Multicast!pmVars
<1> QED BY <1>2, <1>3, <1>4, <1>5, <1>6, <1>7, <1>8, <1>9 DEF Next, Produce, PipeStep

LEMMA MapsToInit == Init => Multicast!Init
<1> SUFFICES ASSUME Init PROVE Multicast!Init
    OBVIOUS
<1>1. [q \in Pipes |-> pc[q] = "closed"] = [q \in Pipes |-> FALSE]
      BY DEF Init
<1> QED BY <1>1 DEF Init, Multicast!Init

\* The buffer with its lock, condition variable, unlocked reads and failing
\* writes implements the multicast promise for every choice of the constants.
THEOREM ImplementsMulticast == Spec => MulticastSpec
<1>1. PipeInv /\ [Next]_gsVars => [Multicast!Next]_(Multicast!pmVars)
      BY MapsToNext
<1> QED BY <1>1, MapsToInit, Invariance, PTL DEF Spec, MulticastSpec, Multicast!Spec
=============================================================================
