-------------------------- MODULE StreamReaderProof ---------------------------
(***************************************************************************)
(* Proofs about StreamReader, for any messages and any number of them: the *)
(* codecs of Wire take exactly the cells a message has, wherever it stands *)
(* on the stream, so that what is handled is what was sent, up to the      *)
(* place where the stream ends; and everything that arrived is handled.    *)
(*                                                                         *)
(* First the sequences of cells, then what each reader of Wire does with   *)
(* the cells of its field (all of them, or cut off), then the messages,    *)
(* and last the invariant of the stream.                                   *)
(***************************************************************************)
EXTENDS StreamReader, SequenceTheorems, WellFoundedInduction, TLAPS

\* Induction over a set of naturals, which is a first-order fact.
LEMMA LessThanWellFounded ==
    IsWellFoundedOn({p \in Nat \X Nat : p[1] < p[2]}, Nat)
    BY NatLessThanWellFounded DEF OpToRel

\* By it every set that has 0 and, with n, n + 1 has all naturals.
LEMMA SetInduction ==
    ASSUME NEW S \in SUBSET Nat, 0 \in S, \A n \in S : n + 1 \in S
    PROVE  S = Nat
<1> DEFINE T == Nat \ S
           R == {p \in Nat \X Nat : p[1] < p[2]}
<1>1. SUFFICES ASSUME T # {} PROVE FALSE
      OBVIOUS
<1>2. T \subseteq Nat /\ IsWellFoundedOn(R, Nat)
      BY LessThanWellFounded
<1>3. PICK x \in T : \A y \in T : ~ (<<y, x>> \in R)
      <2> HIDE DEF T, R
      <2> QED BY <1>1, <1>2, WFMin
<1>4. x \in Nat /\ x # 0 /\ x - 1 \in Nat /\ <<x - 1, x>> \in R
      OBVIOUS
<1>5. x - 1 \in S
      BY <1>3, <1>4
<1> QED BY <1>4, <1>5

-----------------------------------------------------------------------------
\* Sequences of cells
Cells == Seq(Nat)

\* Cells are finite sequences of numbers.
LEMMA CellsFacts ==
    /\ << >> \in Cells /\ Len(<< >>) = 0
    /\ \A v \in Nat : <<v>> \in Cells /\ Len(<<v>>) = 1
    /\ \A s \in Cells : Len(s) \in Nat /\ (Len(s) = 0 <=> s = << >>)
    /\ \A s, t \in Cells : s \o t \in Cells /\ Len(s \o t) = Len(s) + Len(t)
    BY DEF Cells

\* The empty sequence is neutral.
LEMMA ConcatEmpty == \A s \in Cells : s \o << >> = s /\ << >> \o s = s
    BY ConcatEmptySeq DEF Cells

\* Concatenation is associative.
LEMMA ConcatAssoc == \A s, t, u \in Cells : (s \o t) \o u = s \o (t \o u)
    BY ConcatAssociative, SMTT(30) DEF Cells

\* A cell at the front.
LEMMA FrontCell ==
    ASSUME NEW v \in Nat, NEW s \in Cells
    PROVE  /\ <<v>> \o s # << >> /\ Head(<<v>> \o s) = v /\ Tail(<<v>> \o s) = s
           /\ (<<v>> \o s)[1] = v
    BY DEF Cells

\* A sequence that starts with a cell.
LEMMA NonEmpty ==
    ASSUME NEW s \in Cells, s # << >>
    PROVE  \E v \in Nat, t \in Cells : s = <<v>> \o t
<1>1. Head(s) \in Nat /\ Tail(s) \in Cells /\ s = <<Head(s)>> \o Tail(s)
      BY DEF Cells
<1> QED BY <1>1

\* p is what is left of b when the stream ends within it.
Cut(p, b) == p \in Cells /\ \E q \in Cells : q # << >> /\ p \o q = b

\* A common first part can be taken off.
LEMMA Cancel == \A s, t, u \in Cells : s \o t = s \o u => t = u
    BY ConcatSimplifications DEF Cells

\* Two ways to divide the same cells: one of the first parts starts with the other.
LEMMA Divide ==
    ASSUME NEW a \in Cells, NEW t \in Cells, NEW b \in Cells, NEW c \in Cells,
           a \o t = b \o c
    PROVE  \/ \E r \in Cells : a = b \o r /\ r \o t = c
           \/ Cut(a, b) /\ Len(t) > Len(c)
<1>1. Len(a) \in Nat /\ Len(b) \in Nat /\ Len(t) \in Nat /\ Len(c) \in Nat
      /\ Len(a) + Len(t) = Len(b) + Len(c)
      BY CellsFacts
<1>2. CASE Len(a) >= Len(b)
      <2> DEFINE r == SubSeq(a, Len(b) + 1, Len(a))
      <2>1. r \in Cells
            BY <1>1, <1>2, SMTT(30) DEF Cells
      <2>2. a = b \o r
            <3>1. Len(b \o r) = Len(a)
                  BY <1>1, <1>2 DEF Cells
            <3>2. \A i \in 1 .. Len(b) : (a \o t)[i] = a[i] /\ (b \o c)[i] = b[i]
                  BY <1>1, <1>2 DEF Cells
            <3>3. \A i \in 1 .. Len(a) : a[i] = (b \o r)[i]
                  BY <1>1, <1>2, <3>2 DEF Cells
            <3>4. b \o r \in Cells
                  BY <2>1, CellsFacts
            <3> HIDE DEF r
            <3> QED BY <3>1, <3>3, <3>4, SeqEqual DEF Cells
      <2> HIDE DEF r
      <2>3. b \o (r \o t) = b \o c /\ r \o t \in Cells
            <3>1. (b \o r) \o t = b \o c
                  BY <2>2
            <3>2. (b \o r) \o t = b \o (r \o t)
                  BY <2>1, ConcatAssoc
            <3> QED BY <2>1, <3>1, <3>2, CellsFacts
      <2>4. r \o t = c
            BY <2>3, Cancel
      <2> QED BY <2>1, <2>2, <2>4
<1>3. CASE Len(a) < Len(b)
      <2> DEFINE q == SubSeq(b, Len(a) + 1, Len(b))
      <2>1. q \in Cells /\ Len(q) = Len(b) - Len(a)
            BY <1>1, <1>3 DEF Cells
      <2>2. q # << >>
            <3> HIDE DEF q
            <3>1. Len(q) # 0
                  BY <1>1, <1>3, <2>1
            <3> QED BY <2>1, <3>1, CellsFacts
      <2>3. a \o q = b
            <3>1. Len(a \o q) = Len(b)
                  BY <1>1, <1>3 DEF Cells
            <3>2. \A i \in 1 .. Len(a) : (a \o t)[i] = a[i] /\ (b \o c)[i] = b[i]
                  BY <1>1, <1>3, SMTT(30) DEF Cells
            <3>3. \A i \in 1 .. Len(b) : b[i] = (a \o q)[i]
                  BY <1>1, <1>3, <3>2 DEF Cells
            <3>4. a \o q \in Cells
                  BY <2>1, CellsFacts
            <3> HIDE DEF q
            <3> QED BY <3>1, <3>3, <3>4, SeqEqual DEF Cells
      <2> HIDE DEF q
      <2>4. Len(t) > Len(c)
            BY <1>1, <1>3
      <2> QED BY <2>1, <2>2, <2>3, <2>4 DEF Cut
<1>4. Len(a) >= Len(b) \/ Len(a) < Len(b)
      BY <1>1
<1> QED BY <1>2, <1>3, <1>4

\* Where two parts are cut off: in the first, or in the second.
LEMMA CutConcat ==
    ASSUME NEW b \in Cells, NEW c \in Cells, NEW p, Cut(p, b \o c)
    PROVE  Cut(p, b) \/ \E r : p = b \o r /\ Cut(r, c)
<1>1. PICK q \in Cells : q # << >> /\ p \o q = b \o c
      BY DEF Cut
<1>2. p \in Cells
      BY DEF Cut
<1>3. CASE \E r \in Cells : p = b \o r /\ r \o q = c
      BY <1>1, <1>3 DEF Cut
<1> QED BY <1>1, <1>2, <1>3, Divide

\* What is left of a cell and more, cut off: nothing, or the cell and a part of the rest.
LEMMA CutCell ==
    ASSUME NEW v \in Nat, NEW c \in Cells, NEW p, Cut(p, <<v>> \o c)
    PROVE  p = << >> \/ \E r : p = <<v>> \o r /\ Cut(r, c)
<1>1. ASSUME Cut(p, <<v>>) PROVE p = << >>
      <2>1. PICK q \in Cells : q # << >> /\ p \o q = <<v>>
            BY <1>1 DEF Cut
      <2>2. p \in Cells
            BY DEF Cut
      <2>3. Len(p) + Len(q) = 1 /\ Len(p) \in Nat /\ Len(q) \in Nat /\ Len(q) # 0
            BY <2>1, <2>2, CellsFacts
      <2>4. Len(p) = 0
            BY <2>3
      <2> QED BY <2>2, <2>4, CellsFacts
<1>2. <<v>> \in Cells
      BY CellsFacts
<1> QED BY <1>1, <1>2, CutConcat

\* A part that was cut off is shorter than the whole.
LEMMA CutShort ==
    ASSUME NEW b \in Cells, NEW p, Cut(p, b)
    PROVE  p \in Cells /\ Len(p) < Len(b) /\ Len(p) \in Nat
<1>1. PICK q \in Cells : q # << >> /\ p \o q = b
      BY DEF Cut
<1>2. p \in Cells
      BY DEF Cut
<1>3. Len(b) = Len(p) + Len(q) /\ Len(p) \in Nat /\ Len(q) \in Nat /\ Len(q) # 0
      BY <1>1, <1>2, CellsFacts
<1> QED BY <1>2, <1>3


-----------------------------------------------------------------------------
\* FlattenSeq: b is a sequence of sequences of cells, f[i] its first i put together.
Joins(f, b, n) ==
    /\ f \in [0 .. n -> Cells] /\ f[0] = << >>
    /\ \A i \in 1 .. n : f[i] = f[i - 1] \o b[i]

\* By induction, the first n sequences can be put together one after the other.
LEMMA JoinsExist ==
    ASSUME NEW n \in Nat, NEW b, \A i \in 1 .. n : b[i] \in Cells
    PROVE  \E f : Joins(f, b, n)
<1> DEFINE S == {m \in Nat : m <= n => \E f : Joins(f, b, m)}
<1>1. 0 \in S
      <2>1. Joins([i \in 0 .. 0 |-> << >>], b, 0)
            BY CellsFacts DEF Joins
      <2> QED BY <2>1
<1>2. ASSUME NEW m \in S PROVE m + 1 \in S
      <2> SUFFICES ASSUME m + 1 <= n PROVE \E f : Joins(f, b, m + 1)
          OBVIOUS
      <2>1. PICK f : Joins(f, b, m)
            BY <1>2
      <2> DEFINE x == f[m] \o b[m + 1]
                 g == [i \in 0 .. m + 1 |-> IF i <= m THEN f[i] ELSE x]
      <2>2. m \in Nat /\ x \in Cells
            <3>1. m \in Nat /\ m + 1 \in 1 .. n /\ f[m] \in Cells
                  BY <2>1 DEF Joins
            <3>2. b[m + 1] \in Cells
                  BY <3>1
            <3> QED BY <3>1, <3>2, CellsFacts
      <2> HIDE DEF x
      <2>3. ASSUME NEW i \in 1 .. m + 1 PROVE g[i] = g[i - 1] \o b[i]
            <3>1. CASE i <= m
                  <4>1. g[i] = f[i] /\ g[i - 1] = f[i - 1] /\ i \in 1 .. m
                        BY <2>2, <3>1
                  <4> QED BY <2>1, <4>1 DEF Joins
            <3>2. CASE i = m + 1
                  <4>1. i \in 0 .. m + 1 /\ ~(i <= m) /\ i - 1 = m /\ m \in 0 .. m + 1 /\ m <= m
                        BY <2>2, <3>2
                  <4>2. g[i] = x /\ g[i - 1] = f[m]
                        BY <4>1
                  <4>3. x = f[m] \o b[i]
                        BY <3>2 DEF x
                  <4> QED BY <4>2, <4>3
            <3> QED BY <2>2, <3>1, <3>2
      <2>4. g \in [0 .. m + 1 -> Cells] /\ g[0] = << >>
            BY <2>1, <2>2 DEF Joins
      <2> HIDE DEF g
      <2>5. Joins(g, b, m + 1)
            BY <2>3, <2>4 DEF Joins
      <2> QED BY <2>5
<1>3. S = Nat
      <2>1. S \in SUBSET Nat
            OBVIOUS
      <2> HIDE DEF S
      <2> QED BY <1>1, <1>2, <2>1, SetInduction
<1>4. n \in S
      BY <1>3
<1> QED BY <1>4

\* The recursion that FlattenSeq is defined by.
Flattens(f, b) ==
    f = [i \in 1 .. Len(b) |-> IF i = 1 THEN b[i] ELSE f[i - 1] \o b[i]]

\* What puts them together solves the recursion of FlattenSeq.
LEMMA JoinsFlatten ==
    ASSUME NEW b \in Seq(Cells), NEW f, Joins(f, b, Len(b))
    PROVE  Flattens([i \in 1 .. Len(b) |-> f[i]], b)
<1> DEFINE g == [i \in 1 .. Len(b) |-> f[i]]
<1>1. Len(b) \in Nat /\ \A i \in 1 .. Len(b) : b[i] \in Cells
      BY LenProperties, ElementOfSeq
<1>2. ASSUME NEW i \in 1 .. Len(b) PROVE g[i] = IF i = 1 THEN b[i] ELSE g[i - 1] \o b[i]
      <2>1. f[i] = f[i - 1] \o b[i] /\ g[i] = f[i]
            BY DEF Joins
      <2>2. CASE i = 1
            <3>1. f[i - 1] = << >>
                  BY <2>2 DEF Joins
            <3> QED BY <1>1, <2>1, <2>2, <3>1, ConcatEmpty
      <2>3. CASE i # 1
            <3>1. g[i - 1] = f[i - 1]
                  BY <1>1, <2>3
            <3> QED BY <2>1, <2>3, <3>1
      <2> QED BY <2>2, <2>3
<1>3. g = [i \in 1 .. Len(b) |-> IF i = 1 THEN b[i] ELSE g[i - 1] \o b[i]]
      BY <1>2
<1> QED BY <1>3 DEF Flattens

\* The recursion has no other solution.
LEMMA FlattenUnique ==
    ASSUME NEW b \in Seq(Cells), NEW f, Joins(f, b, Len(b)), NEW h, Flattens(h, b)
    PROVE  \A i \in 1 .. Len(b) : h[i] = f[i]
<1> DEFINE S == {i \in Nat : i + 1 <= Len(b) => h[i + 1] = f[i + 1]}
<1>1. Len(b) \in Nat /\ \A i \in 1 .. Len(b) : b[i] \in Cells
      BY LenProperties, ElementOfSeq
<1>2. 0 \in S
      <2> SUFFICES ASSUME 1 <= Len(b) PROVE h[1] = f[1]
          OBVIOUS
      <2>1. 1 \in 1 .. Len(b)
            BY <1>1
      <2>2. h[1] = b[1]
            BY <2>1 DEF Flattens
      <2>3. f[1] = << >> \o b[1]
            BY <2>1 DEF Joins
      <2> QED BY <1>1, <2>1, <2>2, <2>3, ConcatEmpty
<1>3. ASSUME NEW i \in S PROVE i + 1 \in S
      <2> SUFFICES ASSUME (i + 1) + 1 <= Len(b) PROVE h[(i + 1) + 1] = f[(i + 1) + 1]
          OBVIOUS
      <2> DEFINE k == (i + 1) + 1
      <2>1. i \in Nat /\ k \in 1 .. Len(b) /\ k # 1 /\ k - 1 = i + 1 /\ i + 1 <= Len(b)
            BY <1>1
      <2>2. h[k - 1] = f[k - 1]
            BY <1>3, <2>1
      <2> HIDE DEF k
      <2>3. h[k] = h[k - 1] \o b[k]
            BY <2>1 DEF Flattens
      <2>4. f[k] = f[k - 1] \o b[k]
            BY <2>1 DEF Joins
      <2> QED BY <2>2, <2>3, <2>4 DEF k
<1>4. S = Nat
      <2>1. S \in SUBSET Nat
            OBVIOUS
      <2> HIDE DEF S
      <2> QED BY <1>2, <1>3, <2>1, SetInduction
<1>5. ASSUME NEW i \in 1 .. Len(b) PROVE h[i] = f[i]
      <2>1. i - 1 \in Nat /\ (i - 1) + 1 = i /\ i <= Len(b)
            BY <1>1
      <2>2. i - 1 \in S
            BY <1>4, <2>1
      <2> QED BY <2>1, <2>2
<1> QED BY <1>5

\* So FlattenSeq is all of them put together.
LEMMA FlattenIsJoin ==
    ASSUME NEW b \in Seq(Cells), NEW f, Joins(f, b, Len(b))
    PROVE  FlattenSeq(b) = f[Len(b)] /\ FlattenSeq(b) \in Cells
<1>1. Len(b) \in Nat
      BY LenProperties
<1>2. f[Len(b)] \in Cells
      BY <1>1 DEF Joins
<1>3. CASE Len(b) = 0
      <2>1. b = << >>
            BY <1>3
      <2>2. f[Len(b)] = << >>
            BY <1>3 DEF Joins
      <2> QED BY <1>2, <1>3, <2>1, <2>2 DEF FlattenSeq
<1>4. CASE Len(b) # 0
      <2> DEFINE h == CHOOSE h : h = [i \in 1 .. Len(b) |->
                                         IF i = 1 THEN b[i] ELSE h[i - 1] \o b[i]]
      <2>1. FlattenSeq(b) = h[Len(b)]
            BY <1>4 DEF FlattenSeq
      <2>2. Flattens(h, b)
            BY JoinsFlatten DEF Flattens
      <2> HIDE DEF h
      <2>3. Len(b) \in 1 .. Len(b)
            BY <1>1, <1>4
      <2>4. h[Len(b)] = f[Len(b)]
            BY <2>2, <2>3, FlattenUnique
      <2> QED BY <1>2, <2>1, <2>4
<1> QED BY <1>3, <1>4

\* FlattenSeq of cells is cells.
LEMMA FlattenType ==
    ASSUME NEW b \in Seq(Cells)
    PROVE  FlattenSeq(b) \in Cells
<1>1. Len(b) \in Nat /\ \A i \in 1 .. Len(b) : b[i] \in Cells
      BY LenProperties, ElementOfSeq
<1>2. PICK f : Joins(f, b, Len(b))
      BY <1>1, JoinsExist
<1> QED BY <1>2, FlattenIsJoin

\* One more at the end.
LEMMA FlattenLast ==
    ASSUME NEW c \in Seq(Cells), NEW d \in Seq(Cells), Len(d) = Len(c) + 1,
           \A i \in 1 .. Len(c) : d[i] = c[i]
    PROVE  FlattenSeq(d) = FlattenSeq(c) \o d[Len(d)]
<1>1. /\ Len(c) \in Nat /\ Len(d) \in Nat
      /\ \A i \in 1 .. Len(d) : d[i] \in Cells
      BY LenProperties, ElementOfSeq
<1>2. PICK f : Joins(f, d, Len(d))
      BY <1>1, JoinsExist
<1> DEFINE g == [i \in 0 .. Len(c) |-> f[i]]
<1>3. Joins(g, c, Len(c))
      <2>1. g \in [0 .. Len(c) -> Cells] /\ g[0] = << >>
            BY <1>1, <1>2 DEF Joins
      <2>2. ASSUME NEW i \in 1 .. Len(c) PROVE g[i] = g[i - 1] \o c[i]
            <3>1. i \in 1 .. Len(d) /\ g[i] = f[i] /\ g[i - 1] = f[i - 1] /\ c[i] = d[i]
                  BY <1>1
            <3> HIDE DEF g
            <3> QED BY <1>2, <3>1 DEF Joins
      <2> HIDE DEF g
      <2> QED BY <2>1, <2>2 DEF Joins
<1>4. g[Len(c)] = f[Len(c)] /\ Len(d) \in 1 .. Len(d) /\ Len(d) - 1 = Len(c)
      BY <1>1
<1> HIDE DEF g
<1>5. FlattenSeq(c) = f[Len(c)] /\ FlattenSeq(d) = f[Len(d)]
      BY <1>2, <1>3, <1>4, FlattenIsJoin
<1>6. f[Len(d)] = f[Len(d) - 1] \o d[Len(d)]
      BY <1>2, <1>4 DEF Joins
<1> QED BY <1>4, <1>5, <1>6

\* One more at the front.
LEMMA FlattenFirst ==
    ASSUME NEW c \in Seq(Cells), NEW d \in Seq(Cells), Len(d) = Len(c) + 1,
           \A i \in 1 .. Len(c) : d[i + 1] = c[i]
    PROVE  FlattenSeq(d) = d[1] \o FlattenSeq(c)
<1> DEFINE x == d[1]
<1>1. /\ Len(c) \in Nat /\ Len(d) \in Nat /\ x \in Cells
      /\ \A i \in 1 .. Len(c) : c[i] \in Cells
      <2>1. Len(c) \in Nat /\ Len(d) \in Nat
            BY LenProperties
      <2>2. 1 \in 1 .. Len(d)
            BY <2>1
      <2> QED BY <2>1, <2>2, ElementOfSeq
<1>2. PICK f : Joins(f, c, Len(c))
      BY <1>1, JoinsExist
<1>3. \A i \in 0 .. Len(c) : f[i] \in Cells
      BY <1>2 DEF Joins
<1> DEFINE g == [i \in 0 .. Len(d) |-> IF i = 0 THEN << >> ELSE x \o f[i - 1]]
<1> HIDE DEF x
<1>4. ASSUME NEW i \in 1 .. Len(d) PROVE x \o f[i - 1] \in Cells
      <2>1. i - 1 \in 0 .. Len(c)
            BY <1>1
      <2> QED BY <1>1, <1>3, <2>1, CellsFacts
<1>5. ASSUME NEW i \in 1 .. Len(d) PROVE g[i] = g[i - 1] \o d[i]
      <2>1. g[i] = x \o f[i - 1]
            BY <1>1
      <2>2. CASE i = 1
            <3>1. g[i - 1] = << >> /\ f[i - 1] = << >> /\ d[i] = x
                  BY <1>1, <1>2, <2>2 DEF Joins, x
            <3> QED BY <1>1, <2>1, <3>1, ConcatEmpty
      <2>3. CASE i # 1
            <3> DEFINE k == i - 1
            <3>1. k \in 1 .. Len(c) /\ k - 1 \in 0 .. Len(c) /\ k + 1 = i
                  BY <1>1, <2>3
            <3>2. g[k] = x \o f[k - 1]
                  BY <1>1, <3>1
            <3>3. f[k] = f[k - 1] \o c[k] /\ d[i] = c[k]
                  BY <1>2, <3>1 DEF Joins
            <3>4. f[k - 1] \in Cells /\ c[k] \in Cells
                  BY <1>1, <1>3, <3>1
            <3>5. x \o (f[k - 1] \o c[k]) = (x \o f[k - 1]) \o c[k]
                  BY <1>1, <3>4, ConcatAssoc
            <3> HIDE DEF g
            <3> QED BY <2>1, <3>2, <3>3, <3>5
      <2> QED BY <2>2, <2>3
<1>6. g \in [0 .. Len(d) -> Cells] /\ g[0] = << >>
      <2>1. \A i \in 0 .. Len(d) : i # 0 => x \o f[i - 1] \in Cells
            BY <1>1, <1>4
      <2> QED BY <1>1, <2>1, CellsFacts
<1>7. g[Len(d)] = x \o f[Len(c)]
      BY <1>1
<1> HIDE DEF g
<1>8. Joins(g, d, Len(d))
      BY <1>5, <1>6 DEF Joins
<1>9. FlattenSeq(d) = g[Len(d)] /\ FlattenSeq(c) = f[Len(c)]
      BY <1>2, <1>8, FlattenIsJoin
<1> QED BY <1>7, <1>9 DEF x

\* What is on the stream behind the i-th.
After(b, i) == [j \in 1 .. Len(b) - i |-> b[i + j]]
Rest(b, i) == FlattenSeq(After(b, i))

\* The sequences behind the i-th.
LEMMA AfterFacts ==
    ASSUME NEW b \in Seq(Cells), NEW i \in 0 .. Len(b)
    PROVE  /\ After(b, i) \in Seq(Cells) /\ Len(After(b, i)) = Len(b) - i /\ Len(b) \in Nat
           /\ \A j \in 1 .. Len(b) - i : After(b, i)[j] = b[i + j]
<1>1. Len(b) \in Nat /\ \A j \in 1 .. Len(b) : b[j] \in Cells
      BY LenProperties, ElementOfSeq
<1>2. \A j \in 1 .. Len(b) - i : b[i + j] \in Cells
      BY <1>1
<1>3. Len(b) - i \in Nat
      BY <1>1
<1> HIDE DEF Cells
<1> QED BY <1>1, <1>2, <1>3 DEF After

\* What is behind the i-th is cells.
LEMMA RestType ==
    ASSUME NEW b \in Seq(Cells), NEW i \in 0 .. Len(b)
    PROVE  Rest(b, i) \in Cells
    BY AfterFacts, FlattenType DEF Rest

\* Nothing is behind the last.
LEMMA RestEnd ==
    ASSUME NEW b \in Seq(Cells)
    PROVE  Rest(b, Len(b)) = << >>
<1>1. Len(b) \in Nat /\ Len(b) \in 0 .. Len(b)
      BY LenProperties
<1>2. After(b, Len(b)) \in Seq(Cells) /\ Len(After(b, Len(b))) = 0
      BY <1>1, AfterFacts
<1>3. After(b, Len(b)) = << >>
      BY <1>2
<1> QED BY <1>2, <1>3 DEF Rest, FlattenSeq

\* What is behind the i-th starts with the next.
LEMMA RestStep ==
    ASSUME NEW b \in Seq(Cells), NEW i \in 0 .. Len(b) - 1
    PROVE  Rest(b, i) = b[i + 1] \o Rest(b, i + 1)
<1>1. Len(b) \in Nat
      BY LenProperties
<1> DEFINE d == After(b, i)
           c == After(b, i + 1)
<1>2. i \in 0 .. Len(b) /\ i + 1 \in 0 .. Len(b)
      BY <1>1
<1>3. d \in Seq(Cells) /\ Len(d) = Len(b) - i /\ \A j \in 1 .. Len(b) - i : d[j] = b[i + j]
      BY <1>2, AfterFacts
<1>4. c \in Seq(Cells) /\ Len(c) = Len(b) - (i + 1)
      /\ \A j \in 1 .. Len(b) - (i + 1) : c[j] = b[(i + 1) + j]
      BY <1>2, AfterFacts
<1> HIDE DEF c, d
<1>5. Len(d) = Len(c) + 1
      BY <1>1, <1>3, <1>4
<1>6. ASSUME NEW j \in 1 .. Len(c) PROVE d[j + 1] = c[j]
      <2>1. j + 1 \in 1 .. Len(b) - i /\ i + (j + 1) = (i + 1) + j /\ j \in 1 .. Len(b) - (i + 1)
            BY <1>1, <1>4
      <2> QED BY <1>3, <1>4, <2>1
<1>7. d[1] = b[i + 1]
      BY <1>1, <1>3
<1>8. FlattenSeq(d) = d[1] \o FlattenSeq(c)
      BY <1>3, <1>4, <1>5, <1>6, FlattenFirst
<1> QED BY <1>7, <1>8 DEF c, d, Rest

\* What is added comes behind everything.
LEMMA RestAppend ==
    ASSUME NEW b \in Seq(Cells), NEW x \in Cells, NEW i \in 0 .. Len(b)
    PROVE  Rest(Append(b, x), i) = Rest(b, i) \o x
<1> DEFINE e == Append(b, x)
           d == After(e, i)
           c == After(b, i)
<1>1. /\ Len(b) \in Nat /\ e \in Seq(Cells) /\ Len(e) = Len(b) + 1
      /\ \A j \in 1 .. Len(b) : e[j] = b[j]
      /\ e[Len(b) + 1] = x
      BY LenProperties, AppendProperties
<1> HIDE DEF e
<1>2. i \in 0 .. Len(e)
      BY <1>1
<1>3. d \in Seq(Cells) /\ Len(d) = Len(e) - i /\ \A j \in 1 .. Len(e) - i : d[j] = e[i + j]
      BY <1>1, <1>2, AfterFacts
<1>4. c \in Seq(Cells) /\ Len(c) = Len(b) - i /\ \A j \in 1 .. Len(b) - i : c[j] = b[i + j]
      BY AfterFacts
<1> HIDE DEF c, d
<1>5. Len(d) = Len(c) + 1
      BY <1>1, <1>3, <1>4
<1>6. ASSUME NEW j \in 1 .. Len(c) PROVE d[j] = c[j]
      <2>1. j \in 1 .. Len(e) - i /\ i + j \in 1 .. Len(b) /\ j \in 1 .. Len(b) - i
            BY <1>1, <1>4
      <2> QED BY <1>1, <1>3, <1>4, <2>1
<1>7. d[Len(d)] = x
      <2>1. Len(d) \in 1 .. Len(e) - i /\ i + Len(d) = Len(b) + 1
            BY <1>1, <1>3
      <2> QED BY <1>1, <1>3, <2>1
<1>8. FlattenSeq(d) = FlattenSeq(c) \o d[Len(d)]
      BY <1>3, <1>4, <1>5, <1>6, FlattenLast
<1> QED BY <1>7, <1>8 DEF c, d, e, Rest

\* The rest gets shorter with every sequence that is not empty.
LEMMA RestShorter ==
    ASSUME NEW b \in Seq(Cells), \A i \in 1 .. Len(b) : b[i] # << >>,
           NEW k \in 0 .. Len(b), NEW i \in 0 .. Len(b), k < i
    PROVE  Len(Rest(b, i)) < Len(Rest(b, k))
<1> DEFINE S == {d \in Nat : k + (d + 1) <= Len(b)
                                => Len(Rest(b, k + (d + 1))) < Len(Rest(b, k))}
<1>1. Len(b) \in Nat /\ \A j \in 1 .. Len(b) : b[j] \in Cells
      BY LenProperties, ElementOfSeq
<1>2. \A j \in 0 .. Len(b) : Rest(b, j) \in Cells /\ Len(Rest(b, j)) \in Nat
      BY RestType, CellsFacts
<1>3. ASSUME NEW j \in 0 .. Len(b) - 1 PROVE Len(Rest(b, j + 1)) < Len(Rest(b, j))
      <2>1. j + 1 \in 1 .. Len(b) /\ j + 1 \in 0 .. Len(b) /\ j \in 0 .. Len(b)
            BY <1>1
      <2>2. b[j + 1] \in Cells /\ Rest(b, j + 1) \in Cells
            BY <1>1, <1>2, <2>1
      <2>3. Len(Rest(b, j)) = Len(b[j + 1]) + Len(Rest(b, j + 1))
            <3>1. Rest(b, j) = b[j + 1] \o Rest(b, j + 1)
                  BY RestStep
            <3> QED BY <2>2, <3>1, CellsFacts
      <2>4. Len(b[j + 1]) \in Nat /\ Len(b[j + 1]) # 0
            BY <2>1, <2>2, CellsFacts
      <2>5. Len(Rest(b, j + 1)) \in Nat
            BY <1>2, <2>1
      <2>6. \A x, y, z \in Nat : z # 0 /\ x = z + y => y < x
            OBVIOUS
      <2>7. Len(Rest(b, j)) \in Nat
            BY <1>2, <2>1
      <2> QED BY ONLY <2>3, <2>4, <2>5, <2>6, <2>7
<1>4. 0 \in S
      <2> SUFFICES ASSUME k + (0 + 1) <= Len(b)
                   PROVE  Len(Rest(b, k + (0 + 1))) < Len(Rest(b, k))
          OBVIOUS
      <2>1. k \in 0 .. Len(b) - 1 /\ k + (0 + 1) = k + 1
            BY <1>1
      <2> QED BY <1>3, <2>1
<1>5. ASSUME NEW d \in S PROVE d + 1 \in S
      <2> SUFFICES ASSUME k + ((d + 1) + 1) <= Len(b)
                   PROVE  Len(Rest(b, k + ((d + 1) + 1))) < Len(Rest(b, k))
          OBVIOUS
      <2> DEFINE j == k + (d + 1)
      <2>1. j \in 0 .. Len(b) - 1 /\ j + 1 = k + ((d + 1) + 1) /\ j <= Len(b)
            /\ j \in 0 .. Len(b) /\ j + 1 \in 0 .. Len(b)
            BY <1>1
      <2>2. Len(Rest(b, j)) < Len(Rest(b, k))
            BY <1>5, <2>1
      <2> HIDE DEF j, S
      <2>3. Len(Rest(b, j + 1)) < Len(Rest(b, j))
            BY <1>3, <2>1
      <2>4. Len(Rest(b, j + 1)) < Len(Rest(b, k))
            BY <1>2, <2>1, <2>2, <2>3
      <2> QED BY <2>1, <2>4
<1>6. S = Nat
      <2>1. S \in SUBSET Nat
            OBVIOUS
      <2> HIDE DEF S
      <2> QED BY <1>4, <1>5, <2>1, SetInduction
<1>7. i - k - 1 \in Nat /\ k + ((i - k - 1) + 1) = i /\ i <= Len(b)
      BY <1>1
<1>8. i - k - 1 \in S
      BY <1>6, <1>7
<1> QED BY <1>7, <1>8


-----------------------------------------------------------------------------
\* The readers of fields. Out(m) is a reader that ran into the end of the input.
Out(m) == [msg |-> m, in |-> << >>, err |-> TRUE, short |-> TRUE]

\* A field of a message is filled in.
Put(m, f, v) == [m EXCEPT ![f] = v]

\* ReadInt takes one cell.
LEMMA ReadIntTakes ==
    ASSUME NEW m, NEW f, NEW v \in Nat, NEW rest \in Cells
    PROVE  ReadInt(Reader(m, <<v>> \o rest), f) = Reader(Put(m, f, v), rest)
<1> DEFINE w == <<v>> \o rest
<1>1. w # << >> /\ Head(w) = v /\ Tail(w) = rest
      BY FrontCell
<1> HIDE DEF w
<1> QED BY <1>1 DEF ReadInt, Reader, Put, w

\* ReadInt at the end of the input fails, and a reader that failed stays as it is.
LEMMA ReadIntOut ==
    ASSUME NEW m, NEW f
    PROVE  ReadInt(Reader(m, << >>), f) = Out(m) /\ ReadInt(Out(m), f) = Out(m)
    BY DEF ReadInt, Reader, Out, RunsOut

\* A string on the wire is its length and its cells.
LEMMA StringFacts ==
    ASSUME NEW s \in Cells, NEW rest \in Cells
    PROVE  /\ PutString(s) \in Cells /\ PutString(s) = <<Len(s)>> \o s /\ Len(s) \in Nat
           /\ LET w == PutString(s) \o rest IN
                 /\ w # << >> /\ Head(w) = Len(s) /\ w[1] = Len(s)
                 /\ Len(w) = Len(s) + Len(rest) + 1
                 /\ SubSeq(w, 2, Len(s) + 1) = s /\ SubSeq(w, Len(s) + 2, Len(w)) = rest
<1> DEFINE w == PutString(s) \o rest
<1>1. Len(s) \in Nat /\ Len(rest) \in Nat /\ s \o rest \in Cells
      BY CellsFacts
<1>2. PutString(s) = <<Len(s)>> \o s /\ PutString(s) \in Cells
      BY <1>1, CellsFacts DEF PutString
<1>3. w = <<Len(s)>> \o (s \o rest)
      <2>1. <<Len(s)>> \in Cells
            BY <1>1, CellsFacts
      <2>2. (<<Len(s)>> \o s) \o rest = <<Len(s)>> \o (s \o rest)
            BY <2>1, ConcatAssoc
      <2> QED BY <1>2, <2>2
<1>4. w # << >> /\ Head(w) = Len(s) /\ w[1] = Len(s)
      BY <1>1, <1>3, FrontCell
<1>5. Len(w) = Len(s) + Len(rest) + 1 /\ w \in Cells
      BY <1>1, <1>3, CellsFacts
<1>6. /\ \A i \in 1 .. Len(s) : w[i + 1] = s[i]
      /\ \A i \in 1 .. Len(rest) : w[i + Len(s) + 1] = rest[i]
      BY <1>1, <1>3 DEF Cells
<1> HIDE DEF w
<1>7. SubSeq(w, 2, Len(s) + 1) = s
      <2> DEFINE u == SubSeq(w, 2, Len(s) + 1)
      <2>1. u \in Cells /\ Len(u) = Len(s)
            BY <1>1, <1>5, SMTT(30) DEF Cells
      <2>2. \A i \in 1 .. Len(s) : u[i] = w[i + 1]
            BY <1>1, <1>5 DEF Cells
      <2> HIDE DEF u
      <2>3. u = s
            BY <1>6, <2>1, <2>2, SeqEqual DEF Cells
      <2> QED BY <2>3 DEF u
<1>8. SubSeq(w, Len(s) + 2, Len(w)) = rest
      <2> DEFINE u == SubSeq(w, Len(s) + 2, Len(w))
      <2>1. u \in Cells /\ Len(u) = Len(rest)
            BY <1>1, <1>5 DEF Cells
      <2>2. \A i \in 1 .. Len(rest) : u[i] = w[i + Len(s) + 1]
            BY <1>1, <1>5 DEF Cells
      <2> HIDE DEF u
      <2>3. u = rest
            BY <1>6, <2>1, <2>2, SeqEqual DEF Cells
      <2> QED BY <2>3 DEF u
<1> QED BY <1>1, <1>2, <1>4, <1>5, <1>7, <1>8 DEF w

\* ReadString takes the string's length and its cells.
LEMMA ReadStringTakes ==
    ASSUME NEW m, NEW f, NEW s \in Cells, NEW rest \in Cells
    PROVE  /\ ReadString(Reader(m, PutString(s) \o rest), f) = Reader(Put(m, f, s), rest)
           /\ ReadList(Reader(m, PutString(s) \o rest), f) = Reader(Put(m, f, s), rest)
<1> DEFINE w == PutString(s) \o rest
<1>1. /\ w # << >> /\ Head(w) = Len(s) /\ w[1] = Len(s) /\ Len(w) = Len(s) + Len(rest) + 1
      /\ SubSeq(w, 2, Len(s) + 1) = s /\ SubSeq(w, Len(s) + 2, Len(w)) = rest
      BY StringFacts
<1>2. Len(s) \in Nat /\ Len(rest) \in Nat
      BY CellsFacts
<1>3. ~(Len(w) <= Head(w))
      BY <1>1, <1>2
<1> HIDE DEF w
<1>4. ReadString(Reader(m, w), f) = Reader(Put(m, f, s), rest)
      BY <1>1, <1>3 DEF ReadString, Reader, Put
<1>5. ReadList(Reader(m, w), f) = ReadString(Reader(m, w), f)
      BY <1>3 DEF ReadList, Reader
<1> QED BY <1>4, <1>5 DEF w

\* A reader that failed reads no string.
LEMMA ReadStringOut ==
    ASSUME NEW m, NEW f
    PROVE  ReadString(Out(m), f) = Out(m)
    BY DEF ReadString, Out

\* A string, or a list, that is cut off.
LEMMA StringCut ==
    ASSUME NEW s \in Cells, NEW p, Cut(p, PutString(s))
    PROVE  p = << >> \/ (p \in Cells /\ p # << >> /\ Len(p) <= Head(p))
<1>1. PutString(s) = <<Len(s)>> \o s /\ Len(s) \in Nat
      BY CellsFacts DEF PutString
<1>2. ASSUME NEW r, p = <<Len(s)>> \o r, Cut(r, s)
      PROVE  p \in Cells /\ p # << >> /\ Len(p) <= Head(p)
      <2>1. r \in Cells /\ Len(r) < Len(s) /\ Len(r) \in Nat
            BY <1>2, CutShort
      <2>2. p \in Cells /\ Len(p) = 1 + Len(r) /\ p # << >> /\ Head(p) = Len(s)
            BY <1>1, <1>2, <2>1, CellsFacts, FrontCell
      <2> QED BY <1>1, <2>1, <2>2
<1> QED BY <1>1, <1>2, CutCell

\* A string that is cut off runs into the end of the input.
LEMMA ReadStringCut ==
    ASSUME NEW m, NEW f, NEW s \in Cells, NEW p, Cut(p, PutString(s))
    PROVE  /\ ReadString(Reader(m, p), f) = Out(m)
           /\ \E n : ReadList(Reader(m, p), f) = Out(n)
<1>1. p = << >> \/ (p # << >> /\ Len(p) <= Head(p))
      BY StringCut
<1>2. ReadString(Reader(m, p), f) = Out(m)
      BY <1>1 DEF ReadString, Reader, RunsOut, Out
<1>3. CASE p = << >>
      <2>1. ReadList(Reader(m, p), f) = ReadString(Reader(m, p), f)
            BY <1>3 DEF ReadList, Reader
      <2> QED BY <1>2, <2>1
<1>4. CASE p # << >> /\ Len(p) <= Head(p)
      <2>1. ReadList(Reader(m, p), f) = Out([m EXCEPT ![f] = Tail(p)])
            BY <1>4 DEF ReadList, Reader, RunsOut, Out
      <2> QED BY <1>2, <2>1
<1> QED BY <1>1, <1>2, <1>3, <1>4

\* ReadInts reads one field after the other.
ReadsEach(F, st, fields, n) ==
    F = [i \in 0 .. n |-> IF i = 0 THEN st ELSE ReadInt(F[i - 1], fields[i])]

\* By induction, the recursion of ReadInts has a solution.
LEMMA ReadsEachExists ==
    ASSUME NEW n \in Nat, NEW st, NEW fields
    PROVE  \E F : ReadsEach(F, st, fields, n)
<1> DEFINE S == {k \in Nat : \E F : ReadsEach(F, st, fields, k)}
<1>1. 0 \in S
      <2>1. ReadsEach([i \in 0 .. 0 |-> st], st, fields, 0)
            BY DEF ReadsEach
      <2> QED BY <2>1
<1>2. ASSUME NEW k \in S PROVE k + 1 \in S
      <2>1. PICK F : ReadsEach(F, st, fields, k)
            BY <1>2
      <2> DEFINE x == ReadInt(F[k], fields[k + 1])
                 G == [i \in 0 .. k + 1 |-> IF i <= k THEN F[i] ELSE x]
      <2>2. k \in Nat /\ F[0] = st /\ \A i \in 1 .. k : F[i] = ReadInt(F[i - 1], fields[i])
            BY <2>1 DEF ReadsEach
      <2> HIDE DEF x
      <2>3. ASSUME NEW i \in 0 .. k + 1
            PROVE  G[i] = IF i = 0 THEN st ELSE ReadInt(G[i - 1], fields[i])
            <3>1. CASE i = 0
                  BY <2>2, <3>1
            <3>2. CASE i # 0 /\ i <= k
                  <4>1. G[i] = F[i] /\ G[i - 1] = F[i - 1] /\ i \in 1 .. k
                        BY <2>2, <3>2
                  <4> HIDE DEF G
                  <4> QED BY <2>2, <3>2, <4>1
            <3>3. CASE i = k + 1
                  <4>1. i # 0 /\ ~(i <= k) /\ i - 1 = k /\ k \in 0 .. k + 1 /\ k <= k
                        BY <2>2, <3>3
                  <4>2. G[i] = x /\ G[i - 1] = F[k]
                        BY <4>1
                  <4> HIDE DEF G
                  <4> QED BY <3>3, <4>1, <4>2 DEF x
            <3> QED BY <2>2, <3>1, <3>2, <3>3
      <2>4. G = [i \in 0 .. k + 1 |-> IF i = 0 THEN st ELSE ReadInt(G[i - 1], fields[i])]
            BY <2>3
      <2> HIDE DEF G
      <2>5. ReadsEach(G, st, fields, k + 1)
            BY <2>4 DEF ReadsEach
      <2> QED BY <2>2, <2>5
<1>3. S = Nat
      <2>1. S \in SUBSET Nat
            OBVIOUS
      <2> HIDE DEF S
      <2> QED BY <1>1, <1>2, <2>1, SetInduction
<1>4. n \in S
      BY <1>3
<1> QED BY <1>4

\* ReadInts is a chain of ReadInt.
LEMMA ReadIntsSteps ==
    ASSUME NEW st, NEW fields, Len(fields) \in Nat
    PROVE  \E F : /\ F[0] = st /\ ReadInts(st, fields) = F[Len(fields)]
                  /\ \A i \in 1 .. Len(fields) : F[i] = ReadInt(F[i - 1], fields[i])
<1> DEFINE F == CHOOSE F : F = [i \in 0 .. Len(fields) |->
                                   IF i = 0 THEN st ELSE ReadInt(F[i - 1], fields[i])]
<1>1. ReadInts(st, fields) = F[Len(fields)]
      BY DEF ReadInts
<1>2. ReadsEach(F, st, fields, Len(fields))
      <2>1. PICK G : ReadsEach(G, st, fields, Len(fields))
            BY ReadsEachExists
      <2>2. G = [i \in 0 .. Len(fields) |-> IF i = 0 THEN st ELSE ReadInt(G[i - 1], fields[i])]
            BY <2>1 DEF ReadsEach
      <2>3. F = [i \in 0 .. Len(fields) |-> IF i = 0 THEN st ELSE ReadInt(F[i - 1], fields[i])]
            BY ONLY <2>2, Zenon
      <2> HIDE DEF F
      <2> QED BY <2>3 DEF ReadsEach
<1> HIDE DEF F
<1>3. F[0] = st /\ \A i \in 1 .. Len(fields) : F[i] = ReadInt(F[i - 1], fields[i])
      BY <1>2 DEF ReadsEach
<1> QED BY <1>1, <1>3

\* No field.
LEMMA ReadInts0 ==
    ASSUME NEW st
    PROVE  ReadInts(st, << >>) = st
<1> DEFINE fields == << >>
<1>1. Len(fields) = 0
      OBVIOUS
<1> HIDE DEF fields
<1> QED BY <1>1, ReadIntsSteps DEF fields

\* Two fields.
LEMMA ReadInts2 ==
    ASSUME NEW st, NEW a, NEW b
    PROVE  ReadInts(st, <<a, b>>) = ReadInt(ReadInt(st, a), b)
<1> DEFINE fields == <<a, b>>
<1>1. Len(fields) = 2 /\ fields[1] = a /\ fields[2] = b
      OBVIOUS
<1> HIDE DEF fields
<1>2. PICK F : /\ F[0] = st /\ ReadInts(st, fields) = F[Len(fields)]
               /\ \A i \in 1 .. Len(fields) : F[i] = ReadInt(F[i - 1], fields[i])
      <2>1. Len(fields) \in Nat
            BY <1>1
      <2> QED BY ONLY <2>1, ReadIntsSteps, SMTT(30)
<1>3. F[1] = ReadInt(F[0], a) /\ F[2] = ReadInt(F[1], b)
      BY <1>1, <1>2
<1> QED BY <1>1, <1>2, <1>3 DEF fields

\* Three fields.
LEMMA ReadInts3 ==
    ASSUME NEW st, NEW a, NEW b, NEW c
    PROVE  ReadInts(st, <<a, b, c>>) = ReadInt(ReadInt(ReadInt(st, a), b), c)
<1> DEFINE fields == <<a, b, c>>
<1>1. Len(fields) = 3 /\ fields[1] = a /\ fields[2] = b /\ fields[3] = c
      OBVIOUS
<1> HIDE DEF fields
<1>2. PICK F : /\ F[0] = st /\ ReadInts(st, fields) = F[Len(fields)]
               /\ \A i \in 1 .. Len(fields) : F[i] = ReadInt(F[i - 1], fields[i])
      <2>1. Len(fields) \in Nat
            BY <1>1
      <2> QED BY ONLY <2>1, ReadIntsSteps, SMTT(30)
<1>3. F[1] = ReadInt(F[0], a) /\ F[2] = ReadInt(F[1], b) /\ F[3] = ReadInt(F[2], c)
      BY <1>1, <1>2
<1> QED BY <1>1, <1>2, <1>3 DEF fields

\* Four fields.
LEMMA ReadInts4 ==
    ASSUME NEW st, NEW a, NEW b, NEW c, NEW d
    PROVE  ReadInts(st, <<a, b, c, d>>) = ReadInt(ReadInt(ReadInt(ReadInt(st, a), b), c), d)
<1> DEFINE fields == <<a, b, c, d>>
<1>1. Len(fields) = 4 /\ fields[1] = a /\ fields[2] = b /\ fields[3] = c /\ fields[4] = d
      OBVIOUS
<1> HIDE DEF fields
<1>2. PICK F : /\ F[0] = st /\ ReadInts(st, fields) = F[Len(fields)]
               /\ \A i \in 1 .. Len(fields) : F[i] = ReadInt(F[i - 1], fields[i])
      <2>1. Len(fields) \in Nat
            BY <1>1
      <2> QED BY ONLY <2>1, ReadIntsSteps, SMTT(30)
<1>3. /\ F[1] = ReadInt(F[0], a) /\ F[2] = ReadInt(F[1], b)
      /\ F[3] = ReadInt(F[2], c) /\ F[4] = ReadInt(F[3], d)
      BY <1>1, <1>2
<1> QED BY <1>1, <1>2, <1>3 DEF fields

Failed(m, in) == [msg |-> m, in |-> in, err |-> TRUE, short |-> FALSE]

\* Put changes one field.
LEMMA PutFacts ==
    ASSUME NEW m, NEW f, NEW v
    PROVE  /\ DOMAIN Put(m, f, v) = DOMAIN m
           /\ f \in DOMAIN m => Put(m, f, v)[f] = v
           /\ \A g \in DOMAIN m : g # f => Put(m, f, v)[g] = m[g]
    BY DEF Put

RS(m, i, e, s) == [msg |-> m, in |-> i, err |-> e, short |-> s]

\* The parts of a reader.
LEMMA RSFacts ==
    ASSUME NEW m, NEW in, NEW e, NEW s, NEW k
    PROVE  /\ [RS(m, in, e, s) EXCEPT !.msg = k] = RS(k, in, e, s)
           /\ [RS(m, in, e, s) EXCEPT !.err = k] = RS(m, in, k, s)
           /\ RS(m, in, e, s).msg = m /\ RS(m, in, e, s).in = in
           /\ RS(m, in, e, s).err = e /\ RS(m, in, e, s).short = s
<1> DEFINE r == RS(m, in, e, s)
<1>1. r = RS(m, in, e, s)
      OBVIOUS
<1> HIDE DEF r
<1>2. [r EXCEPT !.msg = k] = RS(k, in, e, s)
      BY <1>1 DEF RS
<1>3. [r EXCEPT !.err = k] = RS(m, in, k, s)
      BY <1>1 DEF RS
<1>4. r.msg = m /\ r.in = in /\ r.err = e /\ r.short = s
      BY <1>1 DEF RS
<1> QED BY <1>2, <1>3, <1>4 DEF r

\* The parts of a reader that goes on, ran out, or failed.
LEMMA ReaderFacts ==
    ASSUME NEW m, NEW in
    PROVE  /\ Reader(m, in).msg = m /\ Reader(m, in).in = in /\ Reader(m, in).err = FALSE
           /\ Reader(m, in).short = FALSE
           /\ Out(m).msg = m /\ Out(m).in = << >> /\ Out(m).err = TRUE /\ Out(m).short = TRUE
           /\ Failed(m, in).msg = m /\ Failed(m, in).in = in /\ Failed(m, in).err = TRUE
           /\ Failed(m, in).short = FALSE
<1>1. Reader(m, in).msg = m /\ Reader(m, in).in = in /\ Reader(m, in).err = FALSE
           /\ Reader(m, in).short = FALSE
      BY DEF Reader
<1>2. Out(m).msg = m /\ Out(m).in = << >> /\ Out(m).err = TRUE /\ Out(m).short = TRUE
      BY DEF Out
<1>3. Failed(m, in).msg = m /\ Failed(m, in).in = in /\ Failed(m, in).err = TRUE
           /\ Failed(m, in).short = FALSE
      BY DEF Failed
<1> QED BY <1>1, <1>2, <1>3

\* A reader's message is replaced.
LEMMA SetMsg ==
    ASSUME NEW m, NEW in, NEW k
    PROVE  /\ [Reader(m, in) EXCEPT !.msg = k] = Reader(k, in)
           /\ [Failed(m, in) EXCEPT !.msg = k] = Failed(k, in)
           /\ [Out(m) EXCEPT !.msg = k] = Out(k)
           /\ Fail(Reader(m, in)) = Failed(m, in)
<1> DEFINE yes == TRUE
           no == FALSE
<1> HIDE DEF yes, no
<1>1. [RS(m, in, no, no) EXCEPT !.msg = k] = RS(k, in, no, no)
      BY RSFacts
<1>2. [RS(m, in, yes, no) EXCEPT !.msg = k] = RS(k, in, yes, no)
      BY RSFacts
<1>3. [RS(m, << >>, yes, yes) EXCEPT !.msg = k] = RS(k, << >>, yes, yes)
      BY RSFacts
<1>4. [RS(m, in, no, no) EXCEPT !.err = yes] = RS(m, in, yes, no)
      BY RSFacts
<1>5. [Reader(m, in) EXCEPT !.msg = k] = Reader(k, in)
      BY <1>1 DEF RS, Reader, no
<1>6. [Failed(m, in) EXCEPT !.msg = k] = Failed(k, in)
      BY <1>2 DEF RS, Failed, yes, no
<1>7. [Out(m) EXCEPT !.msg = k] = Out(k)
      BY <1>3 DEF RS, Out, yes
<1>8. Fail(Reader(m, in)) = Failed(m, in)
      BY <1>4 DEF RS, Fail, Reader, Failed, yes, no
<1> QED BY <1>5, <1>6, <1>7, <1>8

\* A parameter is added to those read.
LEMMA AddParam ==
    ASSUME NEW m, NEW in, NEW x
    PROVE  [Reader(m, in) EXCEPT !.msg.Params = SetParam(@, x)]
              = Reader(Put(m, "Params", SetParam(m.Params, x)), in)
<1> DEFINE r == Reader(m, in)
<1>1. r.msg = m
      BY ReaderFacts, ZenonT(30)
<1>2. [r EXCEPT !.msg = Put(m, "Params", SetParam(m.Params, x))]
         = Reader(Put(m, "Params", SetParam(m.Params, x)), in)
      BY SetMsg
<1> HIDE DEF r
<1>3. [r EXCEPT !.msg.Params = SetParam(@, x)]
         = [r EXCEPT !.msg = [r.msg EXCEPT !.Params = SetParam(r.msg.Params, x)]]
      OBVIOUS
<1>4. [m EXCEPT !.Params = SetParam(m.Params, x)] = Put(m, "Params", SetParam(m.Params, x))
      BY DEF Put
<1> QED BY <1>1, <1>2, <1>3, <1>4 DEF r

\* A parameter on the wire: its type, then a cell for a role and a string for any other.
LEMMA ParamBytesFacts ==
    ASSUME NEW p \in Param
    PROVE  /\ ParamBytes(p) \in Cells /\ ParamBytes(p) # << >> /\ p.type \in Nat
           /\ p.type = ROLE_PARAM => /\ p = [type |-> ROLE_PARAM, value |-> p.value] /\ p.value \in Nat
                                     /\ ParamBytes(p) = <<0>> \o (<<1>> \o <<p.value>>)
           /\ p.type # ROLE_PARAM => /\ p = [type |-> p.type, value |-> p.value] /\ p.value \in Cells
                                     /\ ParamBytes(p) = <<p.type>> \o PutString(p.value)
<1>1. CASE p \in [type : {ROLE_PARAM}, value : Nat]
      <2>1. p.type = ROLE_PARAM /\ p.value \in Nat /\ p = [type |-> ROLE_PARAM, value |-> p.value]
            BY <1>1
      <2>2. ParamBytes(p) = <<0, 1, p.value>>
            BY <2>1 DEF ParamBytes, ROLE_PARAM
      <2>3. <<0, 1, p.value>> = <<0>> \o (<<1>> \o <<p.value>>)
            BY <2>1
      <2>4. ParamBytes(p) \in Cells /\ ParamBytes(p) # << >>
            BY <2>1, <2>2 DEF Cells
      <2> QED BY <2>1, <2>2, <2>3, <2>4 DEF ROLE_PARAM
<1>2. CASE p \in [type : Nat \ {ROLE_PARAM}, value : Seq(Nat)]
      <2>1. p.type \in Nat /\ p.type # ROLE_PARAM /\ p.value \in Cells
            /\ p = [type |-> p.type, value |-> p.value]
            BY <1>2 DEF Cells
      <2>2. ParamBytes(p) = <<p.type>> \o PutString(p.value) /\ PutString(p.value) \in Cells
            BY <2>1, StringFacts DEF ParamBytes
      <2>3. ParamBytes(p) \in Cells /\ ParamBytes(p) # << >>
            BY <2>1, <2>2, CellsFacts, FrontCell
      <2> QED BY <2>1, <2>2, <2>3
<1> QED BY <1>1, <1>2 DEF Param

\* What Parameters.Parse fills in.
IsPM(m) == DOMAIN m = {"Params", "plength", "ptype", "pvalue"}

\* Put on what Parameters.Parse works with.
LEMMA PMPut ==
    ASSUME NEW m, IsPM(m), NEW v
    PROVE  /\ LET n == Put(m, "ptype", v) IN
                  IsPM(n) /\ n.ptype = v /\ n.Params = m.Params
           /\ LET n == Put(m, "plength", v) IN
                  IsPM(n) /\ n.plength = v /\ n.ptype = m.ptype /\ n.Params = m.Params
           /\ LET n == Put(m, "pvalue", v) IN
                  IsPM(n) /\ n.pvalue = v /\ n.ptype = m.ptype /\ n.Params = m.Params
           /\ LET n == Put(m, "Params", v) IN
                  IsPM(n) /\ n.Params = v
    BY PutFacts DEF IsPM

Known(p) == p.type \in {ROLE_PARAM, ROLE_PATH}

\* One turn of Parameters.Parse takes one parameter off the wire, known or unknown.
LEMMA ReadParamTakes ==
    ASSUME NEW p \in Param, NEW rest \in Cells, NEW m, IsPM(m)
    PROVE  \E n : /\ IsPM(n)
                  /\ Known(p) => /\ ReadParam(Reader(m, ParamBytes(p) \o rest)) = Reader(n, rest)
                                 /\ n.Params = SetParam(m.Params, p)
                  /\ ~Known(p) => /\ ReadParam(Reader(m, ParamBytes(p) \o rest)) = Failed(n, rest)
                                  /\ n.Params = m.Params
<1> DEFINE st == Reader(m, ParamBytes(p) \o rest)
<1>1. CASE p.type = ROLE_PARAM
      <2>1. /\ p = [type |-> ROLE_PARAM, value |-> p.value] /\ p.value \in Nat
            /\ ParamBytes(p) = <<0>> \o (<<1>> \o <<p.value>>)
            BY <1>1, ParamBytesFacts
      <2> DEFINE x == <<p.value>> \o rest
                 y == <<1>> \o x
      <2>2. x \in Cells /\ y \in Cells /\ ParamBytes(p) \o rest = <<0>> \o y
            <3>1. <<0>> \in Cells /\ <<1>> \in Cells /\ <<p.value>> \in Cells
                  BY <2>1, CellsFacts
            <3>2. <<1>> \o <<p.value>> \in Cells
                  BY <3>1, CellsFacts
            <3>3. (<<0>> \o (<<1>> \o <<p.value>>)) \o rest
                      = <<0>> \o ((<<1>> \o <<p.value>>) \o rest)
                  BY <3>1, <3>2, ConcatAssoc
            <3>4. (<<1>> \o <<p.value>>) \o rest = <<1>> \o (<<p.value>> \o rest)
                  BY <3>1, ConcatAssoc
            <3>5. x \in Cells
                  BY <3>1, CellsFacts
            <3>6. y \in Cells
                  BY <3>1, <3>5, CellsFacts
            <3> QED BY <2>1, <3>3, <3>4, <3>5, <3>6
      <2> DEFINE m1 == Put(m, "ptype", 0)
                 m2 == Put(m1, "plength", 1)
                 m3 == Put(m2, "pvalue", p.value)
                 m4 == Put(m3, "Params", SetParam(m3.Params, p))
                 t1 == Reader(m1, y)
                 w == Reader(m3, rest)
      <2>3. ReadInt(st, "ptype") = t1
            BY <2>2, ReadIntTakes
      <2>4. ReadInt(t1, "plength") = Reader(m2, x) /\ ReadInt(Reader(m2, x), "pvalue") = w
            BY <2>1, <2>2, ReadIntTakes
      <2>5. t1.err = FALSE /\ t1.msg = m1 /\ w.err = FALSE /\ w.msg = m3
            <3> HIDE DEF m1, m3
            <3>1. t1.err = FALSE /\ t1.msg = m1
                  BY DEF Reader
            <3>2. w.err = FALSE /\ w.msg = m3
                  BY DEF Reader
            <3> QED BY <3>1, <3>2
      <2>6. [w EXCEPT !.msg.Params = SetParam(@, p)] = Reader(m4, rest)
            BY AddParam
      <2>7. IsPM(m1) /\ m1.ptype = 0 /\ m1.Params = m.Params
            BY PMPut
      <2> HIDE DEF m1
      <2>8. IsPM(m2) /\ m2.Params = m1.Params
            BY <2>7, PMPut
      <2> HIDE DEF m2
      <2>9. IsPM(m3) /\ m3.Params = m2.Params /\ m3.pvalue = p.value
            BY <2>8, PMPut
      <2> HIDE DEF m3
      <2>10. IsPM(m4) /\ m4.Params = SetParam(m3.Params, p)
            BY <2>9, PMPut
      <2> HIDE DEF st, t1, w, m4
      <2>11. ReadInts(t1, <<"plength", "pvalue">>) = w
            <3> HIDE DEF x, y
            <3>1. ReadInts(t1, <<"plength", "pvalue">>) = ReadInt(ReadInt(t1, "plength"), "pvalue")
                  BY ReadInts2
            <3> QED BY <2>4, <3>1
      <2>12. ReadParam(st) = [w EXCEPT !.msg.Params = SetParam(@, p)]
            BY <2>1, <2>3, <2>5, <2>7, <2>9, <2>11 DEF ReadParam, ROLE_PARAM
      <2>13. Known(p)
            BY <1>1 DEF Known
      <2> QED BY <2>6, <2>7, <2>8, <2>9, <2>10, <2>12, <2>13 DEF st
<1>2. CASE p.type # ROLE_PARAM
      <2>1. /\ p = [type |-> p.type, value |-> p.value] /\ p.value \in Cells /\ p.type \in Nat
            /\ ParamBytes(p) = <<p.type>> \o PutString(p.value)
            BY <1>2, ParamBytesFacts
      <2> DEFINE x == PutString(p.value) \o rest
      <2>2. x \in Cells /\ ParamBytes(p) \o rest = <<p.type>> \o x
            <3>1. <<p.type>> \in Cells /\ PutString(p.value) \in Cells
                  BY <2>1, CellsFacts, StringFacts
            <3>2. (<<p.type>> \o PutString(p.value)) \o rest = <<p.type>> \o x
                  BY <3>1, ConcatAssoc
            <3>3. x \in Cells
                  BY <3>1, CellsFacts
            <3> QED BY <2>1, <3>2, <3>3
      <2> DEFINE m1 == Put(m, "ptype", p.type)
                 m3 == Put(m1, "pvalue", p.value)
                 m4 == Put(m3, "Params", SetParam(m3.Params, p))
                 t1 == Reader(m1, x)
                 w == Reader(m3, rest)
      <2>3. ReadInt(st, "ptype") = t1
            BY <2>1, <2>2, ReadIntTakes
      <2>4. ReadString(t1, "pvalue") = w
            BY <2>1, ReadStringTakes
      <2>5. t1.err = FALSE /\ t1.msg = m1 /\ w.err = FALSE /\ w.msg = m3
            <3> HIDE DEF m1, m3
            <3>1. t1.err = FALSE /\ t1.msg = m1
                  BY DEF Reader
            <3>2. w.err = FALSE /\ w.msg = m3
                  BY DEF Reader
            <3> QED BY <3>1, <3>2
      <2>6. [w EXCEPT !.msg.Params = SetParam(@, p)] = Reader(m4, rest)
            BY AddParam
      <2>7. Fail(w) = Failed(m3, rest)
            BY SetMsg
      <2>8. IsPM(m1) /\ m1.ptype = p.type /\ m1.Params = m.Params
            BY PMPut
      <2> HIDE DEF m1
      <2>9. IsPM(m3) /\ m3.Params = m1.Params /\ m3.pvalue = p.value
            BY <2>8, PMPut
      <2> HIDE DEF m3
      <2>10. IsPM(m4) /\ m4.Params = SetParam(m3.Params, p)
            BY <2>9, PMPut
      <2> HIDE DEF st, t1, w, m4
      <2>11. CASE p.type = ROLE_PATH
            <3>1. [type |-> ROLE_PATH, value |-> w.msg.pvalue] = p
                  BY <2>1, <2>5, <2>9, <2>11
            <3>2. ReadParam(st) = [w EXCEPT !.msg.Params = SetParam(@, p)]
                  BY <1>2, <2>3, <2>4, <2>5, <2>8, <2>11, <3>1 DEF ReadParam
            <3>3. Known(p)
                  BY <2>11 DEF Known
            <3> QED BY <2>6, <2>8, <2>9, <2>10, <3>2, <3>3 DEF st
      <2>12. CASE p.type # ROLE_PATH
            <3>1. ReadParam(st) = Fail(w)
                  BY <1>2, <2>3, <2>4, <2>5, <2>8, <2>12 DEF ReadParam
            <3>2. ~Known(p)
                  BY <1>2, <2>12 DEF Known
            <3> QED BY <2>7, <2>8, <2>9, <3>1, <3>2 DEF st
      <2> QED BY <2>11, <2>12
<1> QED BY <1>1, <1>2

\* A turn of a reader that failed does nothing.
LEMMA ReadParamOut ==
    ASSUME NEW m
    PROVE  ReadParam(Out(m)) = Out(m)
<1> DEFINE st == Out(m)
<1>1. ReadInt(st, "ptype") = st /\ st.err = TRUE
      BY ReadIntOut, ReaderFacts
<1> HIDE DEF st
<1>2. ReadParam(st) = st
      BY <1>1 DEF ReadParam
<1> QED BY <1>2 DEF st

\* A parameter that is cut off.
LEMMA CutOne ==
    ASSUME NEW v \in Nat, NEW p, Cut(p, <<v>>)
    PROVE  p = << >>
<1>1. <<v>> \in Cells /\ Len(<<v>>) = 1
      BY CellsFacts
<1>2. p \in Cells /\ Len(p) < 1 /\ Len(p) \in Nat
      BY <1>1, CutShort
<1>3. Len(p) = 0
      BY <1>2
<1> QED BY <1>2, <1>3, CellsFacts

\* It runs into the end of the input.
LEMMA ReadParamCut ==
    ASSUME NEW p \in Param, NEW c, Cut(c, ParamBytes(p)), NEW m, IsPM(m)
    PROVE  \E n : ReadParam(Reader(m, c)) = Out(n)
<1> DEFINE st == Reader(m, c)
<1>1. CASE c = << >>
      <2> DEFINE t1 == Out(m)
      <2>1. ReadInt(st, "ptype") = t1
            BY <1>1, ReadIntOut
      <2>2. t1.err = TRUE
            BY DEF Out
      <2> HIDE DEF st, t1
      <2>3. ReadParam(st) = t1
            BY <2>1, <2>2 DEF ReadParam
      <2> QED BY <2>3 DEF st, t1
<1>2. CASE p.type = ROLE_PARAM /\ c # << >>
      <2>1. p.value \in Nat /\ ParamBytes(p) = <<0>> \o (<<1>> \o <<p.value>>)
            BY <1>2, ParamBytesFacts
      <2>2. <<p.value>> \in Cells /\ <<1>> \o <<p.value>> \in Cells
            BY <2>1, CellsFacts
      <2>3. PICK r : c = <<0>> \o r /\ Cut(r, <<1>> \o <<p.value>>)
            BY <1>2, <2>1, <2>2, CutCell
      <2>4. r = << >> \/ r = <<1>> \o << >>
            <3>1. r = << >> \/ \E q : r = <<1>> \o q /\ Cut(q, <<p.value>>)
                  BY <2>2, <2>3, CutCell
            <3> QED BY <2>1, <3>1, CutOne
      <2> DEFINE m1 == Put(m, "ptype", 0)
                 t1 == Reader(m1, r)
      <2>5. IsPM(m1) /\ m1.ptype = 0
            BY PMPut
      <2>6. ReadInt(st, "ptype") = t1
            <3>1. r \in Cells
                  BY <2>3 DEF Cut
            <3> QED BY <2>3, <3>1, ReadIntTakes
      <2> HIDE DEF m1
      <2>7. t1.err = FALSE /\ t1.msg = m1
            BY DEF Reader
      <2>8. \E n : ReadInt(ReadInt(t1, "plength"), "pvalue") = Out(n)
            <3>1. CASE r = << >>
                  BY <3>1, ReadIntOut
            <3>2. CASE r = <<1>> \o << >>
                  <4> DEFINE e == << >>
                  <4>1. e \in Cells /\ t1 = Reader(m1, <<1>> \o e)
                        BY <3>2, CellsFacts
                  <4> HIDE DEF e, t1
                  <4>2. ReadInt(t1, "plength") = Reader(Put(m1, "plength", 1), e)
                        BY <4>1, ReadIntTakes
                  <4> QED BY <4>2, ReadIntOut DEF e
            <3> QED BY <2>4, <3>1, <3>2
      <2> HIDE DEF st, t1
      <2>9. PICK n : ReadInts(t1, <<"plength", "pvalue">>) = Out(n)
            BY <2>8, ReadInts2
      <2> DEFINE w == Out(n)
      <2>10. w.err = TRUE
            BY DEF Out
      <2> HIDE DEF w
      <2>11. ReadInts(t1, <<"plength", "pvalue">>) = w
            BY <2>9 DEF w
      <2>12. ReadParam(st) = w
            BY <2>5, <2>6, <2>7, <2>10, <2>11 DEF ReadParam, ROLE_PARAM
      <2> QED BY <2>12 DEF st, w
<1>3. CASE p.type # ROLE_PARAM /\ c # << >>
      <2>1. p.value \in Cells /\ p.type \in Nat /\ ParamBytes(p) = <<p.type>> \o PutString(p.value)
            BY <1>3, ParamBytesFacts
      <2>2. PutString(p.value) \in Cells
            BY <2>1, StringFacts
      <2>3. PICK r : c = <<p.type>> \o r /\ Cut(r, PutString(p.value))
            BY <1>3, <2>1, <2>2, CutCell
      <2> DEFINE m1 == Put(m, "ptype", p.type)
                 t1 == Reader(m1, r)
                 w == Out(m1)
      <2>4. IsPM(m1) /\ m1.ptype = p.type
            BY PMPut
      <2>5. ReadInt(st, "ptype") = t1
            <3>1. r \in Cells
                  BY <2>3 DEF Cut
            <3> QED BY <2>1, <2>3, <3>1, ReadIntTakes
      <2> HIDE DEF m1
      <2>6. ReadString(t1, "pvalue") = w
            BY <2>1, <2>3, ReadStringCut
      <2>7. t1.err = FALSE /\ t1.msg = m1
            BY DEF Reader
      <2>8. w.err = TRUE
            BY DEF Out
      <2> HIDE DEF st, t1, w
      <2>9. ReadParam(st) = w
            BY <1>3, <2>4, <2>5, <2>6, <2>7, <2>8 DEF ReadParam
      <2> QED BY <2>9 DEF st, w
<1> QED BY <1>1, <1>2, <1>3

-----------------------------------------------------------------------------
\* Parameters.Parse: the number of parameters, then one after the other.
ParamsEach(F, st, n) == F = [i \in 0 .. n |-> IF i = 0 THEN st ELSE ReadParam(F[i - 1])]

\* By induction, the recursion of Parameters.Parse has a solution.
LEMMA ParamsEachExists ==
    ASSUME NEW n \in Nat, NEW st
    PROVE  \E F : ParamsEach(F, st, n)
<1> DEFINE S == {k \in Nat : \E F : ParamsEach(F, st, k)}
<1>1. 0 \in S
      <2>1. ParamsEach([i \in 0 .. 0 |-> st], st, 0)
            BY DEF ParamsEach
      <2> QED BY <2>1
<1>2. ASSUME NEW k \in S PROVE k + 1 \in S
      <2>1. PICK F : ParamsEach(F, st, k)
            BY <1>2
      <2> DEFINE x == ReadParam(F[k])
                 G == [i \in 0 .. k + 1 |-> IF i <= k THEN F[i] ELSE x]
      <2>2. k \in Nat /\ F[0] = st /\ \A i \in 1 .. k : F[i] = ReadParam(F[i - 1])
            BY <2>1 DEF ParamsEach
      <2> HIDE DEF x
      <2>3. ASSUME NEW i \in 0 .. k + 1
            PROVE  G[i] = IF i = 0 THEN st ELSE ReadParam(G[i - 1])
            <3>1. CASE i = 0
                  BY <2>2, <3>1
            <3>2. CASE i # 0 /\ i <= k
                  <4>1. G[i] = F[i] /\ G[i - 1] = F[i - 1] /\ i \in 1 .. k
                        BY <2>2, <3>2
                  <4> HIDE DEF G
                  <4> QED BY <2>2, <3>2, <4>1
            <3>3. CASE i = k + 1
                  <4>1. i # 0 /\ ~(i <= k) /\ i - 1 = k /\ k \in 0 .. k + 1 /\ k <= k
                        BY <2>2, <3>3
                  <4>2. G[i] = x /\ G[i - 1] = F[k]
                        BY <4>1
                  <4> HIDE DEF G
                  <4> QED BY <3>3, <4>1, <4>2 DEF x
            <3> QED BY <2>2, <3>1, <3>2, <3>3
      <2>4. G = [i \in 0 .. k + 1 |-> IF i = 0 THEN st ELSE ReadParam(G[i - 1])]
            BY <2>3
      <2> HIDE DEF G
      <2>5. ParamsEach(G, st, k + 1)
            BY <2>4 DEF ParamsEach
      <2> QED BY <2>2, <2>5
<1>3. S = Nat
      <2>1. S \in SUBSET Nat
            OBVIOUS
      <2> HIDE DEF S
      <2> QED BY <1>1, <1>2, <2>1, SetInduction
<1>4. n \in S
      BY <1>3
<1> QED BY <1>4

NoParams == [Params |-> {}, plength |-> 0, ptype |-> 0, pvalue |-> 0]

\* Parameters.Parse is a chain of turns.
LEMMA ParseParamsSteps ==
    ASSUME NEW st, NEW n, n = ReadInt([st EXCEPT !.msg = NoParams], "plength")
    PROVE  /\ n.err => ParseParams(st) = n
           /\ ~n.err /\ n.msg.plength \in Nat =>
                 \E F : /\ F[0] = n /\ ParseParams(st) = F[n.msg.plength]
                        /\ \A i \in 1 .. n.msg.plength : F[i] = ReadParam(F[i - 1])
<1> DEFINE k == n.msg.plength
           F == CHOOSE F : F = [i \in 0 .. k |-> IF i = 0 THEN n ELSE ReadParam(F[i - 1])]
<1>1. ParseParams(st) = IF n.err THEN n ELSE F[k]
      BY DEF ParseParams, NoParams
<1> HIDE DEF k
<1>2. ASSUME k \in Nat
      PROVE  ParamsEach(F, n, k)
      <2>1. \E G : ParamsEach(G, n, k)
            BY <1>2, ParamsEachExists
      <2> QED BY <2>1 DEF ParamsEach
<1> HIDE DEF F
<1>3. ASSUME k \in Nat
      PROVE  F[0] = n /\ \A i \in 1 .. k : F[i] = ReadParam(F[i - 1])
      <2>1. ParamsEach(F, n, k)
            BY <1>2, <1>3
      <2>2. k \in Nat
            BY <1>3
      <2> QED BY ONLY <2>1, <2>2 DEF ParamsEach
<1> QED BY <1>1, <1>3 DEF k

\* The parameters on the wire.
ParamCells(ps) == [i \in DOMAIN ps |-> ParamBytes(ps[i])]

\* The parameters on the wire: their number, then one after the other.
LEMMA ParamCellsFacts ==
    ASSUME NEW ps \in Seq(Param)
    PROVE  /\ ParamCells(ps) \in Seq(Cells) /\ Len(ParamCells(ps)) = Len(ps) /\ Len(ps) \in Nat
           /\ \A i \in 1 .. Len(ps) : ParamCells(ps)[i] = ParamBytes(ps[i]) /\ ps[i] \in Param
           /\ ParamsBytes(ps) = <<Len(ps)>> \o Rest(ParamCells(ps), 0)
           /\ Rest(ParamCells(ps), 0) \in Cells /\ ParamsBytes(ps) \in Cells
           /\ ParamsBytes(ps) # << >>
<1> DEFINE b == ParamCells(ps)
<1>1. Len(ps) \in Nat /\ DOMAIN ps = 1 .. Len(ps) /\ \A i \in 1 .. Len(ps) : ps[i] \in Param
      BY LenProperties, ElementOfSeq
<1>2. \A i \in 1 .. Len(ps) : ParamBytes(ps[i]) \in Cells
      BY <1>1, ParamBytesFacts
<1>3. b = [i \in 1 .. Len(ps) |-> ParamBytes(ps[i])]
      BY <1>1 DEF ParamCells
<1>4. b \in Seq(Cells) /\ Len(b) = Len(ps) /\ \A i \in 1 .. Len(ps) : b[i] = ParamBytes(ps[i])
      <2> HIDE DEF b, Cells
      <2> QED BY <1>1, <1>2, <1>3
<1>5. After(b, 0) = b
      <2> HIDE DEF b
      <2>1. 0 \in 0 .. Len(b)
            BY <1>1, <1>4
      <2>2. After(b, 0) \in Seq(Cells) /\ Len(After(b, 0)) = Len(b)
            /\ \A j \in 1 .. Len(b) : After(b, 0)[j] = b[j]
            BY <1>1, <1>4, <2>1, AfterFacts
      <2> QED BY <1>4, <2>2, SeqEqual
<1>6. ParamsBytes(ps) = <<Len(ps)>> \o Rest(b, 0)
      BY <1>5 DEF ParamsBytes, Rest, ParamCells
<1>7. Rest(b, 0) \in Cells
      <2> HIDE DEF b
      <2>1. 0 \in 0 .. Len(b)
            BY <1>1, <1>4
      <2> QED BY <1>4, <2>1, RestType
<1> HIDE DEF b
<1>8. <<Len(ps)>> \o Rest(b, 0) \in Cells /\ <<Len(ps)>> \o Rest(b, 0) # << >>
      BY <1>1, <1>7, CellsFacts, FrontCell
<1> QED BY <1>1, <1>4, <1>6, <1>7, <1>8 DEF b

\* Before the first parameter none is read.
LEMMA NoParamsFacts ==
    ASSUME NEW v
    PROVE  LET m == Put(NoParams, "plength", v) IN IsPM(m) /\ m.plength = v /\ m.Params = {}
<1> DEFINE z == NoParams
<1>1. IsPM(z) /\ z.Params = {}
      BY DEF IsPM, NoParams
<1> HIDE DEF z
<1>2. IsPM(Put(z, "plength", v)) /\ Put(z, "plength", v).plength = v
      /\ Put(z, "plength", v).Params = {}
      BY <1>1, PMPut
<1> QED BY <1>2 DEF z

\* Of each type the last of the first i parameters: the map after i turns.
Upto(ps, i) ==
    {ps[j] : j \in {j \in 1 .. i : \A h \in 1 .. i : h > j => ps[h].type # ps[j].type}}

\* A turn puts its parameter into the map.
LEMMA UptoStep ==
    ASSUME NEW ps, NEW i \in Nat
    PROVE  Upto(ps, i + 1) = SetParam(Upto(ps, i), ps[i + 1])
<1> DEFINE p == ps[i + 1]
<1>1. ASSUME NEW q \in Upto(ps, i + 1) PROVE q \in SetParam(Upto(ps, i), p)
      <2>1. PICK j \in 1 .. i + 1 : /\ q = ps[j]
                                    /\ \A h \in 1 .. i + 1 : h > j => ps[h].type # ps[j].type
            BY <1>1 DEF Upto
      <2>2. CASE j = i + 1
            BY <2>1, <2>2 DEF SetParam
      <2>3. CASE j # i + 1
            <3>1. j \in 1 .. i /\ i + 1 > j /\ i + 1 \in 1 .. i + 1
                  BY <2>3
            <3>2. q.type # p.type
                  BY <2>1, <3>1
            <3>3. \A h \in 1 .. i : h > j => ps[h].type # ps[j].type
                  BY <2>1
            <3>4. q \in Upto(ps, i)
                  BY <2>1, <3>1, <3>3 DEF Upto
            <3> QED BY <3>2, <3>4 DEF SetParam
      <2> QED BY <2>2, <2>3
<1>2. ASSUME NEW q \in SetParam(Upto(ps, i), p) PROVE q \in Upto(ps, i + 1)
      <2>1. CASE q = p
            <3>1. i + 1 \in 1 .. i + 1 /\ \A h \in 1 .. i + 1 : ~(h > i + 1)
                  OBVIOUS
            <3> QED BY <2>1, <3>1 DEF Upto
      <2>2. CASE q \in Upto(ps, i) /\ q.type # p.type
            <3>1. PICK j \in 1 .. i : q = ps[j] /\ \A h \in 1 .. i : h > j => ps[h].type # ps[j].type
                  BY <2>2 DEF Upto
            <3>2. ASSUME NEW h \in 1 .. i + 1, h > j PROVE ps[h].type # ps[j].type
                  <4>1. CASE h = i + 1
                        BY <2>2, <3>1, <4>1
                  <4>2. CASE h # i + 1
                        BY <3>1, <3>2, <4>2
                  <4> QED BY <4>1, <4>2
            <3>3. j \in 1 .. i + 1
                  OBVIOUS
            <3> QED BY <3>1, <3>2, <3>3 DEF Upto
      <2> QED BY <1>2, <2>1, <2>2 DEF SetParam
<1> QED BY <1>1, <1>2

\* After the last turn, or before an unknown parameter that is the last, the map holds
\* what is kept.
LEMMA UptoIsKept ==
    ASSUME NEW ps \in Seq(Param), \A i \in 1 .. Len(ps) - 1 : Known(ps[i])
    PROVE  /\ Upto(ps, 0) = {}
           /\ (\A i \in DOMAIN ps : Known(ps[i])) => Upto(ps, Len(ps)) = Kept(ps)
           /\ Len(ps) > 0 /\ ~Known(ps[Len(ps)]) => Upto(ps, Len(ps) - 1) = Kept(ps)
<1>1. DOMAIN ps = 1 .. Len(ps) /\ Len(ps) \in Nat
      BY LenProperties
<1>2. \A i \in DOMAIN ps : Unknown(ps[i]) <=> ~Known(ps[i])
      BY DEF Unknown, Known
<1>3. Upto(ps, 0) = {}
      BY DEF Upto
<1>4. ASSUME \A i \in DOMAIN ps : Known(ps[i])
      PROVE  Upto(ps, Len(ps)) = Kept(ps)
      BY <1>1, <1>2, <1>4 DEF Upto, Kept
<1>5. ASSUME Len(ps) > 0, ~Known(ps[Len(ps)])
      PROVE  Upto(ps, Len(ps) - 1) = Kept(ps)
      <2> DEFINE k == Len(ps)
      <2>1. \A i \in 1 .. k - 1 : i \in DOMAIN ps /\ ~Unknown(ps[i]) /\ ps[k].type # ps[i].type
            BY <1>1, <1>2, <1>5 DEF Known
      <2>2. k \in DOMAIN ps /\ Unknown(ps[k])
            BY <1>1, <1>2, <1>5
      <2>3. ASSUME NEW q \in Upto(ps, k - 1) PROVE q \in Kept(ps)
            <3>1. PICK j \in 1 .. k - 1 :
                     q = ps[j] /\ \A h \in 1 .. k - 1 : h > j => ps[h].type # ps[j].type
                  BY <2>3 DEF Upto
            <3>2. ASSUME NEW h \in DOMAIN ps, h > j PROVE ps[h].type # ps[j].type
                  <4>1. CASE h = k
                        BY <2>1, <4>1
                  <4>2. CASE h # k
                        <5>1. h \in 1 .. k - 1
                              BY <1>1, <4>2
                        <5> QED BY <3>1, <3>2, <5>1
                  <4> QED BY <4>1, <4>2
            <3> QED BY <2>1, <3>1, <3>2 DEF Kept
      <2>4. ASSUME NEW q \in Kept(ps) PROVE q \in Upto(ps, k - 1)
            <3>1. PICK j \in DOMAIN ps :
                     /\ q = ps[j] /\ ~Unknown(ps[j])
                     /\ \A h \in DOMAIN ps : h > j => ps[h].type # ps[j].type
                  BY <2>4 DEF Kept
            <3>2. j # k
                  BY <2>2, <3>1
            <3>3. j \in 1 .. k - 1 /\ \A h \in 1 .. k - 1 : h \in DOMAIN ps
                  BY <1>1, <3>2
            <3> QED BY <3>1, <3>3 DEF Upto
      <2> QED BY <2>3, <2>4
<1> QED BY <1>3, <1>4, <1>5

\* The parameters of a message are taken off the wire, all of them, if only the last
\* may be unknown.
LEMMA ParseParamsTakes ==
    ASSUME NEW ps \in Seq(Param), NEW rest \in Cells, NEW x,
           \A i \in 1 .. Len(ps) - 1 : Known(ps[i])
    PROVE  LET r == ParseParams(Reader(x, ParamsBytes(ps) \o rest)) IN
           \E m : /\ m.Params = Kept(ps)
                  /\ IF \E i \in DOMAIN ps : ~Known(ps[i]) THEN r = Failed(m, rest)
                                                           ELSE r = Reader(m, rest)
<1> DEFINE b == ParamCells(ps)
           k == Len(ps)
           st == Reader(x, ParamsBytes(ps) \o rest)
           m0 == Put(NoParams, "plength", k)
           n == Reader(m0, Rest(b, 0) \o rest)
<1>1. /\ b \in Seq(Cells) /\ Len(b) = k /\ k \in Nat
      /\ \A i \in 1 .. k : b[i] = ParamBytes(ps[i]) /\ ps[i] \in Param /\ ParamBytes(ps[i]) \in Cells
      /\ ParamsBytes(ps) = <<k>> \o Rest(b, 0)
      BY ParamCellsFacts, ParamBytesFacts
<1>2. DOMAIN ps = 1 .. k
      BY LenProperties
<1> HIDE DEF b, k
<1>3. \A i \in 0 .. k : Rest(b, i) \in Cells /\ Rest(b, i) \o rest \in Cells
      BY <1>1, RestType, CellsFacts
<1>4. Rest(b, k) = << >> /\ Rest(b, k) \o rest = rest
      BY <1>1, RestEnd, ConcatEmpty
<1>5. ASSUME NEW i \in Nat, i < k
      PROVE  /\ Rest(b, i) \o rest = ParamBytes(ps[i + 1]) \o (Rest(b, i + 1) \o rest)
             /\ ps[i + 1] \in Param /\ Rest(b, i + 1) \o rest \in Cells
             /\ i + 1 \in 1 .. k
      <2>1. i \in 0 .. Len(b) - 1 /\ i + 1 \in 1 .. k /\ i + 1 \in 0 .. k
            BY <1>1, <1>5
      <2>2. Rest(b, i) = b[i + 1] \o Rest(b, i + 1)
            BY <1>1, <2>1, RestStep
      <2>3. b[i + 1] = ParamBytes(ps[i + 1]) /\ ps[i + 1] \in Param /\ b[i + 1] \in Cells
            BY <1>1, <2>1
      <2>4. Rest(b, i + 1) \in Cells /\ Rest(b, i + 1) \o rest \in Cells
            BY <1>3, <2>1
      <2>5. (b[i + 1] \o Rest(b, i + 1)) \o rest = b[i + 1] \o (Rest(b, i + 1) \o rest)
            BY <2>3, <2>4, ConcatAssoc
      <2> QED BY <2>1, <2>2, <2>3, <2>4, <2>5
<1>6. ReadInt([st EXCEPT !.msg = NoParams], "plength") = n
      <2>1. [st EXCEPT !.msg = NoParams] = Reader(NoParams, ParamsBytes(ps) \o rest)
            BY SetMsg
      <2>2. ParamsBytes(ps) \o rest = <<k>> \o (Rest(b, 0) \o rest)
            <3>1. <<k>> \in Cells /\ Rest(b, 0) \in Cells
                  BY <1>1, <1>3, CellsFacts
            <3> QED BY <1>1, <3>1, ConcatAssoc
      <2>3. Rest(b, 0) \o rest \in Cells
            BY <1>1, <1>3
      <2>4. ReadInt(Reader(NoParams, <<k>> \o (Rest(b, 0) \o rest)), "plength") = n
            BY <1>1, <2>3, ReadIntTakes
      <2>5. ReadInt(Reader(NoParams, ParamsBytes(ps) \o rest), "plength") = n
            <3> HIDE DEF n
            <3> QED BY <2>2, <2>4
      <2> HIDE DEF st, n
      <2> QED BY <2>1, <2>5
<1>7. IsPM(m0) /\ m0.plength = k /\ m0.Params = {}
      BY NoParamsFacts
<1> HIDE DEF m0
<1>8. n.err = FALSE /\ n.msg = m0
      BY DEF Reader
<1> HIDE DEF n
<1>9. PICK F : F[0] = n /\ ParseParams(st) = F[k] /\ \A i \in 1 .. k : F[i] = ReadParam(F[i - 1])
      BY <1>1, <1>6, <1>7, <1>8, ParseParamsSteps
<1> DEFINE Good(i) == \E m : /\ F[i] = Reader(m, Rest(b, i) \o rest)
                             /\ IsPM(m) /\ m.Params = Upto(ps, i)
           S == {i \in Nat : i <= k /\ (\A j \in 1 .. i : Known(ps[j])) => Good(i)}
<1>10. 0 \in S
      <2>1. Upto(ps, 0) = {}
            BY UptoIsKept
      <2>2. Good(0)
            BY <1>7, <1>9, <2>1 DEF n
      <2> HIDE DEF Good
      <2> QED BY <2>2
<1>11. ASSUME NEW i \in Nat, i < k, Good(i)
       PROVE  /\ Known(ps[i + 1]) => Good(i + 1)
              /\ ~Known(ps[i + 1]) => \E m : /\ F[i + 1] = Failed(m, Rest(b, i + 1) \o rest)
                                             /\ m.Params = Upto(ps, i)
      <2>1. PICK m : /\ F[i] = Reader(m, Rest(b, i) \o rest)
                     /\ IsPM(m) /\ m.Params = Upto(ps, i)
            BY <1>11
      <2> DEFINE p == ps[i + 1]
                 c == Rest(b, i + 1) \o rest
      <2>2. Rest(b, i) \o rest = ParamBytes(p) \o c /\ p \in Param /\ c \in Cells /\ i + 1 \in 1 .. k
            BY <1>5, <1>11
      <2>3. F[i + 1] = ReadParam(Reader(m, ParamBytes(p) \o c))
            <3>1. (i + 1) - 1 = i
                  BY <1>11
            <3> QED BY <1>9, <2>1, <2>2, <3>1
      <2>4. Upto(ps, i + 1) = SetParam(Upto(ps, i), p)
            BY UptoStep
      <2> HIDE DEF p, c
      <2>5. PICK q : /\ IsPM(q)
                     /\ Known(p) => ReadParam(Reader(m, ParamBytes(p) \o c)) = Reader(q, c)
                                    /\ q.Params = SetParam(m.Params, p)
                     /\ ~Known(p) => ReadParam(Reader(m, ParamBytes(p) \o c)) = Failed(q, c)
                                     /\ q.Params = m.Params
            <3>1. p \in Param /\ c \in Cells /\ IsPM(m)
                  BY <2>1, <2>2
            <3> QED BY ONLY <3>1, ReadParamTakes
      <2>6. Known(p) => F[i + 1] = Reader(q, c) /\ q.Params = Upto(ps, i + 1)
            BY <2>1, <2>3, <2>4, <2>5
      <2>7. ~Known(p) => F[i + 1] = Failed(q, c) /\ q.Params = Upto(ps, i)
            BY <2>1, <2>3, <2>5
      <2> QED BY <2>5, <2>6, <2>7 DEF p, c
<1> HIDE DEF Good
<1>12. ASSUME NEW i \in S PROVE i + 1 \in S
      <2> SUFFICES ASSUME i + 1 <= k, \A j \in 1 .. i + 1 : Known(ps[j]) PROVE Good(i + 1)
          BY <1>12
      <2>1. i \in Nat /\ i < k /\ i <= k /\ i + 1 \in 1 .. i + 1 /\ \A j \in 1 .. i : j \in 1 .. i + 1
            BY <1>1, <1>12
      <2>2. Good(i) /\ Known(ps[i + 1])
            BY <1>12, <2>1
      <2> QED BY <1>11, <2>1, <2>2
<1>13. S = Nat
      <2>1. S \in SUBSET Nat
            OBVIOUS
      <2> HIDE DEF S
      <2> QED BY <1>10, <1>12, <2>1, SetInduction
<1>14. CASE \A j \in 1 .. k : Known(ps[j])
      <2>1. Good(k)
            <3>1. k \in Nat /\ k <= k
                  BY <1>1
            <3>2. k \in S
                  BY <1>13, <3>1
            <3> QED BY <1>14, <3>1, <3>2
      <2>2. \A j \in DOMAIN ps : Known(ps[j])
            BY <1>2, <1>14
      <2>3. Upto(ps, k) = Kept(ps)
            BY <2>2, UptoIsKept DEF k
      <2>4. PICK m : F[k] = Reader(m, Rest(b, k) \o rest) /\ IsPM(m) /\ m.Params = Upto(ps, k)
            BY <2>1 DEF Good
      <2> QED BY <1>4, <1>9, <2>2, <2>3, <2>4 DEF st
<1>15. CASE \E j \in 1 .. k : ~Known(ps[j])
      <2>1. k >= 1 /\ k - 1 \in Nat /\ k - 1 < k /\ (k - 1) + 1 = k /\ k - 1 <= k
            BY <1>1, <1>15
      <2>2. \A j \in 1 .. k - 1 : Known(ps[j])
            BY DEF k
      <2>3. ~Known(ps[k])
            <3>1. PICK j \in 1 .. k : ~Known(ps[j])
                  BY <1>15
            <3>2. j = k
                  <4>1. j \notin 1 .. k - 1
                        BY <2>2, <3>1
                  <4> QED BY <1>1, <4>1
            <3> QED BY <3>1, <3>2
      <2>4. Good(k - 1)
            <3>1. k - 1 \in S
                  BY <1>13, <2>1
            <3> QED BY <2>1, <2>2, <3>1
      <2>5. \E m : F[k] = Failed(m, Rest(b, k) \o rest) /\ m.Params = Upto(ps, k - 1)
            <3>1. ~Known(ps[(k - 1) + 1])
                  BY <2>1, <2>3
            <3>2. \E m : /\ F[(k - 1) + 1] = Failed(m, Rest(b, (k - 1) + 1) \o rest)
                         /\ m.Params = Upto(ps, k - 1)
                  BY <1>11, <2>1, <2>4, <3>1
            <3> QED BY <2>1, <3>2
      <2>6. \E i \in DOMAIN ps : ~Known(ps[i])
            BY <1>2, <1>15
      <2>7. Upto(ps, k - 1) = Kept(ps)
            <3>1. k > 0
                  BY <1>1, <2>1
            <3> QED BY <2>3, <3>1, UptoIsKept DEF k
      <2> QED BY <1>4, <1>9, <2>5, <2>6, <2>7 DEF st
<1> QED BY <1>14, <1>15

\* Parameters that are cut off.
LEMMA ParseParamsCut ==
    ASSUME NEW ps \in Seq(Param), NEW c, Cut(c, ParamsBytes(ps)), NEW x,
           \A i \in 1 .. Len(ps) - 1 : Known(ps[i])
    PROVE  \E m : ParseParams(Reader(x, c)) = Out(m)
<1> DEFINE b == ParamCells(ps)
           k == Len(ps)
           st == Reader(x, c)
           m0 == Put(NoParams, "plength", k)
<1>1. /\ b \in Seq(Cells) /\ Len(b) = k /\ k \in Nat
      /\ \A i \in 1 .. k : b[i] = ParamBytes(ps[i]) /\ ps[i] \in Param /\ ParamBytes(ps[i]) \in Cells
      /\ ParamsBytes(ps) = <<k>> \o Rest(b, 0)
      BY ParamCellsFacts, ParamBytesFacts
<1> HIDE DEF b, k
<1>2. \A i \in 0 .. k : Rest(b, i) \in Cells
      BY <1>1, RestType
<1>3. \A p : ~Cut(p, Rest(b, k))
      <2> SUFFICES ASSUME NEW p, Cut(p, Rest(b, k)) PROVE FALSE
          OBVIOUS
      <2>1. Rest(b, k) = << >>
            BY <1>1, RestEnd
      <2>2. Len(p) < 0 /\ Len(p) \in Nat
            BY <2>1, CutShort, CellsFacts
      <2> QED BY <2>2
<1>4. [st EXCEPT !.msg = NoParams] = Reader(NoParams, c)
      BY SetMsg
<1>5. CASE c = << >>
      <2> DEFINE n == Out(NoParams)
      <2>1. n.err = TRUE
            BY DEF Out
      <2>2. ReadInt(Reader(NoParams, c), "plength") = n
            BY <1>5, ReadIntOut
      <2> HIDE DEF st, n
      <2>3. n = ReadInt([st EXCEPT !.msg = NoParams], "plength")
            BY <1>4, <2>2
      <2>4. ParseParams(st) = n
            BY <2>1, <2>3, ParseParamsSteps
      <2> QED BY <2>4 DEF st, n
<1>6. CASE c # << >>
      <2>1. PICK d : c = <<k>> \o d /\ Cut(d, Rest(b, 0))
            <3>1. 0 \in 0 .. k
                  BY <1>1
            <3>2. Rest(b, 0) \in Cells /\ Cut(c, <<k>> \o Rest(b, 0))
                  BY <1>1, <1>2, <3>1
            <3> QED BY <1>1, <1>6, <3>2, CutCell
      <2>2. d \in Cells
            BY <2>1 DEF Cut
      <2> DEFINE n == Reader(m0, d)
      <2>3. ReadInt(Reader(NoParams, c), "plength") = n
            BY <1>1, <2>1, <2>2, ReadIntTakes
      <2>4. IsPM(m0) /\ m0.plength = k
            BY NoParamsFacts
      <2> HIDE DEF m0
      <2>5. n.err = FALSE /\ n.msg = m0
            BY DEF Reader
      <2> HIDE DEF n, st
      <2>6. n = ReadInt([st EXCEPT !.msg = NoParams], "plength")
            BY <1>4, <2>3
      <2>7. PICK F : F[0] = n /\ ParseParams(st) = F[k] /\ \A i \in 1 .. k : F[i] = ReadParam(F[i - 1])
            BY <1>1, <2>4, <2>5, <2>6, ParseParamsSteps
      <2> DEFINE Good(i) == \/ \E m : F[i] = Out(m)
                            \/ \E m, r : F[i] = Reader(m, r) /\ IsPM(m) /\ Cut(r, Rest(b, i))
                 S == {i \in Nat : i <= k => Good(i)}
      <2>8. 0 \in S
            BY <2>1, <2>4, <2>7 DEF n
      <2>9. ASSUME NEW i \in Nat, i < k, Good(i) PROVE Good(i + 1)
            <3>1. i + 1 \in 1 .. k /\ (i + 1) - 1 = i /\ i \in 0 .. Len(b) - 1 /\ i + 1 \in 0 .. k
                  BY <1>1, <2>9
            <3>2. F[i + 1] = ReadParam(F[i])
                  BY <2>7, <3>1
            <3>3. CASE \E m : F[i] = Out(m)
                  <4>1. PICK m : F[i] = Out(m)
                        BY <3>3
                  <4>2. F[i + 1] = Out(m)
                        BY <3>2, <4>1, ReadParamOut
                  <4> QED BY <4>2
            <3>4. CASE \E m, r : F[i] = Reader(m, r) /\ IsPM(m) /\ Cut(r, Rest(b, i))
                  <4>1. PICK m, r : F[i] = Reader(m, r) /\ IsPM(m) /\ Cut(r, Rest(b, i))
                        BY <3>4
                  <4> DEFINE p == ps[i + 1]
                             a == Rest(b, i + 1)
                  <4>2. p \in Param /\ a \in Cells /\ ParamBytes(p) \in Cells /\ b[i + 1] = ParamBytes(p)
                        BY <1>1, <1>2, <3>1
                  <4>3. Rest(b, i) = ParamBytes(p) \o a
                        BY <1>1, <3>1, <4>2, RestStep
                  <4> HIDE DEF p, a
                  <4>4. Cut(r, ParamBytes(p)) \/ \E q : r = ParamBytes(p) \o q /\ Cut(q, a)
                        BY <4>1, <4>2, <4>3, CutConcat
                  <4>5. CASE Cut(r, ParamBytes(p))
                        <5>1. \E q : ReadParam(Reader(m, r)) = Out(q)
                              BY <4>1, <4>2, <4>5, ReadParamCut
                        <5> QED BY <3>2, <4>1, <5>1
                  <4>6. CASE \E q : r = ParamBytes(p) \o q /\ Cut(q, a)
                        <5>1. PICK q : r = ParamBytes(p) \o q /\ Cut(q, a)
                              BY <4>6
                        <5>2. q \in Cells
                              BY <5>1 DEF Cut
                        <5>3. i + 1 # k
                              BY <1>3, <5>1 DEF a
                        <5>4. Known(p)
                              <6>1. i + 1 \in 1 .. k - 1
                                    BY <1>1, <3>1, <5>3
                              <6> QED BY <6>1 DEF p, k
                        <5>5. \E m2 : ReadParam(Reader(m, ParamBytes(p) \o q)) = Reader(m2, q) /\ IsPM(m2)
                              <6>1. p \in Param /\ q \in Cells /\ IsPM(m)
                                    BY <4>1, <4>2, <5>2
                              <6>2. \E m2 : IsPM(m2) /\ (Known(p) =>
                                       ReadParam(Reader(m, ParamBytes(p) \o q)) = Reader(m2, q))
                                    BY ONLY <6>1, ReadParamTakes
                              <6> QED BY <5>4, <6>2
                        <5> QED BY <3>2, <4>1, <5>1, <5>5 DEF a
                  <4> QED BY <4>4, <4>5, <4>6
            <3> QED BY <2>9, <3>3, <3>4
      <2> HIDE DEF Good
      <2>10. ASSUME NEW i \in S PROVE i + 1 \in S
            <3> SUFFICES ASSUME i + 1 <= k PROVE Good(i + 1)
                BY <2>10
            <3>1. i \in Nat /\ i < k /\ i <= k
                  BY <1>1, <2>10
            <3>2. Good(i)
                  BY <2>10, <3>1
            <3> QED BY <2>9, <3>1, <3>2
      <2>11. S = Nat
            <3>1. S \in SUBSET Nat
                  OBVIOUS
            <3> HIDE DEF S
            <3> QED BY <2>8, <2>10, <3>1, SetInduction
      <2>12. Good(k)
            <3>1. k \in Nat /\ k <= k
                  BY <1>1
            <3>2. k \in S
                  BY <2>11, <3>1
            <3> QED BY <3>1, <3>2
      <2>13. \E m : F[k] = Out(m)
            BY <1>3, <2>12 DEF Good
      <2> QED BY <2>7, <2>13 DEF st
<1> QED BY <1>5, <1>6

\* The parameters that have been read are those of S.
ParamsRead(r, m, S, rest) ==
    r \in {Reader(Put(m, "Params", S), rest), Failed(Put(m, "Params", S), rest)}

\* What Subscribe and Announce keep.
KeptOrNone(ps) == IF \E i \in DOMAIN ps : Unknown(ps[i]) THEN {} ELSE Kept(ps)

\* Both ways to read the parameters take all their cells.
LEMMA ReadParamsTakes ==
    ASSUME NEW ps \in Seq(Param), NEW rest \in Cells, NEW m,
           \A i \in 1 .. Len(ps) - 1 : Known(ps[i])
    PROVE  /\ ParamsRead(ReadParams(Reader(m, ParamsBytes(ps) \o rest)), m, KeptOrNone(ps), rest)
           /\ ParamsRead(ReadParamsLeniently(Reader(m, ParamsBytes(ps) \o rest)), m, Kept(ps), rest)
<1> DEFINE st == Reader(m, ParamsBytes(ps) \o rest)
           r == ParseParams(st)
<1> DEFINE Odd == \E i \in DOMAIN ps : Unknown(ps[i])
<1>1. PICK q : q.Params = Kept(ps) /\ IF Odd THEN r = Failed(q, rest) ELSE r = Reader(q, rest)
      <2>1. Odd <=> \E i \in DOMAIN ps : ~Known(ps[i])
            BY DEF Known, Unknown
      <2> HIDE DEF Odd
      <2> QED BY <2>1, ParseParamsTakes
<1>2. st.msg = m
      BY ReaderFacts, ZenonT(30)
<1> DEFINE T == IF r.err THEN {} ELSE r.msg.Params
           U == r.msg.Params
<1>3. /\ ReadParams(st) = [r EXCEPT !.msg = Put(m, "Params", T)]
      /\ ReadParamsLeniently(st) = [r EXCEPT !.msg = Put(m, "Params", U)]
      <2> HIDE DEF st
      <2> QED BY <1>2 DEF ReadParams, ReadParamsLeniently, Put
<1> HIDE DEF st, r
<1>4. CASE ~Odd /\ r = Reader(q, rest)
      <2>1. r.err = FALSE /\ r.msg = q
            BY <1>4 DEF Reader
      <2>2. T = KeptOrNone(ps) /\ U = Kept(ps)
            BY <1>1, <1>4, <2>1 DEF KeptOrNone
      <2> HIDE DEF T, U
      <2>3. /\ ReadParams(st) = Reader(Put(m, "Params", T), rest)
            /\ ReadParamsLeniently(st) = Reader(Put(m, "Params", U), rest)
            BY <1>3, <1>4, SetMsg
      <2> QED BY <2>2, <2>3 DEF ParamsRead, st
<1>5. CASE Odd /\ r = Failed(q, rest)
      <2>0. T = KeptOrNone(ps) /\ U = Kept(ps)
            <3>1. r.err = TRUE /\ r.msg = q
                  BY <1>5 DEF Failed
            <3> QED BY <1>1, <1>5, <3>1 DEF KeptOrNone
      <2> HIDE DEF T, U
      <2>1. \A k : [r EXCEPT !.msg = k] = Failed(k, rest)
            <3> SUFFICES ASSUME NEW k PROVE [r EXCEPT !.msg = k] = Failed(k, rest)
                OBVIOUS
            <3>1. [Failed(q, rest) EXCEPT !.msg = k] = Failed(k, rest)
                  <4> DEFINE yes == TRUE
                             no == FALSE
                  <4> HIDE DEF yes, no
                  <4>1. [RS(q, rest, yes, no) EXCEPT !.msg = k] = RS(k, rest, yes, no)
                        BY RSFacts
                  <4> QED BY <4>1 DEF RS, Failed, yes, no
            <3> QED BY <1>5, <3>1
      <2>2. /\ ReadParams(st) = Failed(Put(m, "Params", T), rest)
            /\ ReadParamsLeniently(st) = Failed(Put(m, "Params", U), rest)
            BY <1>3, <2>1
      <2> QED BY <2>0, <2>2 DEF ParamsRead, st
<1> QED BY <1>1, <1>4, <1>5

\* Parameters that are cut off leave the reader at the end of the input.
LEMMA ReadParamsCut ==
    ASSUME NEW ps \in Seq(Param), NEW c, Cut(c, ParamsBytes(ps)), NEW m,
           \A i \in 1 .. Len(ps) - 1 : Known(ps[i])
    PROVE  /\ \E n : ReadParams(Reader(m, c)) = Out(n)
           /\ \E n : ReadParamsLeniently(Reader(m, c)) = Out(n)
<1> DEFINE st == Reader(m, c)
           r == ParseParams(st)
<1>1. PICK q : r = Out(q)
      BY ParseParamsCut
<1> DEFINE T == IF r.err THEN {} ELSE r.msg.Params
           U == r.msg.Params
<1>2. st.msg = m
      BY ReaderFacts, ZenonT(30)
<1>3. /\ ReadParams(st) = [r EXCEPT !.msg = Put(m, "Params", T)]
      /\ ReadParamsLeniently(st) = [r EXCEPT !.msg = Put(m, "Params", U)]
      <2> HIDE DEF st
      <2> QED BY <1>2 DEF ReadParams, ReadParamsLeniently, Put
<1> HIDE DEF st, r, T, U
<1>4. /\ ReadParams(st) = Out(Put(m, "Params", T))
      /\ ReadParamsLeniently(st) = Out(Put(m, "Params", U))
      BY <1>1, <1>3, SetMsg
<1> QED BY <1>4 DEF st

\* A reader that failed before the parameters reads none.
LEMMA ReadParamsOut ==
    ASSUME NEW m
    PROVE  /\ \E n : ReadParams(Out(m)) = Out(n)
           /\ \E n : ReadParamsLeniently(Out(m)) = Out(n)
<1> DEFINE st == Out(m)
           n == Out(NoParams)
           r == ParseParams(st)
<1>1. [st EXCEPT !.msg = NoParams] = n
      BY SetMsg
<1>2. ReadInt(n, "plength") = n /\ n.err = TRUE /\ st.msg = m
      BY ReadIntOut, ReaderFacts
<1>3. r = n
      <2> HIDE DEF st, n
      <2>1. n = ReadInt([st EXCEPT !.msg = NoParams], "plength")
            BY <1>1, <1>2
      <2> QED BY <1>2, <2>1, ParseParamsSteps
<1> DEFINE T == IF r.err THEN {} ELSE r.msg.Params
           U == r.msg.Params
<1>4. /\ ReadParams(st) = [r EXCEPT !.msg = Put(m, "Params", T)]
      /\ ReadParamsLeniently(st) = [r EXCEPT !.msg = Put(m, "Params", U)]
      <2> HIDE DEF st
      <2> QED BY <1>2 DEF ReadParams, ReadParamsLeniently, Put
<1> HIDE DEF st, r, T, U
<1>5. /\ ReadParams(st) = Out(Put(m, "Params", T))
      /\ ReadParamsLeniently(st) = Out(Put(m, "Params", U))
      BY <1>3, <1>4, SetMsg
<1> QED BY <1>5 DEF st

-----------------------------------------------------------------------------
\* The reader st has filled in m, and b is next on the wire: all of it, with rest
\* behind it, or (if t is not "whole") what is left of it when the stream has ended
\* in it, or before it.
Before(st, m, b, rest, t) ==
    IF t = "whole" THEN st = Reader(m, b \o rest)
    ELSE (\E n : st = Out(n)) \/ (\E p : st = Reader(m, p) /\ Cut(p, b))
Arrives(w, b, rest, t) == IF t = "whole" THEN w = b \o rest ELSE Cut(w, b)

\* A Parse begins before all of its message.
LEMMA BeforeStart ==
    ASSUME NEW w, NEW b, NEW rest, NEW t, Arrives(w, b, rest, t), NEW m
    PROVE  Before(Reader(m, w), m, b, rest, t)
    BY DEF Arrives, Before

\* Reading a number, what is next is what follows it.
LEMMA BeforeInt ==
    ASSUME NEW st, NEW m, NEW v \in Nat, NEW b \in Cells, NEW rest \in Cells, NEW t,
           Before(st, m, <<v>> \o b, rest, t), NEW f
    PROVE  Before(ReadInt(st, f), Put(m, f, v), b, rest, t)
<1>1. CASE t = "whole"
      <2>1. st = Reader(m, (<<v>> \o b) \o rest)
            BY <1>1 DEF Before
      <2>2. (<<v>> \o b) \o rest = <<v>> \o (b \o rest) /\ b \o rest \in Cells
            BY ConcatAssoc, CellsFacts, SMTT(30)
      <2>3. ReadInt(st, f) = Reader(Put(m, f, v), b \o rest)
            BY <2>1, <2>2, ReadIntTakes, ZenonT(30)
      <2> QED BY <1>1, <2>3 DEF Before
<1>2. CASE t # "whole" /\ \E n : st = Out(n)
      <2>1. PICK n : st = Out(n)
            BY <1>2
      <2>2. ReadInt(st, f) = Out(n)
            BY <2>1, ReadIntOut
      <2> QED BY <1>2, <2>2 DEF Before
<1>3. CASE t # "whole" /\ \E p : st = Reader(m, p) /\ Cut(p, <<v>> \o b)
      <2>1. PICK p : st = Reader(m, p) /\ Cut(p, <<v>> \o b)
            BY <1>3
      <2>2. CASE p = << >>
            <3>1. ReadInt(st, f) = Out(m)
                  BY <2>1, <2>2, ReadIntOut
            <3> QED BY <1>3, <3>1 DEF Before
      <2>3. CASE \E r : p = <<v>> \o r /\ Cut(r, b)
            <3>1. PICK r : p = <<v>> \o r /\ Cut(r, b)
                  BY <2>3
            <3>2. r \in Cells
                  BY <3>1 DEF Cut
            <3>3. ReadInt(st, f) = Reader(Put(m, f, v), r)
                  BY <2>1, <3>1, <3>2, ReadIntTakes
            <3> QED BY <1>3, <3>1, <3>3 DEF Before
      <2> QED BY <2>1, <2>2, <2>3, CutCell
<1> QED BY <1>1, <1>2, <1>3 DEF Before

\* Reading a string, what is next is what follows it.
LEMMA BeforeString ==
    ASSUME NEW st, NEW m, NEW s \in Cells, NEW b \in Cells, NEW rest \in Cells, NEW t,
           Before(st, m, PutString(s) \o b, rest, t), NEW f
    PROVE  /\ Before(ReadString(st, f), Put(m, f, s), b, rest, t)
           /\ (\A n : st # Out(n)) => Before(ReadList(st, f), Put(m, f, s), b, rest, t)
<1>0. PutString(s) \in Cells
      BY StringFacts
<1>1. CASE t = "whole"
      <2>1. st = Reader(m, (PutString(s) \o b) \o rest)
            BY <1>1 DEF Before
      <2>2. (PutString(s) \o b) \o rest = PutString(s) \o (b \o rest) /\ b \o rest \in Cells
            BY <1>0, ConcatAssoc, CellsFacts
      <2>3. /\ ReadString(st, f) = Reader(Put(m, f, s), b \o rest)
            /\ ReadList(st, f) = Reader(Put(m, f, s), b \o rest)
            BY <2>1, <2>2, ReadStringTakes
      <2> QED BY <1>1, <2>3 DEF Before
<1>2. CASE t # "whole" /\ \E n : st = Out(n)
      <2>1. PICK n : st = Out(n)
            BY <1>2
      <2>2. ReadString(st, f) = Out(n)
            BY <2>1, ReadStringOut
      <2> QED BY <1>2, <2>2 DEF Before
<1>3. CASE t # "whole" /\ \E p : st = Reader(m, p) /\ Cut(p, PutString(s) \o b)
      <2>1. PICK p : st = Reader(m, p) /\ Cut(p, PutString(s) \o b)
            BY <1>3
      <2>2. CASE Cut(p, PutString(s))
            <3>1. ReadString(st, f) = Out(m) /\ \E n : ReadList(st, f) = Out(n)
                  BY <2>1, <2>2, ReadStringCut
            <3> QED BY <1>3, <3>1 DEF Before
      <2>3. CASE \E r : p = PutString(s) \o r /\ Cut(r, b)
            <3>1. PICK r : p = PutString(s) \o r /\ Cut(r, b)
                  BY <2>3
            <3>2. r \in Cells
                  BY <3>1 DEF Cut
            <3>3. /\ ReadString(st, f) = Reader(Put(m, f, s), r)
                  /\ ReadList(st, f) = Reader(Put(m, f, s), r)
                  BY <2>1, <3>1, <3>2, ReadStringTakes
            <3> QED BY <1>3, <3>1, <3>3 DEF Before
      <2> QED BY <1>0, <2>1, <2>2, <2>3, CutConcat
<1> QED BY <1>1, <1>2, <1>3 DEF Before

\* There is nothing left of the message.
LEMMA NothingCut == \A p : ~Cut(p, << >>)
<1> SUFFICES ASSUME NEW p, Cut(p, << >>) PROVE FALSE
    OBVIOUS
<1>1. Len(p) < 0 /\ Len(p) \in Nat
      BY CutShort, CellsFacts
<1> QED BY <1>1

\* Behind the last field the message is read, or the input has run out.
LEMMA BeforeEnd ==
    ASSUME NEW st, NEW m, NEW rest \in Cells, NEW t, Before(st, m, << >>, rest, t)
    PROVE  IF t = "whole" THEN st = Reader(m, rest) ELSE \E n : st = Out(n)
    BY NothingCut, ConcatEmpty DEF Before

\* Reading the parameters, what is next is what follows them.
LEMMA BeforeParams ==
    ASSUME NEW st, NEW m, NEW ps \in Seq(Param), NEW rest \in Cells, NEW t,
           Before(st, m, ParamsBytes(ps), rest, t),
           \A i \in 1 .. Len(ps) - 1 : Known(ps[i])
    PROVE  IF t = "whole"
           THEN /\ ParamsRead(ReadParams(st), m, KeptOrNone(ps), rest)
                /\ ParamsRead(ReadParamsLeniently(st), m, Kept(ps), rest)
           ELSE (\E n : ReadParams(st) = Out(n)) /\ (\E n : ReadParamsLeniently(st) = Out(n))
<1>1. CASE t = "whole"
      <2>1. st = Reader(m, ParamsBytes(ps) \o rest)
            BY <1>1 DEF Before
      <2> QED BY <1>1, <2>1, ReadParamsTakes
<1>2. CASE t # "whole" /\ \E n : st = Out(n)
      BY <1>2, ReadParamsOut
<1>3. CASE t # "whole" /\ \E p : st = Reader(m, p) /\ Cut(p, ParamsBytes(ps))
      <2>1. PICK p : st = Reader(m, p) /\ Cut(p, ParamsBytes(ps))
            BY <1>3
      <2>2. (\E n : ReadParams(Reader(m, p)) = Out(n))
            /\ (\E n : ReadParamsLeniently(Reader(m, p)) = Out(n))
            BY <2>1, ReadParamsCut
      <2> QED BY <1>3, <2>1, <2>2
<1> QED BY <1>1, <1>2, <1>3 DEF Before

-----------------------------------------------------------------------------
\* Cells that are written together are read one by one.
LEMMA Pair ==
    ASSUME NEW a \in Nat, NEW b \in Nat
    PROVE  <<a, b>> = <<a>> \o <<b>>
<1> DEFINE u == <<a>> \o <<b>>
           w == <<a, b>>
<1>1. u \in Seq(Nat) /\ Len(u) = 2 /\ u[1] = a /\ u[2] = b
      OBVIOUS
<1>2. w \in Seq(Nat) /\ Len(w) = 2 /\ w[1] = a /\ w[2] = b
      OBVIOUS
<1> HIDE DEF u, w
<1>3. u = w
      BY <1>1, <1>2, SeqEqual
<1> QED BY <1>3 DEF u, w

\* The first cell of a message, its type.
LEMMA ArrivesCell ==
    ASSUME NEW w, NEW v \in Nat, NEW b \in Cells, NEW rest \in Cells, NEW t,
           Arrives(w, <<v>> \o b, rest, t)
    PROVE  \/ t # "whole" /\ w = << >>
           \/ w # << >> /\ Head(w) = v /\ Arrives(Tail(w), b, rest, t)
<1>1. CASE t = "whole"
      <2>1. <<v>> \in Cells /\ b \o rest \in Cells
            BY CellsFacts
      <2>2. w = <<v>> \o (b \o rest)
            BY <1>1, <2>1, ConcatAssoc DEF Arrives
      <2>3. w # << >> /\ Head(w) = v /\ Tail(w) = b \o rest
            BY <2>1, <2>2, FrontCell
      <2> QED BY <1>1, <2>3 DEF Arrives
<1>2. CASE t # "whole"
      <2>1. w = << >> \/ \E r : w = <<v>> \o r /\ Cut(r, b)
            BY <1>2, CutCell DEF Arrives
      <2>2. ASSUME NEW r, w = <<v>> \o r, Cut(r, b)
            PROVE  w # << >> /\ Head(w) = v /\ Arrives(Tail(w), b, rest, t)
            <3>1. r \in Cells
                  BY <2>2 DEF Cut
            <3>2. w # << >> /\ Head(w) = v /\ Tail(w) = r
                  BY <2>2, <3>1, FrontCell
            <3> QED BY <1>2, <2>2, <3>2 DEF Arrives
      <2> QED BY <1>2, <2>1, <2>2
<1> QED BY <1>1, <1>2

\* ParseMOQTStream reads a stream's header as it was sent, or fails if it is cut off.
LEMMA GroupHeaderRead ==
    ASSUME NEW h \in [type : {STREAM_HEADER_GROUP}, SubID : Nat, TrackAlias : Nat, GroupID : Nat,
                      SendOrder : Nat],
           NEW rest \in Cells, NEW t, NEW w, Arrives(w, GroupHeaderBytes(h, h.SubID), rest, t)
    PROVE  LET r == ParseMOQTStream(w) IN
           IF t = "whole" THEN r.msg = h /\ r.in = rest /\ r.end = FALSE
           ELSE r.in = << >> /\ r.end = TRUE
<1>1. /\ h.SubID \in Nat /\ h.TrackAlias \in Nat /\ h.GroupID \in Nat /\ h.SendOrder \in Nat
      /\ h = [type |-> STREAM_HEADER_GROUP, SubID |-> h.SubID, TrackAlias |-> h.TrackAlias,
              GroupID |-> h.GroupID, SendOrder |-> h.SendOrder]
      OBVIOUS
<1>2. STREAM_HEADER_GROUP \in Nat
      BY DEF STREAM_HEADER_GROUP
<1>3. PICK x, y, z, u, v \in Cells :
         /\ GroupHeaderBytes(h, h.SubID) = <<STREAM_HEADER_GROUP>> \o x /\ x = <<h.SubID>> \o y
         /\ y = <<h.TrackAlias>> \o z /\ z = <<h.GroupID>> \o u /\ u = <<h.SendOrder>> \o v /\ v = << >>
      <2>1. GroupHeaderBytes(h, h.SubID)
               = <<STREAM_HEADER_GROUP, h.SubID, h.TrackAlias, h.GroupID, h.SendOrder>>
            BY DEF GroupHeaderBytes
      <2> DEFINE T == STREAM_HEADER_GROUP
                 s == h.SubID
                 a == h.TrackAlias
                 g == h.GroupID
                 o == h.SendOrder
      <2>2. T \in Nat /\ s \in Nat /\ a \in Nat /\ g \in Nat /\ o \in Nat
            BY <1>1, <1>2
      <2> HIDE DEF T, s, a, g, o
      <2>3. \E x, y, z, u, v \in Cells :
               /\ <<T, s, a, g, o>> = <<T>> \o x /\ x = <<s>> \o y /\ y = <<a>> \o z
               /\ z = <<g>> \o u /\ u = <<o>> \o v /\ v = << >>
            <3> DEFINE x == <<s, a, g, o>>
                       y == <<a, g, o>>
                       z == <<g, o>>
                       u == <<o>>
                       v == << >>
            <3>1. x \in Cells /\ y \in Cells /\ z \in Cells /\ u \in Cells /\ v \in Cells
                  BY <2>2 DEF Cells
            <3>2. <<T, s, a, g, o>> = <<T>> \o x
                  BY <2>2
            <3>3. x = <<s>> \o y
                  BY <2>2
            <3>4. y = <<a>> \o z
                  BY <2>2
            <3>5. z = <<g>> \o u
                  BY <2>2, Pair
            <3>6. u = <<o>> \o v
                  BY <2>2
            <3> HIDE DEF x, y, z, u
            <3> QED BY <3>1, <3>2, <3>3, <3>4, <3>5, <3>6
      <2> QED BY <2>1, <2>3 DEF T, s, a, g, o
<1>4. \/ t # "whole" /\ w = << >>
      \/ w # << >> /\ Head(w) = STREAM_HEADER_GROUP /\ Arrives(Tail(w), x, rest, t)
      <2>1. Arrives(w, <<STREAM_HEADER_GROUP>> \o x, rest, t)
            BY <1>3
      <2> QED BY ONLY <1>2, <2>1, x \in Cells, rest \in Cells, ArrivesCell
<1>5. CASE t # "whole" /\ w = << >>
      BY <1>5 DEF ParseMOQTStream
<1>6. CASE w # << >> /\ Head(w) = STREAM_HEADER_GROUP /\ Arrives(Tail(w), x, rest, t)
      <2> DEFINE s0 == Reader(NoGroupHeader, Tail(w))
                 s1 == ReadInt(s0, "SubID")
                 s2 == ReadInt(s1, "TrackAlias")
                 s3 == ReadInt(s2, "GroupID")
                 s4 == ReadInt(s3, "SendOrder")
                 m1 == Put(NoGroupHeader, "SubID", h.SubID)
                 m2 == Put(m1, "TrackAlias", h.TrackAlias)
                 m3 == Put(m2, "GroupID", h.GroupID)
                 m4 == Put(m3, "SendOrder", h.SendOrder)
      <2>1. Before(s0, NoGroupHeader, x, rest, t)
            BY <1>6, BeforeStart
      <2> HIDE DEF s0
      <2>2. Before(s1, m1, y, rest, t)
            BY <1>1, <1>3, <2>1, BeforeInt
      <2>3. m1 = [type |-> STREAM_HEADER_GROUP, SubID |-> h.SubID, TrackAlias |-> 0,
                  GroupID |-> 0, SendOrder |-> 0]
            BY DEF Put, NoGroupHeader
      <2> HIDE DEF s1, m1
      <2>4. Before(s2, m2, z, rest, t)
            BY <1>1, <1>3, <2>2, BeforeInt
      <2>5. m2 = [type |-> STREAM_HEADER_GROUP, SubID |-> h.SubID, TrackAlias |-> h.TrackAlias,
                  GroupID |-> 0, SendOrder |-> 0]
            BY <2>3 DEF Put
      <2> HIDE DEF s2, m2
      <2>6. Before(s3, m3, u, rest, t)
            BY <1>1, <1>3, <2>4, BeforeInt
      <2>7. m3 = [type |-> STREAM_HEADER_GROUP, SubID |-> h.SubID, TrackAlias |-> h.TrackAlias,
                  GroupID |-> h.GroupID, SendOrder |-> 0]
            BY <2>5 DEF Put
      <2> HIDE DEF s3, m3
      <2>8. Before(s4, m4, v, rest, t)
            BY <1>1, <1>3, <2>6, BeforeInt
      <2>9. m4 = [type |-> STREAM_HEADER_GROUP, SubID |-> h.SubID, TrackAlias |-> h.TrackAlias,
                  GroupID |-> h.GroupID, SendOrder |-> h.SendOrder]
            BY <2>7 DEF Put
      <2>10. ReadInts(s1, <<"TrackAlias", "GroupID", "SendOrder">>) = s4
            BY ReadInts3 DEF s2, s3
      <2> HIDE DEF s4, m4
      <2>11. IF t = "whole" THEN s4 = Reader(h, rest) ELSE \E n : s4 = Out(n)
            <3>1. m4 = h
                  BY <1>1, <2>9
            <3>2. Before(s4, h, << >>, rest, t)
                  BY <1>3, <2>8, <3>1
            <3> QED BY <3>2, BeforeEnd
      <2>12. ParseMOQTStream(w) = [msg |-> s4.msg, in |-> s4.in, end |-> s4.err, short |-> s4.short]
            <3>1. GroupStreamParse(ReadInt(Reader(NoGroupHeader, Tail(w)), "SubID")) = s4
                  BY <2>10 DEF GroupStreamParse, s0, s1
            <3> QED BY <1>6, <3>1 DEF ParseMOQTStream, STREAM_HEADER_GROUP, STREAM_HEADER_TRACK
      <2>13. ASSUME t = "whole" PROVE s4.msg = h /\ s4.in = rest /\ s4.err = FALSE
            BY <2>11, <2>13 DEF Reader
      <2>14. ASSUME t # "whole" PROVE s4.in = << >> /\ s4.err = TRUE
            BY <2>11, <2>14 DEF Out
      <2> DEFINE r == ParseMOQTStream(w)
      <2>15. r.msg = s4.msg /\ r.in = s4.in /\ r.end = s4.err
            BY <2>12
      <2> HIDE DEF r
      <2>16. IF t = "whole" THEN r.msg = h /\ r.in = rest /\ r.end = FALSE
             ELSE r.in = << >> /\ r.end = TRUE
            BY <2>13, <2>14, <2>15
      <2> QED BY <2>16 DEF r
<1> QED BY <1>4, <1>5, <1>6

\* The header of a TRACK stream is read as sent, or fails if it is cut off.
LEMMA TrackHeaderRead ==
    ASSUME NEW h \in [type : {STREAM_HEADER_TRACK}, SubID : Nat, TrackAlias : Nat, SendOrder : Nat],
           NEW rest \in Cells, NEW t, NEW w, Arrives(w, TrackHeaderBytes(h, h.SubID), rest, t)
    PROVE  LET r == ParseMOQTStream(w) IN
           IF t = "whole" THEN r.msg = h /\ r.in = rest /\ r.end = FALSE
           ELSE r.in = << >> /\ r.end = TRUE
<1>1. /\ h.SubID \in Nat /\ h.TrackAlias \in Nat /\ h.SendOrder \in Nat
      /\ h = [type |-> STREAM_HEADER_TRACK, SubID |-> h.SubID, TrackAlias |-> h.TrackAlias,
              SendOrder |-> h.SendOrder]
      OBVIOUS
<1>2. STREAM_HEADER_TRACK \in Nat
      BY DEF STREAM_HEADER_TRACK
<1>3. PICK x, y, z, v \in Cells :
         /\ TrackHeaderBytes(h, h.SubID) = <<STREAM_HEADER_TRACK>> \o x /\ x = <<h.SubID>> \o y
         /\ y = <<h.TrackAlias>> \o z /\ z = <<h.SendOrder>> \o v /\ v = << >>
      <2>1. TrackHeaderBytes(h, h.SubID)
               = <<STREAM_HEADER_TRACK, h.SubID, h.TrackAlias, h.SendOrder>>
            BY DEF TrackHeaderBytes
      <2> DEFINE T == STREAM_HEADER_TRACK
                 s == h.SubID
                 a == h.TrackAlias
                 o == h.SendOrder
      <2>2. T \in Nat /\ s \in Nat /\ a \in Nat /\ o \in Nat
            BY <1>1, <1>2
      <2> HIDE DEF T, s, a, o
      <2>3. \E x, y, z, v \in Cells :
               /\ <<T, s, a, o>> = <<T>> \o x /\ x = <<s>> \o y /\ y = <<a>> \o z
               /\ z = <<o>> \o v /\ v = << >>
            <3> DEFINE x == <<s, a, o>>
                       y == <<a, o>>
                       z == <<o>>
                       v == << >>
            <3>1. x \in Cells /\ y \in Cells /\ z \in Cells /\ v \in Cells
                  BY <2>2 DEF Cells
            <3>2. <<T, s, a, o>> = <<T>> \o x
                  BY <2>2
            <3>3. x = <<s>> \o y
                  BY <2>2
            <3>4. y = <<a>> \o z
                  BY <2>2, Pair
            <3>5. z = <<o>> \o v
                  BY <2>2
            <3> HIDE DEF x, y, z
            <3> QED BY <3>1, <3>2, <3>3, <3>4, <3>5
      <2> QED BY <2>1, <2>3 DEF T, s, a, o
<1>4. \/ t # "whole" /\ w = << >>
      \/ w # << >> /\ Head(w) = STREAM_HEADER_TRACK /\ Arrives(Tail(w), x, rest, t)
      <2>1. Arrives(w, <<STREAM_HEADER_TRACK>> \o x, rest, t)
            BY <1>3
      <2> QED BY ONLY <1>2, <2>1, x \in Cells, rest \in Cells, ArrivesCell
<1>5. CASE t # "whole" /\ w = << >>
      BY <1>5 DEF ParseMOQTStream
<1>6. CASE w # << >> /\ Head(w) = STREAM_HEADER_TRACK /\ Arrives(Tail(w), x, rest, t)
      <2> DEFINE s0 == Reader(NoTrackHeader, Tail(w))
                 s1 == ReadInt(s0, "SubID")
                 s2 == ReadInt(s1, "TrackAlias")
                 s3 == ReadInt(s2, "SendOrder")
                 m1 == Put(NoTrackHeader, "SubID", h.SubID)
                 m2 == Put(m1, "TrackAlias", h.TrackAlias)
                 m3 == Put(m2, "SendOrder", h.SendOrder)
      <2>1. Before(s0, NoTrackHeader, x, rest, t)
            BY <1>6, BeforeStart
      <2> HIDE DEF s0
      <2>2. Before(s1, m1, y, rest, t)
            BY <1>1, <1>3, <2>1, BeforeInt
      <2>3. m1 = [type |-> STREAM_HEADER_TRACK, SubID |-> h.SubID, TrackAlias |-> 0, SendOrder |-> 0]
            BY DEF Put, NoTrackHeader
      <2> HIDE DEF s1, m1
      <2>4. Before(s2, m2, z, rest, t)
            BY <1>1, <1>3, <2>2, BeforeInt
      <2>5. m2 = [type |-> STREAM_HEADER_TRACK, SubID |-> h.SubID, TrackAlias |-> h.TrackAlias,
                  SendOrder |-> 0]
            BY <2>3 DEF Put
      <2> HIDE DEF s2, m2
      <2>6. Before(s3, m3, v, rest, t)
            BY <1>1, <1>3, <2>4, BeforeInt
      <2>7. m3 = [type |-> STREAM_HEADER_TRACK, SubID |-> h.SubID, TrackAlias |-> h.TrackAlias,
                  SendOrder |-> h.SendOrder]
            BY <2>5 DEF Put
      <2>8. ReadInts(s1, <<"TrackAlias", "SendOrder">>) = s3
            BY ReadInts2 DEF s2
      <2> HIDE DEF s3, m3
      <2>9. IF t = "whole" THEN s3 = Reader(h, rest) ELSE \E n : s3 = Out(n)
            <3>1. m3 = h
                  BY <1>1, <2>7
            <3>2. Before(s3, h, << >>, rest, t)
                  BY <1>3, <2>6, <3>1
            <3> QED BY <3>2, BeforeEnd
      <2>10. ParseMOQTStream(w) = [msg |-> s3.msg, in |-> s3.in, end |-> s3.err, short |-> s3.short]
            <3>1. TrackStreamParse(ReadInt(Reader(NoTrackHeader, Tail(w)), "SubID")) = s3
                  BY <2>8 DEF TrackStreamParse, s0, s1
            <3> QED BY <1>6, <3>1 DEF ParseMOQTStream, STREAM_HEADER_GROUP, STREAM_HEADER_TRACK
      <2>11. ASSUME t = "whole" PROVE s3.msg = h /\ s3.in = rest /\ s3.err = FALSE
            BY <2>9, <2>11 DEF Reader
      <2>12. ASSUME t # "whole" PROVE s3.in = << >> /\ s3.err = TRUE
            BY <2>9, <2>12 DEF Out
      <2> DEFINE r == ParseMOQTStream(w)
      <2>13. r.msg = s3.msg /\ r.in = s3.in /\ r.end = s3.err
            BY <2>10
      <2> HIDE DEF r
      <2>14. IF t = "whole" THEN r.msg = h /\ r.in = rest /\ r.end = FALSE
             ELSE r.in = << >> /\ r.end = TRUE
            BY <2>11, <2>12, <2>13
      <2> QED BY <2>14 DEF r
<1> QED BY <1>4, <1>5, <1>6

\* Either header is read as sent, or fails if it is cut off.
LEMMA HeaderRead ==
    ASSUME NEW h \in StreamHeader, NEW rest \in Cells, NEW t, NEW w,
           Arrives(w, HeaderBytes(h, h.SubID), rest, t)
    PROVE  LET r == ParseMOQTStream(w) IN
           IF t = "whole" THEN r.msg = h /\ r.in = rest /\ r.end = FALSE
           ELSE r.in = << >> /\ r.end = TRUE
<1>1. CASE h \in [type : {STREAM_HEADER_GROUP}, SubID : Nat, TrackAlias : Nat, GroupID : Nat,
                  SendOrder : Nat]
      <2>1. HeaderBytes(h, h.SubID) = GroupHeaderBytes(h, h.SubID)
            BY <1>1 DEF HeaderBytes
      <2>2. Arrives(w, GroupHeaderBytes(h, h.SubID), rest, t)
            BY <2>1
      <2> QED BY <1>1, <2>2, GroupHeaderRead
<1>2. CASE h \in [type : {STREAM_HEADER_TRACK}, SubID : Nat, TrackAlias : Nat, SendOrder : Nat]
      <2>1. h.type = STREAM_HEADER_TRACK
            BY <1>2
      <2>2. HeaderBytes(h, h.SubID) = TrackHeaderBytes(h, h.SubID)
            BY <2>1 DEF HeaderBytes, STREAM_HEADER_GROUP, STREAM_HEADER_TRACK
      <2>3. Arrives(w, TrackHeaderBytes(h, h.SubID), rest, t)
            BY <2>2
      <2> QED BY <1>2, <2>3, TrackHeaderRead
<1> QED BY <1>1, <1>2 DEF StreamHeader

\* A header is at least one cell.
LEMMA HeaderCells ==
    ASSUME NEW h \in StreamHeader
    PROVE  /\ HeaderBytes(h, h.SubID) \in Cells /\ HeaderBytes(h, h.SubID) # << >>
           /\ "type" \in DOMAIN h
<1>1. CASE h \in [type : {STREAM_HEADER_GROUP}, SubID : Nat, TrackAlias : Nat, GroupID : Nat,
                  SendOrder : Nat]
      <2>1. h.SubID \in Nat /\ h.TrackAlias \in Nat /\ h.GroupID \in Nat /\ h.SendOrder \in Nat
            /\ "type" \in DOMAIN h /\ h.type = STREAM_HEADER_GROUP
            BY <1>1
      <2>2. HeaderBytes(h, h.SubID) = <<STREAM_HEADER_GROUP, h.SubID, h.TrackAlias, h.GroupID, h.SendOrder>>
            BY <2>1 DEF HeaderBytes, GroupHeaderBytes
      <2> QED BY <2>1, <2>2 DEF Cells, STREAM_HEADER_GROUP
<1>2. CASE h \in [type : {STREAM_HEADER_TRACK}, SubID : Nat, TrackAlias : Nat, SendOrder : Nat]
      <2>1. h.SubID \in Nat /\ h.TrackAlias \in Nat /\ h.SendOrder \in Nat
            /\ "type" \in DOMAIN h /\ h.type = STREAM_HEADER_TRACK
            BY <1>2
      <2>2. HeaderBytes(h, h.SubID) = <<STREAM_HEADER_TRACK, h.SubID, h.TrackAlias, h.SendOrder>>
            BY <2>1 DEF HeaderBytes, TrackHeaderBytes, STREAM_HEADER_GROUP, STREAM_HEADER_TRACK
      <2> QED BY <2>1, <2>2 DEF Cells, STREAM_HEADER_TRACK
<1> QED BY <1>1, <1>2 DEF StreamHeader

\* An object is at least one cell.
LEMMA ObjectCells ==
    ASSUME NEW o \in [ID : Nat, Payload : Seq(Nat)]
    PROVE  /\ o.ID \in Nat /\ o.Payload \in Cells /\ Len(o.Payload) \in Nat
           /\ o = [ID |-> o.ID, Payload |-> o.Payload] /\ "type" \notin DOMAIN o
           /\ ObjectBytes(o) = <<o.ID>> \o (<<Len(o.Payload)>> \o o.Payload)
           /\ <<Len(o.Payload)>> \o o.Payload \in Cells
           /\ ObjectBytes(o) \in Cells /\ ObjectBytes(o) # << >>
<1>1. o.ID \in Nat /\ o.Payload \in Cells /\ o = [ID |-> o.ID, Payload |-> o.Payload]
      /\ "type" \notin DOMAIN o
      BY DEF Cells
<1>2. Len(o.Payload) \in Nat /\ <<Len(o.Payload)>> \o o.Payload \in Cells
      BY <1>1, CellsFacts
<1>3. ObjectBytes(o) = <<o.ID>> \o (<<Len(o.Payload)>> \o o.Payload)
      BY DEF ObjectBytes, PutString
<1>4. ObjectBytes(o) \in Cells /\ ObjectBytes(o) # << >>
      BY <1>1, <1>2, <1>3, CellsFacts, FrontCell
<1> QED BY <1>1, <1>2, <1>3, <1>4

\* Object.Parse reads an object as it was sent, or with what is left of its payload.
ObjectReadAs(r, o, rest, t) ==
    IF t = "whole" THEN r.msg = o /\ r.in = rest /\ r.end = FALSE
    ELSE /\ r.in = << >>
         /\ r.end = TRUE \/ (/\ r.end = FALSE /\ r.msg.ID = o.ID
                             /\ Len(r.msg.Payload) = Len(o.Payload))

\* An object is read as sent, or with its ID and the length of its payload, or not at all.
LEMMA ObjectRead ==
    ASSUME NEW o \in [ID : Nat, Payload : Seq(Nat)], NEW rest \in Cells, NEW t, NEW w,
           Arrives(w, ObjectBytes(o), rest, t)
    PROVE  ObjectReadAs(ObjectParse(w), o, rest, t)
<1> DEFINE a == o.Payload
           k == Len(a)
           z == [ID |-> 0, length |-> 0]
           s0 == Reader(z, w)
           s1 == ReadInt(s0, "ID")
           s2 == ReadInt(s1, "length")
           m1 == Put(z, "ID", o.ID)
           m2 == Put(m1, "length", k)
<1>1. /\ o.ID \in Nat /\ a \in Cells /\ k \in Nat /\ o = [ID |-> o.ID, Payload |-> a]
      /\ ObjectBytes(o) = <<o.ID>> \o (<<k>> \o a) /\ <<k>> \o a \in Cells
      BY ObjectCells
<1> HIDE DEF a, k
<1>2. Before(s0, z, <<o.ID>> \o (<<k>> \o a), rest, t)
      BY <1>1, BeforeStart
<1>3. m1 = [ID |-> o.ID, length |-> 0]
      <2>1. z = [ID |-> 0, length |-> 0]
            OBVIOUS
      <2> HIDE DEF z
      <2> QED BY <2>1 DEF Put
<1> HIDE DEF s0, z
<1>4. Before(s1, m1, <<k>> \o a, rest, t)
      BY <1>1, <1>2, BeforeInt
<1> HIDE DEF s1, m1
<1>5. Before(s2, m2, a, rest, t)
      BY <1>1, <1>4, BeforeInt
<1>6. m2.ID = o.ID /\ m2.length = k
      BY <1>3 DEF Put
<1>7. ReadInts(s0, <<"ID", "length">>) = s2
      BY ReadInts2 DEF s1
<1> HIDE DEF s2, m2
<1> DEFINE have == IF Len(s2.in) < s2.msg.length THEN Len(s2.in) ELSE s2.msg.length
           pay == [i \in 1 .. s2.msg.length |-> IF i <= have THEN s2.in[i] ELSE 0]
           tail == SubSeq(s2.in, have + 1, Len(s2.in))
           r == ObjectParse(w)
<1>8. /\ s2.err => r = [end |-> TRUE, in |-> s2.in, short |-> s2.short]
      /\ ~s2.err => r = [msg |-> [ID |-> s2.msg.ID, Payload |-> pay], in |-> tail,
                         end |-> FALSE, short |-> have < s2.msg.length]
      BY <1>7 DEF ObjectParse, s0, z
<1> HIDE DEF r
<1>9. CASE t = "whole"
      <2>1. s2 = Reader(m2, a \o rest)
            BY <1>5, <1>9 DEF Before
      <2>2. s2.in = a \o rest /\ s2.msg = m2 /\ s2.err = FALSE
            BY <2>1 DEF Reader
      <2> DEFINE x == a \o rest
      <2>3. x \in Cells /\ Len(x) = k + Len(rest) /\ Len(rest) \in Nat
            BY <1>1, CellsFacts DEF k
      <2>4. \A i \in 1 .. k : x[i] = a[i]
            BY <1>1 DEF Cells, k
      <2>5. \A i \in 1 .. Len(rest) : x[i + k] = rest[i]
            BY <1>1 DEF Cells, k
      <2> HIDE DEF x
      <2>6. have = k
            BY <1>1, <1>6, <2>2, <2>3 DEF x
      <2>7. pay = a
            <3>1. pay = [i \in 1 .. k |-> a[i]]
                  <4>1. s2.msg.length = k /\ s2.in = x
                        BY <1>6, <2>2 DEF x
                  <4>2. pay = [i \in 1 .. k |-> IF i <= k THEN x[i] ELSE 0]
                        BY <2>6, <4>1
                  <4>3. \A i \in 1 .. k : i <= k
                        BY <1>1
                  <4> HIDE DEF pay
                  <4> QED BY <2>4, <4>2, <4>3
            <3>2. a = [i \in 1 .. k |-> a[i]]
                  BY <1>1 DEF Cells, k
            <3> QED BY <3>1, <3>2
      <2>8. tail = rest
            <3> DEFINE u == SubSeq(x, k + 1, Len(x))
            <3>1. u \in Cells /\ Len(u) = Len(rest)
                  BY <1>1, <2>3 DEF Cells
            <3>2. \A i \in 1 .. Len(rest) : u[i] = x[i + k]
                  BY <1>1, <2>3 DEF Cells
            <3> HIDE DEF u
            <3>3. u = rest
                  BY <2>5, <3>1, <3>2, SeqEqual DEF Cells
            <3>4. tail = u
                  BY <2>2, <2>6 DEF u, x
            <3> QED BY <3>3, <3>4
      <2> HIDE DEF pay, tail, have
      <2>9. r.msg = [ID |-> s2.msg.ID, Payload |-> pay] /\ r.in = tail /\ r.end = FALSE
            BY <1>8, <2>2
      <2>10. r.msg = o
            BY <1>1, <1>6, <2>2, <2>7, <2>9
      <2> QED BY <1>9, <2>8, <2>9, <2>10 DEF r, ObjectReadAs
<1>10. CASE t # "whole" /\ \E n : s2 = Out(n)
      <2>1. s2.err = TRUE /\ s2.in = << >>
            BY <1>10 DEF Out
      <2>2. r.end = TRUE /\ r.in = << >>
            BY <1>8, <2>1
      <2> QED BY <1>10, <2>2 DEF r, ObjectReadAs
<1>11. CASE t # "whole" /\ \E p : s2 = Reader(m2, p) /\ Cut(p, a)
      <2>1. PICK p : s2 = Reader(m2, p) /\ Cut(p, a)
            BY <1>11
      <2>2. s2.in = p /\ s2.msg = m2 /\ s2.err = FALSE
            BY <2>1 DEF Reader
      <2>3. p \in Cells /\ Len(p) < k /\ Len(p) \in Nat
            BY <1>1, <2>1, CutShort DEF k
      <2>4. have = Len(p)
            BY <1>6, <2>2, <2>3
      <2>5. Len(pay) = k
            <3>1. pay = [i \in 1 .. k |-> IF i <= Len(p) THEN p[i] ELSE 0]
                  BY <1>6, <2>2, <2>4
            <3> DEFINE f == [i \in 1 .. k |-> IF i <= Len(p) THEN p[i] ELSE 0]
            <3>2. \A i \in 1 .. k : (IF i <= Len(p) THEN p[i] ELSE 0) \in Nat
                  BY <2>3 DEF Cells
            <3>3. Len(f) = k
                  BY <1>1, <3>2
            <3> QED BY <3>1, <3>3
      <2>6. tail = << >>
            <3>1. tail = SubSeq(p, Len(p) + 1, Len(p))
                  BY <2>2, <2>4
            <3> DEFINE u == SubSeq(p, Len(p) + 1, Len(p))
            <3>2. u \in Seq(Nat) /\ Len(u) = 0
                  BY <2>3 DEF Cells
            <3> HIDE DEF u
            <3>3. u = << >>
                  BY <3>2
            <3> QED BY <3>1, <3>3 DEF u
      <2> HIDE DEF pay, tail, have
      <2>7. r.msg = [ID |-> s2.msg.ID, Payload |-> pay] /\ r.in = tail /\ r.end = FALSE
            BY <1>8, <2>2
      <2>8. r.msg.ID = o.ID /\ Len(r.msg.Payload) = Len(o.Payload)
            BY <1>6, <2>2, <2>5, <2>7 DEF k, a
      <2> QED BY <1>11, <2>6, <2>7, <2>8 DEF r, ObjectReadAs
<1> QED BY <1>5, <1>9, <1>10, <1>11 DEF Before

\* An object of a TRACK stream is its group, then the object.
LEMMA TrackObjectCells ==
    ASSUME NEW o \in [GroupID : Nat, ID : Nat, Payload : Seq(Nat)], NEW p,
           p = [ID |-> o.ID, Payload |-> o.Payload]
    PROVE  /\ "type" \notin DOMAIN o /\ "GroupID" \in DOMAIN o /\ o.GroupID \in Nat
           /\ o = [GroupID |-> o.GroupID, ID |-> p.ID, Payload |-> p.Payload]
           /\ p \in [ID : Nat, Payload : Seq(Nat)]
           /\ TrackObjectBytes(o) = <<o.GroupID>> \o ObjectBytes(p) /\ ObjectBytes(p) \in Cells
           /\ TrackObjectBytes(o) \in Cells /\ TrackObjectBytes(o) # << >>
<1>1. /\ "type" \notin DOMAIN o /\ "GroupID" \in DOMAIN o /\ o.GroupID \in Nat
      /\ o = [GroupID |-> o.GroupID, ID |-> p.ID, Payload |-> p.Payload]
      /\ p \in [ID : Nat, Payload : Seq(Nat)] /\ p.ID = o.ID /\ p.Payload = o.Payload
      OBVIOUS
<1>2. TrackObjectBytes(o) = <<o.GroupID>> \o ObjectBytes(p)
      BY <1>1 DEF TrackObjectBytes, ObjectBytes
<1>3. ObjectBytes(p) \in Cells
      BY <1>1, ObjectCells
<1>4. <<o.GroupID>> \o ObjectBytes(p) \in Cells /\ <<o.GroupID>> \o ObjectBytes(p) # << >>
      BY <1>1, <1>3, CellsFacts, FrontCell
<1> QED BY <1>1, <1>2, <1>3, <1>4

TrackObjectReadAs(r, o, rest, t) ==
    ObjectReadAs(r, o, rest, t) /\ (r.end = FALSE => r.msg.GroupID = o.GroupID)

\* It is read as sent, or with its group, its ID and the length of its payload, or not
\* at all.
LEMMA TrackObjectRead ==
    ASSUME NEW o \in [GroupID : Nat, ID : Nat, Payload : Seq(Nat)], NEW rest \in Cells, NEW t, NEW w,
           Arrives(w, TrackObjectBytes(o), rest, t)
    PROVE  TrackObjectReadAs(TrackReadObject(w), o, rest, t)
<1>0. PICK r : r = TrackReadObject(w)
      OBVIOUS
<1>1. PICK p : p = [ID |-> o.ID, Payload |-> o.Payload]
      OBVIOUS
<1>2. /\ o.GroupID \in Nat /\ p \in [ID : Nat, Payload : Seq(Nat)] /\ ObjectBytes(p) \in Cells
      /\ TrackObjectBytes(o) = <<o.GroupID>> \o ObjectBytes(p)
      /\ o = [GroupID |-> o.GroupID, ID |-> p.ID, Payload |-> p.Payload]
      BY <1>1, TrackObjectCells
<1>3. CASE t # "whole" /\ w = << >>
      <2>1. r = [end |-> TRUE, in |-> w, short |-> TRUE]
            BY <1>0, <1>3 DEF TrackReadObject
      <2>2. r.in = << >> /\ r.end = TRUE
            BY <1>3, <2>1
      <2>3. TrackObjectReadAs(r, o, rest, t)
            BY <1>3, <2>2 DEF TrackObjectReadAs, ObjectReadAs
      <2> QED BY <1>0, <2>3
<1>4. CASE w # << >> /\ Head(w) = o.GroupID /\ Arrives(Tail(w), ObjectBytes(p), rest, t)
      <2>1. PICK q : q = ObjectParse(Tail(w))
            OBVIOUS
      <2>2. ObjectReadAs(q, p, rest, t)
            BY <1>2, <1>4, <2>1, ObjectRead
      <2>3. r = IF q.end THEN q
                ELSE [msg |-> [GroupID |-> o.GroupID, ID |-> q.msg.ID, Payload |-> q.msg.Payload],
                      in |-> q.in, end |-> FALSE, short |-> q.short]
            BY <1>0, <1>4, <2>1 DEF TrackReadObject
      <2>4. ASSUME q.end = TRUE PROVE TrackObjectReadAs(r, o, rest, t)
            <3>1. t # "whole" /\ q.in = << >>
                  BY <2>2, <2>4 DEF ObjectReadAs
            <3>2. r = q
                  BY <2>3, <2>4
            <3> QED BY <2>4, <3>1, <3>2 DEF TrackObjectReadAs, ObjectReadAs
      <2>5. ASSUME q.end = FALSE PROVE TrackObjectReadAs(r, o, rest, t)
            <3>1. /\ r.msg.GroupID = o.GroupID /\ r.msg.ID = q.msg.ID
                  /\ r.msg.Payload = q.msg.Payload /\ r.in = q.in /\ r.end = FALSE
                  /\ r.msg = [GroupID |-> o.GroupID, ID |-> q.msg.ID, Payload |-> q.msg.Payload]
                  BY <2>3, <2>5
            <3>2. p.ID = o.ID /\ p.Payload = o.Payload
                  BY <1>1
            <3>3. CASE t = "whole"
                  <4>1. q.msg = p /\ q.in = rest
                        BY <2>2, <3>3 DEF ObjectReadAs
                  <4>2. r.msg = o
                        BY <1>2, <3>1, <4>1
                  <4> QED BY <3>1, <3>3, <4>1, <4>2 DEF TrackObjectReadAs, ObjectReadAs
            <3>4. CASE t # "whole"
                  BY <2>2, <2>5, <3>1, <3>2, <3>4 DEF TrackObjectReadAs, ObjectReadAs
            <3> QED BY <3>3, <3>4
      <2>6. q.end \in BOOLEAN
            BY <2>2 DEF ObjectReadAs
      <2> QED BY <1>0, <2>4, <2>5, <2>6
<1>5. Arrives(w, <<o.GroupID>> \o ObjectBytes(p), rest, t)
      BY <1>2
<1>6. \/ t # "whole" /\ w = << >>
      \/ w # << >> /\ Head(w) = o.GroupID /\ Arrives(Tail(w), ObjectBytes(p), rest, t)
      BY ONLY <1>2, <1>5, rest \in Cells, ArrivesCell
<1> QED BY <1>3, <1>4, <1>6

-----------------------------------------------------------------------------
\* Control messages. r is what Parse made of a message m that is followed by rest, or
\* that is cut off.
Read(r, m, rest, t) == IF t = "whole" THEN r.in = rest /\ Same(m, r.msg) ELSE r.in = << >>

\* A message without parameters is read behind its last field.
LEMMA ReadNoParams ==
    ASSUME NEW st, NEW m, "Params" \notin DOMAIN m, m.type # SUBSCRIBE_OK,
           NEW rest \in Cells, NEW t, Before(st, m, << >>, rest, t)
    PROVE  Read(st, m, rest, t)
<1>1. IF t = "whole" THEN st = Reader(m, rest) ELSE \E n : st = Out(n)
      BY BeforeEnd
<1>2. Same(m, m)
      BY DEF Same
<1>3. CASE t = "whole"
      <2>1. st.in = rest /\ st.msg = m
            BY <1>1, <1>3 DEF Reader
      <2> QED BY <1>2, <1>3, <2>1 DEF Read
<1>4. CASE t # "whole"
      <2>1. st.in = << >>
            BY <1>1, <1>4 DEF Out
      <2> QED BY <1>4, <2>1 DEF Read
<1> QED BY <1>3, <1>4

\* A message that ends in its parameters is read with them, unless it misframes.
LEMMA ReadWithParams ==
    ASSUME NEW st, NEW g, NEW m, DOMAIN g = DOMAIN m, "Params" \in DOMAIN m,
           \A f \in DOMAIN m \ {"Params"} : g[f] = m[f],
           m.Params \in Seq(Param), NEW rest \in Cells, NEW t,
           Before(st, g, ParamsBytes(m.Params), rest, t), ~Misframes(m)
    PROVE  /\ m.type \in {SUBSCRIBE, ANNOUNCE} => Read(ReadParams(st), m, rest, t)
           /\ m.type \in {CLIENT_SETUP, SERVER_SETUP} => Read(ReadParamsLeniently(st), m, rest, t)
<1>1. \A i \in 1 .. Len(m.Params) - 1 : Known(m.Params[i])
      BY DEF Misframes, Known, Unknown
<1>2. IF t = "whole"
      THEN /\ ParamsRead(ReadParams(st), g, KeptOrNone(m.Params), rest)
           /\ ParamsRead(ReadParamsLeniently(st), g, Kept(m.Params), rest)
      ELSE (\E n : ReadParams(st) = Out(n)) /\ (\E n : ReadParamsLeniently(st) = Out(n))
      <2> DEFINE ps == m.Params
      <2>1. ps \in Seq(Param) /\ Before(st, g, ParamsBytes(ps), rest, t)
            /\ \A i \in 1 .. Len(ps) - 1 : Known(ps[i])
            BY <1>1
      <2> HIDE DEF ps
      <2>2. IF t = "whole"
            THEN /\ ParamsRead(ReadParams(st), g, KeptOrNone(ps), rest)
                 /\ ParamsRead(ReadParamsLeniently(st), g, Kept(ps), rest)
            ELSE (\E n : ReadParams(st) = Out(n)) /\ (\E n : ReadParamsLeniently(st) = Out(n))
            BY <2>1, BeforeParams
      <2> QED BY <2>2 DEF ps
<1>3. ASSUME NEW r, NEW S, t = "whole", ParamsRead(r, g, S, rest), m.type # SUBSCRIBE_OK,
             S = IF m.type \in {SUBSCRIBE, ANNOUNCE} THEN KeptOrNone(m.Params) ELSE Kept(m.Params)
      PROVE  Read(r, m, rest, t)
      <2>1. r \in {Reader(Put(g, "Params", S), rest), Failed(Put(g, "Params", S), rest)}
            BY <1>3 DEF ParamsRead
      <2> DEFINE q == Put(g, "Params", S)
      <2>2. DOMAIN q = DOMAIN m /\ q.Params = S /\ \A f \in DOMAIN m \ {"Params"} : q[f] = m[f]
            BY PutFacts
      <2> HIDE DEF q
      <2>3. r.in = rest /\ r.msg = q
            <3>1. CASE r = Reader(q, rest)
                  BY <3>1 DEF Reader
            <3>2. CASE r = Failed(q, rest)
                  BY <3>2 DEF Failed
            <3> QED BY <2>1, <3>1, <3>2 DEF q
      <2>4. Same(m, q)
            <3>1. q.Params = IF /\ m.type \in {SUBSCRIBE, ANNOUNCE}
                                /\ \E i \in DOMAIN m.Params : Unknown(m.Params[i])
                             THEN {} ELSE Kept(m.Params)
                  BY <1>3, <2>2 DEF KeptOrNone
            <3> QED BY <1>3, <2>2, <3>1 DEF Same
      <2> QED BY <1>3, <2>3, <2>4 DEF Read
<1>4. ASSUME NEW r, t # "whole", \E n : r = Out(n)
      PROVE  Read(r, m, rest, t)
      <2>1. r.in = << >>
            BY <1>4 DEF Out
      <2> QED BY <1>4, <2>1 DEF Read
<1>5. ASSUME m.type \in {SUBSCRIBE, ANNOUNCE} PROVE Read(ReadParams(st), m, rest, t)
      <2>1. m.type # SUBSCRIBE_OK
            BY <1>5 DEF SUBSCRIBE, ANNOUNCE, SUBSCRIBE_OK
      <2> QED BY <1>2, <1>3, <1>4, <1>5, <2>1
<1>6. ASSUME m.type \in {CLIENT_SETUP, SERVER_SETUP}
      PROVE  Read(ReadParamsLeniently(st), m, rest, t)
      <2>1. m.type # SUBSCRIBE_OK /\ m.type \notin {SUBSCRIBE, ANNOUNCE}
            BY <1>6 DEF SUBSCRIBE, ANNOUNCE, SUBSCRIBE_OK, CLIENT_SETUP, SERVER_SETUP
      <2> QED BY <1>2, <1>3, <1>4, <1>6, <2>1
<1> QED BY <1>5, <1>6

\* AnnounceOk.Parse takes an ANNOUNCE_OK.
LEMMA AnnounceOkRead ==
    ASSUME NEW m \in [type : {ANNOUNCE_OK}, TrackNameSpace : Seq(Nat)], NEW rest \in Cells, NEW t,
           NEW w, Arrives(w, PutString(m.TrackNameSpace), rest, t)
    PROVE  Read(AnnounceOkParse(w), m, rest, t)
<1> DEFINE s == m.TrackNameSpace
           z == [type |-> ANNOUNCE_OK, TrackNameSpace |-> << >>]
           s0 == Reader(z, w)
           s1 == ReadString(s0, "TrackNameSpace")
           m1 == Put(z, "TrackNameSpace", s)
           e == << >>
<1>1. s \in Cells /\ m = [type |-> ANNOUNCE_OK, TrackNameSpace |-> s] /\ "Params" \notin DOMAIN m
      /\ m.type # SUBSCRIBE_OK
      BY DEF Cells, ANNOUNCE_OK, SUBSCRIBE_OK
<1>2. PutString(s) = PutString(s) \o e /\ e \in Cells
      BY <1>1, StringFacts, ConcatEmpty, CellsFacts
<1> HIDE DEF e, s
<1>3. Before(s0, z, PutString(s) \o e, rest, t)
      BY <1>2, BeforeStart DEF s
<1>4. m1 = m
      <2>1. z = [type |-> ANNOUNCE_OK, TrackNameSpace |-> << >>]
            OBVIOUS
      <2> HIDE DEF z
      <2> QED BY <1>1, <2>1 DEF Put
<1>5. AnnounceOkParse(w) = s1
      BY DEF AnnounceOkParse
<1> HIDE DEF s0, z
<1>6. Before(s1, m1, e, rest, t)
      BY <1>1, <1>2, <1>3, BeforeString
<1> HIDE DEF s1, m1
<1>7. Read(s1, m, rest, t)
      BY <1>1, <1>4, <1>6, ReadNoParams DEF e
<1> QED BY <1>5, <1>7

\* Announce.Parse takes an ANNOUNCE.
LEMMA AnnounceRead ==
    ASSUME NEW m \in [type : {ANNOUNCE}, TrackNameSpace : Seq(Nat), Params : Seq(Param)],
           NEW rest \in Cells, NEW t, ~Misframes(m),
           NEW w, Arrives(w, PutString(m.TrackNameSpace) \o ParamsBytes(m.Params), rest, t)
    PROVE  Read(AnnounceParse(w), m, rest, t)
<1> DEFINE s == m.TrackNameSpace
           z == [type |-> ANNOUNCE, TrackNameSpace |-> << >>, Params |-> {}]
           s0 == Reader(z, w)
           s1 == ReadString(s0, "TrackNameSpace")
           m1 == Put(z, "TrackNameSpace", s)
           e == ParamsBytes(m.Params)
<1>1. s \in Cells /\ m.Params \in Seq(Param) /\ m.type = ANNOUNCE
      /\ DOMAIN m = {"type", "TrackNameSpace", "Params"}
      BY DEF Cells
<1>2. e \in Cells
      BY <1>1, ParamCellsFacts
<1> HIDE DEF e
<1>3. Before(s0, z, PutString(s) \o e, rest, t)
      BY BeforeStart DEF e
<1>4. DOMAIN m1 = DOMAIN m /\ \A f \in DOMAIN m \ {"Params"} : m1[f] = m[f]
      <2>1. DOMAIN z = DOMAIN m /\ z.type = ANNOUNCE
            BY <1>1
      <2> HIDE DEF z
      <2> QED BY <1>1, <2>1, PutFacts
<1>5. AnnounceParse(w) = ReadParams(s1)
      BY DEF AnnounceParse
<1> HIDE DEF s0, z
<1>6. Before(s1, m1, e, rest, t)
      BY <1>1, <1>2, <1>3, BeforeString
<1> HIDE DEF s1, m1
<1>7. Read(ReadParams(s1), m, rest, t)
      BY <1>1, <1>4, <1>6, ReadWithParams DEF e
<1> QED BY <1>5, <1>7

\* ClientSetup.Parse takes a CLIENT_SETUP.
LEMMA ClientSetupRead ==
    ASSUME NEW m \in [type : {CLIENT_SETUP}, SupportedVersions : Seq(Nat), Params : Seq(Param)],
           NEW rest \in Cells, NEW t, ~Misframes(m),
           NEW w, Arrives(w, PutString(m.SupportedVersions) \o ParamsBytes(m.Params), rest, t)
    PROVE  Read(ClientSetupParse(w), m, rest, t)
<1> DEFINE s == m.SupportedVersions
           z == [type |-> CLIENT_SETUP, SupportedVersions |-> << >>, Params |-> {}]
           s0 == Reader(z, w)
           s1 == ReadList(s0, "SupportedVersions")
           m1 == Put(z, "SupportedVersions", s)
           e == ParamsBytes(m.Params)
<1>1. s \in Cells /\ m.Params \in Seq(Param) /\ m.type = CLIENT_SETUP
      /\ DOMAIN m = {"type", "SupportedVersions", "Params"}
      BY DEF Cells
<1>2. e \in Cells
      BY <1>1, ParamCellsFacts
<1> HIDE DEF e
<1>3. Before(s0, z, PutString(s) \o e, rest, t)
      BY BeforeStart DEF e
<1>4. DOMAIN m1 = DOMAIN m /\ \A f \in DOMAIN m \ {"Params"} : m1[f] = m[f]
      <2>1. DOMAIN z = DOMAIN m /\ z.type = CLIENT_SETUP
            BY <1>1
      <2> HIDE DEF z
      <2> QED BY <1>1, <2>1, PutFacts
<1>5. ClientSetupParse(w) = ReadParamsLeniently(s1)
      BY DEF ClientSetupParse
<1>6. \A n : s0 # Out(n)
      <2> SUFFICES ASSUME NEW n, s0 = Out(n) PROVE FALSE
          OBVIOUS
      <2>1. s0.err = FALSE
            BY DEF Reader
      <2>2. Out(n).err = TRUE
            BY DEF Out
      <2> QED BY <2>1, <2>2
<1> HIDE DEF s0, z
<1>7. Before(s1, m1, e, rest, t)
      BY <1>1, <1>2, <1>3, <1>6, BeforeString
<1> HIDE DEF s1, m1
<1>8. Read(ReadParamsLeniently(s1), m, rest, t)
      BY <1>1, <1>4, <1>7, ReadWithParams DEF e
<1> QED BY <1>5, <1>8

\* ServerSetup.Parse takes a SERVER_SETUP.
LEMMA ServerSetupRead ==
    ASSUME NEW m \in [type : {SERVER_SETUP}, SelectedVersion : Nat, Params : Seq(Param)],
           NEW rest \in Cells, NEW t, ~Misframes(m),
           NEW w, Arrives(w, <<m.SelectedVersion>> \o ParamsBytes(m.Params), rest, t)
    PROVE  Read(ServerSetupParse(w), m, rest, t)
<1> DEFINE v == m.SelectedVersion
           z == [type |-> SERVER_SETUP, SelectedVersion |-> 0, Params |-> {}]
           s0 == Reader(z, w)
           s1 == ReadInt(s0, "SelectedVersion")
           m1 == Put(z, "SelectedVersion", v)
           e == ParamsBytes(m.Params)
<1>1. v \in Nat /\ m.Params \in Seq(Param) /\ m.type = SERVER_SETUP
      /\ DOMAIN m = {"type", "SelectedVersion", "Params"}
      OBVIOUS
<1>2. e \in Cells
      BY <1>1, ParamCellsFacts
<1> HIDE DEF e
<1>3. Before(s0, z, <<v>> \o e, rest, t)
      BY BeforeStart DEF e
<1>4. DOMAIN m1 = DOMAIN m /\ \A f \in DOMAIN m \ {"Params"} : m1[f] = m[f]
      <2>1. DOMAIN z = DOMAIN m /\ z.type = SERVER_SETUP
            BY <1>1
      <2> HIDE DEF z
      <2> QED BY <1>1, <2>1, PutFacts
<1>5. ServerSetupParse(w) = ReadParamsLeniently(s1)
      BY DEF ServerSetupParse
<1> HIDE DEF s0, z
<1>6. Before(s1, m1, e, rest, t)
      BY <1>1, <1>2, <1>3, BeforeInt
<1> HIDE DEF s1, m1
<1>7. Read(ReadParamsLeniently(s1), m, rest, t)
      BY <1>1, <1>4, <1>6, ReadWithParams DEF e
<1> QED BY <1>5, <1>7

\* Unsubcribe.Parse takes an UNSUBSCRIBE.
LEMMA UnsubscribeRead ==
    ASSUME NEW m \in [type : {UNSUBSCRIBE}, SubscriptionID : Nat], NEW rest \in Cells, NEW t,
           NEW w, Arrives(w, <<m.SubscriptionID>>, rest, t)
    PROVE  Read(UnsubscribeParse(w), m, rest, t)
<1> DEFINE v == m.SubscriptionID
           z == [type |-> UNSUBSCRIBE, SubscriptionID |-> 0]
           s0 == Reader(z, w)
           s1 == ReadInt(s0, "SubscriptionID")
           m1 == Put(z, "SubscriptionID", v)
           e == << >>
<1>1. v \in Nat /\ m = [type |-> UNSUBSCRIBE, SubscriptionID |-> v] /\ "Params" \notin DOMAIN m
      /\ m.type # SUBSCRIBE_OK
      BY DEF UNSUBSCRIBE, SUBSCRIBE_OK
<1>2. <<v>> = <<v>> \o e /\ e \in Cells
      BY <1>1, CellsFacts, ConcatEmpty
<1> HIDE DEF e
<1>3. Before(s0, z, <<v>> \o e, rest, t)
      BY <1>2, BeforeStart
<1>4. m1 = m
      <2>1. z = [type |-> UNSUBSCRIBE, SubscriptionID |-> 0]
            OBVIOUS
      <2> HIDE DEF z
      <2> QED BY <1>1, <2>1 DEF Put
<1>5. UnsubscribeParse(w) = s1
      BY DEF UnsubscribeParse
<1> HIDE DEF s0, z
<1>6. Before(s1, m1, e, rest, t)
      BY <1>1, <1>2, <1>3, BeforeInt
<1> HIDE DEF s1, m1
<1>7. Read(s1, m, rest, t)
      BY <1>1, <1>4, <1>6, ReadNoParams DEF e
<1> QED BY <1>5, <1>7

\* A message is read when what was filled in is the same as what was sent.
LEMMA ReadAs ==
    ASSUME NEW st, NEW m, NEW g, Same(m, g), NEW rest \in Cells, NEW t,
           Before(st, g, << >>, rest, t)
    PROVE  Read(st, m, rest, t)
<1>1. IF t = "whole" THEN st = Reader(g, rest) ELSE \E n : st = Out(n)
      BY BeforeEnd
<1>2. CASE t = "whole"
      <2>1. st.in = rest /\ st.msg = g
            BY <1>1, <1>2 DEF Reader
      <2> QED BY <1>2, <2>1 DEF Read
<1>3. CASE t # "whole"
      <2>1. st.in = << >>
            BY <1>1, <1>3 DEF Out
      <2> QED BY <1>3, <2>1 DEF Read
<1> QED BY <1>2, <1>3

\* A reader that failed reads no fields.
LEMMA ReadIntsOut ==
    ASSUME NEW m, NEW a, NEW b, NEW c, NEW d
    PROVE  /\ ReadInts(Out(m), << >>) = Out(m)
           /\ ReadInts(Out(m), <<a, b>>) = Out(m)
           /\ ReadInts(Out(m), <<a, b, c, d>>) = Out(m)
<1> DEFINE s == Out(m)
<1>1. \A f : ReadInt(s, f) = s
      BY ReadIntOut
<1> HIDE DEF s
<1>2. ReadInts(s, << >>) = s
      BY ReadInts0
<1>3. ReadInts(s, <<a, b>>) = s
      BY <1>1, ReadInts2
<1>4. ReadInts(s, <<a, b, c, d>>) = s
      BY <1>1, ReadInts4
<1> QED BY <1>2, <1>3, <1>4 DEF s

\* Two fields that follow if there is content.
ContentTail(m, a, b) == IF m.ContentExists = 1 THEN <<a>> \o (<<b>> \o << >>) ELSE << >>

\* The two ids are read if there is content and skipped if not, on both sides.
LEMMA BeforeContent ==
    ASSUME NEW st, NEW m, NEW a \in Nat, NEW b \in Nat, NEW rest \in Cells, NEW t, NEW f, NEW g,
           Before(st, m, ContentTail(m, a, b), rest, t)
    PROVE  Before(ReadInts(st, IF st.msg.ContentExists = 1 THEN <<f, g>> ELSE << >>),
                  IF m.ContentExists = 1 THEN Put(Put(m, f, a), g, b) ELSE m, << >>, rest, t)
<1> DEFINE fields == IF st.msg.ContentExists = 1 THEN <<f, g>> ELSE << >>
           q == IF m.ContentExists = 1 THEN Put(Put(m, f, a), g, b) ELSE m
           e == << >>
<1>0. e \in Cells /\ <<b>> \o e \in Cells
      BY CellsFacts
<1>1. CASE t # "whole" /\ \E n : st = Out(n)
      <2>1. PICK n : st = Out(n)
            BY <1>1
      <2>2. ReadInts(st, <<f, g>>) = Out(n) /\ ReadInts(st, << >>) = Out(n)
            BY <2>1, ReadIntsOut
      <2>3. ReadInts(st, fields) = Out(n)
            BY <2>2
      <2> HIDE DEF fields, q
      <2>4. Before(ReadInts(st, fields), q, << >>, rest, t)
            BY <1>1, <2>3 DEF Before
      <2> QED BY <2>4 DEF fields, q
<1>2. CASE \E p : st = Reader(m, p)
      <2>1. st.msg = m
            BY <1>2 DEF Reader
      <2>2. CASE m.ContentExists = 1
            <3>1. fields = <<f, g>> /\ q = Put(Put(m, f, a), g, b)
                  BY <2>1, <2>2
            <3> HIDE DEF e
            <3>2. Before(st, m, <<a>> \o (<<b>> \o e), rest, t)
                  BY <2>2 DEF ContentTail, e
            <3>3. Before(ReadInt(st, f), Put(m, f, a), <<b>> \o e, rest, t)
                  BY <1>0, <3>2, BeforeInt
            <3>4. Before(ReadInt(ReadInt(st, f), g), Put(Put(m, f, a), g, b), e, rest, t)
                  BY <1>0, <3>3, BeforeInt
            <3>5. ReadInts(st, <<f, g>>) = ReadInt(ReadInt(st, f), g)
                  BY ReadInts2
            <3> HIDE DEF fields, q
            <3>6. Before(ReadInts(st, fields), q, << >>, rest, t)
                  BY <3>1, <3>4, <3>5 DEF e
            <3> QED BY <3>6 DEF fields, q
      <2>3. CASE m.ContentExists # 1
            <3>1. fields = << >> /\ q = m
                  BY <2>1, <2>3
            <3>2. Before(st, m, << >>, rest, t)
                  BY <2>3 DEF ContentTail
            <3> HIDE DEF fields, q
            <3>3. ReadInts(st, fields) = st
                  BY <3>1, ReadInts0
            <3>4. Before(ReadInts(st, fields), q, << >>, rest, t)
                  BY <3>1, <3>2, <3>3
            <3> QED BY <3>4 DEF fields, q
      <2> QED BY <2>2, <2>3
<1> QED BY <1>1, <1>2 DEF Before

\* SubscribeOk.Parse takes a SUBSCRIBE_OK.
LEMMA SubscribeOkRead ==
    ASSUME NEW m \in [type : {SUBSCRIBE_OK}, SubscribeID : Nat, Expires : Nat, ContentExists : Nat,
                      largestGroupId : Nat, largestObjectId : Nat],
           NEW rest \in Cells, NEW t, NEW w,
           Arrives(w, <<m.SubscribeID>> \o (<<m.Expires>> \o (<<m.ContentExists>> \o
                         ContentTail(m, m.largestObjectId, m.largestGroupId))), rest, t)
    PROVE  Read(SubscribeOkParse(w), m, rest, t)
<1> DEFINE z == [type |-> SUBSCRIBE_OK, SubscribeID |-> 0, Expires |-> 0,
                 ContentExists |-> 0, largestGroupId |-> 0, largestObjectId |-> 0]
           a == m.largestObjectId
           b == m.largestGroupId
           y == ContentTail(m, a, b)
           s0 == Reader(z, w)
           s1 == ReadInt(s0, "SubscribeID")
           s2 == ReadInt(s1, "Expires")
           s3 == ReadInt(s2, "ContentExists")
           m1 == Put(z, "SubscribeID", m.SubscribeID)
           m2 == Put(m1, "Expires", m.Expires)
           m3 == Put(m2, "ContentExists", m.ContentExists)
           m4 == Put(Put(m3, "largestObjectId", a), "largestObjectId", b)
           g == IF m3.ContentExists = 1 THEN m4 ELSE m3
           r == ReadInts(s3, IF s3.msg.ContentExists = 1
                             THEN <<"largestObjectId", "largestObjectId">> ELSE << >>)
           D == {"type", "SubscribeID", "Expires", "ContentExists", "largestGroupId", "largestObjectId"}
<1>1. /\ m.SubscribeID \in Nat /\ m.Expires \in Nat /\ m.ContentExists \in Nat
      /\ a \in Nat /\ b \in Nat /\ DOMAIN m = D /\ m.type = SUBSCRIBE_OK
      OBVIOUS
<1>2. y \in Cells
      <2>1. <<a>> \o (<<b>> \o << >>) \in Cells /\ << >> \in Cells
            BY <1>1, CellsFacts
      <2> QED BY <2>1 DEF ContentTail
<1> HIDE DEF y
<1>3. <<m.ContentExists>> \o y \in Cells
      BY <1>1, <1>2, CellsFacts
<1>4. <<m.Expires>> \o (<<m.ContentExists>> \o y) \in Cells
      BY <1>1, <1>3, CellsFacts
<1>5. DOMAIN z = D /\ z.type = SUBSCRIBE_OK /\ z.largestGroupId = 0 /\ z.largestObjectId = 0
      OBVIOUS
<1>6. SubscribeOkParse(w) = r
      <2>1. ReadInts(s0, <<"SubscribeID", "Expires", "ContentExists">>) = s3
            BY ReadInts3
      <2> QED BY <2>1 DEF SubscribeOkParse
<1>7. Before(s0, z, <<m.SubscribeID>> \o (<<m.Expires>> \o (<<m.ContentExists>> \o y)), rest, t)
      BY BeforeStart DEF y
<1> HIDE DEF s0, z, D
<1>8. Before(s1, m1, <<m.Expires>> \o (<<m.ContentExists>> \o y), rest, t)
      BY <1>1, <1>4, <1>7, BeforeInt
<1>9. DOMAIN m1 = D /\ m1.type = SUBSCRIBE_OK /\ m1.SubscribeID = m.SubscribeID
      /\ m1.largestGroupId = 0 /\ m1.largestObjectId = 0
      BY <1>5, PutFacts DEF D
<1> HIDE DEF s1, m1
<1>10. Before(s2, m2, <<m.ContentExists>> \o y, rest, t)
      BY <1>1, <1>3, <1>8, BeforeInt
<1>11. DOMAIN m2 = D /\ m2.type = SUBSCRIBE_OK /\ m2.SubscribeID = m.SubscribeID
      /\ m2.Expires = m.Expires /\ m2.largestGroupId = 0 /\ m2.largestObjectId = 0
      BY <1>9, PutFacts DEF D
<1> HIDE DEF s2, m2
<1>12. Before(s3, m3, y, rest, t)
      BY <1>1, <1>2, <1>10, BeforeInt
<1>13. DOMAIN m3 = D /\ m3.type = SUBSCRIBE_OK /\ m3.SubscribeID = m.SubscribeID
      /\ m3.Expires = m.Expires /\ m3.ContentExists = m.ContentExists
      /\ m3.largestGroupId = 0 /\ m3.largestObjectId = 0
      BY <1>11, PutFacts DEF D
<1> HIDE DEF s3, m3
<1>14. DOMAIN m4 = D /\ m4.type = SUBSCRIBE_OK /\ m4.SubscribeID = m.SubscribeID
      /\ m4.Expires = m.Expires /\ m4.ContentExists = m.ContentExists
      /\ m4.largestGroupId = 0 /\ m4.largestObjectId = b
      <2>1. PICK k : k = Put(m3, "largestObjectId", a)
            OBVIOUS
      <2>2. DOMAIN k = D /\ k.type = SUBSCRIBE_OK /\ k.SubscribeID = m.SubscribeID
            /\ k.Expires = m.Expires /\ k.ContentExists = m.ContentExists /\ k.largestGroupId = 0
            BY <1>13, <2>1, PutFacts DEF D
      <2>3. m4 = Put(k, "largestObjectId", b)
            BY <2>1
      <2> HIDE DEF m4
      <2> QED BY <2>2, <2>3, PutFacts DEF D
<1>15. Before(r, g, << >>, rest, t)
      <2>1. Before(s3, m3, ContentTail(m3, a, b), rest, t)
            BY <1>12, <1>13 DEF y, ContentTail
      <2> HIDE DEF a, b
      <2> QED BY <1>1, <2>1, BeforeContent
<1> HIDE DEF m4, r
<1>16. Same(m, g)
      BY <1>1, <1>13, <1>14 DEF Same, D
<1> HIDE DEF g
<1>17. Read(r, m, rest, t)
      BY <1>15, <1>16, ReadAs
<1> QED BY <1>6, <1>17

\* SubscribeDone.Parse takes a SUBSCRIBE_DONE.
LEMMA SubscribeDoneRead ==
    ASSUME NEW m \in [type : {SUBSCRIBE_DONE}, SubscribeID : Nat, StatusCode : Nat,
                      ReasonPhrase : Seq(Nat), ContentExists : Nat, FinalGroup : Nat,
                      FinalObject : Nat],
           Carried(m), NEW rest \in Cells, NEW t, NEW w,
           Arrives(w, <<m.SubscribeID>> \o (<<m.StatusCode>> \o (PutString(m.ReasonPhrase) \o
                         (<<m.ContentExists>> \o ContentTail(m, m.FinalGroup, m.FinalObject)))),
                   rest, t)
    PROVE  Read(SubscribeDoneParse(w), m, rest, t)
<1> DEFINE z == [type |-> SUBSCRIBE_DONE, SubscribeID |-> 0, StatusCode |-> 0,
                 ReasonPhrase |-> << >>, ContentExists |-> 0, FinalGroup |-> 0, FinalObject |-> 0]
           a == m.FinalGroup
           b == m.FinalObject
           y == ContentTail(m, a, b)
           s0 == Reader(z, w)
           s1 == ReadInt(s0, "SubscribeID")
           s2 == ReadInt(s1, "StatusCode")
           s3 == ReadString(s2, "ReasonPhrase")
           s4 == ReadInt(s3, "ContentExists")
           m1 == Put(z, "SubscribeID", m.SubscribeID)
           m2 == Put(m1, "StatusCode", m.StatusCode)
           m3 == Put(m2, "ReasonPhrase", m.ReasonPhrase)
           m4 == Put(m3, "ContentExists", m.ContentExists)
           m5 == Put(Put(m4, "FinalGroup", a), "FinalObject", b)
           g == IF m4.ContentExists = 1 THEN m5 ELSE m4
           r == ReadInts(s4, IF s4.msg.ContentExists = 1 THEN <<"FinalGroup", "FinalObject">> ELSE << >>)
           D == {"type", "SubscribeID", "StatusCode", "ReasonPhrase", "ContentExists", "FinalGroup",
                 "FinalObject"}
<1>1. /\ m.SubscribeID \in Nat /\ m.StatusCode \in Nat /\ m.ReasonPhrase \in Cells
      /\ m.ContentExists \in Nat /\ a \in Nat /\ b \in Nat /\ DOMAIN m = D /\ m.type = SUBSCRIBE_DONE
      BY DEF Cells
<1>2. y \in Cells
      <2>1. <<a>> \o (<<b>> \o << >>) \in Cells /\ << >> \in Cells
            BY <1>1, CellsFacts
      <2> QED BY <2>1 DEF ContentTail
<1> HIDE DEF y
<1>3. <<m.ContentExists>> \o y \in Cells
      BY <1>1, <1>2, CellsFacts
<1>4. PutString(m.ReasonPhrase) \o (<<m.ContentExists>> \o y) \in Cells
      <2>1. PutString(m.ReasonPhrase) \in Cells
            BY <1>1, StringFacts
      <2> QED BY <1>3, <2>1, CellsFacts
<1>5. <<m.StatusCode>> \o (PutString(m.ReasonPhrase) \o (<<m.ContentExists>> \o y)) \in Cells
      BY <1>1, <1>4, CellsFacts
<1>6. DOMAIN z = D /\ z.type = SUBSCRIBE_DONE /\ z.FinalGroup = 0 /\ z.FinalObject = 0
      OBVIOUS
<1>7. SubscribeDoneParse(w) = r
      <2>1. ReadInts(s0, <<"SubscribeID", "StatusCode">>) = s2
            BY ReadInts2
      <2> QED BY <2>1 DEF SubscribeDoneParse
<1>8. Before(s0, z, <<m.SubscribeID>> \o (<<m.StatusCode>> \o (PutString(m.ReasonPhrase) \o
                       (<<m.ContentExists>> \o y))), rest, t)
      BY BeforeStart DEF y
<1> HIDE DEF s0, z, D
<1>9. Before(s1, m1, <<m.StatusCode>> \o (PutString(m.ReasonPhrase) \o (<<m.ContentExists>> \o y)), rest, t)
      BY <1>1, <1>5, <1>8, BeforeInt
<1>10. DOMAIN m1 = D /\ m1.type = SUBSCRIBE_DONE /\ m1.FinalGroup = 0 /\ m1.FinalObject = 0
      /\ m1.SubscribeID = m.SubscribeID
      BY <1>6, PutFacts DEF D
<1> HIDE DEF s1, m1
<1>11. Before(s2, m2, PutString(m.ReasonPhrase) \o (<<m.ContentExists>> \o y), rest, t)
      BY <1>1, <1>4, <1>9, BeforeInt
<1>12. DOMAIN m2 = D /\ m2.type = SUBSCRIBE_DONE /\ m2.FinalGroup = 0 /\ m2.FinalObject = 0
      /\ m2.SubscribeID = m.SubscribeID /\ m2.StatusCode = m.StatusCode
      BY <1>10, PutFacts DEF D
<1> HIDE DEF s2, m2
<1>13. Before(s3, m3, <<m.ContentExists>> \o y, rest, t)
      BY <1>1, <1>3, <1>11, BeforeString
<1>14. DOMAIN m3 = D /\ m3.type = SUBSCRIBE_DONE /\ m3.FinalGroup = 0 /\ m3.FinalObject = 0
      /\ m3.SubscribeID = m.SubscribeID /\ m3.StatusCode = m.StatusCode
      /\ m3.ReasonPhrase = m.ReasonPhrase
      BY <1>12, PutFacts DEF D
<1> HIDE DEF s3, m3
<1>15. Before(s4, m4, y, rest, t)
      BY <1>1, <1>2, <1>13, BeforeInt
<1>16. DOMAIN m4 = D /\ m4.type = SUBSCRIBE_DONE /\ m4.FinalGroup = 0 /\ m4.FinalObject = 0
      /\ m4.SubscribeID = m.SubscribeID /\ m4.StatusCode = m.StatusCode
      /\ m4.ReasonPhrase = m.ReasonPhrase /\ m4.ContentExists = m.ContentExists
      BY <1>14, PutFacts DEF D
<1> HIDE DEF s4, m4
<1>17. DOMAIN m5 = D /\ m5.type = SUBSCRIBE_DONE /\ m5.FinalGroup = a /\ m5.FinalObject = b
      /\ m5.SubscribeID = m.SubscribeID /\ m5.StatusCode = m.StatusCode
      /\ m5.ReasonPhrase = m.ReasonPhrase /\ m5.ContentExists = m.ContentExists
      <2>1. PICK k : k = Put(m4, "FinalGroup", a)
            OBVIOUS
      <2>2. DOMAIN k = D /\ k.type = SUBSCRIBE_DONE /\ k.FinalGroup = a
            /\ k.SubscribeID = m.SubscribeID /\ k.StatusCode = m.StatusCode
            /\ k.ReasonPhrase = m.ReasonPhrase /\ k.ContentExists = m.ContentExists
            BY <1>16, <2>1, PutFacts DEF D
      <2>3. m5 = Put(k, "FinalObject", b)
            BY <2>1
      <2> HIDE DEF m5
      <2> QED BY <2>2, <2>3, PutFacts DEF D
<1>18. Before(r, g, << >>, rest, t)
      <2>1. Before(s4, m4, ContentTail(m4, a, b), rest, t)
            BY <1>15, <1>16 DEF y, ContentTail
      <2> HIDE DEF a, b
      <2> QED BY <1>1, <2>1, BeforeContent
<1> HIDE DEF m5, r
<1>19. m4.ContentExists # 1 => a = 0 /\ b = 0
      BY <1>1, <1>16 DEF Carried
<1>20. Same(m, g)
      <2>1. m.type # SUBSCRIBE_OK
            BY <1>1 DEF SUBSCRIBE_DONE, SUBSCRIBE_OK
      <2> QED BY <1>1, <1>16, <1>17, <1>19, <2>1 DEF Same, D
<1> HIDE DEF g
<1>21. Read(r, m, rest, t)
      BY <1>18, <1>20, ReadAs
<1> QED BY <1>7, <1>21

\* The fields that depend on the filter of a SUBSCRIBE, before its parameters.
FilterTail(m, b, c, d, e, y) ==
    IF m.FilterType = AbsoluteStart THEN <<b>> \o (<<c>> \o y)
    ELSE IF m.FilterType = AbsoluteRange THEN <<b>> \o (<<c>> \o (<<d>> \o (<<e>> \o y)))
    ELSE y
FilterFilled(m, b, c, d, e) ==
    IF m.FilterType = AbsoluteStart THEN Put(Put(m, "StartGroup", b), "StartObject", c)
    ELSE IF m.FilterType = AbsoluteRange
    THEN Put(Put(Put(Put(m, "StartGroup", b), "StartObject", c), "EndGroup", d), "EndObject", e)
    ELSE m

\* The fields of the filter are read if the filter has them, as they were written.
LEMMA BeforeFilter ==
    ASSUME NEW st, NEW m, NEW b \in Nat, NEW c \in Nat, NEW d \in Nat, NEW e \in Nat, NEW y \in Cells,
           NEW rest \in Cells, NEW t, Before(st, m, FilterTail(m, b, c, d, e, y), rest, t)
    PROVE  Before(ReadInts(st, FilterFields(st.msg.FilterType)), FilterFilled(m, b, c, d, e), y, rest, t)
<1> DEFINE fields == FilterFields(st.msg.FilterType)
           q == FilterFilled(m, b, c, d, e)
<1>0. <<e>> \o y \in Cells /\ <<c>> \o y \in Cells
      BY CellsFacts
<1>01. <<d>> \o (<<e>> \o y) \in Cells
      BY <1>0, CellsFacts
<1>02. <<c>> \o (<<d>> \o (<<e>> \o y)) \in Cells
      BY <1>01, CellsFacts
<1>1. CASE t # "whole" /\ \E n : st = Out(n)
      <2>1. PICK n : st = Out(n)
            BY <1>1
      <2>2. /\ ReadInts(st, <<"StartGroup", "StartObject">>) = Out(n) /\ ReadInts(st, << >>) = Out(n)
            /\ ReadInts(st, <<"StartGroup", "StartObject", "EndGroup", "EndObject">>) = Out(n)
            BY <2>1, ReadIntsOut
      <2>3. ReadInts(st, fields) = Out(n)
            BY <2>2 DEF FilterFields
      <2> HIDE DEF fields, q
      <2>4. Before(ReadInts(st, fields), q, y, rest, t)
            BY <1>1, <2>3 DEF Before
      <2> QED BY <2>4 DEF fields, q
<1>2. CASE \E p : st = Reader(m, p)
      <2>1. st.msg = m
            BY <1>2 DEF Reader
      <2>2. CASE m.FilterType = AbsoluteStart
            <3>1. fields = <<"StartGroup", "StartObject">>
                  /\ q = Put(Put(m, "StartGroup", b), "StartObject", c)
                  BY <2>1, <2>2 DEF FilterFields, FilterFilled
            <3>2. Before(st, m, <<b>> \o (<<c>> \o y), rest, t)
                  BY <2>2 DEF FilterTail
            <3> HIDE DEF fields, q
            <3> DEFINE s1 == ReadInt(st, "StartGroup")
                       s2 == ReadInt(s1, "StartObject")
                       m1 == Put(m, "StartGroup", b)
                       m2 == Put(m1, "StartObject", c)
            <3>3. Before(s1, m1, <<c>> \o y, rest, t)
                  BY <1>0, <3>2, BeforeInt
            <3>4. ReadInts(st, fields) = s2 /\ q = m2
                  BY <3>1, ReadInts2
            <3> HIDE DEF s1, m1
            <3>5. Before(s2, m2, y, rest, t)
                  BY <3>3, BeforeInt
            <3> HIDE DEF s2, m2
            <3>6. Before(ReadInts(st, fields), q, y, rest, t)
                  BY <3>4, <3>5
            <3> QED BY <3>6 DEF fields, q
      <2>3. CASE m.FilterType = AbsoluteRange
            <3>1. fields = <<"StartGroup", "StartObject", "EndGroup", "EndObject">>
                  /\ q = Put(Put(Put(Put(m, "StartGroup", b), "StartObject", c), "EndGroup", d), "EndObject", e)
                  BY <2>1, <2>3 DEF FilterFields, FilterFilled, AbsoluteRange, AbsoluteStart
            <3>2. Before(st, m, <<b>> \o (<<c>> \o (<<d>> \o (<<e>> \o y))), rest, t)
                  BY <2>3 DEF FilterTail, AbsoluteRange, AbsoluteStart
            <3> HIDE DEF fields, q
            <3> DEFINE s1 == ReadInt(st, "StartGroup")
                       s2 == ReadInt(s1, "StartObject")
                       s3 == ReadInt(s2, "EndGroup")
                       s4 == ReadInt(s3, "EndObject")
                       m1 == Put(m, "StartGroup", b)
                       m2 == Put(m1, "StartObject", c)
                       m3 == Put(m2, "EndGroup", d)
                       m4 == Put(m3, "EndObject", e)
            <3>3. ReadInts(st, fields) = s4 /\ q = m4
                  BY <3>1, ReadInts4
            <3>4. Before(s1, m1, <<c>> \o (<<d>> \o (<<e>> \o y)), rest, t)
                  BY <1>02, <3>2, BeforeInt
            <3> HIDE DEF s1, m1
            <3>5. Before(s2, m2, <<d>> \o (<<e>> \o y), rest, t)
                  BY <1>01, <3>4, BeforeInt
            <3> HIDE DEF s2, m2
            <3>6. Before(s3, m3, <<e>> \o y, rest, t)
                  BY <1>0, <3>5, BeforeInt
            <3> HIDE DEF s3, m3
            <3>7. Before(s4, m4, y, rest, t)
                  BY <3>6, BeforeInt
            <3> HIDE DEF s4, m4
            <3>8. Before(ReadInts(st, fields), q, y, rest, t)
                  BY <3>3, <3>7
            <3> QED BY <3>8 DEF fields, q
      <2>4. CASE m.FilterType \notin {AbsoluteStart, AbsoluteRange}
            <3>1. fields = << >> /\ q = m
                  BY <2>1, <2>4 DEF FilterFields, FilterFilled
            <3>2. Before(st, m, y, rest, t)
                  BY <2>4 DEF FilterTail
            <3> HIDE DEF fields, q
            <3>3. ReadInts(st, fields) = st
                  BY <3>1, ReadInts0
            <3>4. Before(ReadInts(st, fields), q, y, rest, t)
                  BY <3>1, <3>2, <3>3
            <3> QED BY <3>4 DEF fields, q
      <2> QED BY <2>2, <2>3, <2>4
<1> QED BY <1>1, <1>2 DEF Before

\* The fields of the filter are cells.
LEMMA FilterTailCells ==
    ASSUME NEW m, NEW b \in Nat, NEW c \in Nat, NEW d \in Nat, NEW e \in Nat, NEW y \in Cells
    PROVE  FilterTail(m, b, c, d, e, y) \in Cells
<1>1. <<e>> \o y \in Cells /\ <<c>> \o y \in Cells
      BY CellsFacts
<1>2. <<d>> \o (<<e>> \o y) \in Cells /\ <<b>> \o (<<c>> \o y) \in Cells
      BY <1>1, CellsFacts
<1>3. <<c>> \o (<<d>> \o (<<e>> \o y)) \in Cells
      BY <1>2, CellsFacts
<1>4. <<b>> \o (<<c>> \o (<<d>> \o (<<e>> \o y))) \in Cells
      BY <1>3, CellsFacts
<1> QED BY <1>2, <1>4 DEF FilterTail

SubscribeFields ==
    {"type", "SubscribeID", "TrackAlias", "TrackNameSpace", "TrackName", "FilterType",
     "StartGroup", "StartObject", "EndGroup", "EndObject", "Params"}

\* The fields of the filter are filled in as they were sent.
LEMMA FilterFilledFacts ==
    ASSUME NEW m, DOMAIN m = SubscribeFields, NEW b, NEW c, NEW d, NEW e,
           m.StartGroup = 0, m.StartObject = 0, m.EndGroup = 0, m.EndObject = 0,
           m.FilterType \notin {AbsoluteStart, AbsoluteRange} => b = 0 /\ c = 0,
           m.FilterType # AbsoluteRange => d = 0 /\ e = 0
    PROVE  LET g == FilterFilled(m, b, c, d, e) IN
           /\ DOMAIN g = SubscribeFields
           /\ g.StartGroup = b /\ g.StartObject = c /\ g.EndGroup = d /\ g.EndObject = e
           /\ g.type = m.type /\ g.SubscribeID = m.SubscribeID /\ g.TrackAlias = m.TrackAlias
           /\ g.TrackNameSpace = m.TrackNameSpace /\ g.TrackName = m.TrackName
           /\ g.FilterType = m.FilterType
<1> DEFINE m1 == Put(m, "StartGroup", b)
           m2 == Put(m1, "StartObject", c)
           m3 == Put(m2, "EndGroup", d)
           m4 == Put(m3, "EndObject", e)
           g == FilterFilled(m, b, c, d, e)
           Intact(q) == /\ DOMAIN q = SubscribeFields
                        /\ q.type = m.type /\ q.SubscribeID = m.SubscribeID /\ q.TrackAlias = m.TrackAlias
                        /\ q.TrackNameSpace = m.TrackNameSpace /\ q.TrackName = m.TrackName
                        /\ q.FilterType = m.FilterType
<1>1. g = IF m.FilterType = AbsoluteStart THEN m2 ELSE IF m.FilterType = AbsoluteRange THEN m4 ELSE m
      BY DEF FilterFilled
<1>2. Intact(m)
      OBVIOUS
<1>3. Intact(m1) /\ m1.StartGroup = b /\ m1.StartObject = 0 /\ m1.EndGroup = 0 /\ m1.EndObject = 0
      BY PutFacts DEF SubscribeFields
<1> HIDE DEF m1
<1>4. Intact(m2) /\ m2.StartGroup = b /\ m2.StartObject = c /\ m2.EndGroup = 0 /\ m2.EndObject = 0
      BY <1>3, PutFacts DEF SubscribeFields
<1> HIDE DEF m2
<1>5. Intact(m3) /\ m3.StartGroup = b /\ m3.StartObject = c /\ m3.EndGroup = d /\ m3.EndObject = 0
      BY <1>4, PutFacts DEF SubscribeFields
<1> HIDE DEF m3
<1>6. Intact(m4) /\ m4.StartGroup = b /\ m4.StartObject = c /\ m4.EndGroup = d /\ m4.EndObject = e
      BY <1>5, PutFacts DEF SubscribeFields
<1> HIDE DEF m4, g
<1>7. Intact(g) /\ g.StartGroup = b /\ g.StartObject = c /\ g.EndGroup = d /\ g.EndObject = e
      <2>1. CASE m.FilterType = AbsoluteStart
            <3>1. g = m2 /\ d = 0 /\ e = 0
                  BY <1>1, <2>1 DEF AbsoluteStart, AbsoluteRange
            <3> QED BY <1>4, <3>1
      <2>2. CASE m.FilterType = AbsoluteRange
            <3>1. g = m4
                  BY <1>1, <2>2 DEF AbsoluteStart, AbsoluteRange
            <3> QED BY <1>6, <3>1
      <2>3. CASE m.FilterType \notin {AbsoluteStart, AbsoluteRange}
            <3>1. g = m /\ b = 0 /\ c = 0 /\ d = 0 /\ e = 0
                  BY <1>1, <2>3
            <3> QED BY <1>2, <3>1
      <2> QED BY <2>1, <2>2, <2>3
<1> QED BY <1>7 DEF g

\* Subscribe.Parse takes a SUBSCRIBE.
LEMMA SubscribeRead ==
    ASSUME NEW m \in [type : {SUBSCRIBE}, SubscribeID : Nat, TrackAlias : Nat,
                      TrackNameSpace : Seq(Nat), TrackName : Seq(Nat), FilterType : Nat,
                      StartGroup : Nat, StartObject : Nat, EndGroup : Nat, EndObject : Nat,
                      Params : Seq(Param)],
           Carried(m), ~Misframes(m), NEW rest \in Cells, NEW t, NEW w,
           Arrives(w, <<m.SubscribeID>> \o (<<m.TrackAlias>> \o (PutString(m.TrackNameSpace) \o
                         (PutString(m.TrackName) \o (<<m.FilterType>> \o
                         FilterTail(m, m.StartGroup, m.StartObject, m.EndGroup, m.EndObject,
                                    ParamsBytes(m.Params)))))), rest, t)
    PROVE  Read(SubscribeParse(w), m, rest, t)
<1> DEFINE z == NoSubscribe
           b == m.StartGroup
           c == m.StartObject
           d == m.EndGroup
           e == m.EndObject
           y == ParamsBytes(m.Params)
           x5 == FilterTail(m, b, c, d, e, y)
           x4 == <<m.FilterType>> \o x5
           x3 == PutString(m.TrackName) \o x4
           x2 == PutString(m.TrackNameSpace) \o x3
           x1 == <<m.TrackAlias>> \o x2
           s0 == Reader(z, w)
           s1 == ReadInt(s0, "SubscribeID")
           s2 == ReadInt(s1, "TrackAlias")
           s3 == ReadString(s2, "TrackNameSpace")
           s4 == ReadString(s3, "TrackName")
           s5 == ReadInt(s4, "FilterType")
           s6 == ReadInts(s5, FilterFields(s5.msg.FilterType))
           m1 == Put(z, "SubscribeID", m.SubscribeID)
           m2 == Put(m1, "TrackAlias", m.TrackAlias)
           m3 == Put(m2, "TrackNameSpace", m.TrackNameSpace)
           m4 == Put(m3, "TrackName", m.TrackName)
           m5 == Put(m4, "FilterType", m.FilterType)
           g == FilterFilled(m5, b, c, d, e)
           Empty(q) == /\ DOMAIN q = SubscribeFields /\ q.type = SUBSCRIBE
                       /\ q.StartGroup = 0 /\ q.StartObject = 0 /\ q.EndGroup = 0 /\ q.EndObject = 0
<1>1. /\ m.SubscribeID \in Nat /\ m.TrackAlias \in Nat /\ m.TrackNameSpace \in Cells
      /\ m.TrackName \in Cells /\ m.FilterType \in Nat
      /\ b \in Nat /\ c \in Nat /\ d \in Nat /\ e \in Nat /\ m.Params \in Seq(Param)
      /\ DOMAIN m = SubscribeFields /\ m.type = SUBSCRIBE
      BY DEF Cells, SubscribeFields
<1>2. y \in Cells
      BY <1>1, ParamCellsFacts
<1> HIDE DEF y
<1>3. x5 \in Cells
      BY <1>1, <1>2, FilterTailCells
<1> HIDE DEF x5
<1>4. x4 \in Cells
      BY <1>1, <1>3, CellsFacts
<1> HIDE DEF x4
<1>5. PutString(m.TrackName) \in Cells /\ PutString(m.TrackNameSpace) \in Cells
      BY <1>1, StringFacts
<1>6. x3 \in Cells
      BY <1>4, <1>5, CellsFacts
<1> HIDE DEF x3
<1>7. x2 \in Cells
      BY <1>5, <1>6, CellsFacts
<1> HIDE DEF x2
<1>8. x1 \in Cells
      BY <1>1, <1>7, CellsFacts
<1> HIDE DEF x1
<1>9. Empty(z)
      BY DEF NoSubscribe, SubscribeFields
<1>10. SubscribeParse(w) = ReadParams(s6)
      <2>1. ReadInts(s0, <<"SubscribeID", "TrackAlias">>) = s2
            BY ReadInts2
      <2> QED BY <2>1 DEF SubscribeParse
<1>11. Before(s0, z, <<m.SubscribeID>> \o x1, rest, t)
      BY BeforeStart DEF x1, x2, x3, x4, x5, y
<1> HIDE DEF s0, z
<1>12. Before(s1, m1, x1, rest, t)
      BY <1>1, <1>8, <1>11, BeforeInt
<1>13. Empty(m1) /\ m1.SubscribeID = m.SubscribeID
      BY <1>9, PutFacts DEF SubscribeFields
<1> HIDE DEF s1, m1
<1>14. Before(s2, m2, x2, rest, t)
      BY <1>1, <1>7, <1>12, BeforeInt DEF x1
<1>15. Empty(m2) /\ m2.SubscribeID = m.SubscribeID /\ m2.TrackAlias = m.TrackAlias
      BY <1>13, PutFacts DEF SubscribeFields
<1> HIDE DEF s2, m2
<1>16. Before(s3, m3, x3, rest, t)
      BY <1>1, <1>6, <1>14, BeforeString DEF x2
<1>17. Empty(m3) /\ m3.SubscribeID = m.SubscribeID /\ m3.TrackAlias = m.TrackAlias
      /\ m3.TrackNameSpace = m.TrackNameSpace
      BY <1>15, PutFacts DEF SubscribeFields
<1> HIDE DEF s3, m3
<1>18. Before(s4, m4, x4, rest, t)
      BY <1>1, <1>4, <1>16, BeforeString DEF x3
<1>19. Empty(m4) /\ m4.SubscribeID = m.SubscribeID /\ m4.TrackAlias = m.TrackAlias
      /\ m4.TrackNameSpace = m.TrackNameSpace /\ m4.TrackName = m.TrackName
      BY <1>17, PutFacts DEF SubscribeFields
<1> HIDE DEF s4, m4
<1>20. Before(s5, m5, x5, rest, t)
      BY <1>1, <1>3, <1>18, BeforeInt DEF x4
<1>21. Empty(m5) /\ m5.SubscribeID = m.SubscribeID /\ m5.TrackAlias = m.TrackAlias
      /\ m5.TrackNameSpace = m.TrackNameSpace /\ m5.TrackName = m.TrackName
      /\ m5.FilterType = m.FilterType
      BY <1>19, PutFacts DEF SubscribeFields
<1> HIDE DEF s5, m5
<1>22. Before(s6, g, y, rest, t)
      <2>1. Before(s5, m5, FilterTail(m5, b, c, d, e, y), rest, t)
            BY <1>20, <1>21 DEF x5, FilterTail
      <2> HIDE DEF b, c, d, e
      <2> QED BY <1>1, <1>2, <2>1, BeforeFilter
<1>23. /\ m5.FilterType \notin {AbsoluteStart, AbsoluteRange} => b = 0 /\ c = 0
       /\ m5.FilterType # AbsoluteRange => d = 0 /\ e = 0
      BY <1>1, <1>21 DEF Carried
<1>24. /\ DOMAIN g = SubscribeFields
       /\ g.StartGroup = b /\ g.StartObject = c /\ g.EndGroup = d /\ g.EndObject = e
       /\ g.type = m5.type /\ g.SubscribeID = m5.SubscribeID /\ g.TrackAlias = m5.TrackAlias
       /\ g.TrackNameSpace = m5.TrackNameSpace /\ g.TrackName = m5.TrackName
       /\ g.FilterType = m5.FilterType
      <2> HIDE DEF b, c, d, e
      <2> QED BY <1>21, <1>23, FilterFilledFacts
<1> HIDE DEF g, s6
<1>25. \A f \in SubscribeFields \ {"Params"} : g[f] = m[f]
      BY <1>1, <1>21, <1>24 DEF SubscribeFields
<1>26. Read(ReadParams(s6), m, rest, t)
      <2>1. "Params" \in DOMAIN m /\ DOMAIN g = DOMAIN m
            /\ \A f \in DOMAIN m \ {"Params"} : g[f] = m[f]
            BY <1>1, <1>24, <1>25 DEF SubscribeFields
      <2> QED BY <1>1, <1>22, <2>1, ReadWithParams DEF y
<1> QED BY <1>10, <1>26

\* What messages are put together from is cells.
LEMMA CellParts ==
    /\ \A v \in Nat : <<v>> \in Cells
    /\ \A s \in Cells : PutString(s) \in Cells
    /\ \A ps \in Seq(Param) : ParamsBytes(ps) \in Cells
    /\ \A s, t \in Cells : s \o t \in Cells
    /\ << >> \in Cells
<1>1. ASSUME NEW s \in Cells PROVE PutString(s) \in Cells
      BY StringFacts, CellsFacts
<1>2. ASSUME NEW ps \in Seq(Param) PROVE ParamsBytes(ps) \in Cells
      BY ParamCellsFacts
<1> QED BY <1>1, <1>2, CellsFacts

\* Parts regrouped to the right.
LEMMA ConcatInto ==
    ASSUME NEW a \in Cells, NEW b \in Cells, NEW c \in Cells, NEW d \in Cells
    PROVE  (a \o (b \o c)) \o d = a \o (b \o (c \o d))
<1>1. PICK bc \in Cells : bc = b \o c
      BY CellParts
<1>2. (a \o bc) \o d = a \o (bc \o d)
      BY ConcatAssoc, ZenonT(30)
<1>3. (b \o c) \o d = b \o (c \o d)
      BY ConcatAssoc, ZenonT(30)
<1> QED BY <1>1, <1>2, <1>3

\* An ANNOUNCE_OK on the wire, its type first.
LEMMA AnnounceOkForm ==
    ASSUME NEW m \in [type : {ANNOUNCE_OK}, TrackNameSpace : Seq(Nat)]
    PROVE  /\ AnnounceOkBytes(m) = <<ANNOUNCE_OK>> \o PutString(m.TrackNameSpace)
           /\ PutString(m.TrackNameSpace) \in Cells
<1>1. m.TrackNameSpace \in Cells
      BY DEF Cells
<1> QED BY <1>1, CellParts DEF AnnounceOkBytes

\* An ANNOUNCE on the wire.
LEMMA AnnounceForm ==
    ASSUME NEW m \in [type : {ANNOUNCE}, TrackNameSpace : Seq(Nat), Params : Seq(Param)]
    PROVE  /\ AnnounceBytes(m) = <<ANNOUNCE>> \o (PutString(m.TrackNameSpace) \o ParamsBytes(m.Params))
           /\ PutString(m.TrackNameSpace) \o ParamsBytes(m.Params) \in Cells
<1>1. m.TrackNameSpace \in Cells /\ m.Params \in Seq(Param) /\ ANNOUNCE \in Nat
      BY DEF Cells, ANNOUNCE
<1>2. PutString(m.TrackNameSpace) \in Cells /\ ParamsBytes(m.Params) \in Cells /\ <<ANNOUNCE>> \in Cells
      BY <1>1, CellParts
<1>3. (<<ANNOUNCE>> \o PutString(m.TrackNameSpace)) \o ParamsBytes(m.Params)
        = <<ANNOUNCE>> \o (PutString(m.TrackNameSpace) \o ParamsBytes(m.Params))
      BY <1>2, ConcatAssoc
<1> QED BY <1>2, <1>3, CellParts DEF AnnounceBytes

\* A CLIENT_SETUP on the wire.
LEMMA ClientSetupForm ==
    ASSUME NEW m \in [type : {CLIENT_SETUP}, SupportedVersions : Seq(Nat), Params : Seq(Param)]
    PROVE  /\ ClientSetupBytes(m)
                = <<CLIENT_SETUP>> \o (PutString(m.SupportedVersions) \o ParamsBytes(m.Params))
           /\ PutString(m.SupportedVersions) \o ParamsBytes(m.Params) \in Cells
<1>1. m.SupportedVersions \in Cells /\ m.Params \in Seq(Param) /\ CLIENT_SETUP \in Nat
      BY DEF Cells, CLIENT_SETUP
<1>2. PutString(m.SupportedVersions) \in Cells /\ ParamsBytes(m.Params) \in Cells /\ <<CLIENT_SETUP>> \in Cells
      BY <1>1, CellParts
<1>3. (<<CLIENT_SETUP>> \o PutString(m.SupportedVersions)) \o ParamsBytes(m.Params)
        = <<CLIENT_SETUP>> \o (PutString(m.SupportedVersions) \o ParamsBytes(m.Params))
      BY <1>2, ConcatAssoc
<1> QED BY <1>2, <1>3, CellParts DEF ClientSetupBytes

\* A SERVER_SETUP on the wire.
LEMMA ServerSetupForm ==
    ASSUME NEW m \in [type : {SERVER_SETUP}, SelectedVersion : Nat, Params : Seq(Param)]
    PROVE  /\ ServerSetupBytes(m)
                = <<SERVER_SETUP>> \o (<<m.SelectedVersion>> \o ParamsBytes(m.Params))
           /\ <<m.SelectedVersion>> \o ParamsBytes(m.Params) \in Cells
<1>1. m.SelectedVersion \in Nat /\ m.Params \in Seq(Param) /\ SERVER_SETUP \in Nat
      BY DEF SERVER_SETUP
<1>2. <<m.SelectedVersion>> \in Cells /\ ParamsBytes(m.Params) \in Cells /\ <<SERVER_SETUP>> \in Cells
      BY <1>1, CellParts
<1>3. <<SERVER_SETUP, m.SelectedVersion>> = <<SERVER_SETUP>> \o <<m.SelectedVersion>>
      BY <1>1, Pair
<1>4. (<<SERVER_SETUP>> \o <<m.SelectedVersion>>) \o ParamsBytes(m.Params)
        = <<SERVER_SETUP>> \o (<<m.SelectedVersion>> \o ParamsBytes(m.Params))
      BY <1>2, ConcatAssoc
<1> QED BY <1>2, <1>3, <1>4, CellParts DEF ServerSetupBytes

\* An UNSUBSCRIBE on the wire.
LEMMA UnsubscribeForm ==
    ASSUME NEW m \in [type : {UNSUBSCRIBE}, SubscriptionID : Nat]
    PROVE  /\ UnsubscribeBytes(m) = <<UNSUBSCRIBE>> \o <<m.SubscriptionID>>
           /\ <<m.SubscriptionID>> \in Cells
<1>1. m.SubscriptionID \in Nat /\ UNSUBSCRIBE \in Nat
      BY DEF UNSUBSCRIBE
<1> QED BY <1>1, CellParts, Pair DEF UnsubscribeBytes

\* The ids that follow if there is content.
LEMMA ContentTailForm ==
    ASSUME NEW m, NEW a \in Nat, NEW b \in Nat
    PROVE  /\ (IF m.ContentExists = 1 THEN <<a, b>> ELSE << >>) = ContentTail(m, a, b)
           /\ ContentTail(m, a, b) \in Cells
<1>1. <<a>> \in Cells /\ <<b>> \in Cells /\ <<b>> \o << >> = <<b>>
      BY CellParts, ConcatEmpty
<1>2. <<a, b>> = <<a>> \o (<<b>> \o << >>) /\ <<a>> \o (<<b>> \o << >>) \in Cells
      BY <1>1, Pair, CellParts
<1> QED BY <1>2, CellParts DEF ContentTail

\* s is the sequence of these cells: the first three, or four, of a message.
Three(s, i, e, x) == s = <<i, e, x>>
Four(s, k, i, e, x) == s = <<k, i, e, x>>
Splits3(s, i, e, x, c) == s \o c = <<i>> \o (<<e>> \o (<<x>> \o c))
Splits4(s, k, i, e, x, c) == s \o c = <<k>> \o (<<i>> \o (<<e>> \o (<<x>> \o c)))

\* Three cells and what follows them.
LEMMA ThreeCells ==
    ASSUME NEW i \in Nat, NEW e \in Nat, NEW x \in Nat, NEW c \in Cells, NEW s, Three(s, i, e, x)
    PROVE  Splits3(s, i, e, x, c) /\ s \in Cells
<1>1. <<i, e, x>> = <<i>> \o <<e, x>> /\ s \in Cells
      BY DEF Cells, Three
<1>2. <<e, x>> = <<e>> \o <<x>>
      BY Pair
<1>3. s = <<i>> \o (<<e>> \o <<x>>)
      BY <1>1, <1>2 DEF Three
<1>4. <<i>> \in Cells /\ <<e>> \in Cells /\ <<x>> \in Cells
      BY CellParts
<1>5. (<<i>> \o (<<e>> \o <<x>>)) \o c = <<i>> \o (<<e>> \o (<<x>> \o c))
      BY <1>4, ConcatInto
<1> QED BY <1>1, <1>3, <1>5 DEF Splits3

\* Four cells and what follows them.
LEMMA FourCells ==
    ASSUME NEW k \in Nat, NEW i \in Nat, NEW e \in Nat, NEW x \in Nat, NEW c \in Cells,
           NEW s, Four(s, k, i, e, x)
    PROVE  Splits4(s, k, i, e, x, c)
<1>1. <<k, i, e, x>> = <<k>> \o <<i, e, x>> /\ <<i, e, x>> \in Cells
      BY DEF Cells
<1>2. PICK iex \in Cells : iex = <<i, e, x>>
      BY <1>1
<1>3. s = <<k>> \o iex /\ Three(iex, i, e, x)
      BY <1>1, <1>2 DEF Four, Three
<1>4. PICK kk \in Cells : kk = <<k>>
      BY CellParts
<1>5. (kk \o iex) \o c = kk \o (iex \o c)
      BY ConcatAssoc
<1>6. iex \o c = <<i>> \o (<<e>> \o (<<x>> \o c))
      <2>1. Splits3(iex, i, e, x, c)
            BY <1>3, ThreeCells
      <2> QED BY <2>1 DEF Splits3
<1> QED BY <1>3, <1>4, <1>5, <1>6 DEF Splits4

\* Four parts are cells.
LEMMA CellsOf4 ==
    ASSUME NEW a \in Cells, NEW b \in Cells, NEW c \in Cells, NEW d \in Cells
    PROVE  a \o (b \o (c \o d)) \in Cells
    BY CellParts

\* A SUBSCRIBE_OK on the wire.
LEMMA SubscribeOkForm ==
    ASSUME NEW m \in [type : {SUBSCRIBE_OK}, SubscribeID : Nat, Expires : Nat, ContentExists : Nat,
                      largestGroupId : Nat, largestObjectId : Nat]
    PROVE  LET c == ContentTail(m, m.largestObjectId, m.largestGroupId)
               body == <<m.SubscribeID>> \o (<<m.Expires>> \o (<<m.ContentExists>> \o c))
           IN  SubscribeOkBytes(m) = <<SUBSCRIBE_OK>> \o body /\ body \in Cells
<1>1. /\ m.SubscribeID \in Nat /\ m.Expires \in Nat /\ m.ContentExists \in Nat /\ SUBSCRIBE_OK \in Nat
      /\ m.largestObjectId \in Nat /\ m.largestGroupId \in Nat
      BY DEF SUBSCRIBE_OK
<1>2. PICK c \in Cells : c = ContentTail(m, m.largestObjectId, m.largestGroupId)
      BY <1>1, ContentTailForm
<1>3. c = IF m.ContentExists = 1 THEN <<m.largestObjectId, m.largestGroupId>> ELSE << >>
      BY <1>1, <1>2, ContentTailForm
<1>4. PICK s : s = <<SUBSCRIBE_OK, m.SubscribeID, m.Expires, m.ContentExists>>
      OBVIOUS
<1>5. SubscribeOkBytes(m) = s \o c
      BY <1>3, <1>4 DEF SubscribeOkBytes
<1>6. Four(s, SUBSCRIBE_OK, m.SubscribeID, m.Expires, m.ContentExists)
      BY <1>4 DEF Four
<1>7. Splits4(s, SUBSCRIBE_OK, m.SubscribeID, m.Expires, m.ContentExists, c)
      BY <1>1, <1>6, FourCells
<1>8. <<m.SubscribeID>> \in Cells /\ <<m.Expires>> \in Cells /\ <<m.ContentExists>> \in Cells
      BY <1>1, CellParts
<1>9. <<m.SubscribeID>> \o (<<m.Expires>> \o (<<m.ContentExists>> \o c)) \in Cells
      BY <1>8, CellsOf4
<1> QED BY <1>2, <1>5, <1>7, <1>9 DEF Splits4

Assoc3(a, b, c) == (a \o b) \o c = a \o (b \o c)
Assoc4(a, b, c, d) == ((a \o b) \o c) \o d = a \o (b \o (c \o d))
Assoc5(a, b, c, d, e) == (((a \o b) \o c) \o d) \o e = a \o (b \o (c \o (d \o e)))
Assoc6(a, b, c, d, e, f) == ((((a \o b) \o c) \o d) \o e) \o f = a \o (b \o (c \o (d \o (e \o f))))

\* Three parts regrouped to the right.
LEMMA ConcatAssoc3 ==
    ASSUME NEW a \in Cells, NEW b \in Cells, NEW c \in Cells
    PROVE  Assoc3(a, b, c)
    BY ConcatAssoc DEF Assoc3

\* Four parts.
LEMMA ConcatAssoc4 ==
    ASSUME NEW a \in Cells, NEW b \in Cells, NEW c \in Cells, NEW d \in Cells
    PROVE  Assoc4(a, b, c, d)
<1>1. PICK ab \in Cells : ab = a \o b
      BY CellParts
<1>2. PICK cd \in Cells : cd = c \o d
      BY CellParts
<1>3. Assoc3(ab, c, d) /\ Assoc3(a, b, cd)
      BY ConcatAssoc3
<1> QED BY <1>1, <1>2, <1>3 DEF Assoc3, Assoc4

\* Five parts.
LEMMA ConcatAssoc5 ==
    ASSUME NEW a \in Cells, NEW b \in Cells, NEW c \in Cells, NEW d \in Cells, NEW e \in Cells
    PROVE  Assoc5(a, b, c, d, e) /\ a \o (b \o (c \o (d \o e))) \in Cells
<1>1. PICK ab \in Cells : ab = a \o b
      BY CellParts
<1>2. PICK cde \in Cells : cde = c \o (d \o e)
      BY CellParts
<1>3. Assoc4(ab, c, d, e)
      BY ConcatAssoc4
<1>4. Assoc3(a, b, cde)
      BY ConcatAssoc3
<1>5. a \o (b \o cde) \in Cells
      BY CellParts
<1> QED BY <1>1, <1>2, <1>3, <1>4, <1>5 DEF Assoc3, Assoc4, Assoc5

\* Six parts.
LEMMA ConcatAssoc6 ==
    ASSUME NEW a \in Cells, NEW b \in Cells, NEW c \in Cells, NEW d \in Cells, NEW e \in Cells,
           NEW f \in Cells
    PROVE  Assoc6(a, b, c, d, e, f)
<1>1. PICK ab \in Cells : ab = a \o b
      BY CellParts
<1>2. PICK cdef \in Cells : cdef = c \o (d \o (e \o f))
      BY CellsOf4
<1>3. Assoc5(ab, c, d, e, f)
      BY ConcatAssoc5
<1>4. Assoc3(a, b, cdef)
      BY ConcatAssoc3
<1> QED BY <1>1, <1>2, <1>3, <1>4 DEF Assoc3, Assoc5, Assoc6

\* A SUBSCRIBE_DONE on the wire.
LEMMA SubscribeDoneForm ==
    ASSUME NEW m \in [type : {SUBSCRIBE_DONE}, SubscribeID : Nat, StatusCode : Nat,
                      ReasonPhrase : Seq(Nat), ContentExists : Nat, FinalGroup : Nat,
                      FinalObject : Nat]
    PROVE  LET c == ContentTail(m, m.FinalGroup, m.FinalObject)
               body == <<m.SubscribeID>> \o (<<m.StatusCode>> \o (PutString(m.ReasonPhrase) \o
                          (<<m.ContentExists>> \o c)))
           IN  SubscribeDoneBytes(m) = body /\ body \in Cells
<1>1. /\ m.SubscribeID \in Nat /\ m.StatusCode \in Nat /\ m.ContentExists \in Nat
      /\ m.FinalGroup \in Nat /\ m.FinalObject \in Nat /\ m.ReasonPhrase \in Cells
      BY DEF Cells
<1>2. PICK c \in Cells : c = ContentTail(m, m.FinalGroup, m.FinalObject)
      BY <1>1, ContentTailForm
<1>3. c = IF m.ContentExists = 1 THEN <<m.FinalGroup, m.FinalObject>> ELSE << >>
      BY <1>1, <1>2, ContentTailForm
<1>4. <<m.SubscribeID, m.StatusCode>> = <<m.SubscribeID>> \o <<m.StatusCode>>
      BY <1>1, Pair
<1>5. PICK i \in Cells, s \in Cells, p \in Cells, x \in Cells :
         /\ i = <<m.SubscribeID>> /\ s = <<m.StatusCode>> /\ p = PutString(m.ReasonPhrase)
         /\ x = <<m.ContentExists>>
      BY <1>1, CellParts
<1>6. SubscribeDoneBytes(m) = (((i \o s) \o p) \o x) \o c
      BY <1>3, <1>4, <1>5 DEF SubscribeDoneBytes
<1>7. Assoc5(i, s, p, x, c) /\ i \o (s \o (p \o (x \o c))) \in Cells
      BY ConcatAssoc5
<1> QED BY <1>2, <1>5, <1>6, <1>7 DEF Assoc5

\* The fields of the filter as GetBytes writes them.
LEMMA FilterForm ==
    ASSUME NEW m, m.StartGroup \in Nat, m.StartObject \in Nat, m.EndGroup \in Nat, m.EndObject \in Nat,
           NEW y \in Cells
    PROVE  LET q == PutInts(m, FilterFields(m.FilterType)) IN
           /\ q \in Cells
           /\ q \o y = FilterTail(m, m.StartGroup, m.StartObject, m.EndGroup, m.EndObject, y)
<1> DEFINE q == PutInts(m, FilterFields(m.FilterType))
<1>1. CASE m.FilterType = AbsoluteStart
      <2>1. q = <<m.StartGroup, m.StartObject>>
            BY <1>1 DEF PutInts, FilterFields
      <2>2. q = <<m.StartGroup>> \o <<m.StartObject>>
            BY <2>1, Pair
      <2>3. PICK a \in Cells, b \in Cells : a = <<m.StartGroup>> /\ b = <<m.StartObject>>
            BY CellParts
      <2>4. Assoc3(a, b, y) /\ a \o b \in Cells
            BY ConcatAssoc3, CellParts
      <2> HIDE DEF q
      <2>5. q \in Cells /\ q \o y = <<m.StartGroup>> \o (<<m.StartObject>> \o y)
            BY <2>2, <2>3, <2>4 DEF Assoc3
      <2> QED BY <1>1, <2>5 DEF FilterTail, q
<1>2. CASE m.FilterType = AbsoluteRange
      <2>1. q = <<m.StartGroup, m.StartObject, m.EndGroup, m.EndObject>>
            BY <1>2 DEF PutInts, FilterFields, AbsoluteStart, AbsoluteRange
      <2> HIDE DEF q
      <2>2. q \in Cells
            BY <2>1 DEF Cells
      <2>3. Four(q, m.StartGroup, m.StartObject, m.EndGroup, m.EndObject)
            BY <2>1 DEF Four
      <2>4. Splits4(q, m.StartGroup, m.StartObject, m.EndGroup, m.EndObject, y)
            BY <2>3, FourCells
      <2>5. q \o y = FilterTail(m, m.StartGroup, m.StartObject, m.EndGroup, m.EndObject, y)
            BY <1>2, <2>4 DEF FilterTail, Splits4, AbsoluteStart, AbsoluteRange
      <2> QED BY <2>2, <2>5 DEF q
<1>3. CASE m.FilterType \notin {AbsoluteStart, AbsoluteRange}
      <2>1. q = << >>
            BY <1>3 DEF PutInts, FilterFields
      <2> HIDE DEF q
      <2>2. q \in Cells /\ q \o y = y
            BY <2>1, CellParts, ConcatEmpty
      <2> QED BY <1>3, <2>2 DEF FilterTail, q
<1> QED BY <1>1, <1>2, <1>3

\* A SUBSCRIBE on the wire.
LEMMA SubscribeForm ==
    ASSUME NEW m \in [type : {SUBSCRIBE}, SubscribeID : Nat, TrackAlias : Nat,
                      TrackNameSpace : Seq(Nat), TrackName : Seq(Nat), FilterType : Nat,
                      StartGroup : Nat, StartObject : Nat, EndGroup : Nat, EndObject : Nat,
                      Params : Seq(Param)]
    PROVE  LET f == FilterTail(m, m.StartGroup, m.StartObject, m.EndGroup, m.EndObject,
                               ParamsBytes(m.Params))
               body == <<m.SubscribeID>> \o (<<m.TrackAlias>> \o (PutString(m.TrackNameSpace) \o
                         (PutString(m.TrackName) \o (<<m.FilterType>> \o f))))
           IN  SubscribeBytes(m) = <<SUBSCRIBE>> \o body /\ body \in Cells
<1>1. /\ m.SubscribeID \in Nat /\ m.TrackAlias \in Nat /\ m.FilterType \in Nat /\ SUBSCRIBE \in Nat
      /\ m.StartGroup \in Nat /\ m.StartObject \in Nat /\ m.EndGroup \in Nat /\ m.EndObject \in Nat
      /\ m.TrackNameSpace \in Cells /\ m.TrackName \in Cells /\ m.Params \in Seq(Param)
      BY DEF Cells, SUBSCRIBE
<1>2. PICK ps \in Cells : ps = ParamsBytes(m.Params)
      BY <1>1, CellParts
<1>3. PICK q \in Cells :
         /\ q = PutInts(m, FilterFields(m.FilterType))
         /\ q \o ps = FilterTail(m, m.StartGroup, m.StartObject, m.EndGroup, m.EndObject, ps)
      BY <1>1, FilterForm
<1>4. PICK h : h = <<SUBSCRIBE, m.SubscribeID, m.TrackAlias>>
      OBVIOUS
<1>5. Three(h, SUBSCRIBE, m.SubscribeID, m.TrackAlias)
      BY <1>4 DEF Three
<1>6. h \in Cells /\ \A c \in Cells : Splits3(h, SUBSCRIBE, m.SubscribeID, m.TrackAlias, c)
      <2>1. ASSUME NEW c \in Cells
            PROVE  Splits3(h, SUBSCRIBE, m.SubscribeID, m.TrackAlias, c) /\ h \in Cells
            BY <1>1, <1>5, ThreeCells
      <2> QED BY <2>1, CellParts
<1>7. PICK n \in Cells, tn \in Cells, f \in Cells, i \in Cells, a \in Cells :
         /\ n = PutString(m.TrackNameSpace) /\ tn = PutString(m.TrackName)
         /\ f = <<m.FilterType>> /\ i = <<m.SubscribeID>> /\ a = <<m.TrackAlias>>
      BY <1>1, CellParts
<1>8. SubscribeBytes(m) = ((((h \o n) \o tn) \o f) \o q) \o ps
      BY <1>2, <1>3, <1>4, <1>7 DEF SubscribeBytes
<1>9. ((((h \o n) \o tn) \o f) \o q) \o ps = h \o (n \o (tn \o (f \o (q \o ps))))
      <2>1. Assoc6(h, n, tn, f, q, ps)
            BY <1>6, ConcatAssoc6
      <2> QED BY <2>1 DEF Assoc6
<1>10. PICK qp \in Cells : qp = q \o ps
      BY CellParts
<1>11. PICK c \in Cells : c = n \o (tn \o (f \o qp))
      BY CellsOf4
<1>12. SubscribeBytes(m) = h \o c
      BY <1>8, <1>9, <1>10, <1>11
<1>13. h \o c = <<SUBSCRIBE>> \o (i \o (a \o c))
      BY <1>6, <1>7 DEF Splits3
<1>14. i \o (a \o c) \in Cells
      BY CellParts
<1>15. i \o (a \o (n \o (tn \o (f \o qp)))) \in Cells
      BY <1>11, <1>14
<1>16. SubscribeBytes(m) = <<SUBSCRIBE>> \o (i \o (a \o (n \o (tn \o (f \o qp)))))
      BY <1>11, <1>12, <1>13
<1> QED BY <1>2, <1>3, <1>7, <1>10, <1>15, <1>16

IsParsed(r, x) == r.msg = x.msg /\ r.in = x.in /\ r.end = FALSE

\* ParseMOQTMessage goes by the first cell; a type it does not know ends ServeCS.
LEMMA Dispatch ==
    ASSUME NEW w, w # << >>, NEW r, r = ParseMOQTMessage(w)
    PROVE  /\ Head(w) = CLIENT_SETUP => IsParsed(r, ClientSetupParse(Tail(w)))
           /\ Head(w) = SERVER_SETUP => IsParsed(r, ServerSetupParse(Tail(w)))
           /\ Head(w) = ANNOUNCE => IsParsed(r, AnnounceParse(Tail(w)))
           /\ Head(w) = ANNOUNCE_OK => IsParsed(r, AnnounceOkParse(Tail(w)))
           /\ Head(w) = SUBSCRIBE => IsParsed(r, SubscribeParse(Tail(w)))
           /\ Head(w) = SUBSCRIBE_OK => IsParsed(r, SubscribeOkParse(Tail(w)))
           /\ Head(w) = UNSUBSCRIBE => IsParsed(r, UnsubscribeParse(Tail(w)))
           /\ Head(w) = SUBSCRIBE_DONE => IsParsed(r, SubscribeDoneParse(Tail(w)))
           /\ Head(w) \notin MessageTypes => r.in = Tail(w) /\ r.end = TRUE
    BY DEF ParseMOQTMessage, IsParsed, MessageTypes, CLIENT_SETUP, SERVER_SETUP, ANNOUNCE,
           ANNOUNCE_OK, SUBSCRIBE, SUBSCRIBE_OK, UNSUBSCRIBE, SUBSCRIBE_DONE, STREAM_HEADER_GROUP, STREAM_HEADER_TRACK

\* ParseMOQTMessage on an empty wire waits, or ends.
LEMMA NothingToRead ==
    /\ ParseMOQTMessage(<< >>).in = << >> /\ ParseMOQTMessage(<< >>).end = TRUE
    /\ ParseMOQTMessage(<< >>).short = TRUE
    BY DEF ParseMOQTMessage

MessageReadAs(r, m, rest, t) ==
    IF t = "whole" THEN r.end = FALSE /\ r.in = rest /\ Same(m, r.msg)
    ELSE r.in = << >> /\ r.end \in BOOLEAN

ReadsMessage(m) ==
    \A rest \in Cells : \A t, w :
        Arrives(w, Bytes(m), rest, t) => MessageReadAs(ParseMOQTMessage(w), m, rest, t)

\* A message is read if its Parse reads what is behind its type.
LEMMA ReadAfterType ==
    ASSUME NEW w, NEW m, NEW v \in Nat, NEW body \in Cells, NEW rest \in Cells, NEW t,
           Arrives(w, <<v>> \o body, rest, t), NEW r, r = ParseMOQTMessage(w), NEW x,
           w # << >> /\ Head(w) = v => IsParsed(r, x),
           Arrives(Tail(w), body, rest, t) => Read(x, m, rest, t)
    PROVE  MessageReadAs(r, m, rest, t)
<1>1. CASE t # "whole" /\ w = << >>
      BY <1>1, NothingToRead DEF MessageReadAs
<1>2. CASE w # << >> /\ Head(w) = v /\ Arrives(Tail(w), body, rest, t)
      BY <1>2 DEF MessageReadAs, IsParsed, Read
<1> QED BY <1>1, <1>2, ArrivesCell

\* A CLIENT_SETUP goes through ParseMOQTMessage as sent.
LEMMA ClientSetupMessage ==
    ASSUME NEW m \in [type : {CLIENT_SETUP}, SupportedVersions : Seq(Nat), Params : Seq(Param)]
    PROVE  /\ Bytes(m) \in Cells /\ Bytes(m) # << >>
           /\ Carried(m) /\ ~Misframes(m) => ReadsMessage(m)
<1>1. CLIENT_SETUP \in Nat /\ m.type = CLIENT_SETUP /\ "type" \in DOMAIN m
      BY DEF CLIENT_SETUP
<1>2. PICK body \in Cells :
         /\ ClientSetupBytes(m) = <<CLIENT_SETUP>> \o body
         /\ body = PutString(m.SupportedVersions) \o ParamsBytes(m.Params)
      BY ClientSetupForm
<1>3. Bytes(m) = <<CLIENT_SETUP>> \o body
      BY <1>1, <1>2 DEF Bytes, CLIENT_SETUP, SERVER_SETUP, ANNOUNCE, ANNOUNCE_OK, SUBSCRIBE,
         SUBSCRIBE_OK, UNSUBSCRIBE, SUBSCRIBE_DONE, STREAM_HEADER_GROUP, STREAM_HEADER_TRACK
<1>4. <<CLIENT_SETUP>> \o body \in Cells /\ <<CLIENT_SETUP>> \o body # << >>
      BY <1>1, CellParts, FrontCell
<1>5. ASSUME Carried(m), ~Misframes(m), NEW rest \in Cells, NEW t, NEW w,
             Arrives(w, Bytes(m), rest, t)
      PROVE  MessageReadAs(ParseMOQTMessage(w), m, rest, t)
      <2>1. Arrives(w, <<CLIENT_SETUP>> \o body, rest, t)
            BY <1>3, <1>5
      <2>2. Arrives(Tail(w), body, rest, t) => Read(ClientSetupParse(Tail(w)), m, rest, t)
            BY <1>2, <1>5, ClientSetupRead
      <2>3. w # << >> /\ Head(w) = CLIENT_SETUP => IsParsed(ParseMOQTMessage(w), ClientSetupParse(Tail(w)))
            BY Dispatch
      <2> QED BY <1>1, <2>1, <2>2, <2>3, ReadAfterType
<1> QED BY <1>3, <1>4, <1>5 DEF ReadsMessage

\* A SERVER_SETUP does.
LEMMA ServerSetupMessage ==
    ASSUME NEW m \in [type : {SERVER_SETUP}, SelectedVersion : Nat, Params : Seq(Param)]
    PROVE  /\ Bytes(m) \in Cells /\ Bytes(m) # << >>
           /\ Carried(m) /\ ~Misframes(m) => ReadsMessage(m)
<1>1. SERVER_SETUP \in Nat /\ m.type = SERVER_SETUP /\ "type" \in DOMAIN m
      BY DEF SERVER_SETUP
<1>2. PICK body \in Cells :
         /\ ServerSetupBytes(m) = <<SERVER_SETUP>> \o body
         /\ body = <<m.SelectedVersion>> \o ParamsBytes(m.Params)
      BY ServerSetupForm
<1>3. Bytes(m) = <<SERVER_SETUP>> \o body
      BY <1>1, <1>2 DEF Bytes, CLIENT_SETUP, SERVER_SETUP, ANNOUNCE, ANNOUNCE_OK, SUBSCRIBE,
         SUBSCRIBE_OK, UNSUBSCRIBE, SUBSCRIBE_DONE, STREAM_HEADER_GROUP, STREAM_HEADER_TRACK
<1>4. <<SERVER_SETUP>> \o body \in Cells /\ <<SERVER_SETUP>> \o body # << >>
      BY <1>1, CellParts, FrontCell
<1>5. ASSUME Carried(m), ~Misframes(m), NEW rest \in Cells, NEW t, NEW w,
             Arrives(w, Bytes(m), rest, t)
      PROVE  MessageReadAs(ParseMOQTMessage(w), m, rest, t)
      <2>1. Arrives(w, <<SERVER_SETUP>> \o body, rest, t)
            BY <1>3, <1>5
      <2>2. Arrives(Tail(w), body, rest, t) => Read(ServerSetupParse(Tail(w)), m, rest, t)
            BY <1>2, <1>5, ServerSetupRead
      <2>3. w # << >> /\ Head(w) = SERVER_SETUP => IsParsed(ParseMOQTMessage(w), ServerSetupParse(Tail(w)))
            BY Dispatch
      <2> QED BY <1>1, <2>1, <2>2, <2>3, ReadAfterType
<1> QED BY <1>3, <1>4, <1>5 DEF ReadsMessage

\* An ANNOUNCE does.
LEMMA AnnounceMessage ==
    ASSUME NEW m \in [type : {ANNOUNCE}, TrackNameSpace : Seq(Nat), Params : Seq(Param)]
    PROVE  /\ Bytes(m) \in Cells /\ Bytes(m) # << >>
           /\ Carried(m) /\ ~Misframes(m) => ReadsMessage(m)
<1>1. ANNOUNCE \in Nat /\ m.type = ANNOUNCE /\ "type" \in DOMAIN m
      BY DEF ANNOUNCE
<1>2. PICK body \in Cells :
         /\ AnnounceBytes(m) = <<ANNOUNCE>> \o body
         /\ body = PutString(m.TrackNameSpace) \o ParamsBytes(m.Params)
      BY AnnounceForm
<1>3. Bytes(m) = <<ANNOUNCE>> \o body
      BY <1>1, <1>2 DEF Bytes, CLIENT_SETUP, SERVER_SETUP, ANNOUNCE, ANNOUNCE_OK, SUBSCRIBE,
         SUBSCRIBE_OK, UNSUBSCRIBE, SUBSCRIBE_DONE, STREAM_HEADER_GROUP, STREAM_HEADER_TRACK
<1>4. <<ANNOUNCE>> \o body \in Cells /\ <<ANNOUNCE>> \o body # << >>
      BY <1>1, CellParts, FrontCell
<1>5. ASSUME Carried(m), ~Misframes(m), NEW rest \in Cells, NEW t, NEW w,
             Arrives(w, Bytes(m), rest, t)
      PROVE  MessageReadAs(ParseMOQTMessage(w), m, rest, t)
      <2>1. Arrives(w, <<ANNOUNCE>> \o body, rest, t)
            BY <1>3, <1>5
      <2>2. Arrives(Tail(w), body, rest, t) => Read(AnnounceParse(Tail(w)), m, rest, t)
            BY <1>2, <1>5, AnnounceRead
      <2>3. w # << >> /\ Head(w) = ANNOUNCE => IsParsed(ParseMOQTMessage(w), AnnounceParse(Tail(w)))
            BY Dispatch
      <2> QED BY <1>1, <2>1, <2>2, <2>3, ReadAfterType
<1> QED BY <1>3, <1>4, <1>5 DEF ReadsMessage

\* An ANNOUNCE_OK does.
LEMMA AnnounceOkMessage ==
    ASSUME NEW m \in [type : {ANNOUNCE_OK}, TrackNameSpace : Seq(Nat)]
    PROVE  /\ Bytes(m) \in Cells /\ Bytes(m) # << >>
           /\ Carried(m) /\ ~Misframes(m) => ReadsMessage(m)
<1>1. ANNOUNCE_OK \in Nat /\ m.type = ANNOUNCE_OK /\ "type" \in DOMAIN m
      BY DEF ANNOUNCE_OK
<1>2. PICK body \in Cells :
         /\ AnnounceOkBytes(m) = <<ANNOUNCE_OK>> \o body
         /\ body = PutString(m.TrackNameSpace)
      BY AnnounceOkForm
<1>3. Bytes(m) = <<ANNOUNCE_OK>> \o body
      BY <1>1, <1>2 DEF Bytes, CLIENT_SETUP, SERVER_SETUP, ANNOUNCE, ANNOUNCE_OK, SUBSCRIBE,
         SUBSCRIBE_OK, UNSUBSCRIBE, SUBSCRIBE_DONE, STREAM_HEADER_GROUP, STREAM_HEADER_TRACK
<1>4. <<ANNOUNCE_OK>> \o body \in Cells /\ <<ANNOUNCE_OK>> \o body # << >>
      BY <1>1, CellParts, FrontCell
<1>5. ASSUME Carried(m), ~Misframes(m), NEW rest \in Cells, NEW t, NEW w,
             Arrives(w, Bytes(m), rest, t)
      PROVE  MessageReadAs(ParseMOQTMessage(w), m, rest, t)
      <2>1. Arrives(w, <<ANNOUNCE_OK>> \o body, rest, t)
            BY <1>3, <1>5
      <2>2. Arrives(Tail(w), body, rest, t) => Read(AnnounceOkParse(Tail(w)), m, rest, t)
            BY <1>2, <1>5, AnnounceOkRead
      <2>3. w # << >> /\ Head(w) = ANNOUNCE_OK => IsParsed(ParseMOQTMessage(w), AnnounceOkParse(Tail(w)))
            BY Dispatch
      <2> QED BY <1>1, <2>1, <2>2, <2>3, ReadAfterType
<1> QED BY <1>3, <1>4, <1>5 DEF ReadsMessage

\* A SUBSCRIBE does.
LEMMA SubscribeMessage ==
    ASSUME NEW m \in [type : {SUBSCRIBE}, SubscribeID : Nat, TrackAlias : Nat,
                      TrackNameSpace : Seq(Nat), TrackName : Seq(Nat), FilterType : Nat,
                      StartGroup : Nat, StartObject : Nat, EndGroup : Nat, EndObject : Nat,
                      Params : Seq(Param)]
    PROVE  /\ Bytes(m) \in Cells /\ Bytes(m) # << >>
           /\ Carried(m) /\ ~Misframes(m) => ReadsMessage(m)
<1>1. SUBSCRIBE \in Nat /\ m.type = SUBSCRIBE /\ "type" \in DOMAIN m
      BY DEF SUBSCRIBE
<1>2. PICK body \in Cells :
         /\ SubscribeBytes(m) = <<SUBSCRIBE>> \o body
         /\ body = <<m.SubscribeID>> \o (<<m.TrackAlias>> \o (PutString(m.TrackNameSpace) \o
                 (PutString(m.TrackName) \o (<<m.FilterType>> \o
                 FilterTail(m, m.StartGroup, m.StartObject, m.EndGroup, m.EndObject,
                            ParamsBytes(m.Params))))))
      BY SubscribeForm
<1>3. Bytes(m) = <<SUBSCRIBE>> \o body
      <2>1. Bytes(m) = SubscribeBytes(m)
            BY <1>1 DEF Bytes, CLIENT_SETUP, SERVER_SETUP, ANNOUNCE, ANNOUNCE_OK, SUBSCRIBE,
               SUBSCRIBE_OK, UNSUBSCRIBE, SUBSCRIBE_DONE, STREAM_HEADER_GROUP, STREAM_HEADER_TRACK
      <2> QED BY <1>2, <2>1, Zenon
<1>4. <<SUBSCRIBE>> \o body \in Cells /\ <<SUBSCRIBE>> \o body # << >>
      BY <1>1, CellParts, FrontCell
<1>5. ASSUME Carried(m), ~Misframes(m), NEW rest \in Cells, NEW t, NEW w,
             Arrives(w, Bytes(m), rest, t)
      PROVE  MessageReadAs(ParseMOQTMessage(w), m, rest, t)
      <2>1. Arrives(w, <<SUBSCRIBE>> \o body, rest, t)
            BY <1>3, <1>5
      <2>2. Arrives(Tail(w), body, rest, t) => Read(SubscribeParse(Tail(w)), m, rest, t)
            BY <1>2, <1>5, SubscribeRead
      <2>3. w # << >> /\ Head(w) = SUBSCRIBE => IsParsed(ParseMOQTMessage(w), SubscribeParse(Tail(w)))
            BY Dispatch
      <2> QED BY <1>1, <2>1, <2>2, <2>3, ReadAfterType
<1> QED BY <1>3, <1>4, <1>5 DEF ReadsMessage

\* A SUBSCRIBE_OK does, but for its two ids.
LEMMA SubscribeOkMessage ==
    ASSUME NEW m \in [type : {SUBSCRIBE_OK}, SubscribeID : Nat, Expires : Nat, ContentExists : Nat,
                      largestGroupId : Nat, largestObjectId : Nat]
    PROVE  /\ Bytes(m) \in Cells /\ Bytes(m) # << >>
           /\ Carried(m) /\ ~Misframes(m) => ReadsMessage(m)
<1>1. SUBSCRIBE_OK \in Nat /\ m.type = SUBSCRIBE_OK /\ "type" \in DOMAIN m
      BY DEF SUBSCRIBE_OK
<1>2. PICK body \in Cells :
         /\ SubscribeOkBytes(m) = <<SUBSCRIBE_OK>> \o body
         /\ body = <<m.SubscribeID>> \o (<<m.Expires>> \o (<<m.ContentExists>> \o
                 ContentTail(m, m.largestObjectId, m.largestGroupId)))
      BY SubscribeOkForm
<1>3. Bytes(m) = <<SUBSCRIBE_OK>> \o body
      BY <1>1, <1>2 DEF Bytes, CLIENT_SETUP, SERVER_SETUP, ANNOUNCE, ANNOUNCE_OK, SUBSCRIBE,
         SUBSCRIBE_OK, UNSUBSCRIBE, SUBSCRIBE_DONE, STREAM_HEADER_GROUP, STREAM_HEADER_TRACK
<1>4. <<SUBSCRIBE_OK>> \o body \in Cells /\ <<SUBSCRIBE_OK>> \o body # << >>
      BY <1>1, CellParts, FrontCell
<1>5. ASSUME Carried(m), ~Misframes(m), NEW rest \in Cells, NEW t, NEW w,
             Arrives(w, Bytes(m), rest, t)
      PROVE  MessageReadAs(ParseMOQTMessage(w), m, rest, t)
      <2>1. Arrives(w, <<SUBSCRIBE_OK>> \o body, rest, t)
            BY <1>3, <1>5
      <2>2. Arrives(Tail(w), body, rest, t) => Read(SubscribeOkParse(Tail(w)), m, rest, t)
            BY <1>2, <1>5, SubscribeOkRead
      <2>3. w # << >> /\ Head(w) = SUBSCRIBE_OK => IsParsed(ParseMOQTMessage(w), SubscribeOkParse(Tail(w)))
            BY Dispatch
      <2> QED BY <1>1, <2>1, <2>2, <2>3, ReadAfterType
<1> QED BY <1>3, <1>4, <1>5 DEF ReadsMessage

\* An UNSUBSCRIBE does.
LEMMA UnsubscribeMessage ==
    ASSUME NEW m \in [type : {UNSUBSCRIBE}, SubscriptionID : Nat]
    PROVE  /\ Bytes(m) \in Cells /\ Bytes(m) # << >>
           /\ Carried(m) /\ ~Misframes(m) => ReadsMessage(m)
<1>1. UNSUBSCRIBE \in Nat /\ m.type = UNSUBSCRIBE /\ "type" \in DOMAIN m
      BY DEF UNSUBSCRIBE
<1>2. PICK body \in Cells :
         /\ UnsubscribeBytes(m) = <<UNSUBSCRIBE>> \o body
         /\ body = <<m.SubscriptionID>>
      BY UnsubscribeForm
<1>3. Bytes(m) = <<UNSUBSCRIBE>> \o body
      BY <1>1, <1>2 DEF Bytes, CLIENT_SETUP, SERVER_SETUP, ANNOUNCE, ANNOUNCE_OK, SUBSCRIBE,
         SUBSCRIBE_OK, UNSUBSCRIBE, SUBSCRIBE_DONE, STREAM_HEADER_GROUP, STREAM_HEADER_TRACK
<1>4. <<UNSUBSCRIBE>> \o body \in Cells /\ <<UNSUBSCRIBE>> \o body # << >>
      BY <1>1, CellParts, FrontCell
<1>5. ASSUME Carried(m), ~Misframes(m), NEW rest \in Cells, NEW t, NEW w,
             Arrives(w, Bytes(m), rest, t)
      PROVE  MessageReadAs(ParseMOQTMessage(w), m, rest, t)
      <2>1. Arrives(w, <<UNSUBSCRIBE>> \o body, rest, t)
            BY <1>3, <1>5
      <2>2. Arrives(Tail(w), body, rest, t) => Read(UnsubscribeParse(Tail(w)), m, rest, t)
            BY <1>2, <1>5, UnsubscribeRead
      <2>3. w # << >> /\ Head(w) = UNSUBSCRIBE => IsParsed(ParseMOQTMessage(w), UnsubscribeParse(Tail(w)))
            BY Dispatch
      <2> QED BY <1>1, <2>1, <2>2, <2>3, ReadAfterType
<1> QED BY <1>3, <1>4, <1>5 DEF ReadsMessage

\* A SUBSCRIBE_DONE does.
LEMMA SubscribeDoneMessage ==
    ASSUME NEW m \in [type : {SUBSCRIBE_DONE}, SubscribeID : Nat, StatusCode : Nat,
                      ReasonPhrase : Seq(Nat), ContentExists : Nat, FinalGroup : Nat,
                      FinalObject : Nat]
    PROVE  /\ Bytes(m) \in Cells /\ Bytes(m) # << >>
           /\ Carried(m) /\ ~Misframes(m) => ReadsMessage(m)
<1>1. SUBSCRIBE_DONE \in Nat /\ m.type = SUBSCRIBE_DONE /\ "type" \in DOMAIN m
      BY DEF SUBSCRIBE_DONE
<1>2. PICK body \in Cells :
         /\ <<SUBSCRIBE_DONE>> \o SubscribeDoneBytes(m) = <<SUBSCRIBE_DONE>> \o body
         /\ body = <<m.SubscribeID>> \o (<<m.StatusCode>> \o (PutString(m.ReasonPhrase) \o
                 (<<m.ContentExists>> \o ContentTail(m, m.FinalGroup, m.FinalObject))))
      BY SubscribeDoneForm
<1>3. Bytes(m) = <<SUBSCRIBE_DONE>> \o body
      <2>1. Bytes(m) = <<SUBSCRIBE_DONE>> \o SubscribeDoneBytes(m)
            BY <1>1 DEF Bytes, CLIENT_SETUP, SERVER_SETUP, ANNOUNCE, ANNOUNCE_OK, SUBSCRIBE,
               SUBSCRIBE_OK, UNSUBSCRIBE, SUBSCRIBE_DONE, STREAM_HEADER_GROUP, STREAM_HEADER_TRACK
      <2> QED BY <1>2, <2>1, Zenon
<1>4. <<SUBSCRIBE_DONE>> \o body \in Cells /\ <<SUBSCRIBE_DONE>> \o body # << >>
      BY <1>1, CellParts, FrontCell
<1>5. ASSUME Carried(m), ~Misframes(m), NEW rest \in Cells, NEW t, NEW w,
             Arrives(w, Bytes(m), rest, t)
      PROVE  MessageReadAs(ParseMOQTMessage(w), m, rest, t)
      <2>1. Arrives(w, <<SUBSCRIBE_DONE>> \o body, rest, t)
            BY <1>3, <1>5
      <2>2. Arrives(Tail(w), body, rest, t) => Read(SubscribeDoneParse(Tail(w)), m, rest, t)
            BY <1>2, <1>5, SubscribeDoneRead
      <2>3. w # << >> /\ Head(w) = SUBSCRIBE_DONE => IsParsed(ParseMOQTMessage(w), SubscribeDoneParse(Tail(w)))
            BY Dispatch
      <2> QED BY <1>1, <2>1, <2>2, <2>3, ReadAfterType
<1> QED BY <1>3, <1>4, <1>5 DEF ReadsMessage

\* Every control message goes through ParseMOQTMessage as sent, unless it misframes.
LEMMA MessageRead ==
    ASSUME NEW m \in ControlMessage
    PROVE  /\ Bytes(m) \in Cells /\ Bytes(m) # << >>
           /\ Carried(m) /\ ~Misframes(m) => ReadsMessage(m)
    BY ClientSetupMessage, ServerSetupMessage, AnnounceMessage, AnnounceOkMessage,
       SubscribeMessage, SubscribeOkMessage, UnsubscribeMessage, SubscribeDoneMessage
       DEF ControlMessage

\* A reader takes cells off the front of what there is, and never puts one back.
Within(st, n) ==
    /\ DOMAIN st = {"msg", "in", "err", "short"}
    /\ st.in \in Cells /\ Len(st.in) <= n

\* Filling in a field takes nothing from the wire.
LEMMA WithinMsg ==
    ASSUME NEW st, NEW n, Within(st, n), NEW k
    PROVE  Within([st EXCEPT !.msg = k], n)
    BY DEF Within

\* A reader at its start.
LEMMA WithinReader ==
    ASSUME NEW m, NEW in \in Cells, NEW n \in Nat, Len(in) <= n
    PROVE  Within(Reader(m, in), n)
    BY DEF Within, Reader

\* A reader that ran out.
LEMMA WithinOut ==
    ASSUME NEW st, NEW n \in Nat, Within(st, n)
    PROVE  Within(RunsOut(st), n) /\ Within(Fail(st), n)
    BY CellsFacts DEF Within, RunsOut, Fail

Takes(st, z, k, in) == z = [st EXCEPT !.msg = k, !.in = in]

\* A step that leaves no more than it found.
LEMMA WithinSet ==
    ASSUME NEW st, NEW n \in Nat, Within(st, n), NEW k, NEW in \in Cells, Len(in) <= Len(st.in),
           NEW z, Takes(st, z, k, in)
    PROVE  Within(z, n)
<1>1. Len(in) <= n
      BY CellsFacts DEF Within
<1> QED BY <1>1 DEF Within, Takes

\* ReadInt is such a step.
LEMMA WithinInt ==
    ASSUME NEW st, NEW n \in Nat, Within(st, n), NEW f
    PROVE  Within(ReadInt(st, f), n)
<1>1. CASE st.err
      BY <1>1 DEF ReadInt
<1>2. CASE ~st.err /\ st.in = << >>
      BY <1>2, WithinOut DEF ReadInt
<1>3. CASE ~st.err /\ st.in # << >>
      <2>1. Tail(st.in) \in Cells /\ Len(Tail(st.in)) <= Len(st.in)
            BY <1>3 DEF Cells, Within
      <2>2. PICK k : k = [st.msg EXCEPT ![f] = Head(st.in)]
            OBVIOUS
      <2>3. Takes(st, ReadInt(st, f), k, Tail(st.in))
            BY <1>3, <2>2 DEF ReadInt, Within, Takes
      <2> QED BY <2>1, <2>3, WithinSet
<1> QED BY <1>1, <1>2, <1>3

\* What is behind a place is no longer than the whole.
LEMMA Suffix ==
    ASSUME NEW s \in Cells, NEW a \in Nat, a > 0
    PROVE  SubSeq(s, a, Len(s)) \in Cells /\ Len(SubSeq(s, a, Len(s))) <= Len(s)
<1>1. Len(s) \in Nat /\ s \in Seq(Nat)
      BY DEF Cells
<1>2. CASE a <= Len(s)
      <2>1. \A i \in a .. Len(s) : s[i] \in Nat
            BY <1>1, <1>2
      <2>2. SubSeq(s, a, Len(s)) \in Seq(Nat) /\ Len(SubSeq(s, a, Len(s))) = Len(s) - a + 1
            BY <1>1, <1>2, <2>1, SubSeqProperties
      <2> QED BY <1>1, <2>2 DEF Cells
<1>3. CASE a > Len(s)
      <2>1. SubSeq(s, a, Len(s)) = << >>
            BY <1>1, <1>3, SubSeqEmpty
      <2> QED BY <1>1, <2>1, CellsFacts
<1> QED BY <1>1, <1>2, <1>3

\* ReadString is such a step.
LEMMA WithinString ==
    ASSUME NEW st, NEW n \in Nat, Within(st, n), NEW f
    PROVE  Within(ReadString(st, f), n)
<1>1. CASE st.err
      BY <1>1 DEF ReadString
<1>2. CASE ~st.err /\ (st.in = << >> \/ Len(st.in) <= Head(st.in))
      BY <1>2, WithinOut DEF ReadString
<1>3. CASE ~st.err /\ ~(st.in = << >> \/ Len(st.in) <= Head(st.in))
      <2>1. PICK in : in = SubSeq(st.in, st.in[1] + 2, Len(st.in))
            OBVIOUS
      <2>2. st.in \in Cells /\ st.in[1] \in Nat /\ Len(st.in) \in Nat /\ st.in[1] < Len(st.in)
            BY <1>3 DEF Cells, Within
      <2>3. in \in Cells /\ Len(in) <= Len(st.in)
            <3>1. PICK a \in Nat : a = st.in[1] + 2 /\ a > 0
                  BY <2>2
            <3>2. SubSeq(st.in, a, Len(st.in)) \in Cells /\ Len(SubSeq(st.in, a, Len(st.in))) <= Len(st.in)
                  BY <2>2, <3>1, Suffix
            <3> QED BY <2>1, <3>1, <3>2
      <2>4. PICK k : k = [st.msg EXCEPT ![f] = SubSeq(st.in, 2, st.in[1] + 1)]
            OBVIOUS
      <2>5. Takes(st, ReadString(st, f), k, in)
            BY <1>3, <2>1, <2>4 DEF ReadString, Within, Takes
      <2> QED BY <2>3, <2>5, WithinSet
<1> QED BY <1>1, <1>2, <1>3

\* So is ReadList.
LEMMA WithinList ==
    ASSUME NEW st, NEW n \in Nat, Within(st, n), NEW f
    PROVE  Within(ReadList(st, f), n)
<1>1. CASE ~st.err /\ st.in # << >> /\ Len(st.in) <= Head(st.in)
      <2>1. PICK k : k = [st.msg EXCEPT ![f] = Tail(st.in)]
            OBVIOUS
      <2>2. PICK z : z = [st EXCEPT !.msg = k]
            OBVIOUS
      <2>3. Within(z, n)
            BY <2>2 DEF Within
      <2>4. ReadList(st, f) = RunsOut(z)
            BY <1>1, <2>1, <2>2 DEF ReadList, Within
      <2> QED BY <2>3, <2>4, WithinOut
<1>2. CASE ~(~st.err /\ st.in # << >> /\ Len(st.in) <= Head(st.in))
      <2>1. ReadList(st, f) = ReadString(st, f)
            BY <1>2 DEF ReadList
      <2> QED BY <2>1, WithinString
<1> QED BY <1>1, <1>2

\* So is ReadInts.
LEMMA WithinInts ==
    ASSUME NEW st, NEW n \in Nat, Within(st, n), NEW a, NEW b, NEW c, NEW d
    PROVE  /\ Within(ReadInts(st, << >>), n) /\ Within(ReadInts(st, <<a, b>>), n)
           /\ Within(ReadInts(st, <<a, b, c>>), n) /\ Within(ReadInts(st, <<a, b, c, d>>), n)
<1>1. Within(ReadInt(st, a), n)
      BY WithinInt
<1>2. Within(ReadInt(ReadInt(st, a), b), n)
      BY <1>1, WithinInt
<1>3. Within(ReadInt(ReadInt(ReadInt(st, a), b), c), n)
      BY <1>2, WithinInt
<1>4. Within(ReadInt(ReadInt(ReadInt(ReadInt(st, a), b), c), d), n)
      BY <1>3, WithinInt
<1> QED BY <1>2, <1>3, <1>4, ReadInts0, ReadInts2, ReadInts3, ReadInts4

\* So is a turn of Parameters.Parse.
LEMMA WithinParam ==
    ASSUME NEW st, NEW n \in Nat, Within(st, n)
    PROVE  Within(ReadParam(st), n)
<1>1. PICK t : t = ReadInt(st, "ptype")
      OBVIOUS
<1>2. Within(t, n)
      BY <1>1, WithinInt
<1>3. CASE t.err
      BY <1>1, <1>2, <1>3 DEF ReadParam
<1>4. CASE ~t.err /\ t.msg.ptype = ROLE_PARAM
      <2>1. PICK v : v = ReadInts(t, <<"plength", "pvalue">>)
            OBVIOUS
      <2>2. Within(v, n)
            BY <1>2, <2>1, WithinInts
      <2>3. CASE v.err
            BY <1>1, <1>4, <2>1, <2>2, <2>3 DEF ReadParam
      <2>4. CASE ~v.err
            <3>1. ReadParam(st)
                    = [v EXCEPT !.msg.Params = SetParam(@, [type |-> ROLE_PARAM, value |-> v.msg.pvalue])]
                  BY <1>1, <1>4, <2>1, <2>4 DEF ReadParam
            <3> QED BY <2>2, <3>1 DEF Within
      <2> QED BY <2>3, <2>4
<1>5. CASE ~t.err /\ t.msg.ptype # ROLE_PARAM
      <2>1. PICK v : v = ReadString(t, "pvalue")
            OBVIOUS
      <2>2. Within(v, n)
            BY <1>2, <2>1, WithinString
      <2>3. CASE v.err
            BY <1>1, <1>5, <2>1, <2>2, <2>3 DEF ReadParam
      <2>4. CASE ~v.err /\ t.msg.ptype = ROLE_PATH
            <3>1. ReadParam(st)
                    = [v EXCEPT !.msg.Params = SetParam(@, [type |-> ROLE_PATH, value |-> v.msg.pvalue])]
                  BY <1>1, <1>5, <2>1, <2>4 DEF ReadParam
            <3> QED BY <2>2, <3>1 DEF Within
      <2>5. CASE ~v.err /\ t.msg.ptype # ROLE_PATH
            <3>1. ReadParam(st) = Fail(v)
                  BY <1>1, <1>5, <2>1, <2>5 DEF ReadParam
            <3> QED BY <2>2, <3>1, WithinOut
      <2> QED BY <2>3, <2>4, <2>5
<1> QED BY <1>3, <1>4, <1>5

\* By induction, so is any number of turns.
LEMMA WithinEach ==
    ASSUME NEW F, NEW k \in Nat, NEW n \in Nat, Within(F[0], n),
           \A i \in 1 .. k : F[i] = ReadParam(F[i - 1])
    PROVE  Within(F[k], n)
<1> DEFINE S == {i \in Nat : i <= k => Within(F[i], n)}
<1>1. S \in SUBSET Nat /\ 0 \in S
      OBVIOUS
<1>2. ASSUME NEW i \in S PROVE i + 1 \in S
      <2>1. i \in Nat /\ (i <= k => Within(F[i], n))
            OBVIOUS
      <2>2. CASE i + 1 <= k
            <3>1. i + 1 \in 1 .. k /\ i <= k /\ (i + 1) - 1 = i
                  BY <2>1, <2>2
            <3>2. F[i + 1] = ReadParam(F[i])
                  BY <3>1
            <3>3. Within(F[i + 1], n)
                  BY <2>1, <3>1, <3>2, WithinParam
            <3> QED BY <2>1, <3>3
      <2>3. CASE ~(i + 1 <= k)
            BY <2>1, <2>3
      <2> QED BY <2>2, <2>3
<1> HIDE DEF S
<1>3. S = Nat
      BY <1>1, <1>2, SetInduction
<1>4. k \in S
      BY <1>3
<1> QED BY <1>4 DEF S

\* So is Parameters.Parse.
LEMMA WithinParseParams ==
    ASSUME NEW st, NEW n \in Nat, Within(st, n)
    PROVE  Within(ParseParams(st), n)
<1>1. PICK z : z = [st EXCEPT !.msg = NoParams]
      OBVIOUS
<1>2. Within(z, n) /\ z.msg = NoParams
      BY <1>1 DEF Within
<1>3. PICK p : p = ReadInt(z, "plength")
      OBVIOUS
<1>4. Within(p, n)
      BY <1>2, <1>3, WithinInt
<1>5. p = ReadInt([st EXCEPT !.msg = NoParams], "plength")
      BY <1>1, <1>3
<1>6. CASE p.err
      BY <1>4, <1>5, <1>6, ParseParamsSteps
<1>7. CASE ~p.err
      <2>1. ~z.err /\ z.in # << >>
            <3>1. CASE z.err
                  BY <1>3, <1>7, <3>1 DEF ReadInt
            <3>2. CASE ~z.err /\ z.in = << >>
                  BY <1>2, <1>3, <1>7, <3>2 DEF ReadInt, RunsOut, Within
            <3> QED BY <3>1, <3>2
      <2>2. Head(z.in) \in Nat
            BY <1>2, <2>1 DEF Within, Cells
      <2>3. p.msg.plength = Head(z.in)
            BY <1>2, <1>3, <2>1 DEF ReadInt, Within, NoParams
      <2>4. PICK F : /\ F[0] = p /\ ParseParams(st) = F[p.msg.plength]
                     /\ \A i \in 1 .. p.msg.plength : F[i] = ReadParam(F[i - 1])
            BY <1>5, <1>7, <2>2, <2>3, ParseParamsSteps
      <2>5. PICK k \in Nat : k = p.msg.plength
            BY <2>2, <2>3
      <2>6. Within(F[k], n)
            <3>1. Within(F[0], n) /\ \A i \in 1 .. k : F[i] = ReadParam(F[i - 1])
                  BY <1>4, <2>4, <2>5
            <3> QED BY ONLY <3>1, n \in Nat, k \in Nat, WithinEach
      <2> QED BY <2>4, <2>5, <2>6
<1> QED BY <1>6, <1>7

\* So are both ways to read parameters.
LEMMA WithinParams ==
    ASSUME NEW st, NEW n \in Nat, Within(st, n)
    PROVE  Within(ReadParams(st), n) /\ Within(ReadParamsLeniently(st), n)
<1>1. PICK r : r = ParseParams(st)
      OBVIOUS
<1>2. Within(r, n)
      BY <1>1, WithinParseParams
<1>3. PICK a, b : /\ a = [st.msg EXCEPT !.Params = IF r.err THEN {} ELSE r.msg.Params]
                  /\ b = [st.msg EXCEPT !.Params = r.msg.Params]
      OBVIOUS
<1>4. ReadParams(st) = [r EXCEPT !.msg = a] /\ ReadParamsLeniently(st) = [r EXCEPT !.msg = b]
      BY <1>1, <1>3 DEF ReadParams, ReadParamsLeniently
<1>5. Within([r EXCEPT !.msg = a], n) /\ Within([r EXCEPT !.msg = b], n)
      BY <1>2 DEF Within
<1> QED BY <1>4, <1>5

\* So is the Parse of every message.
LEMMA WithinParse ==
    ASSUME NEW w \in Cells, NEW n \in Nat, Len(w) <= n
    PROVE  /\ Within(ClientSetupParse(w), n) /\ Within(ServerSetupParse(w), n)
           /\ Within(AnnounceParse(w), n) /\ Within(AnnounceOkParse(w), n)
           /\ Within(SubscribeParse(w), n) /\ Within(SubscribeOkParse(w), n)
           /\ Within(UnsubscribeParse(w), n) /\ Within(SubscribeDoneParse(w), n)
<1>1. Within(ClientSetupParse(w), n)
      <2>1. PICK z : z = [type |-> CLIENT_SETUP, SupportedVersions |-> << >>, Params |-> {}]
            OBVIOUS
      <2>2. Within(ReadList(Reader(z, w), "SupportedVersions"), n)
            BY WithinReader, WithinList
      <2>3. Within(ReadParamsLeniently(ReadList(Reader(z, w), "SupportedVersions")), n)
            BY <2>2, WithinParams
      <2> QED BY <2>1, <2>3 DEF ClientSetupParse
<1>2. Within(ServerSetupParse(w), n)
      <2>1. PICK z : z = [type |-> SERVER_SETUP, SelectedVersion |-> 0, Params |-> {}]
            OBVIOUS
      <2>2. Within(ReadInt(Reader(z, w), "SelectedVersion"), n)
            BY WithinReader, WithinInt
      <2>3. Within(ReadParamsLeniently(ReadInt(Reader(z, w), "SelectedVersion")), n)
            BY <2>2, WithinParams
      <2> QED BY <2>1, <2>3 DEF ServerSetupParse
<1>3. Within(AnnounceParse(w), n)
      <2>1. PICK z : z = [type |-> ANNOUNCE, TrackNameSpace |-> << >>, Params |-> {}]
            OBVIOUS
      <2>2. Within(ReadString(Reader(z, w), "TrackNameSpace"), n)
            BY WithinReader, WithinString
      <2>3. Within(ReadParams(ReadString(Reader(z, w), "TrackNameSpace")), n)
            BY <2>2, WithinParams
      <2> QED BY <2>1, <2>3 DEF AnnounceParse
<1>4. Within(AnnounceOkParse(w), n)
      <2>1. PICK z : z = [type |-> ANNOUNCE_OK, TrackNameSpace |-> << >>]
            OBVIOUS
      <2>2. Within(ReadString(Reader(z, w), "TrackNameSpace"), n)
            BY WithinReader, WithinString
      <2> QED BY <2>1, <2>2 DEF AnnounceOkParse
<1>5. Within(SubscribeParse(w), n)
      <2>1. PICK ids : ids = ReadInts(Reader(NoSubscribe, w), <<"SubscribeID", "TrackAlias">>)
            OBVIOUS
      <2>2. Within(Reader(NoSubscribe, w), n)
            BY WithinReader
      <2>3. Within(ids, n)
            BY <2>1, <2>2, WithinInts
      <2>4. PICK s : s = ReadString(ReadString(ids, "TrackNameSpace"), "TrackName")
            OBVIOUS
      <2>5. Within(ReadString(ids, "TrackNameSpace"), n)
            BY <2>3, WithinString
      <2>6. Within(s, n)
            BY <2>4, <2>5, WithinString
      <2>7. PICK f : f = ReadInt(s, "FilterType")
            OBVIOUS
      <2>8. Within(f, n)
            BY <2>6, <2>7, WithinInt
      <2>9. PICK x : x = ReadInts(f, FilterFields(f.msg.FilterType))
            OBVIOUS
      <2>10. Within(x, n)
            <3>1. /\ Within(ReadInts(f, << >>), n)
                  /\ Within(ReadInts(f, <<"StartGroup", "StartObject">>), n)
                  /\ Within(ReadInts(f, <<"StartGroup", "StartObject", "EndGroup", "EndObject">>), n)
                  BY <2>8, WithinInts
            <3> QED BY <2>9, <3>1 DEF FilterFields
      <2>11. SubscribeParse(w) = ReadParams(x)
            BY <2>1, <2>4, <2>7, <2>9 DEF SubscribeParse
      <2> QED BY <2>10, <2>11, WithinParams
<1>6. Within(SubscribeOkParse(w), n)
      <2>1. PICK z : z = [type |-> SUBSCRIBE_OK, SubscribeID |-> 0, Expires |-> 0,
                          ContentExists |-> 0, largestGroupId |-> 0, largestObjectId |-> 0]
            OBVIOUS
      <2>2. Within(Reader(z, w), n)
            BY WithinReader
      <2>3. PICK st : st = ReadInts(Reader(z, w), <<"SubscribeID", "Expires", "ContentExists">>)
            OBVIOUS
      <2>4. Within(st, n)
            BY <2>2, <2>3, WithinInts
      <2>5. /\ Within(ReadInts(st, << >>), n)
            /\ Within(ReadInts(st, <<"largestObjectId", "largestObjectId">>), n)
            BY <2>4, WithinInts
      <2>6. SubscribeOkParse(w) = ReadInts(st, IF st.msg.ContentExists = 1
                                   THEN <<"largestObjectId", "largestObjectId">> ELSE << >>)
            BY <2>1, <2>3 DEF SubscribeOkParse
      <2> QED BY <2>5, <2>6
<1>7. Within(UnsubscribeParse(w), n)
      <2>1. PICK z : z = [type |-> UNSUBSCRIBE, SubscriptionID |-> 0]
            OBVIOUS
      <2>2. Within(ReadInt(Reader(z, w), "SubscriptionID"), n)
            BY WithinReader, WithinInt
      <2> QED BY <2>1, <2>2 DEF UnsubscribeParse
<1>8. Within(SubscribeDoneParse(w), n)
      <2>1. PICK z : z = [type |-> SUBSCRIBE_DONE, SubscribeID |-> 0, StatusCode |-> 0,
                                ReasonPhrase |-> << >>, ContentExists |-> 0,
                                FinalGroup |-> 0, FinalObject |-> 0]
            OBVIOUS
      <2>2. Within(Reader(z, w), n)
            BY WithinReader
      <2>3. PICK ids : ids = ReadInts(Reader(z, w), <<"SubscribeID", "StatusCode">>)
            OBVIOUS
      <2>4. Within(ids, n)
            BY <2>2, <2>3, WithinInts
      <2>5. Within(ReadString(ids, "ReasonPhrase"), n)
            BY <2>4, WithinString
      <2>6. PICK st : st = ReadInt(ReadString(ids, "ReasonPhrase"), "ContentExists")
            OBVIOUS
      <2>7. Within(st, n)
            BY <2>5, <2>6, WithinInt
      <2>8. Within(ReadInts(st, << >>), n) /\ Within(ReadInts(st, <<"FinalGroup", "FinalObject">>), n)
            BY <2>7, WithinInts
      <2>9. SubscribeDoneParse(w) = ReadInts(st, IF st.msg.ContentExists = 1
                                   THEN <<"FinalGroup", "FinalObject">> ELSE << >>)
            BY <2>1, <2>3, <2>6 DEF SubscribeDoneParse
      <2> QED BY <2>8, <2>9
<1> QED BY <1>1, <1>2, <1>3, <1>4, <1>5, <1>6, <1>7, <1>8

\* Whatever the cells are, a turn of ServeCS takes some and leaves the rest.
LEMMA MessageTakes ==
    ASSUME NEW w \in Cells, NEW r, r = ParseMOQTMessage(w)
    PROVE  r.in \in Cells /\ Len(r.in) <= Len(w) /\ r.end \in BOOLEAN
<1>1. CASE w = << >>
      <2>1. r.in = << >> /\ r.end = TRUE
            BY <1>1, NothingToRead
      <2>2. r.in = w /\ Len(w) \in Nat
            BY <1>1, <2>1, CellsFacts
      <2>3. r.end \in BOOLEAN
            BY <2>1
      <2>4. r.in \in Cells /\ Len(r.in) <= Len(w)
            BY <2>2
      <2> QED BY <2>3, <2>4
<1>2. CASE w # << >>
      <2>1. Tail(w) \in Cells /\ Len(Tail(w)) <= Len(w) /\ Len(w) \in Nat
            BY <1>2 DEF Cells
      <2>2. CASE Head(w) \notin MessageTypes
            <3>1. r.in = Tail(w) /\ r.end = TRUE
                  BY <1>2, <2>2, Dispatch
            <3> QED BY <2>1, <3>1
      <2>3. CASE Head(w) \in MessageTypes
            <3>1. PICK x : IsParsed(r, x) /\ Within(x, Len(w))
                  BY <1>2, <2>1, <2>3, WithinParse, Dispatch DEF MessageTypes
            <3> QED BY <3>1 DEF IsParsed, Within
      <2> QED BY <2>2, <2>3
<1> QED BY <1>1, <1>2

-----------------------------------------------------------------------------
\* The stream. k is its kind, s what was sent and b its cells, g what was read, w the
\* cells on the wire, l the number of those lost, e and d whether it has ended and
\* its reader is done.

SentAs(k, i, m) == IF k = "control" THEN m \in Messages
                   ELSE IF i = 1 THEN m \in Headers /\ m.type = HeaderType(k)
                   ELSE IF k = "track" THEN m \in TrackObjects ELSE m \in Objects
AsSent(k, m, g) == IF k = "control" THEN Same(m, g) ELSE g = m
HalfRead(k, i, m, g) ==
    k # "control" => /\ i > 1 /\ g.ID = m.ID /\ Len(g.Payload) = Len(m.Payload)
                     /\ k = "track" => g.GroupID = m.GroupID
Reading(k, g, w) == IF k = "control" THEN ParseMOQTMessage(w)
                    ELSE IF g = << >> THEN ParseMOQTStream(w)
                    ELSE IF k = "track" THEN TrackReadObject(w) ELSE ObjectParse(w)
ReadNext(k, i, m, r, rest, t) ==
    IF t = "whole" THEN r.in = rest /\ r.end = FALSE /\ AsSent(k, m, r.msg)
    ELSE r.in = << >> /\ (r.end = TRUE \/ (r.end = FALSE /\ HalfRead(k, i, m, r.msg)))

\* With nothing on the wire every reader waits, or stops when the stream has ended.
LEMMA EmptyWire ==
    ASSUME NEW k, NEW g, NEW r, r = Reading(k, g, << >>)
    PROVE  r.in = << >> /\ r.end = TRUE /\ r.short = TRUE
<1>1. CASE k = "control"
      BY <1>1, NothingToRead DEF Reading
<1>2. CASE k # "control" /\ g = << >>
      BY <1>2 DEF Reading, ParseMOQTStream
<1>3. CASE k = "track" /\ g # << >>
      BY <1>3 DEF Reading, TrackReadObject
<1>4. CASE k # "control" /\ k # "track" /\ g # << >>
      <2>1. PICK z : z = [ID |-> 0, length |-> 0]
            OBVIOUS
      <2>2. ReadInt(Reader(z, << >>), "ID") = Out(z) /\ ReadInt(Out(z), "length") = Out(z)
            BY ReadIntOut
      <2>3. ReadInts(Reader(z, << >>), <<"ID", "length">>) = Out(z)
            BY <2>2, ReadInts2
      <2>4. PICK st : st = Out(z)
            OBVIOUS
      <2>5. st.err = TRUE /\ st.in = << >> /\ st.short = TRUE
            BY <2>4 DEF Out
      <2>6. ObjectParse(<< >>) = [end |-> TRUE, in |-> st.in, short |-> st.short]
            BY <2>1, <2>3, <2>4, <2>5 DEF ObjectParse
      <2>7. r = [end |-> TRUE, in |-> st.in, short |-> st.short]
            BY <1>4, <2>6 DEF Reading
      <2> QED BY <2>5, <2>7
<1> QED BY <1>1, <1>2, <1>3, <1>4

\* What is sent for a header.
LEMMA HeaderIsSent ==
    ASSUME NEW h \in StreamHeader
    PROVE  Bytes(h) = HeaderBytes(h, h.SubID)
<1>1. h.type = STREAM_HEADER_GROUP \/ h.type = STREAM_HEADER_TRACK
      BY DEF StreamHeader
<1>2. "type" \in DOMAIN h
      BY HeaderCells
<1> QED BY <1>1, <1>2 DEF Bytes, STREAM_HEADER_GROUP, STREAM_HEADER_TRACK, CLIENT_SETUP,
           SERVER_SETUP, ANNOUNCE, ANNOUNCE_OK, SUBSCRIBE, SUBSCRIBE_OK, UNSUBSCRIBE, SUBSCRIBE_DONE

\* What is sent for an object.
LEMMA ObjectIsSent ==
    /\ \A o \in [ID : Nat, Payload : Seq(Nat)] : Bytes(o) = ObjectBytes(o)
    /\ \A o \in [GroupID : Nat, ID : Nat, Payload : Seq(Nat)] : Bytes(o) = TrackObjectBytes(o)
<1>1. ASSUME NEW o \in [ID : Nat, Payload : Seq(Nat)] PROVE Bytes(o) = ObjectBytes(o)
      <2>1. "type" \notin DOMAIN o /\ "GroupID" \notin DOMAIN o
            OBVIOUS
      <2> QED BY <2>1 DEF Bytes
<1>2. ASSUME NEW o \in [GroupID : Nat, ID : Nat, Payload : Seq(Nat)]
      PROVE  Bytes(o) = TrackObjectBytes(o)
      <2>1. "type" \notin DOMAIN o /\ "GroupID" \in DOMAIN o
            OBVIOUS
      <2> QED BY <2>1 DEF Bytes
<1> QED BY <1>1, <1>2

\* Whatever is sent is at least one cell.
LEMMA SentCells ==
    ASSUME NEW k \in {"control", "group", "track"}, NEW i, NEW m, SentAs(k, i, m)
    PROVE  Bytes(m) \in Cells /\ Bytes(m) # << >>
<1>1. CASE k = "control"
      BY <1>1, SentAssumption, MessageRead DEF SentAs
<1>2. CASE k # "control" /\ i = 1
      <2>1. m \in StreamHeader
            BY <1>2, SentAssumption DEF SentAs
      <2>2. Bytes(m) = HeaderBytes(m, m.SubID)
            BY <2>1, HeaderIsSent
      <2> QED BY <2>1, <2>2, HeaderCells
<1>3. CASE k = "group" /\ i # 1
      <2>1. m \in [ID : Nat, Payload : Seq(Nat)]
            BY <1>3, SentAssumption DEF SentAs
      <2>2. Bytes(m) = ObjectBytes(m)
            BY <2>1, ObjectIsSent
      <2> QED BY <2>1, <2>2, ObjectCells
<1>4. CASE k = "track" /\ i # 1
      <2>1. m \in [GroupID : Nat, ID : Nat, Payload : Seq(Nat)]
            BY <1>4, SentAssumption DEF SentAs
      <2>2. Bytes(m) = TrackObjectBytes(m)
            BY <2>1, ObjectIsSent
      <2> QED BY <2>1, <2>2, TrackObjectCells
<1> QED BY <1>1, <1>2, <1>3, <1>4

\* The next message on the wire is read as sent, or as what is left of it.
LEMMA NextIsRead ==
    ASSUME NEW k \in {"control", "group", "track"}, NEW g, NEW i \in Nat, i > 0, (g = << >>) <=> i = 1,
           NEW m, SentAs(k, i, m), k = "control" => ~Misframes(m),
           NEW rest \in Cells, NEW t, NEW w, Arrives(w, Bytes(m), rest, t)
    PROVE  ReadNext(k, i, m, Reading(k, g, w), rest, t)
<1>1. CASE k = "control"
      <2>1. m \in ControlMessage /\ Carried(m)
            BY <1>1, SentAssumption DEF SentAs
      <2>2. ReadsMessage(m)
            BY <1>1, <2>1, MessageRead
      <2>3. PICK r : r = ParseMOQTMessage(w)
            OBVIOUS
      <2>4. MessageReadAs(r, m, rest, t)
            BY <2>2, <2>3 DEF ReadsMessage
      <2>5. ReadNext(k, i, m, r, rest, t)
            BY <1>1, <2>4 DEF MessageReadAs, ReadNext, AsSent, HalfRead
      <2> QED BY <1>1, <2>3, <2>5 DEF Reading
<1>2. CASE k # "control" /\ i = 1
      <2>1. m \in StreamHeader
            BY <1>2, SentAssumption DEF SentAs
      <2>2. Bytes(m) = HeaderBytes(m, m.SubID)
            BY <2>1, HeaderIsSent
      <2>3. Arrives(w, HeaderBytes(m, m.SubID), rest, t)
            BY <2>2
      <2>4. LET r == ParseMOQTStream(w) IN
            IF t = "whole" THEN r.msg = m /\ r.in = rest /\ r.end = FALSE
            ELSE r.in = << >> /\ r.end = TRUE
            BY <2>1, <2>3, HeaderRead
      <2>5. ReadNext(k, i, m, ParseMOQTStream(w), rest, t)
            BY <1>2, <2>4 DEF ReadNext, AsSent
      <2> QED BY <1>2, <2>5 DEF Reading
<1>3. CASE k = "group" /\ i # 1
      <2>1. m \in [ID : Nat, Payload : Seq(Nat)]
            BY <1>3, SentAssumption DEF SentAs
      <2>2. Bytes(m) = ObjectBytes(m)
            BY <2>1, ObjectIsSent
      <2>3. Arrives(w, ObjectBytes(m), rest, t)
            BY <2>2
      <2>4. ObjectReadAs(ObjectParse(w), m, rest, t)
            BY <2>1, <2>3, ObjectRead
      <2>5. ReadNext(k, i, m, ObjectParse(w), rest, t)
            BY <1>3, <2>4 DEF ObjectReadAs, ReadNext, AsSent, HalfRead
      <2> QED BY <1>3, <2>5 DEF Reading
<1>4. CASE k = "track" /\ i # 1
      <2>1. m \in [GroupID : Nat, ID : Nat, Payload : Seq(Nat)]
            BY <1>4, SentAssumption DEF SentAs
      <2>2. Bytes(m) = TrackObjectBytes(m)
            BY <2>1, ObjectIsSent
      <2>3. Arrives(w, TrackObjectBytes(m), rest, t)
            BY <2>2
      <2>4. PICK r : r = TrackReadObject(w)
            OBVIOUS
      <2>5. TrackObjectReadAs(r, m, rest, t)
            BY <2>1, <2>3, <2>4, TrackObjectRead
      <2>6. ReadNext(k, i, m, r, rest, t)
            BY <1>4, <2>5 DEF TrackObjectReadAs, ObjectReadAs, ReadNext, AsSent, HalfRead
      <2> QED BY <1>4, <2>4, <2>6 DEF Reading
<1> QED BY <1>1, <1>2, <1>3, <1>4

Clean(k, s, i) == k = "control" => \A j \in 1 .. i : j <= Len(s) => ~Misframes(s[j])
GotOK(k, s, b, g, w, l, e) ==
    \A i \in 1 .. Len(g) : Clean(k, s, i) =>
        /\ i <= Len(s)
        /\ IF l <= Len(Rest(b, i)) THEN AsSent(k, s[i], g[i]) /\ Len(w) + l <= Len(Rest(b, i))
           ELSE i = Len(g) /\ w = << >> /\ e /\ HalfRead(k, i, s[i], g[i])
InStep(s, b, g, w, l, e) ==
    /\ Len(g) <= Len(s)
    /\ \/ \E tail \in Cells : Len(tail) = l /\ w \o tail = Rest(b, Len(g))
       \/ w = << >> /\ e /\ l > Len(Rest(b, Len(g)))
DoneOK(k, s, b, g, l, e) ==
    \/ \E i \in 1 .. Len(s) : k = "control" /\ Misframes(s[i])
    \/ e /\ \A i \in 1 .. Len(s) : l <= Len(Rest(b, i)) => i <= Len(g)
IsSeq(s) == \E S : s \in Seq(S)
TypesOK(k, s, b, g, w, l, e) ==
    /\ IsSeq(s) /\ IsSeq(g)
    /\ b \in Seq(Cells) /\ Len(b) = Len(s) /\ \A i \in 1 .. Len(b) : b[i] # << >>
    /\ w \in Cells /\ l \in Nat /\ e \in BOOLEAN
    /\ ~e => l = 0

\* Lengths and elements of a sequence over any set, and of it with one more.
LEMMA SeqFacts ==
    ASSUME NEW s, IsSeq(s), NEW x
    PROVE  /\ Len(s) \in Nat /\ DOMAIN s = 1 .. Len(s)
           /\ IsSeq(Append(s, x)) /\ Len(Append(s, x)) = Len(s) + 1
           /\ Append(s, x)[Len(s) + 1] = x
           /\ \A i \in 1 .. Len(s) : Append(s, x)[i] = s[i]
           /\ s = << >> <=> Len(s) = 0
<1>1. PICK S : s \in Seq(S)
      BY DEF IsSeq
<1>2. s \in Seq(S \cup {x}) /\ Append(s, x) \in Seq(S \cup {x})
      BY <1>1
<1> QED BY <1>1, <1>2 DEF IsSeq

\* What is behind the i-th has a length.
LEMMA RestFacts ==
    ASSUME NEW b \in Seq(Cells), NEW i \in 0 .. Len(b)
    PROVE  Rest(b, i) \in Cells /\ Len(Rest(b, i)) \in Nat
    BY RestType, CellsFacts

\* Sending: what is added to the wire is added behind everything.
LEMMA SendKeepsGot ==
    ASSUME NEW k, NEW s, NEW b, NEW g, NEW w, NEW l, NEW e, TypesOK(k, s, b, g, w, l, e),
           GotOK(k, s, b, g, w, l, e), ~e, NEW m, NEW x \in Cells
    PROVE  GotOK(k, Append(s, m), Append(b, x), g, w \o x, l, e)
<1>1. /\ Len(s) \in Nat /\ Len(g) \in Nat /\ Len(Append(s, m)) = Len(s) + 1 /\ l = 0
      /\ \A i \in 1 .. Len(s) : Append(s, m)[i] = s[i]
      /\ Len(w) \in Nat /\ Len(x) \in Nat /\ Len(w \o x) = Len(w) + Len(x)
      BY SeqFacts, CellsFacts DEF TypesOK
<1>2. ASSUME NEW i \in 1 .. Len(g), Clean(k, Append(s, m), i)
      PROVE  /\ i <= Len(Append(s, m))
             /\ l <= Len(Rest(Append(b, x), i))
             /\ AsSent(k, Append(s, m)[i], g[i]) /\ Len(w \o x) + l <= Len(Rest(Append(b, x), i))
      <2>1. Clean(k, s, i)
            BY <1>1, <1>2 DEF Clean
      <2>2. i <= Len(s) /\ i \in 1 .. Len(s) /\ i \in 0 .. Len(b)
            BY <1>1, <2>1 DEF GotOK, TypesOK
      <2>3. Rest(b, i) \in Cells /\ Len(Rest(b, i)) \in Nat
            BY <2>2, RestFacts DEF TypesOK
      <2>4. AsSent(k, s[i], g[i]) /\ Len(w) + l <= Len(Rest(b, i))
            BY <1>1, <2>1, <2>3 DEF GotOK
      <2>5. Rest(Append(b, x), i) = Rest(b, i) \o x
            BY <2>2, RestAppend DEF TypesOK
      <2>6. Len(Rest(b, i) \o x) = Len(Rest(b, i)) + Len(x)
            BY <2>3, CellsFacts
      <2> QED BY <1>1, <2>2, <2>3, <2>4, <2>5, <2>6
<1> QED BY <1>2 DEF GotOK

\* A reader in step stays in step.
LEMMA SendKeepsStep ==
    ASSUME NEW k, NEW s, NEW b, NEW g, NEW w, NEW l, NEW e, TypesOK(k, s, b, g, w, l, e),
           InStep(s, b, g, w, l, e), ~e, NEW m, NEW x \in Cells
    PROVE  InStep(Append(s, m), Append(b, x), g, w \o x, l, e)
<1>1. /\ Len(s) \in Nat /\ Len(g) \in Nat /\ Len(Append(s, m)) = Len(s) + 1 /\ l = 0
      /\ Len(g) <= Len(s) /\ Len(g) \in 0 .. Len(b) /\ w \in Cells /\ b \in Seq(Cells)
      BY SeqFacts DEF TypesOK, InStep
<1>2. PICK tail \in Cells : Len(tail) = l /\ w \o tail = Rest(b, Len(g))
      BY DEF InStep
<1>3. tail = << >> /\ w = Rest(b, Len(g))
      BY <1>1, <1>2, CellsFacts, ConcatEmpty
<1>4. Rest(Append(b, x), Len(g)) = w \o x
      BY <1>1, <1>3, RestAppend
<1>5. (w \o x) \o << >> = w \o x
      BY <1>1, CellsFacts, ConcatEmpty
<1>6. Len(<< >>) = l /\ << >> \in Cells
      BY <1>1, CellsFacts
<1>7. PICK v : v = w \o x
      OBVIOUS
<1>8. v \o << >> = Rest(Append(b, x), Len(g))
      BY <1>4, <1>5, <1>7
<1>9. InStep(Append(s, m), Append(b, x), g, v, l, e)
      <2>1. PICK z, c, n : z = << >> /\ c = Rest(Append(b, x), Len(g)) /\ n = Append(s, m)
            OBVIOUS
      <2>2. z \in Cells /\ Len(z) = l /\ v \o z = c
            BY <1>6, <1>8, <2>1
      <2>3. \E t \in Cells : Len(t) = l /\ v \o t = c
            BY <2>2
      <2>4. Len(g) <= Len(n)
            BY <1>1, <2>1
      <2> QED BY <2>1, <2>3, <2>4 DEF InStep
<1> QED BY <1>7, <1>9

\* A reader that is done before the stream has ended met a message that misframes.
LEMMA SendKeepsDone ==
    ASSUME NEW k, NEW s, NEW b, NEW g, NEW w, NEW l, NEW e, TypesOK(k, s, b, g, w, l, e),
           DoneOK(k, s, b, g, l, e), ~e, NEW m, NEW x \in Cells
    PROVE  DoneOK(k, Append(s, m), Append(b, x), g, l, e)
<1>1. PICK i \in 1 .. Len(s) : k = "control" /\ Misframes(s[i])
      BY DEF DoneOK
<1>2. i \in 1 .. Len(Append(s, m)) /\ Append(s, m)[i] = s[i]
      BY SeqFacts DEF TypesOK
<1> QED BY <1>1, <1>2 DEF DoneOK

\* Two parts put together again.
LEMMA Rejoin ==
    ASSUME NEW v \in Cells, NEW u \in Cells, NEW w \in Cells, Len(w) = Len(v) + Len(u),
           \A i \in 1 .. Len(v) : v[i] = w[i], \A i \in 1 .. Len(u) : u[i] = w[i + Len(v)]
    PROVE  v \o u = w
<1>1. v \o u \in Cells /\ Len(v \o u) = Len(w)
      BY CellsFacts
<1>2. ASSUME NEW i \in 1 .. Len(w) PROVE (v \o u)[i] = w[i]
      <2>1. Len(v) \in Nat /\ Len(u) \in Nat /\ v \in Seq(Nat) /\ u \in Seq(Nat)
            BY DEF Cells
      <2>2. CASE i <= Len(v)
            <3>1. (v \o u)[i] = v[i]
                  BY <2>1, <2>2
            <3> QED BY <2>1, <2>2, <3>1
      <2>3. CASE i > Len(v)
            <3>1. (v \o u)[i] = u[i - Len(v)]
                  BY <2>1, <2>3
            <3>2. PICK j \in 1 .. Len(u) : j = i - Len(v) /\ j + Len(v) = i
                  <4>1. i - Len(v) \in 1 .. Len(u) /\ (i - Len(v)) + Len(v) = i
                        BY <2>1, <2>3
                  <4> QED BY <4>1
            <3> QED BY <3>1, <3>2
      <2> QED BY <2>1, <2>2, <2>3
<1> QED BY <1>1, <1>2, SeqEqual DEF Cells

\* The end of the stream: what is cut off the wire is what is lost.
CutAt(v, w, n, c) == n \in 0 .. Len(w) /\ v = SubSeq(w, 1, n) /\ c = Len(w) - n

\* What was read, and the reader's place, stay right.
LEMMA EndKeeps ==
    ASSUME NEW k, NEW s, NEW b, NEW g, NEW w, NEW l, NEW e, TypesOK(k, s, b, g, w, l, e),
           e = FALSE, NEW n, NEW v, NEW c, CutAt(v, w, n, c), NEW f, f = TRUE
    PROVE  /\ TypesOK(k, s, b, g, v, c, f)
           /\ GotOK(k, s, b, g, w, l, e) => GotOK(k, s, b, g, v, c, f)
           /\ InStep(s, b, g, w, l, e) => InStep(s, b, g, v, c, f)
           /\ DoneOK(k, s, b, g, l, e) => DoneOK(k, s, b, g, c, f)
<1>0. n \in 0 .. Len(w) /\ v = SubSeq(w, 1, n) /\ c = Len(w) - n
      BY DEF CutAt
<1>1. /\ Len(w) \in Nat /\ l = 0 /\ Len(w) - n \in Nat /\ n \in Nat /\ w \in Cells /\ b \in Seq(Cells)
      /\ Len(s) \in Nat /\ Len(g) \in Nat /\ Len(b) = Len(s)
      BY <1>0, CellsFacts, SeqFacts DEF TypesOK
<1>2. PICK u \in Cells : v \in Cells /\ Len(v) = n /\ Len(u) = Len(w) - n /\ v \o u = w
      <2>1. PICK u : u = SubSeq(w, n + 1, Len(w))
            OBVIOUS
      <2>2. v \in Cells /\ Len(v) = n
            BY <1>0, <1>1 DEF Cells
      <2>3. u \in Cells /\ Len(u) = Len(w) - n
            BY <1>0, <1>1, <2>1 DEF Cells
      <2>4. v \o u = w
            <3>1. \A i \in 1 .. n : v[i] = w[i]
                  BY <1>0, <1>1 DEF Cells
            <3>2. \A i \in 1 .. Len(w) - n : u[i] = w[i + n]
                  BY <1>0, <1>1, <2>1 DEF Cells
            <3>3. /\ Len(w) = Len(v) + Len(u) /\ \A i \in 1 .. Len(v) : v[i] = w[i]
                  /\ \A i \in 1 .. Len(u) : u[i] = w[i + Len(v)]
                  BY <1>1, <2>2, <2>3, <3>1, <3>2
            <3>4. v \in Cells /\ u \in Cells /\ w \in Cells
                  BY <1>1, <2>2, <2>3
            <3> QED BY ONLY <3>3, <3>4, Rejoin
      <2> QED BY <2>2, <2>3, <2>4
<1>3. TypesOK(k, s, b, g, v, c, f)
      BY <1>0, <1>1, <1>2 DEF TypesOK
<1>4. ASSUME GotOK(k, s, b, g, w, l, e)
      PROVE  GotOK(k, s, b, g, v, c, f)
      <2>1. ASSUME NEW i \in 1 .. Len(g), Clean(k, s, i)
            PROVE  /\ i <= Len(s) /\ Len(w) - n <= Len(Rest(b, i))
                   /\ AsSent(k, s[i], g[i]) /\ Len(v) + (Len(w) - n) <= Len(Rest(b, i))
            <3>1. i <= Len(s) /\ i \in 0 .. Len(b)
                  BY <1>1, <1>4, <2>1 DEF GotOK
            <3>2. Len(Rest(b, i)) \in Nat
                  BY <1>1, <3>1, RestFacts
            <3>3. AsSent(k, s[i], g[i]) /\ Len(w) + l <= Len(Rest(b, i))
                  BY <1>1, <1>4, <2>1, <3>2 DEF GotOK
            <3> QED BY <1>1, <1>2, <3>1, <3>2, <3>3
      <2> QED BY <1>0, <2>1 DEF GotOK
<1>5. ASSUME InStep(s, b, g, w, l, e)
      PROVE  InStep(s, b, g, v, c, f)
      <2>1. PICK tail \in Cells : Len(tail) = l /\ w \o tail = Rest(b, Len(g))
            BY <1>5 DEF InStep
      <2>2. tail = << >>
            BY <1>1, <2>1, CellsFacts
      <2>3. w = Rest(b, Len(g))
            BY <1>1, <2>1, <2>2, ConcatEmpty
      <2>4. \E t \in Cells : Len(t) = Len(w) - n /\ v \o t = Rest(b, Len(g))
            BY <1>2, <2>3
      <2> QED BY <1>0, <1>5, <2>4 DEF InStep
<1>6. DoneOK(k, s, b, g, l, e) => DoneOK(k, s, b, g, c, f)
      BY DEF DoneOK
<1> QED BY <1>3, <1>4, <1>5, <1>6

\* What was read stays right when there is less on the wire.
LEMMA GotShrinks ==
    ASSUME NEW k, NEW s, NEW b, NEW g, NEW w, NEW l, NEW e, TypesOK(k, s, b, g, w, l, e),
           GotOK(k, s, b, g, w, l, e), NEW v \in Cells, Len(v) <= Len(w)
    PROVE  GotOK(k, s, b, g, v, l, e)
<1>1. Len(w) \in Nat /\ Len(v) \in Nat /\ l \in Nat /\ (w = << >> => v = << >>)
      BY CellsFacts DEF TypesOK
<1>2. ASSUME NEW i \in 1 .. Len(g), Clean(k, s, i)
      PROVE  /\ i <= Len(s)
             /\ IF l <= Len(Rest(b, i)) THEN AsSent(k, s[i], g[i]) /\ Len(v) + l <= Len(Rest(b, i))
                ELSE i = Len(g) /\ v = << >> /\ e /\ HalfRead(k, i, s[i], g[i])
      <2>1. i <= Len(s) /\ i \in 0 .. Len(b)
            BY <1>2, SeqFacts DEF GotOK, TypesOK
      <2>2. Len(Rest(b, i)) \in Nat
            BY <2>1, RestFacts DEF TypesOK
      <2>3. CASE l <= Len(Rest(b, i))
            <3>1. AsSent(k, s[i], g[i]) /\ Len(w) + l <= Len(Rest(b, i))
                  BY <1>2, <2>3 DEF GotOK
            <3> QED BY <1>1, <2>1, <2>2, <2>3, <3>1
      <2>4. CASE ~(l <= Len(Rest(b, i)))
            <3>1. i = Len(g) /\ w = << >> /\ e /\ HalfRead(k, i, s[i], g[i])
                  BY <1>2, <2>4 DEF GotOK
            <3> QED BY <1>1, <2>1, <2>4, <3>1
      <2> QED BY <2>3, <2>4
<1> QED BY <1>2 DEF GotOK

NewOK(k, s, b, i, x, v, l, e) ==
    /\ i <= Len(s)
    /\ IF l <= Len(Rest(b, i)) THEN AsSent(k, s[i], x) /\ Len(v) + l <= Len(Rest(b, i))
       ELSE v = << >> /\ e /\ HalfRead(k, i, s[i], x)

\* What was read stays right when one more is.
LEMMA GotGrows ==
    ASSUME NEW k, NEW s, NEW b, NEW g, NEW w, NEW l, NEW e, TypesOK(k, s, b, g, w, l, e),
           GotOK(k, s, b, g, w, l, e), w # << >> \/ ~Clean(k, s, Len(g)),
           NEW v \in Cells, Len(v) <= Len(w), NEW x,
           Clean(k, s, Len(g) + 1) => NewOK(k, s, b, Len(g) + 1, x, v, l, e)
    PROVE  GotOK(k, s, b, Append(g, x), v, l, e)
<1>1. /\ Len(w) \in Nat /\ Len(v) \in Nat /\ l \in Nat /\ Len(g) \in Nat /\ Len(s) \in Nat
      /\ Len(Append(g, x)) = Len(g) + 1 /\ Append(g, x)[Len(g) + 1] = x
      /\ \A i \in 1 .. Len(g) : Append(g, x)[i] = g[i]
      BY CellsFacts, SeqFacts DEF TypesOK
<1>2. PICK h : h = Append(g, x)
      OBVIOUS
<1>3. ASSUME NEW i \in 1 .. Len(h), Clean(k, s, i)
      PROVE  /\ i <= Len(s)
             /\ IF l <= Len(Rest(b, i)) THEN AsSent(k, s[i], h[i]) /\ Len(v) + l <= Len(Rest(b, i))
                ELSE i = Len(h) /\ v = << >> /\ e /\ HalfRead(k, i, s[i], h[i])
      <2>1. CASE i = Len(g) + 1
            BY <1>1, <1>2, <1>3, <2>1 DEF NewOK
      <2>2. CASE i \in 1 .. Len(g)
            <3>1. i <= Len(s) /\ i \in 0 .. Len(b) /\ h[i] = g[i]
                  BY <1>1, <1>2, <1>3, <2>2 DEF GotOK, TypesOK
            <3>2. Len(Rest(b, i)) \in Nat
                  BY <3>1, RestFacts DEF TypesOK
            <3>3. l <= Len(Rest(b, i))
                  <4>1. ~(i = Len(g) /\ w = << >>)
                        BY <1>3
                  <4> QED BY <1>3, <2>2, <4>1 DEF GotOK
            <3>4. AsSent(k, s[i], g[i]) /\ Len(w) + l <= Len(Rest(b, i))
                  BY <1>3, <2>2, <3>3 DEF GotOK
            <3> QED BY <1>1, <3>1, <3>2, <3>3, <3>4
      <2> QED BY <1>1, <1>2, <2>1, <2>2
<1>4. GotOK(k, s, b, h, v, l, e)
      BY <1>3 DEF GotOK
<1> QED BY <1>2, <1>4

\* What is behind is shorter: if a message is not whole, none behind it is.
LEMMA NoneBehind ==
    ASSUME NEW k, NEW s, NEW b, NEW g, NEW w, NEW l, NEW e, TypesOK(k, s, b, g, w, l, e),
           NEW j \in 0 .. Len(s), NEW i \in 1 .. Len(s), i > j
    PROVE  Len(Rest(b, i)) < Len(Rest(b, j)) /\ Len(Rest(b, i)) \in Nat /\ Len(Rest(b, j)) \in Nat
<1>1. i \in 0 .. Len(b) /\ j \in 0 .. Len(b) /\ b \in Seq(Cells) /\ j < i
      BY SeqFacts DEF TypesOK
<1>2. \A n \in 1 .. Len(b) : b[n] # << >>
      BY DEF TypesOK
<1>3. Len(Rest(b, i)) < Len(Rest(b, j))
      BY ONLY <1>1, <1>2, RestShorter
<1> QED BY <1>1, <1>3, RestFacts

\* The state after a turn of the reading loop.
ReadKeeps(k, s, b, g, v, l, e, d) ==
    /\ TypesOK(k, s, b, g, v, l, e) /\ GotOK(k, s, b, g, v, l, e) /\ d \in BOOLEAN
    /\ Clean(k, s, Len(g)) /\ ~d => InStep(s, b, g, v, l, e)
    /\ d => DoneOK(k, s, b, g, l, e)

\* The reader has lost its place behind a message that misframes.
LEMMA ReadAstray ==
    ASSUME NEW s, NEW b, NEW g, NEW w, NEW l, NEW e, TypesOK("control", s, b, g, w, l, e),
           GotOK("control", s, b, g, w, l, e), w # << >> \/ ~Clean("control", s, Len(g)),
           ~Clean("control", s, Len(g) + 1), NEW r, r = ParseMOQTMessage(w)
    PROVE  ReadKeeps("control", s, b, IF r.end THEN g ELSE Append(g, r.msg), r.in, l, e, r.end)
<1>1. r.in \in Cells /\ Len(r.in) <= Len(w) /\ r.end \in BOOLEAN
      BY MessageTakes DEF TypesOK
<1>2. DoneOK("control", s, b, g, l, e)
      <2>1. PICK j \in 1 .. Len(g) + 1 : j <= Len(s) /\ Misframes(s[j])
            BY DEF Clean
      <2>2. j \in 1 .. Len(s)
            BY <2>1, SeqFacts DEF TypesOK
      <2> QED BY <2>1, <2>2 DEF DoneOK
<1>3. CASE r.end
      <2>1. TypesOK("control", s, b, g, r.in, l, e)
            BY <1>1 DEF TypesOK
      <2>2. GotOK("control", s, b, g, r.in, l, e)
            BY <1>1, GotShrinks
      <2> QED BY <1>1, <1>2, <1>3, <2>1, <2>2 DEF ReadKeeps
<1>4. CASE ~r.end
      <2>1. PICK h : h = Append(g, r.msg)
            OBVIOUS
      <2>2. IsSeq(h) /\ Len(h) = Len(g) + 1
            BY <2>1, SeqFacts DEF TypesOK
      <2>3. TypesOK("control", s, b, h, r.in, l, e)
            BY <1>1, <2>2 DEF TypesOK
      <2>4. GotOK("control", s, b, h, r.in, l, e)
            BY <1>1, <2>1, GotGrows
      <2> QED BY <1>1, <1>4, <2>1, <2>2, <2>3, <2>4 DEF ReadKeeps
<1> QED BY <1>1, <1>3, <1>4

\* Nothing is left to read.
LEMMA ReadNothing ==
    ASSUME NEW k, NEW s, NEW b, NEW g, NEW l, NEW e, TypesOK(k, s, b, g, << >>, l, e),
           GotOK(k, s, b, g, << >>, l, e), InStep(s, b, g, << >>, l, e),
           NEW r, r = Reading(k, g, << >>), r.short => e
    PROVE  ReadKeeps(k, s, b, IF r.end THEN g ELSE Append(g, r.msg), r.in, l, e, r.end)
<1>1. r.in = << >> /\ r.end = TRUE /\ r.short = TRUE
      BY EmptyWire
<1>2. Len(s) \in Nat /\ Len(g) \in Nat /\ l \in Nat /\ Len(g) \in 0 .. Len(s) /\ Len(b) = Len(s)
      BY SeqFacts DEF TypesOK, InStep
<1>3. Rest(b, Len(g)) \in Cells /\ Len(Rest(b, Len(g))) \in Nat
      BY <1>2, RestFacts DEF TypesOK
<1>4. l >= Len(Rest(b, Len(g)))
      <2>1. CASE \E tail \in Cells : Len(tail) = l /\ << >> \o tail = Rest(b, Len(g))
            BY <1>3, <2>1, ConcatEmpty
      <2>2. CASE l > Len(Rest(b, Len(g)))
            BY <1>2, <1>3, <2>2
      <2> QED BY <2>1, <2>2 DEF InStep
<1>5. ASSUME NEW i \in 1 .. Len(s), l <= Len(Rest(b, i))
      PROVE  i <= Len(g)
      <2>1. CASE i > Len(g)
            BY <1>2, <1>4, <1>5, <2>1, NoneBehind
      <2> QED BY <1>2, <2>1
<1>6. DoneOK(k, s, b, g, l, e)
      BY <1>1, <1>5 DEF DoneOK
<1>7. ReadKeeps(k, s, b, g, << >>, l, e, r.end)
      BY <1>1, <1>6 DEF ReadKeeps
<1> QED BY <1>1, <1>7

\* The next message is on the wire, whole.
LEMMA ReadWhole ==
    ASSUME NEW k, NEW s, NEW b, NEW g, NEW w, NEW l, NEW e, TypesOK(k, s, b, g, w, l, e),
           GotOK(k, s, b, g, w, l, e), w # << >>, Len(g) < Len(s),
           NEW v \in Cells, Len(v) <= Len(w), NEW tail \in Cells, Len(tail) = l,
           v \o tail = Rest(b, Len(g) + 1),
           NEW r, ReadNext(k, Len(g) + 1, s[Len(g) + 1], r, v, "whole")
    PROVE  ReadKeeps(k, s, b, IF r.end THEN g ELSE Append(g, r.msg), r.in, l, e, r.end)
<1>1. r.in = v /\ r.end = FALSE /\ AsSent(k, s[Len(g) + 1], r.msg)
      BY DEF ReadNext
<1>2. PICK h : h = Append(g, r.msg)
      OBVIOUS
<1>3. IsSeq(h) /\ Len(h) = Len(g) + 1 /\ Len(g) \in Nat /\ Len(s) \in Nat /\ l \in Nat
      BY <1>2, SeqFacts DEF TypesOK
<1>4. Len(v) + l = Len(Rest(b, Len(g) + 1)) /\ Len(v) \in Nat
      BY CellsFacts
<1>5. NewOK(k, s, b, Len(g) + 1, r.msg, v, l, e)
      BY <1>1, <1>3, <1>4 DEF NewOK
<1>6. GotOK(k, s, b, h, v, l, e)
      BY <1>2, <1>5, GotGrows
<1>7. TypesOK(k, s, b, h, v, l, e)
      BY <1>3 DEF TypesOK
<1>8. InStep(s, b, h, v, l, e)
      BY <1>3, SMTT(30) DEF InStep
<1>9. ReadKeeps(k, s, b, h, v, l, e, r.end)
      BY <1>1, <1>6, <1>7, <1>8 DEF ReadKeeps
<1> QED BY <1>1, <1>2, <1>9

\* The stream ends in the next message.
LEMMA ReadCut ==
    ASSUME NEW k, NEW s, NEW b, NEW g, NEW w, NEW l, NEW e, TypesOK(k, s, b, g, w, l, e),
           GotOK(k, s, b, g, w, l, e), w # << >>, Len(g) < Len(s),
           l > Len(Rest(b, Len(g) + 1)),
           NEW r, ReadNext(k, Len(g) + 1, s[Len(g) + 1], r, << >>, "cut")
    PROVE  ReadKeeps(k, s, b, IF r.end THEN g ELSE Append(g, r.msg), r.in, l, e, r.end)
<1>1. r.in = << >> /\ (r.end = TRUE \/ (r.end = FALSE /\ HalfRead(k, Len(g) + 1, s[Len(g) + 1], r.msg)))
      BY DEF ReadNext
<1>2. /\ Len(g) \in Nat /\ Len(s) \in Nat /\ l \in Nat /\ Len(g) + 1 \in 0 .. Len(s)
      /\ Len(b) = Len(s) /\ << >> \in Cells /\ Len(<< >>) <= Len(w)
      BY SeqFacts, CellsFacts DEF TypesOK
<1>3. Len(Rest(b, Len(g) + 1)) \in Nat
      BY <1>2, RestFacts DEF TypesOK
<1>4. l > 0 /\ e
      <2>1. l > 0
            BY <1>2, <1>3
      <2> QED BY <2>1 DEF TypesOK
<1>5. CASE r.end = TRUE
      <2>1. ASSUME NEW i \in 1 .. Len(s), l <= Len(Rest(b, i))
            PROVE  i <= Len(g)
            <3>1. CASE i = Len(g) + 1
                  BY <1>2, <1>3, <2>1, <3>1
            <3>2. CASE i > Len(g) + 1
                  <4>1. Len(Rest(b, i)) < Len(Rest(b, Len(g) + 1)) /\ Len(Rest(b, i)) \in Nat
                        BY <1>2, <3>2, NoneBehind
                  <4> QED BY <1>2, <1>3, <2>1, <4>1
            <3> QED BY <1>2, <3>1, <3>2
      <2>2. DoneOK(k, s, b, g, l, e)
            BY <1>4, <2>1 DEF DoneOK
      <2>3. TypesOK(k, s, b, g, << >>, l, e)
            BY <1>2 DEF TypesOK
      <2>4. GotOK(k, s, b, g, << >>, l, e)
            BY <1>2, GotShrinks
      <2>5. ReadKeeps(k, s, b, g, << >>, l, e, r.end)
            BY <1>5, <2>2, <2>3, <2>4 DEF ReadKeeps
      <2> QED BY <1>1, <1>5, <2>5
<1>6. CASE r.end = FALSE /\ HalfRead(k, Len(g) + 1, s[Len(g) + 1], r.msg)
      <2>1. PICK h : h = Append(g, r.msg)
            OBVIOUS
      <2>2. IsSeq(h) /\ Len(h) = Len(g) + 1
            BY <2>1, SeqFacts DEF TypesOK
      <2>3. NewOK(k, s, b, Len(g) + 1, r.msg, << >>, l, e)
            BY <1>2, <1>3, <1>4, <1>6 DEF NewOK
      <2>4. GotOK(k, s, b, h, << >>, l, e)
            BY <1>2, <2>1, <2>3, GotGrows
      <2>5. TypesOK(k, s, b, h, << >>, l, e)
            BY <1>2, <2>2 DEF TypesOK
      <2>6. InStep(s, b, h, << >>, l, e)
            BY <1>2, <1>4, <2>2 DEF InStep
      <2>7. ReadKeeps(k, s, b, h, << >>, l, e, r.end)
            BY <1>6, <2>4, <2>5, <2>6 DEF ReadKeeps
      <2> QED BY <1>1, <1>6, <2>1, <2>7
<1> QED BY <1>1, <1>5, <1>6

\* One turn of the reading loop, whatever is on the wire.
LEMMA ReadStep ==
    ASSUME NEW k \in {"control", "group", "track"}, NEW s, NEW b, NEW g, NEW w, NEW l, NEW e,
           TypesOK(k, s, b, g, w, l, e), GotOK(k, s, b, g, w, l, e),
           \A i \in 1 .. Len(s) : SentAs(k, i, s[i]) /\ b[i] = Bytes(s[i]),
           Clean(k, s, Len(g)) => InStep(s, b, g, w, l, e),
           NEW r, r = Reading(k, g, w), r.short => e
    PROVE  ReadKeeps(k, s, b, IF r.end THEN g ELSE Append(g, r.msg), r.in, l, e, r.end)
<1>1. /\ Len(s) \in Nat /\ Len(g) \in Nat /\ l \in Nat /\ Len(b) = Len(s) /\ w \in Cells
      /\ b \in Seq(Cells) /\ (g = << >> <=> Len(g) = 0)
      BY SeqFacts DEF TypesOK
<1>2. CASE ~Clean(k, s, Len(g))
      <2>1. k = "control" /\ ~Clean("control", s, Len(g)) /\ ~Clean("control", s, Len(g) + 1)
            BY <1>1, <1>2 DEF Clean
      <2>2. r = ParseMOQTMessage(w)
            BY <2>1 DEF Reading
      <2> QED BY <2>1, <2>2, ReadAstray
<1>3. CASE Clean(k, s, Len(g)) /\ w = << >>
      BY <1>3, ReadNothing
<1>4. CASE Clean(k, s, Len(g)) /\ w # << >>
      <2>1. Len(g) <= Len(s)
            BY <1>4 DEF InStep
      <2>2. PICK tail \in Cells : Len(tail) = l /\ w \o tail = Rest(b, Len(g))
            BY <1>4 DEF InStep
      <2>3. Len(g) < Len(s) /\ Len(g) \in 0 .. Len(b) - 1 /\ Len(g) + 1 \in 1 .. Len(s)
            <3>1. CASE Len(g) = Len(s)
                  <4>1. w \o tail = << >>
                        BY <1>1, <2>2, <3>1, RestEnd
                  <4>2. Len(w) + Len(tail) = 0 /\ Len(w) \in Nat /\ Len(tail) \in Nat
                        BY <1>1, <4>1, CellsFacts
                  <4> QED BY <1>1, <1>4, <4>2, CellsFacts
            <3> QED BY <1>1, <2>1, <3>1
      <2>4. PICK n \in 1 .. Len(s) : n = Len(g) + 1
            BY <2>3
      <2>5. PICK m : m = s[n]
            OBVIOUS
      <2>6. SentAs(k, n, m) /\ b[n] = Bytes(m)
            BY <2>5
      <2>7. Bytes(m) \in Cells /\ Bytes(m) # << >>
            BY <2>6, SentCells
      <2>8. Rest(b, n) \in Cells /\ Len(Rest(b, n)) \in Nat
            BY <1>1, RestFacts
      <2>9. w \o tail = Bytes(m) \o Rest(b, n)
            BY <1>1, <2>2, <2>3, <2>4, <2>6, RestStep
      <2>10. CASE k = "control" /\ Misframes(m)
            <3>1. ~Clean("control", s, Len(g) + 1)
                  BY <1>1, <2>4, <2>5, <2>10 DEF Clean
            <3>2. r = ParseMOQTMessage(w)
                  BY <2>10 DEF Reading
            <3> QED BY <1>4, <2>10, <3>1, <3>2, ReadAstray
      <2>11. CASE ~(k = "control" /\ Misframes(m))
            <3>1. ASSUME NEW rest \in Cells, NEW t, Arrives(w, Bytes(m), rest, t)
                  PROVE  ReadNext(k, Len(g) + 1, s[Len(g) + 1], r, rest, t)
                  <4>1. n \in Nat /\ n > 0 /\ (g = << >> <=> n = 1) /\ (k = "control" => ~Misframes(m))
                        BY <1>1, <2>4, <2>11
                  <4>2. ReadNext(k, n, m, Reading(k, g, w), rest, t)
                        BY <2>6, <3>1, <4>1, NextIsRead
                  <4> QED BY <2>4, <2>5, <4>2
            <3>2. CASE \E v \in Cells : w = Bytes(m) \o v /\ v \o tail = Rest(b, n)
                  <4>1. PICK v \in Cells : w = Bytes(m) \o v /\ v \o tail = Rest(b, n)
                        BY <3>2
                  <4>2. Len(v) <= Len(w)
                        BY <2>7, <4>1, CellsFacts
                  <4>3. Arrives(w, Bytes(m), v, "whole")
                        BY <4>1 DEF Arrives
                  <4>4. ReadNext(k, Len(g) + 1, s[Len(g) + 1], r, v, "whole")
                        BY <3>1, <4>3
                  <4>5. v \o tail = Rest(b, Len(g) + 1)
                        BY <2>4, <4>1
                  <4> QED BY <1>4, <2>2, <2>3, <4>2, <4>4, <4>5, ReadWhole
            <3>3. CASE Cut(w, Bytes(m)) /\ Len(tail) > Len(Rest(b, n))
                  <4>1. Arrives(w, Bytes(m), << >>, "cut")
                        BY <3>3 DEF Arrives
                  <4>2. ReadNext(k, Len(g) + 1, s[Len(g) + 1], r, << >>, "cut")
                        BY <3>1, <4>1, CellsFacts
                  <4>3. l > Len(Rest(b, Len(g) + 1))
                        BY <2>2, <2>4, <3>3
                  <4> QED BY <1>4, <2>3, <4>2, <4>3, ReadCut
            <3>4. \/ \E v \in Cells : w = Bytes(m) \o v /\ v \o tail = Rest(b, n)
                  \/ Cut(w, Bytes(m)) /\ Len(tail) > Len(Rest(b, n))
                  BY <1>1, <2>7, <2>8, <2>9, Divide
            <3> QED BY <3>2, <3>3, <3>4
      <2> QED BY <2>10, <2>11
<1> QED BY <1>2, <1>3, <1>4

\* The cells of the messages sent, and the inductive invariant.
Coded == [i \in 1 .. Len(sent) |-> Bytes(sent[i])]
ReaderInv ==
    /\ kind \in {"control", "group", "track"}
    /\ \A i \in 1 .. Len(sent) : SentAs(kind, i, sent[i])
    /\ ReadKeeps(kind, sent, Coded, got, wire, lost, ended, done)

\* Coded has the cells of each message sent.
LEMMA CodedFacts ==
    ASSUME ReaderInv
    PROVE  /\ Coded \in Seq(Cells) /\ Len(Coded) = Len(sent)
           /\ \A i \in 1 .. Len(sent) : Coded[i] = Bytes(sent[i])
<1>1. Coded \in Seq(Cells) /\ Len(Coded) = Len(sent)
      BY DEF ReaderInv, ReadKeeps, TypesOK
<1> QED BY <1>1 DEF Coded

\* Only Send changes Coded.
LEMMA CodedStays == sent' = sent => Coded' = Coded
    BY DEF Coded

\* The invariant holds at the start.
LEMMA ReaderInit == Init => ReaderInv
<1> SUFFICES ASSUME Init PROVE ReaderInv
    OBVIOUS
<1>1. IsSeq(<< >>) /\ << >> \in Seq(Cells) /\ Len(<< >>) = 0 /\ << >> \in Cells
      BY CellsFacts DEF IsSeq
<1>2. Coded = << >>
      BY <1>1 DEF Coded, Init
<1>3. TypesOK(kind, << >>, << >>, << >>, << >>, 0, FALSE)
      BY <1>1 DEF TypesOK
<1>4. GotOK(kind, << >>, << >>, << >>, << >>, 0, FALSE)
      BY <1>1 DEF GotOK
<1>5. InStep(<< >>, << >>, << >>, << >>, 0, FALSE)
      <2>1. PICK z : z = << >>
            OBVIOUS
      <2>2. z \in Seq(Cells) /\ Len(z) = 0 /\ z \in Cells
            BY <1>1, <2>1
      <2>3. Rest(z, 0) = << >>
            BY <2>2, RestEnd
      <2>4. z \o z = << >>
            BY <2>1, <2>2, ConcatEmpty
      <2>5. InStep(z, z, z, z, 0, FALSE)
            <3>1. \E tail \in Cells : Len(tail) = 0 /\ z \o tail = Rest(z, Len(z))
                  BY <2>2, <2>3, <2>4
            <3> QED BY <2>2, <3>1 DEF InStep
      <2> QED BY <2>1, <2>5
<1>6. ReadKeeps(kind, << >>, << >>, << >>, << >>, 0, FALSE, FALSE)
      BY <1>1, <1>3, <1>4, <1>5 DEF ReadKeeps
<1>7. /\ kind \in {"control", "group", "track"} /\ sent = << >> /\ got = << >> /\ wire = << >> /\ lost = 0
      /\ ended = FALSE /\ done = FALSE
      BY DEF Init
<1>8. ReadKeeps(kind, sent, Coded, got, wire, lost, ended, done)
      BY <1>2, <1>6, <1>7
<1>9. \A i \in 1 .. Len(sent) : SentAs(kind, i, sent[i])
      BY <1>1, <1>7
<1> QED BY <1>7, <1>8, <1>9 DEF ReaderInv

\* Send adds the cells of its message.
LEMMA CodedGrows ==
    ASSUME ReaderInv, NEW m, sent' = Append(sent, m), Bytes(m) \in Cells
    PROVE  Coded' = Append(Coded, Bytes(m))
<1>1. /\ Coded \in Seq(Cells) /\ Len(Coded) = Len(sent) /\ IsSeq(sent)
      /\ \A i \in 1 .. Len(sent) : Coded[i] = Bytes(sent[i])
      BY CodedFacts DEF ReaderInv, ReadKeeps, TypesOK
<1>2. /\ Len(sent') = Len(sent) + 1 /\ Len(sent) \in Nat /\ sent'[Len(sent) + 1] = m
      /\ \A i \in 1 .. Len(sent) : sent'[i] = sent[i]
      BY <1>1, SeqFacts
<1>3. Coded' = [i \in 1 .. Len(sent') |-> Bytes(sent'[i])]
      BY DEF Coded
<1>4. PICK c : c = Append(Coded, Bytes(m))
      OBVIOUS
<1>5. c \in Seq(Cells) /\ Len(c) = Len(sent')
      BY <1>1, <1>2, <1>4
<1>6. ASSUME NEW i \in 1 .. Len(sent') PROVE c[i] = Bytes(sent'[i])
      <2>1. CASE i = Len(sent) + 1
            BY <1>1, <1>2, <1>4, <2>1
      <2>2. CASE i \in 1 .. Len(sent)
            <3>1. c[i] = Coded[i]
                  BY <1>1, <1>4, <2>2
            <3> QED BY <1>1, <1>2, <2>2, <3>1
      <2> QED BY <1>2, <2>1, <2>2
<1>7. c = [i \in 1 .. Len(sent') |-> Bytes(sent'[i])]
      BY <1>5, <1>6
<1> QED BY <1>3, <1>4, <1>7

\* What does not misframe among more does not among fewer.
LEMMA CleanIsFound ==
    ASSUME NEW k, NEW s, IsSeq(s), NEW m, NEW i \in Nat, Clean(k, Append(s, m), i)
    PROVE  Clean(k, s, i)
<1>1. /\ Len(Append(s, m)) = Len(s) + 1 /\ Len(s) \in Nat
      /\ \A j \in 1 .. Len(s) : Append(s, m)[j] = s[j]
      BY SeqFacts
<1> QED BY <1>1 DEF Clean

\* Send keeps the invariant.
LEMMA SendStep ==
    ASSUME ReaderInv, NEW m, Send(m), SentAs(kind, Len(sent) + 1, m)
    PROVE  ReaderInv'
<1>1. /\ kind' = kind /\ sent' = Append(sent, m) /\ wire' = wire \o Bytes(m) /\ ended' = ended
      /\ lost' = lost /\ got' = got /\ done' = done /\ ~ended
      BY DEF Send
<1>2. /\ kind \in {"control", "group", "track"}
      /\ TypesOK(kind, sent, Coded, got, wire, lost, ended)
      /\ GotOK(kind, sent, Coded, got, wire, lost, ended) /\ done \in BOOLEAN
      /\ Clean(kind, sent, Len(got)) /\ ~done => InStep(sent, Coded, got, wire, lost, ended)
      /\ done => DoneOK(kind, sent, Coded, got, lost, ended)
      BY DEF ReaderInv, ReadKeeps
<1>3. PICK x \in Cells : x = Bytes(m) /\ x # << >>
      BY <1>2, SentCells
<1>4. Coded' = Append(Coded, x)
      BY <1>1, <1>3, CodedGrows
<1>5. PICK b : b = Coded
      OBVIOUS
<1>6. TypesOK(kind, sent', Append(b, x), got, wire \o x, lost, ended)
      <2>1. IsSeq(sent) /\ b \in Seq(Cells) /\ Len(b) = Len(sent) /\ \A i \in 1 .. Len(b) : b[i] # << >>
            BY <1>2, <1>5 DEF TypesOK
      <2>2. IsSeq(sent') /\ Len(sent') = Len(sent) + 1 /\ Len(sent) \in Nat
            BY <1>1, <2>1, SeqFacts
      <2>3. PICK c : c = Append(b, x)
            OBVIOUS
      <2>4. c \in Seq(Cells) /\ Len(c) = Len(b) + 1 /\ \A i \in 1 .. Len(c) : c[i] # << >>
            BY <1>3, <2>1, <2>2, <2>3
      <2>5. wire \o x \in Cells
            BY <1>2, CellsFacts DEF TypesOK
      <2>6. PICK v : v = wire \o x
            OBVIOUS
      <2>7. TypesOK(kind, sent', c, got, v, lost, ended)
            BY <1>2, <2>1, <2>2, <2>4, <2>5, <2>6 DEF TypesOK
      <2> QED BY <2>3, <2>6, <2>7
<1>7. GotOK(kind, Append(sent, m), Append(b, x), got, wire \o x, lost, ended)
      BY <1>1, <1>2, <1>5, SendKeepsGot
<1>8. Clean(kind, Append(sent, m), Len(got)) /\ ~done
         => InStep(Append(sent, m), Append(b, x), got, wire \o x, lost, ended)
      <2>1. IsSeq(sent) /\ Len(got) \in Nat
            BY <1>2, SeqFacts DEF TypesOK
      <2>2. Clean(kind, Append(sent, m), Len(got)) => Clean(kind, sent, Len(got))
            BY <2>1, CleanIsFound
      <2> QED BY <1>1, <1>2, <1>5, <2>2, SendKeepsStep
<1>9. done => DoneOK(kind, Append(sent, m), Append(b, x), got, lost, ended)
      BY <1>1, <1>2, <1>5, SendKeepsDone
<1>10. ReadKeeps(kind, Append(sent, m), Append(b, x), got, wire \o x, lost, ended, done)
      BY <1>1, <1>2, <1>6, <1>7, <1>8, <1>9 DEF ReadKeeps
<1>11. ReadKeeps(kind', sent', Coded', got', wire', lost', ended', done')
      BY <1>1, <1>3, <1>4, <1>5, <1>10
<1>12. ASSUME NEW i \in 1 .. Len(sent') PROVE SentAs(kind', i, sent'[i])
      <2>1. IsSeq(sent)
            BY <1>2 DEF TypesOK
      <2>2. /\ Len(sent') = Len(sent) + 1 /\ Len(sent) \in Nat /\ sent'[Len(sent) + 1] = m
            /\ \A j \in 1 .. Len(sent) : sent'[j] = sent[j]
            BY <1>1, <2>1, SeqFacts
      <2>3. CASE i = Len(sent) + 1
            BY <1>1, <2>2, <2>3
      <2>4. CASE i \in 1 .. Len(sent)
            BY <1>1, <2>2, <2>4 DEF ReaderInv
      <2> QED BY <2>2, <2>3, <2>4
<1> QED BY <1>1, <1>2, <1>11, <1>12 DEF ReaderInv

\* End keeps the invariant.
LEMMA EndStep ==
    ASSUME ReaderInv, NEW n \in 0 .. Len(wire), End(n)
    PROVE  ReaderInv'
<1>1. /\ kind' = kind /\ sent' = sent /\ wire' = SubSeq(wire, 1, n) /\ ended' = TRUE
      /\ lost' = Len(wire) - n /\ got' = got /\ done' = done /\ ~ended /\ Coded' = Coded
      BY CodedStays DEF End
<1>2. /\ TypesOK(kind, sent, Coded, got, wire, lost, ended)
      /\ GotOK(kind, sent, Coded, got, wire, lost, ended) /\ done \in BOOLEAN
      /\ Clean(kind, sent, Len(got)) /\ ~done => InStep(sent, Coded, got, wire, lost, ended)
      /\ done => DoneOK(kind, sent, Coded, got, lost, ended)
      BY DEF ReaderInv, ReadKeeps
<1>3. PICK b : b = Coded
      OBVIOUS
<1>4. PICK v, c, f : v = SubSeq(wire, 1, n) /\ c = Len(wire) - n /\ f = TRUE
      OBVIOUS
<1>5. /\ TypesOK(kind, sent, b, got, v, c, f)
      /\ GotOK(kind, sent, b, got, v, c, f)
      /\ InStep(sent, b, got, wire, lost, ended) => InStep(sent, b, got, v, c, f)
      /\ DoneOK(kind, sent, b, got, lost, ended) => DoneOK(kind, sent, b, got, c, f)
      <2>1. TypesOK(kind, sent, b, got, wire, lost, ended) /\ GotOK(kind, sent, b, got, wire, lost, ended)
            BY <1>2, <1>3
      <2>2. CutAt(v, wire, n, c)
            BY <1>4 DEF CutAt
      <2>3. ended = FALSE
            BY <1>1, <1>2 DEF TypesOK
      <2>4. f = TRUE
            BY <1>4
      <2> QED BY ONLY <2>1, <2>2, <2>3, <2>4, EndKeeps
<1>6. ReadKeeps(kind, sent, b, got, v, c, f, done)
      BY <1>2, <1>3, <1>5 DEF ReadKeeps
<1>7. ReadKeeps(kind', sent', Coded', got', wire', lost', ended', done')
      BY <1>1, <1>3, <1>4, <1>6
<1> QED BY <1>1, <1>7 DEF ReaderInv

\* A turn of ServeCS, DoHandle or ReadObject keeps the invariant.
LEMMA HandleStep ==
    ASSUME ReaderInv, NEW r, r = Reading(kind, got, wire), Handle(r), done' = r.end
    PROVE  ReaderInv'
<1>1. /\ kind' = kind /\ sent' = sent /\ wire' = r.in /\ ended' = ended /\ lost' = lost
      /\ got' = (IF r.end THEN got ELSE Append(got, r.msg)) /\ ~done /\ (r.short => ended)
      /\ Coded' = Coded
      BY CodedStays DEF Handle
<1>2. PICK b : b = Coded
      OBVIOUS
<1>3. /\ kind \in {"control", "group", "track"} /\ TypesOK(kind, sent, b, got, wire, lost, ended)
      /\ GotOK(kind, sent, b, got, wire, lost, ended)
      /\ Clean(kind, sent, Len(got)) => InStep(sent, b, got, wire, lost, ended)
      BY <1>1, <1>2 DEF ReaderInv, ReadKeeps
<1>4. \A i \in 1 .. Len(sent) : SentAs(kind, i, sent[i]) /\ b[i] = Bytes(sent[i])
      BY <1>2, CodedFacts DEF ReaderInv
<1>5. PICK h : h = IF r.end THEN got ELSE Append(got, r.msg)
      OBVIOUS
<1>6. ReadKeeps(kind, sent, b, h, r.in, lost, ended, r.end)
      <2>1. ReadKeeps(kind, sent, b, IF r.end THEN got ELSE Append(got, r.msg), r.in, lost, ended, r.end)
            BY <1>1, <1>3, <1>4, ReadStep
      <2> QED BY <1>5, <2>1
<1>7. ReadKeeps(kind', sent', Coded', got', wire', lost', ended', done')
      BY <1>1, <1>2, <1>5, <1>6
<1> QED BY <1>1, <1>3, <1>4, <1>7 DEF ReaderInv

\* The header that was read is the one that was sent.
LEMMA HeaderIsRead ==
    ASSUME ReaderInv, kind # "control", got # << >>
    PROVE  got[1].type = STREAM_HEADER_TRACK <=> kind = "track"
<1>1. IsSeq(got) /\ IsSeq(sent) /\ GotOK(kind, sent, Coded, got, wire, lost, ended)
      /\ \A i \in 1 .. Len(sent) : SentAs(kind, i, sent[i])
      BY DEF ReaderInv, ReadKeeps, TypesOK
<1>2. Len(got) \in Nat /\ Len(got) # 0 /\ Len(sent) \in Nat
      BY <1>1, SeqFacts
<1>3. 1 \in 1 .. Len(got) /\ Clean(kind, sent, 1)
      BY <1>2 DEF Clean
<1>4. /\ 1 <= Len(sent)
      /\ AsSent(kind, sent[1], got[1]) \/ HalfRead(kind, 1, sent[1], got[1])
      BY <1>1, <1>3 DEF GotOK
<1>5. got[1] = sent[1]
      BY <1>4 DEF AsSent, HalfRead
<1>6. sent[1].type = HeaderType(kind)
      <2>1. 1 \in 1 .. Len(sent)
            BY <1>2, <1>4
      <2> QED BY <1>1, <2>1 DEF SentAs
<1> QED BY <1>5, <1>6 DEF HeaderType, STREAM_HEADER_TRACK, STREAM_HEADER_GROUP

\* Every step keeps the invariant.
LEMMA ReaderNext == ReaderInv /\ [Next]_vars => ReaderInv'
<1> SUFFICES ASSUME ReaderInv, [Next]_vars PROVE ReaderInv'
    OBVIOUS
<1>0. kind \in {"control", "group", "track"} /\ IsSeq(sent) /\ Len(sent) \in Nat
      <2>1. kind \in {"control", "group", "track"} /\ IsSeq(sent)
            BY DEF ReaderInv, ReadKeeps, TypesOK
      <2> QED BY <2>1, SeqFacts
<1>1. ASSUME kind = "control", NEW m \in Messages, Send(m) PROVE ReaderInv'
      <2>1. SentAs(kind, Len(sent) + 1, m)
            BY <1>1 DEF SentAs
      <2> QED BY <1>1, <2>1, SendStep
<1>2. ASSUME kind # "control", sent = << >>, NEW h \in Headers, h.type = HeaderType(kind), Send(h)
      PROVE  ReaderInv'
      <2>1. Len(sent) + 1 = 1
            BY <1>2
      <2>2. SentAs(kind, Len(sent) + 1, h)
            BY <1>2, <2>1 DEF SentAs
      <2> QED BY <1>2, <2>2, SendStep
<1>3. ASSUME sent # << >>, NEW o, Send(o),
             IF kind = "track" THEN o \in TrackObjects ELSE kind = "group" /\ o \in Objects
      PROVE  ReaderInv'
      <2>1. Len(sent) + 1 # 1
            <3>1. PICK S : sent \in Seq(S)
                  BY <1>0 DEF IsSeq
            <3> QED BY <1>3, <3>1, EmptySeq
      <2>2. SentAs(kind, Len(sent) + 1, o)
            BY <1>3, <2>1 DEF SentAs
      <2> QED BY <1>3, <2>2, SendStep
<1>4. ASSUME NEW n \in 0 .. Len(wire), End(n) PROVE ReaderInv'
      BY <1>4, EndStep
<1>5. ASSUME ServeCS PROVE ReaderInv'
      <2>1. PICK r : r = ParseMOQTMessage(wire) /\ Handle(r) /\ done' = r.end
            BY <1>5 DEF ServeCS
      <2>2. r = Reading(kind, got, wire)
            BY <1>5, <2>1 DEF ServeCS, Reading
      <2> QED BY <2>1, <2>2, HandleStep
<1>6. ASSUME ReadStream PROVE ReaderInv'
      <2>1. PICK r : /\ r = (IF got = << >> THEN ParseMOQTStream(wire)
                             ELSE IF got[1].type = STREAM_HEADER_TRACK THEN TrackReadObject(wire)
                             ELSE ObjectParse(wire))
                     /\ Handle(r) /\ done' = r.end
            BY <1>6 DEF ReadStream
      <2>2. kind # "control"
            BY <1>6 DEF ReadStream
      <2>3. got # << >> => (got[1].type = STREAM_HEADER_TRACK <=> kind = "track")
            BY <2>2, HeaderIsRead
      <2>4. r = Reading(kind, got, wire)
            BY <2>1, <2>2, <2>3 DEF Reading
      <2> QED BY <2>1, <2>4, HandleStep
<1>7. ASSUME UNCHANGED vars PROVE ReaderInv'
      BY <1>7, CodedStays DEF vars, ReaderInv
<1>8. ASSUME kind = "group", sent # << >>, NEW o \in Objects, Send(o) PROVE ReaderInv'
      BY <1>3, <1>8
<1>9. ASSUME kind = "track", sent # << >>, NEW o \in TrackObjects, Send(o) PROVE ReaderInv'
      BY <1>3, <1>9
<1> QED BY <1>1, <1>2, <1>4, <1>5, <1>6, <1>7, <1>8, <1>9 DEF Next

\* A message is whole if no more was lost than is behind it.
LEMMA WholeIsRest ==
    ASSUME ReaderInv, NEW i \in 0 .. Len(sent)
    PROVE  Whole(i) <=> lost <= Len(Rest(Coded, i))
<1>1. Coded \in Seq(Cells) /\ Len(Coded) = Len(sent) /\ Len(sent) \in Nat /\ lost \in Nat
      <2>1. IsSeq(sent) /\ lost \in Nat
            BY DEF ReaderInv, ReadKeeps, TypesOK
      <2> QED BY <2>1, CodedFacts, SeqFacts
<1>2. Len(Rest(Coded, i)) \in Nat
      BY <1>1, RestFacts
<1>3. After(Coded, i) = [j \in 1 .. Len(sent) - i |-> Bytes(sent[i + j])]
      <2>1. \A j \in 1 .. Len(sent) - i : Coded[i + j] = Bytes(sent[i + j])
            <3> SUFFICES ASSUME NEW j \in 1 .. Len(sent) - i PROVE Coded[i + j] = Bytes(sent[i + j])
                OBVIOUS
            <3>1. i + j \in 1 .. Len(sent)
                  BY <1>1
            <3> QED BY <3>1, CodedFacts
      <2> QED BY <1>1, <2>1 DEF After
<1>4. Whole(i) <=> Len(Rest(Coded, i)) >= lost
      BY <1>3 DEF Whole, Rest
<1> QED BY <1>1, <1>2, <1>4

\* What the invariant says of what was read.
LEMMA GotFacts ==
    ASSUME ReaderInv
    PROVE  /\ GotOK(kind, sent, Coded, got, wire, lost, ended)
           /\ done => DoneOK(kind, sent, Coded, got, lost, ended)
           /\ DOMAIN got = 1 .. Len(got) /\ DOMAIN sent = 1 .. Len(sent)
           /\ Len(got) \in Nat /\ Len(sent) \in Nat
<1>1. IsSeq(got) /\ IsSeq(sent)
      BY DEF ReaderInv, ReadKeeps, TypesOK
<1>2. /\ GotOK(kind, sent, Coded, got, wire, lost, ended)
      /\ done => DoneOK(kind, sent, Coded, got, lost, ended)
      BY DEF ReaderInv, ReadKeeps
<1> QED BY <1>1, <1>2, SeqFacts

\* The invariant gives HandledAsSent.
LEMMA ReaderHandles == ReaderInv => HandledAsSent
<1> SUFFICES ASSUME ReaderInv, kind = "control", NEW i \in DOMAIN got,
                    \A j \in 1 .. i : j <= Len(sent) => ~Misframes(sent[j])
             PROVE  /\ i <= Len(sent)
                    /\ IF Whole(i) THEN Same(sent[i], got[i]) ELSE i = Len(got)
    BY DEF HandledAsSent
<1>1. i \in 1 .. Len(got) /\ Clean(kind, sent, i) /\ Len(got) \in Nat /\ Len(sent) \in Nat
      BY GotFacts DEF Clean
<1>2. /\ i <= Len(sent)
      /\ IF lost <= Len(Rest(Coded, i)) THEN Same(sent[i], got[i]) ELSE i = Len(got)
      BY <1>1, GotFacts DEF GotOK, AsSent
<1>3. Whole(i) <=> lost <= Len(Rest(Coded, i))
      BY <1>1, <1>2, WholeIsRest
<1> QED BY <1>2, <1>3

\* The invariant gives ObjectsAsSent.
LEMMA ReaderAppends == ReaderInv => ObjectsAsSent
<1> SUFFICES ASSUME ReaderInv, kind # "control"
             PROVE  /\ Len(got) <= Len(sent)
                    /\ \A i \in DOMAIN got :
                          IF Whole(i) THEN got[i] = sent[i]
                          ELSE /\ i = Len(got) /\ i > 1
                               /\ got[i].ID = sent[i].ID
                               /\ Len(got[i].Payload) = Len(sent[i].Payload)
                               /\ kind = "track" => got[i].GroupID = sent[i].GroupID
    BY DEF ObjectsAsSent
<1>1. Len(got) \in Nat /\ Len(sent) \in Nat /\ DOMAIN got = 1 .. Len(got)
      BY GotFacts
<1>2. ASSUME NEW i \in 1 .. Len(got)
      PROVE  /\ i <= Len(sent)
             /\ IF lost <= Len(Rest(Coded, i)) THEN got[i] = sent[i]
                ELSE /\ i = Len(got) /\ i > 1
                     /\ got[i].ID = sent[i].ID /\ Len(got[i].Payload) = Len(sent[i].Payload)
                     /\ kind = "track" => got[i].GroupID = sent[i].GroupID
      <2>1. Clean(kind, sent, i)
            BY DEF Clean
      <2> QED BY <2>1, GotFacts DEF GotOK, AsSent, HalfRead
<1>3. Len(got) <= Len(sent)
      <2>1. CASE Len(got) = 0
            BY <1>1, <2>1
      <2>2. CASE Len(got) \in 1 .. Len(got)
            BY <1>2, <2>2
      <2> QED BY <1>1, <2>1, <2>2
<1>4. ASSUME NEW i \in DOMAIN got
      PROVE  IF Whole(i) THEN got[i] = sent[i]
             ELSE /\ i = Len(got) /\ i > 1
                  /\ got[i].ID = sent[i].ID /\ Len(got[i].Payload) = Len(sent[i].Payload)
                  /\ kind = "track" => got[i].GroupID = sent[i].GroupID
      <2>1. i \in 1 .. Len(got)
            BY <1>1
      <2>2. i \in 0 .. Len(sent)
            <3>1. i <= Len(sent)
                  BY <1>2, <2>1
            <3> QED BY <1>1, <2>1, <3>1
      <2>3. Whole(i) <=> lost <= Len(Rest(Coded, i))
            BY <2>2, WholeIsRest
      <2> QED BY <1>2, <2>1, <2>3
<1> QED BY <1>3, <1>4

\* The invariant gives ReadToTheEnd.
LEMMA ReaderFinishes == ReaderInv => ReadToTheEnd
<1> SUFFICES ASSUME ReaderInv, done
             PROVE  \/ \E i \in DOMAIN sent : kind = "control" /\ Misframes(sent[i])
                    \/ \A i \in DOMAIN sent : Whole(i) => i <= Len(got)
    BY DEF ReadToTheEnd
<1>1. DoneOK(kind, sent, Coded, got, lost, ended) /\ DOMAIN sent = 1 .. Len(sent) /\ Len(sent) \in Nat
      BY GotFacts
<1>2. CASE \E i \in 1 .. Len(sent) : kind = "control" /\ Misframes(sent[i])
      BY <1>1, <1>2
<1>3. CASE \A i \in 1 .. Len(sent) : lost <= Len(Rest(Coded, i)) => i <= Len(got)
      <2> SUFFICES ASSUME NEW i \in DOMAIN sent, Whole(i) PROVE i <= Len(got)
          OBVIOUS
      <2>1. i \in 1 .. Len(sent) /\ i \in 0 .. Len(sent)
            BY <1>1
      <2>2. lost <= Len(Rest(Coded, i))
            BY <2>1, WholeIsRest
      <2> QED BY <1>3, <2>1, <2>2
<1> QED BY <1>1, <1>2, <1>3 DEF DoneOK

\* The inductive invariant is one.
LEMMA ReaderIsInvariant == Spec => []ReaderInv
<1>1. Init => ReaderInv
      BY ReaderInit
<1>2. ReaderInv /\ [Next]_vars => ReaderInv'
      BY ReaderNext
<1> QED BY <1>1, <1>2, PTL DEF Spec

\* The control messages that ServeCS reads are those the peer sent, in order, however the
\* two sides interleave and wherever the stream ends: each branch of ParseMOQTMessage
\* takes the cells its message has, so ServeCS never starts a message in the middle of
\* another. What a message has then is what Same says: of its parameters the known ones,
\* of each type the last (none at all of a SUBSCRIBE or ANNOUNCE with an unknown one), and
\* in a SUBSCRIBE_OK the group's id in the place of the object's; its other fields are
\* those sent. Two things are excepted: everything from a message on in which an unknown
\* parameter is followed by another, and the fields of the one message in which the
\* stream ended.
THEOREM ControlMessagesHandledAsSent == Spec => []HandledAsSent
<1>1. ReaderInv => HandledAsSent
      BY ReaderHandles
<1> QED BY <1>1, ReaderIsInvariant, PTL

\* The header that DoHandle reads and the objects that ReadObject appends are those
\* the peer sent, in order, on a TRACK stream each with the group that was sent in front
\* of it; only an object cut off by the end of the stream differs, and then only in its
\* payload's bytes (Object.Parse ignores the error of ReadFull).
THEOREM ObjectsAppendedAsSent == Spec => []ObjectsAsSent
<1>1. ReaderInv => ObjectsAsSent
      BY ReaderAppends
<1> QED BY <1>1, ReaderIsInvariant, PTL

\* When ServeCS, or the goroutine of a uni stream, has left its loop, it has handled
\* every message of which all cells arrived: no error ends the loop early. (Unless the
\* peer sent a message with an unknown parameter that is not its last.)
THEOREM StreamsReadToTheEnd == Spec => []ReadToTheEnd
<1>1. ReaderInv => ReadToTheEnd
      BY ReaderFinishes
<1> QED BY <1>1, ReaderIsInvariant, PTL
=============================================================================
