--------------------------- MODULE RelayCacheProof ---------------------------
(***************************************************************************)
(* Proofs about RelayCache, for any limits, sizes and number of goroutines:*)
(* eviction is FIFO, CurrentBytes never drifts, the limits hold up to the  *)
(* newest object, nothing is evicted early, and a replay sends one state   *)
(* of the cache.                                                           *)
(***************************************************************************)
EXTENDS RelayCache, WellFoundedInduction, TLAPS

\* What the provers need to know of the sequence operators the cache uses.
LEMMA AppendFacts ==
    ASSUME NEW S, NEW s \in Seq(S), NEW e \in S
    PROVE  /\ Append(s, e) \in Seq(S)
           /\ Len(Append(s, e)) = Len(s) + 1
           /\ \A i \in 1 .. Len(s) : Append(s, e)[i] = s[i]
           /\ Append(s, e)[Len(s) + 1] = e
    OBVIOUS

LEMMA TailFacts ==
    ASSUME NEW S, NEW s \in Seq(S), s # << >>
    PROVE  /\ Tail(s) \in Seq(S)
           /\ Len(s) >= 1
           /\ Len(Tail(s)) = Len(s) - 1
           /\ \A i \in 1 .. Len(s) - 1 : Tail(s)[i] = s[i + 1]
           /\ Head(s) = s[1]
    OBVIOUS

\* The sizes of cached objects are natural numbers.
LEMMA SizeType ==
    ASSUME NEW e \in CachedObject
    PROVE  e.obj \in Objects /\ Size[e.obj] \in Nat
    BY CacheAssumption DEF CachedObject

LEMMA EndType ==
    ASSUME CacheTypeOK, Len(ends) = Len(history), NEW i \in 0 .. Len(history)
    PROVE  End(i) \in Nat
<1>1. CASE i = 0
      BY <1>1 DEF End
<1>2. CASE i # 0
      <2>1. i \in 1 .. Len(ends)
            BY <1>2 DEF CacheTypeOK
      <2>2. ends[i] \in Nat
            BY <2>1 DEF CacheTypeOK
      <2> QED BY <1>2, <2>2 DEF End
<1> QED BY <1>1, <1>2

-----------------------------------------------------------------------------
LEMMA InitInv == Init => CacheInv
    BY CacheAssumption DEF Init, CacheInv, CacheTypeOK, CacheIsWindow, BytesAccounted,
       CacheBounded, WindowIsMaximal, Evicted, End

\* The replay goroutines only read the cache.
LEMMA UnchangedInv == CacheInv /\ UNCHANGED cacheVars => CacheInv'
    BY DEF CacheInv, CacheTypeOK, CacheIsWindow, BytesAccounted, CacheBounded,
       WindowIsMaximal, Evicted, End, cacheVars, CacheFull

LEMMA AcquireInv ==
    ASSUME CacheInv, NEW s \in Streams, NEW o \in Objects, CacheAcquire(s, o)
    PROVE  CacheInv'
<1>1. UNCHANGED <<ObjectCache, CurrentBytes, history, ends, cleared>>
      /\ CacheLock' = s /\ CacheLock = NoOne
      BY DEF CacheAcquire
<1>2. [GroupID |-> ReadGroupID(s, o), obj |-> o] \in CachedObject
      BY CacheAssumption DEF ReadGroupID, CachedObject
<1>3. incoming' \in [Streams -> CachedObject \cup {NoOne}]
      /\ incoming'[s] \in CachedObject
      BY <1>2 DEF CacheAcquire, CacheInv, CacheTypeOK
<1>4. CacheTypeOK'
      BY <1>1, <1>3 DEF CacheInv, CacheTypeOK
<1>5. CacheIsWindow' /\ BytesAccounted' /\ CacheBounded' /\ cleared' <= Evicted'
      BY <1>1 DEF CacheInv, CacheIsWindow, BytesAccounted, CacheBounded, Evicted, End
<1>6. WindowIsMaximal' /\ CacheLock' # NoOne
      BY <1>1, CacheAssumption DEF WindowIsMaximal
<1>7. ASSUME Evicted > cleared
      PROVE  \/ Len(ObjectCache) + 1 >= MaxCacheSize
             \/ End(Len(history)) - End(Evicted - 1) >= MaxCacheBytes
      <2> DEFINE n == Len(ObjectCache)
                 h == Len(history)
      <2>1. n \in Nat /\ h \in Nat /\ cleared \in Nat /\ n <= h /\ Evicted = h - n
            BY DEF CacheInv, CacheTypeOK, CacheIsWindow, Evicted
      <2>2. n > 0
            <3>1. ObjectCache # << >>
                  BY <1>1, <1>7, <2>1 DEF CacheInv
            <3> QED BY <3>1 DEF CacheInv, CacheTypeOK
      <2>3. n >= MaxCacheSize \/ End(h - 1) - End(Evicted - 1) >= MaxCacheBytes
            BY <1>1, <1>7, <2>2 DEF CacheInv, WindowIsMaximal
      <2>4. End(h) = End(h - 1) + Size[history[h].obj] /\ Size[history[h].obj] \in Nat
            <3>1. h \in 1 .. h /\ h # 0
                  BY <2>1, <2>2
            <3>2. history[h] \in CachedObject
                  BY <3>1 DEF CacheInv, CacheTypeOK
            <3>3. ends[h] = End(h - 1) + Size[history[h].obj]
                  BY <3>1 DEF CacheInv, BytesAccounted
            <3>4. End(h) = ends[h]
                  BY <3>1 DEF End
            <3> QED BY <3>2, <3>3, <3>4, SizeType
      <2>5. End(h - 1) \in Nat /\ End(Evicted - 1) \in Nat
            <3>1. h - 1 \in 0 .. h /\ Evicted - 1 \in 0 .. h
                  BY <1>7, <2>1, <2>2
            <3> QED BY <3>1, EndType DEF CacheInv, BytesAccounted
      <2> HIDE DEF n, h
      <2>6. n >= MaxCacheSize => n + 1 >= MaxCacheSize
            BY <2>1, CacheAssumption
      <2>7. End(h - 1) - End(Evicted - 1) >= MaxCacheBytes
               => End(h) - End(Evicted - 1) >= MaxCacheBytes
            BY <2>4, <2>5, CacheAssumption
      <2> QED BY <2>3, <2>6, <2>7 DEF n, h
<1>8. (CacheLock' # NoOne /\ Evicted' > cleared') =>
          \/ Len(ObjectCache') + 1 >= MaxCacheSize
          \/ (End(Len(history)) - End(Evicted - 1))' >= MaxCacheBytes
      BY <1>1, <1>7 DEF Evicted, End
<1> QED BY <1>1, <1>3, <1>4, <1>5, <1>6, <1>8 DEF CacheInv

\* The facts every step starts from, in arithmetic form.
LEMMA Basics ==
    ASSUME CacheInv
    PROVE  /\ ObjectCache \in Seq(CachedObject) /\ history \in Seq(CachedObject)
           /\ ends \in Seq(Nat) /\ Len(ends) = Len(history)
           /\ Len(ObjectCache) \in Nat /\ Len(history) \in Nat
           /\ Len(ObjectCache) <= Len(history)
           /\ Evicted = Len(history) - Len(ObjectCache) /\ Evicted \in 0 .. Len(history)
           /\ cleared \in Nat /\ CurrentBytes \in Int
           /\ MaxCacheSize \in Int /\ MaxCacheBytes \in Int
           /\ \A i \in 0 .. Len(history) : End(i) \in Nat
<1>1. CacheTypeOK /\ Len(ends) = Len(history) /\ Len(ObjectCache) <= Len(history)
      BY DEF CacheInv, BytesAccounted, CacheIsWindow
<1>2. \A i \in 0 .. Len(history) : End(i) \in Nat
      BY <1>1, EndType
<1>3. Evicted = Len(history) - Len(ObjectCache) /\ Evicted \in 0 .. Len(history)
      BY <1>1 DEF Evicted, CacheTypeOK
<1> QED BY <1>1, <1>2, <1>3, CacheAssumption DEF CacheTypeOK

LEMMA EvictInv ==
    ASSUME CacheInv, NEW s \in Streams, CacheEvict(s)
    PROVE  CacheInv'
<1> DEFINE n == Len(ObjectCache)
           h == Len(history)
           x == Evicted
<1>1. /\ UNCHANGED <<CacheLock, incoming, history, ends, cleared>>
      /\ CacheLock = s /\ CacheLock # NoOne /\ CacheFull /\ ObjectCache # << >>
      /\ ObjectCache' = Tail(ObjectCache)
      /\ CurrentBytes' = CurrentBytes - Size[Head(ObjectCache).obj]
      BY CacheAssumption DEF CacheEvict
<1>2. /\ ObjectCache' \in Seq(CachedObject) /\ n >= 1 /\ Len(ObjectCache') = n - 1
      /\ \A i \in 1 .. n - 1 : ObjectCache'[i] = ObjectCache[i + 1]
      /\ Head(ObjectCache) = ObjectCache[1]
      BY <1>1, Basics, TailFacts
<1>3. /\ n \in Nat /\ h \in Nat /\ n <= h /\ x = h - n /\ x \in 0 .. h
      /\ cleared \in Nat /\ CurrentBytes \in Int /\ cleared <= x
      /\ MaxCacheSize \in Int /\ MaxCacheBytes \in Int
      /\ \A i \in 0 .. h : End(i) \in Nat
      BY Basics DEF CacheInv
<1>4. Evicted' = x + 1 /\ x + 1 \in 1 .. h
      BY <1>1, <1>2, <1>3 DEF Evicted
<1>5. \A i : End(i)' = End(i)
      BY <1>1 DEF End
<1>6. /\ ObjectCache[1] = history[x + 1] /\ history[x + 1] \in CachedObject
      /\ Size[ObjectCache[1].obj] \in Nat
      <2>1. ObjectCache[1] = history[x + 1]
            BY <1>2, <1>3, SMTT(30) DEF CacheInv, CacheIsWindow
      <2>2. history[x + 1] \in CachedObject
            BY <1>4, Basics
      <2> QED BY <2>1, <2>2, SizeType
<1>7. End(x + 1) = End(x) + Size[ObjectCache[1].obj]
      <2>1. ends[x + 1] = End((x + 1) - 1) + Size[history[x + 1].obj]
            BY <1>4 DEF CacheInv, BytesAccounted
      <2>2. End(x + 1) = ends[x + 1] /\ (x + 1) - 1 = x
            BY <1>3, <1>4 DEF End
      <2> QED BY <2>1, <2>2, <1>6
<1>8. CurrentBytes = End(h) - End(x) /\ CurrentBytes' = End(h) - End(x + 1)
      <2>1. CurrentBytes = End(h) - End(x)
            BY DEF CacheInv, BytesAccounted
      <2>2. CurrentBytes' = CurrentBytes - Size[ObjectCache[1].obj]
            BY <1>1, <1>2
      <2>3. End(h) \in Nat /\ End(x) \in Nat /\ End(x + 1) \in Nat
            BY <1>3, <1>4
      <2> QED BY <2>1, <2>2, <2>3, <1>6, <1>7, SMTT(30)
<1>9. CurrentBytes' \in Int /\ CurrentBytes' <= CurrentBytes
      <2>1. End(h) \in Nat /\ End(x) \in Nat /\ End(x + 1) \in Nat
            BY <1>3, <1>4
      <2> QED BY <2>1, <1>6, <1>7, <1>8, SMTT(30)
<1>10. CacheTypeOK'
      BY <1>1, <1>2, <1>9 DEF CacheInv, CacheTypeOK
<1>11. CacheIsWindow'
      <2>1. Len(ObjectCache') <= Len(history')
            BY <1>1, <1>2, <1>3
      <2>2. ASSUME NEW i \in 1 .. Len(ObjectCache')
            PROVE  ObjectCache'[i] = history'[Evicted' + i]
            <3>1. ObjectCache'[i] = ObjectCache[i + 1] /\ i + 1 \in 1 .. n
                  BY <1>2, <1>3
            <3>2. ObjectCache[i + 1] = history[x + (i + 1)]
                  BY <3>1 DEF CacheInv, CacheIsWindow
            <3>3. x + (i + 1) = Evicted' + i
                  BY <1>2, <1>3, <1>4
            <3> QED BY <3>1, <3>2, <3>3, <1>1
      <2> QED BY <2>1, <2>2 DEF CacheIsWindow
<1>12. BytesAccounted'
      BY <1>1, <1>4, <1>5, <1>8 DEF CacheInv, BytesAccounted
<1>13. CacheBounded'
      <2>1. SUFFICES ASSUME n - 1 > 1
                     PROVE  /\ n - 1 <= MaxCacheSize
                            /\ CurrentBytes' - Size[ObjectCache'[n - 1].obj] < MaxCacheBytes
            BY <1>2 DEF CacheBounded
      <2>2. n > 1 /\ n <= MaxCacheSize /\ CurrentBytes - Size[ObjectCache[n].obj] < MaxCacheBytes
            BY <2>1, <1>3 DEF CacheInv, CacheBounded
      <2>3. ObjectCache'[n - 1] = ObjectCache[n]
            <3>1. n - 1 \in 1 .. n - 1 /\ (n - 1) + 1 = n
                  BY <2>1, <1>3
            <3> QED BY <3>1, <1>2
      <2>4. Size[ObjectCache[n].obj] \in Nat
            <3>1. ObjectCache[n] \in CachedObject
                  BY <1>2, <1>3, Basics
            <3> QED BY <3>1, SizeType
      <2>5. CurrentBytes' <= CurrentBytes /\ CurrentBytes' \in Int
            BY <1>9
      <2>6. CurrentBytes \in Int /\ MaxCacheBytes \in Int /\ MaxCacheSize \in Int /\ n \in Nat
            BY <1>3
      <2> HIDE DEF n
      <2>7. n - 1 <= MaxCacheSize
            BY <2>2, <2>6
      <2>8. CurrentBytes' - Size[ObjectCache[n].obj] < MaxCacheBytes
            BY <2>2, <2>4, <2>5, <2>6
      <2> QED BY <2>3, <2>7, <2>8
<1>14. cleared' <= Evicted'
      BY <1>1, <1>3, <1>4
<1>15. WindowIsMaximal' /\ CacheLock' # NoOne
      BY <1>1 DEF WindowIsMaximal
<1>16. \/ Len(ObjectCache') + 1 >= MaxCacheSize
       \/ (End(Len(history)) - End(Evicted - 1))' >= MaxCacheBytes
      <2>1. CASE n >= MaxCacheSize
            BY <2>1, <1>2, <1>3
      <2>2. CASE CurrentBytes >= MaxCacheBytes
            <3>1. (End(Len(history)) - End(Evicted - 1))' = End(h) - End(x)
                  <4>1. Evicted' - 1 = x
                        BY <1>3, <1>4
                  <4> QED BY <1>1, <4>1 DEF End
            <3> QED BY <2>2, <3>1, <1>8
      <2> QED BY <1>1, <2>1, <2>2 DEF CacheFull
<1>17. CacheLock' # NoOne => incoming'[CacheLock'] \in CachedObject
      BY <1>1 DEF CacheInv
<1> QED BY <1>10, <1>11, <1>12, <1>13, <1>14, <1>15, <1>16, <1>17 DEF CacheInv

LEMMA AppendInv ==
    ASSUME CacheInv, NEW s \in Streams, CacheAppend(s)
    PROVE  CacheInv'
<1> DEFINE n == Len(ObjectCache)
           h == Len(history)
           x == Evicted
           e == incoming[s]
           z == Size[incoming[s].obj]
           NewEnd(i) == IF i = 0 THEN 0 ELSE ends'[i]
<1>1. /\ CacheLock = s /\ CacheLock # NoOne /\ CacheLock' = NoOne /\ cleared' = cleared
      /\ ~CacheFull \/ ObjectCache = << >>
      /\ ObjectCache' = Append(ObjectCache, e) /\ history' = Append(history, e)
      /\ ends' = Append(ends, End(Len(ends)) + z) /\ CurrentBytes' = CurrentBytes + z
      /\ incoming' = [incoming EXCEPT ![s] = NoOne]
      BY CacheAssumption DEF CacheAppend
<1>2. e \in CachedObject /\ z \in Nat
      BY <1>1, SizeType DEF CacheInv
<1>3. /\ n \in Nat /\ h \in Nat /\ n <= h /\ x = h - n /\ x \in 0 .. h
      /\ cleared \in Nat /\ CurrentBytes \in Int /\ cleared <= x
      /\ MaxCacheSize \in Int /\ MaxCacheBytes \in Int
      /\ \A i \in 0 .. h : End(i) \in Nat
      /\ Len(ends) = h /\ End(h) \in Nat
      BY Basics DEF CacheInv
<1>4. /\ ObjectCache' \in Seq(CachedObject) /\ Len(ObjectCache') = n + 1
      /\ \A i \in 1 .. n : ObjectCache'[i] = ObjectCache[i]
      /\ ObjectCache'[n + 1] = e
      BY <1>1, <1>2, Basics, AppendFacts
<1>5. /\ history' \in Seq(CachedObject) /\ Len(history') = h + 1
      /\ \A i \in 1 .. h : history'[i] = history[i]
      /\ history'[h + 1] = e
      BY <1>1, <1>2, Basics, AppendFacts
<1>6. /\ ends' \in Seq(Nat) /\ Len(ends') = h + 1
      /\ \A i \in 1 .. h : ends'[i] = ends[i]
      /\ ends'[h + 1] = End(h) + z
      <2>1. End(h) + z \in Nat
            BY <1>2, <1>3, SMTT(30)
      <2>2. ends' = Append(ends, End(h) + z)
            BY <1>1, <1>3
      <2> QED BY <2>1, <2>2, <1>3, Basics, AppendFacts
<1>7. Evicted' = x
      BY <1>3, <1>4, <1>5 DEF Evicted
<1>8. \A i \in 0 .. h : NewEnd(i) = End(i)
      BY <1>3, <1>6 DEF End
<1>9. NewEnd(h + 1) = End(h) + z
      BY <1>3, <1>6
<1>10. CacheTypeOK'
      <2>1. CurrentBytes' \in Int
            <3>1. CurrentBytes' = CurrentBytes + z
                  BY <1>1
            <3>2. CurrentBytes \in Int /\ z \in Nat
                  BY <1>2, <1>3
            <3> HIDE DEF z
            <3> QED BY ONLY <3>1, <3>2
      <2>2. incoming' \in [Streams -> CachedObject \cup {NoOne}]
            BY <1>1 DEF CacheInv, CacheTypeOK
      <2> QED BY <2>1, <2>2, <1>1, <1>3, <1>4, <1>5, <1>6 DEF CacheTypeOK
<1>11. CacheIsWindow'
      <2>1. Len(ObjectCache') <= Len(history')
            BY <1>3, <1>4, <1>5
      <2>2. ASSUME NEW i \in 1 .. Len(ObjectCache')
            PROVE  ObjectCache'[i] = history'[Evicted' + i]
            <3>1. CASE i = n + 1
                  <4>1. x + i = h + 1
                        BY <3>1, <1>3
                  <4> QED BY <3>1, <4>1, <1>4, <1>5, <1>7
            <3>2. CASE i # n + 1
                  <4>1. i \in 1 .. n /\ x + i \in 1 .. h
                        BY <3>2, <1>3, <1>4
                  <4>2. ObjectCache[i] = history[x + i]
                        BY <4>1 DEF CacheInv, CacheIsWindow
                  <4> QED BY <4>1, <4>2, <1>4, <1>5, <1>7
            <3> QED BY <3>1, <3>2
      <2> QED BY <2>1, <2>2 DEF CacheIsWindow
<1>12. BytesAccounted'
      <2>1. Len(ends') = Len(history')
            BY <1>5, <1>6
      <2>2. ASSUME NEW i \in 1 .. Len(history')
            PROVE  ends'[i] = NewEnd(i - 1) + Size[history'[i].obj]
            <3>1. CASE i = h + 1
                  <4>1. i - 1 = h /\ h \in 0 .. h
                        BY <3>1, <1>3
                  <4>2. NewEnd(i - 1) = End(h)
                        BY <4>1, <1>8
                  <4> QED BY <3>1, <4>2, <1>5, <1>6
            <3>2. CASE i # h + 1
                  <4>1. i \in 1 .. h /\ i - 1 \in 0 .. h
                        BY <3>2, <1>3, <1>5
                  <4>2. ends[i] = End(i - 1) + Size[history[i].obj]
                        BY <4>1 DEF CacheInv, BytesAccounted
                  <4>3. NewEnd(i - 1) = End(i - 1)
                        BY <4>1, <1>8
                  <4> QED BY <4>1, <4>2, <4>3, <1>5, <1>6
            <3> QED BY <3>1, <3>2
      <2>3. CurrentBytes' = (End(Len(history)) - End(Evicted))'
            <3>1. CurrentBytes = End(h) - End(x)
                  BY DEF CacheInv, BytesAccounted
            <3>2. (End(Len(history)) - End(Evicted))' = (End(h) + z) - End(x)
                  <4>1. NewEnd(Len(history')) = End(h) + z
                        BY <1>5, <1>9
                  <4>2. NewEnd(Evicted') = End(x)
                        BY <1>3, <1>7, <1>8
                  <4> QED BY <4>1, <4>2 DEF End
            <3>3. End(x) \in Nat /\ End(h) \in Nat
                  BY <1>3
            <3> QED BY <3>1, <3>2, <3>3, <1>1, <1>2, SMTT(30)
      <2> QED BY <2>1, <2>2, <2>3 DEF BytesAccounted, End
<1>13. CacheBounded'
      <2>1. SUFFICES ASSUME n + 1 > 1
                     PROVE  /\ n + 1 <= MaxCacheSize
                            /\ CurrentBytes' - Size[ObjectCache'[n + 1].obj] < MaxCacheBytes
            BY <1>4 DEF CacheBounded
      <2>2. ObjectCache # << >>
            BY <2>1, <1>3
      <2>3. n < MaxCacheSize /\ CurrentBytes < MaxCacheBytes
            BY <2>2, <1>1, <1>3 DEF CacheFull
      <2>4. CurrentBytes' - Size[ObjectCache'[n + 1].obj] = CurrentBytes
            <3>1. CurrentBytes' = CurrentBytes + z /\ ObjectCache'[n + 1] = e
                  BY <1>1, <1>4
            <3>2. CurrentBytes \in Int /\ z \in Int
                  BY <1>2, <1>3
            <3>3. (CurrentBytes + z) - z = CurrentBytes
                  BY <3>2
            <3> QED BY <3>1, <3>3
      <2> QED BY <2>3, <2>4, <1>3
<1>14. cleared' <= Evicted' /\ ObjectCache' # << >>
      BY <1>1, <1>3, <1>4, <1>7, SMTT(30)
<1>15. ASSUME Evicted' > cleared'
       PROVE  \/ Len(ObjectCache') >= MaxCacheSize
              \/ (End(Len(history) - 1) - End(Evicted - 1))' >= MaxCacheBytes
      <2>1. x > cleared
            BY <1>15, <1>1, <1>7
      <2>2. n + 1 >= MaxCacheSize \/ End(h) - End(x - 1) >= MaxCacheBytes
            BY <2>1, <1>1 DEF CacheInv
      <2>3. (End(Len(history) - 1) - End(Evicted - 1))' = End(h) - End(x - 1)
            <3>1. Len(history') - 1 = h /\ Evicted' - 1 = x - 1
                  /\ h \in 0 .. h /\ x - 1 \in 0 .. h
                  BY <2>1, <1>3, <1>5, <1>7
            <3>2. NewEnd(Len(history') - 1) = End(h)
                  BY <3>1, <1>8
            <3>3. NewEnd(Evicted' - 1) = End(x - 1)
                  BY <3>1, <1>8
            <3> QED BY <3>2, <3>3 DEF End
      <2> QED BY <2>2, <2>3, <1>4
<1>16. WindowIsMaximal'
      BY <1>15 DEF WindowIsMaximal
<1> QED BY <1>1, <1>10, <1>11, <1>12, <1>13, <1>14, <1>16 DEF CacheInv

LEMMA ClearInv ==
    ASSUME CacheInv, ClearCache
    PROVE  CacheInv'
<1>1. /\ UNCHANGED <<CacheLock, incoming, history, ends>>
      /\ ObjectCache' = << >> /\ CurrentBytes' = 0 /\ cleared' = Len(history)
      /\ CacheLock' = NoOne
      BY DEF ClearCache
<1>2. Len(ObjectCache') = 0 /\ Len(history) \in Nat /\ Evicted' = Len(history)
      BY <1>1, Basics DEF Evicted
<1>3. \A i : End(i)' = End(i)
      BY <1>1 DEF End
<1>4. End(Len(history)) \in Nat
      BY <1>2, Basics
<1>5. CacheTypeOK'
      BY <1>1, <1>2 DEF CacheInv, CacheTypeOK
<1>6. BytesAccounted'
      <2>1. CurrentBytes' = (End(Len(history)) - End(Evicted))'
            BY <1>1, <1>2, <1>4 DEF End
      <2> QED BY <1>1, <2>1 DEF CacheInv, BytesAccounted, End
<1>7. CacheIsWindow' /\ CacheBounded' /\ WindowIsMaximal' /\ cleared' = Evicted'
      BY <1>1, <1>2 DEF CacheIsWindow, CacheBounded, WindowIsMaximal
<1> QED BY <1>1, <1>2, <1>5, <1>6, <1>7 DEF CacheInv

LEMMA NextInv == CacheInv /\ [Next]_rcVars => CacheInv'
<1> SUFFICES ASSUME CacheInv, [Next]_rcVars PROVE CacheInv'
    OBVIOUS
<1>1. ASSUME NEW s \in Streams, NEW o \in Objects, CacheAcquire(s, o) PROVE CacheInv'
      BY <1>1, AcquireInv
<1>2. ASSUME NEW s \in Streams, CacheStep(s) PROVE CacheInv'
      BY <1>2, EvictInv, AppendInv DEF CacheStep
<1>3. CASE ClearCache
      BY <1>3, ClearInv
<1>4. ASSUME NEW r \in Subs, ReplayCheck(r) \/ ReplayStep(r) PROVE CacheInv'
      <2>1. UNCHANGED cacheVars
            BY <1>4 DEF ReplayCheck, ReplayStep, ReplaySnapshot, ReplayFails, ReplayEnds,
                        ReplayGroup
      <2> QED BY <2>1, UnchangedInv
<1>5. CASE UNCHANGED rcVars
      BY <1>5, UnchangedInv DEF rcVars, cacheVars
<1> QED BY <1>1, <1>2, <1>3, <1>4, <1>5 DEF Next

-----------------------------------------------------------------------------
\* The invariant of the cache holds throughout, for any limits, sizes and goroutines.
THEOREM Invariance == Spec => []CacheInv
    BY InitInv, NextInv, PTL DEF Spec

\* Eviction is FIFO across all goroutines: the cache is always the newest part of
\* what was cached.
THEOREM EvictionIsFIFO == Spec => []CacheIsWindow
    BY Invariance, PTL DEF CacheInv

\* CurrentBytes is always the payload bytes of the cached objects.
THEOREM BytesNeverDrift == Spec => []BytesAccounted
    BY Invariance, PTL DEF CacheInv

\* For any limits, the cache without its newest object is within both.
THEOREM LimitsHold == Spec => []CacheBounded
    BY Invariance, PTL DEF CacheInv

\* For any limits, no object is evicted that could have stayed.
THEOREM NothingEvictedEarly == Spec => []WindowIsMaximal
    BY Invariance, PTL DEF CacheInv


-----------------------------------------------------------------------------
(***************************************************************************)
(* The replay. Its invariant speaks of each subscriber alone, so it is     *)
(* taken apart: ReplayOf(p, sn, w, t) is what it says of a replay at p     *)
(* whose copy is sn, of a cache w, and that has written the streams t.     *)
(***************************************************************************)
GroupIDs(t) == {t[i].GroupID : i \in DOMAIN t}

\* Stream i of t: one group of the copy, its objects from the first on.
WrittenFrom(p, w, t, i) ==
    \E n \in 0 .. Len(OfGroup(w, t[i].GroupID)) :
        /\ t[i].objs = SubSeq(OfGroup(w, t[i].GroupID), 1, n)
        /\ p \in {"sending", "done"} => n = Len(OfGroup(w, t[i].GroupID))

ReplayOf(p, sn, w, t) ==
    /\ p \in RPCs
    /\ sn \in Seq(CachedObject)
    /\ w = sn
    /\ t \in Seq({t[i] : i \in DOMAIN t})
    /\ \A i \in DOMAIN t : WrittenFrom(p, w, t, i)
    /\ \A i, j \in DOMAIN t : t[j].GroupID = t[i].GroupID => j = i
    /\ p = "done" => GroupIDs(t) = GroupsOf(w)
    /\ GroupIDs(t) \subseteq GroupsOf(sn)
    /\ p \in {"idle", "spawned"} => sn = << >> /\ t = << >>

ReplaysDomains == /\ DOMAIN rpc = Subs /\ rpc = [r \in Subs |-> rpc[r]]
                  /\ DOMAIN snap = Subs /\ snap = [r \in Subs |-> snap[r]]
                  /\ DOMAIN wanted = Subs /\ wanted = [r \in Subs |-> wanted[r]]
                  /\ DOMAIN sent = Subs /\ sent = [r \in Subs |-> sent[r]]

Replays == /\ ReplaysDomains
           /\ \A r \in Subs : ReplayOf(rpc[r], snap[r], wanted[r], sent[r])

LEMMA ReplayInvParts == ReplayInv => Replays
<1> SUFFICES ASSUME ReplayInv PROVE Replays
    OBVIOUS
<1>1. ReplaysDomains
      BY DEF ReplayInv, ReplayTypeOK, ReplaysDomains
<1>2. ASSUME NEW r \in Subs PROVE ReplayOf(rpc[r], snap[r], wanted[r], sent[r])
      <2>1. /\ rpc[r] \in RPCs /\ snap[r] \in Seq(CachedObject) /\ wanted[r] = snap[r]
            /\ sent[r] \in Seq({sent[r][i] : i \in DOMAIN sent[r]})
            BY DEF ReplayInv, ReplayTypeOK
      <2>2. \A i \in DOMAIN sent[r] : WrittenFrom(rpc[r], wanted[r], sent[r], i)
            BY DEF ReplayInv, ReplayIsSnapshot, WrittenFrom
      <2>3. \A i, j \in DOMAIN sent[r] : sent[r][j].GroupID = sent[r][i].GroupID => j = i
            BY DEF ReplayInv, ReplayIsSnapshot
      <2>4. /\ rpc[r] = "done" => GroupIDs(sent[r]) = GroupsOf(wanted[r])
            /\ GroupIDs(sent[r]) \subseteq GroupsOf(snap[r])
            /\ rpc[r] \in {"idle", "spawned"} => snap[r] = << >> /\ sent[r] = << >>
            BY DEF ReplayInv, ReplayIsSnapshot, GroupIDs, SentGroups
      <2> QED BY <2>1, <2>2, <2>3, <2>4 DEF ReplayOf
<1> QED BY <1>1, <1>2 DEF Replays

LEMMA PartsReplayInv == Replays => ReplayInv
<1> SUFFICES ASSUME Replays PROVE ReplayInv
    OBVIOUS
<1>1. ReplayTypeOK
      <2>1. rpc \in [Subs -> RPCs] /\ snap \in [Subs -> Seq(CachedObject)]
            /\ wanted \in [Subs -> Seq(CachedObject)]
            BY DEF Replays, ReplaysDomains, ReplayOf
      <2> QED BY <2>1 DEF Replays, ReplaysDomains, ReplayOf, ReplayTypeOK
<1>2. ReplayIsSnapshot
      BY DEF Replays, ReplayOf, ReplayIsSnapshot, WrittenFrom, GroupIDs, SentGroups
<1>3. \A r \in Subs :
          /\ wanted[r] = snap[r]
          /\ SentGroups(r) \subseteq GroupsOf(snap[r])
          /\ rpc[r] \in {"idle", "spawned"} => snap[r] = << >> /\ sent[r] = << >>
      BY DEF Replays, ReplayOf, GroupIDs, SentGroups
<1> QED BY <1>1, <1>2, <1>3 DEF ReplayInv

LEMMA PartsReplayInvNext == Replays' => ReplayInv'
    BY PartsReplayInv, PTL

LEMMA ReplayInit == Init => ReplayInv
<1> SUFFICES ASSUME Init PROVE Replays
    BY PartsReplayInv
<1>1. ReplaysDomains
      BY DEF Init, ReplaysDomains
<1>2. ReplayOf("idle", << >>, << >>, << >>)
      BY DEF ReplayOf, RPCs, GroupIDs, GroupsOf
<1> QED BY <1>1, <1>2 DEF Init, Replays

\* A step of r's replay leaves the others alone: what is left to show is r's part.
LEMMA ReplayFrame ==
    ASSUME Replays, NEW r \in Subs, NEW p, NEW c, NEW w, NEW t,
           rpc' = [rpc EXCEPT ![r] = p], snap' = [snap EXCEPT ![r] = c],
           wanted' = [wanted EXCEPT ![r] = w], sent' = [sent EXCEPT ![r] = t],
           ReplayOf(p, c, w, t)
    PROVE  Replays'
<1>1. ReplaysDomains'
      BY DEF Replays, ReplaysDomains
<1>2. ASSUME NEW q \in Subs
      PROVE  ReplayOf(rpc'[q], snap'[q], wanted'[q], sent'[q])
      <2>1. CASE q = r
            BY <2>1 DEF Replays, ReplaysDomains
      <2>2. CASE q # r
            <3>1. /\ rpc'[q] = rpc[q] /\ snap'[q] = snap[q]
                  /\ wanted'[q] = wanted[q] /\ sent'[q] = sent[q]
                  BY <2>2 DEF Replays, ReplaysDomains
            <3> QED BY <3>1 DEF Replays
      <2> QED BY <2>1, <2>2
<1> QED BY <1>1, <1>2 DEF Replays

\* Another stream is written, with the first n objects of a group not yet sent.
LEMMA WriteGroup ==
    ASSUME NEW p \in {"sending", "broken"}, NEW c, NEW t, ReplayOf(p, c, c, t),
           NEW g \in GroupsOf(c) \ GroupIDs(t), NEW n \in 0 .. Len(OfGroup(c, g)),
           NEW q, q = IF n = Len(OfGroup(c, g)) THEN p ELSE "broken"
    PROVE  ReplayOf(q, c, c, Append(t, [GroupID |-> g, objs |-> SubSeq(OfGroup(c, g), 1, n)]))
<1> DEFINE e == [GroupID |-> g, objs |-> SubSeq(OfGroup(c, g), 1, n)]
           u == Append(t, e)
           E == {t[i] : i \in DOMAIN t} \cup {e}
<1>1. e.GroupID = g /\ e.objs = SubSeq(OfGroup(c, g), 1, n) /\ e \in E
      OBVIOUS
<1> HIDE DEF e
<1>2. t \in Seq(E)
      BY DEF ReplayOf
<1> HIDE DEF E
<1>3. /\ u \in Seq(E) /\ Len(u) = Len(t) + 1
      /\ \A i \in 1 .. Len(t) : u[i] = t[i]
      /\ u[Len(t) + 1] = e
      BY <1>1, <1>2, AppendFacts
<1> HIDE DEF u
<1>4. DOMAIN u = 1 .. Len(t) + 1 /\ DOMAIN t = 1 .. Len(t) /\ Len(t) \in Nat
      BY <1>2, <1>3
<1>5. \A i \in DOMAIN u : (i = Len(t) + 1 /\ u[i] = e) \/ (i \in DOMAIN t /\ u[i] = t[i])
      BY <1>3, <1>4
<1>6. \A i \in DOMAIN t : i \in DOMAIN u /\ u[i] = t[i]
      BY <1>3, <1>4
<1>7. q \in {"sending", "broken"} /\ (q = "sending" => n = Len(OfGroup(c, g)) /\ p = "sending")
      OBVIOUS
<1>8. u \in Seq({u[i] : i \in DOMAIN u})
      BY <1>3
<1>9. ASSUME NEW i \in DOMAIN u PROVE WrittenFrom(q, c, u, i)
      <2>1. CASE u[i] = e
            BY <2>1, <1>1, <1>7 DEF WrittenFrom
      <2>2. CASE i \in DOMAIN t /\ u[i] = t[i]
            <3>1. WrittenFrom(p, c, t, i)
                  BY <2>2 DEF ReplayOf
            <3> QED BY <2>2, <3>1, <1>7 DEF WrittenFrom
      <2> QED BY <2>1, <2>2, <1>5
<1>10. \A i \in DOMAIN t : t[i].GroupID # g
      BY DEF GroupIDs
<1>11. \A i, j \in DOMAIN u : u[j].GroupID = u[i].GroupID => j = i
      BY <1>1, <1>5, <1>10 DEF ReplayOf
<1>12. GroupIDs(u) \subseteq GroupsOf(c)
      BY <1>1, <1>5 DEF ReplayOf, GroupIDs
<1> QED BY <1>7, <1>8, <1>9, <1>11, <1>12 DEF ReplayOf, RPCs, u, e

\* The steps of one replay.
LEMMA ReplayStepInv ==
    ASSUME Replays, CacheInv, NEW r \in Subs, ReplayCheck(r) \/ ReplayStep(r)
    PROVE  Replays'
<1> DEFINE c == snap[r]
<1>1. /\ ReplayOf(rpc[r], c, c, sent[r]) /\ wanted[r] = c
      /\ rpc[r] \in RPCs
      BY DEF Replays, ReplayOf
<1>2. /\ snap = [snap EXCEPT ![r] = c] /\ wanted = [wanted EXCEPT ![r] = c]
      /\ sent = [sent EXCEPT ![r] = sent[r]]
      BY <1>1 DEF Replays, ReplaysDomains
<1>3. CASE ReplayCheck(r)
      <2> DEFINE p == IF ObjectCache # << >> THEN "spawned" ELSE "done"
      <2>1. rpc' = [rpc EXCEPT ![r] = p] /\ rpc[r] = "idle"
            /\ UNCHANGED <<snap, wanted, sent>>
            BY <1>3 DEF ReplayCheck
      <2>2. c = << >> /\ sent[r] = << >>
            BY <2>1, <1>1 DEF ReplayOf
      <2>3. ReplayOf(p, c, c, sent[r])
            BY <2>2 DEF ReplayOf, RPCs, GroupIDs, GroupsOf
      <2> HIDE DEF p, c
      <2> QED BY <2>1, <2>3, <1>2, ReplayFrame
<1>4. CASE ReplaySnapshot(r)
      <2>1. /\ rpc' = [rpc EXCEPT ![r] = "sending"] /\ rpc[r] = "spawned"
            /\ snap' = [snap EXCEPT ![r] = ObjectCache]
            /\ wanted' = [wanted EXCEPT ![r] = ObjectCache] /\ UNCHANGED sent
            BY <1>4 DEF ReplaySnapshot
      <2>2. sent[r] = << >> /\ ObjectCache \in Seq(CachedObject)
            BY <2>1, <1>1 DEF ReplayOf, CacheInv, CacheTypeOK
      <2>3. ReplayOf("sending", ObjectCache, ObjectCache, sent[r])
            BY <2>2 DEF ReplayOf, RPCs, GroupIDs
      <2> QED BY <2>1, <2>3, <1>2, ReplayFrame
<1>5. CASE ReplayFails(r)
      <2>1. /\ rpc' = [rpc EXCEPT ![r] = "failed"] /\ rpc[r] \in {"sending", "broken"}
            /\ UNCHANGED <<snap, wanted, sent>>
            BY <1>5 DEF ReplayFails
      <2>2. ReplayOf("failed", c, c, sent[r])
            BY <1>1 DEF ReplayOf, RPCs, WrittenFrom
      <2> HIDE DEF c
      <2> QED BY <2>1, <2>2, <1>2, ReplayFrame
<1>6. CASE ReplayEnds(r)
      <2> DEFINE p == IF rpc[r] = "sending" THEN "done" ELSE "failed"
      <2>1. /\ rpc' = [rpc EXCEPT ![r] = p] /\ rpc[r] \in {"sending", "broken"}
            /\ UNCHANGED <<snap, wanted, sent>>
            /\ GroupsOf(c) \subseteq GroupIDs(sent[r])
            BY <1>6 DEF ReplayEnds, GroupIDs, SentGroups
      <2>2. GroupIDs(sent[r]) = GroupsOf(c)
            BY <2>1, <1>1 DEF ReplayOf
      <2>3. \A i \in DOMAIN sent[r] : WrittenFrom(p, c, sent[r], i)
            BY <2>1, <1>1 DEF ReplayOf, WrittenFrom
      <2>4. ReplayOf(p, c, c, sent[r])
            BY <1>1, <2>2, <2>3 DEF ReplayOf, RPCs
      <2> HIDE DEF p, c
      <2> QED BY <2>1, <2>4, <1>2, ReplayFrame
<1>7. ASSUME NEW g \in GroupsOf(snap[r]), NEW n \in 0 .. Len(snap[r]), ReplayGroup(r, g, n)
      PROVE  Replays'
      <2> DEFINE p == IF n = Len(OfGroup(c, g)) THEN rpc[r] ELSE "broken"
                 t == Append(sent[r], [GroupID |-> g, objs |-> SubSeq(OfGroup(c, g), 1, n)])
      <2>1. /\ rpc' = [rpc EXCEPT ![r] = p] /\ rpc[r] \in {"sending", "broken"}
            /\ sent' = [sent EXCEPT ![r] = t] /\ UNCHANGED <<snap, wanted>>
            BY <1>7 DEF ReplayGroup
      <2>2. g \in GroupsOf(c) \ GroupIDs(sent[r]) /\ n \in 0 .. Len(OfGroup(c, g))
            BY <1>7 DEF ReplayGroup, GroupIDs, SentGroups
      <2>3. ReplayOf(p, c, c, t)
            BY <2>1, <2>2, <1>1, WriteGroup
      <2> HIDE DEF p, c, t
      <2> QED BY <2>1, <2>3, <1>2, ReplayFrame
<1> QED BY <1>3, <1>4, <1>5, <1>6, <1>7 DEF ReplayStep

LEMMA ReplayNext == CacheInv /\ ReplayInv /\ [Next]_rcVars => ReplayInv'
<1> SUFFICES ASSUME CacheInv, ReplayInv, [Next]_rcVars PROVE ReplayInv'
    OBVIOUS
<1>1. ASSUME UNCHANGED replayVars PROVE ReplayInv'
      <2>1. Replays'
            BY <1>1, ReplayInvParts DEF replayVars, Replays, ReplaysDomains
      <2> QED BY <2>1, PartsReplayInvNext
<1>2. ASSUME NEW r \in Subs, ReplayCheck(r) \/ ReplayStep(r) PROVE ReplayInv'
      <2>1. Replays'
            BY <1>2, ReplayInvParts, ReplayStepInv
      <2> QED BY <2>1, PartsReplayInvNext
<1>3. ASSUME NEW s \in Streams, NEW o \in Objects, CacheAcquire(s, o) PROVE ReplayInv'
      BY <1>1, <1>3 DEF CacheAcquire
<1>4. ASSUME NEW s \in Streams, CacheStep(s) PROVE ReplayInv'
      BY <1>1, <1>4 DEF CacheStep, CacheEvict, CacheAppend
<1>5. CASE ClearCache
      BY <1>1, <1>5 DEF ClearCache
<1>6. CASE UNCHANGED rcVars
      BY <1>1, <1>6 DEF rcVars, replayVars
<1> QED BY <1>2, <1>3, <1>4, <1>5, <1>6 DEF Next

\* The invariant of the replays, beside that of the cache they copy.
THEOREM ReplayInvariance == Spec => []ReplayInv
    BY Invariance, ReplayInit, ReplayNext, PTL DEF Spec

\* However caching and eviction go on meanwhile, a replay sends the groups of the
\* cache it copied, each once and its objects in order; all of them, when it is done.
THEOREM ReplaySendsSnapshot == Spec => []ReplayIsSnapshot
    BY ReplayInvariance, PTL DEF ReplayInv

-----------------------------------------------------------------------------
\* CurrentBytes as a sum over the cache. The theorems on induction of the library
\* take a predicate as their parameter; over a set of naturals induction is a
\* first-order fact, and follows from < being well founded.
LEMMA LessThanWellFounded ==
    IsWellFoundedOn({p \in Nat \X Nat : p[1] < p[2]}, Nat)
    BY NatLessThanWellFounded DEF OpToRel

LEMMA SetInduction ==
    ASSUME NEW S \in SUBSET Nat, 0 \in S, \A n \in S : n + 1 \in S
    PROVE  S = Nat
<1> DEFINE T == Nat \ S
           R == {p \in Nat \X Nat : p[1] < p[2]}
<1>1. SUFFICES ASSUME T # {} PROVE FALSE
      OBVIOUS
<1>2. T \subseteq Nat /\ IsWellFoundedOn(R, Nat)
      BY LessThanWellFounded
<1>3. PICK x \in T : \A y \in T : ~ (<<y, x>> \in R)
      <2> HIDE DEF T, R
      <2> QED BY <1>1, <1>2, WFMin
<1>4. x \in Nat /\ x # 0 /\ x - 1 \in Nat /\ <<x - 1, x>> \in R
      OBVIOUS
<1>5. x - 1 \in S
      BY <1>3, <1>4
<1> QED BY <1>4, <1>5

\* The partial sums of the cache are differences of the ends of its objects.
LEMMA SumIsDifference ==
    ASSUME CacheTypeOK, CacheIsWindow, BytesAccounted,
           NEW f,
           f = [i \in 0 .. Len(ObjectCache) |->
                   IF i = 0 THEN 0 ELSE f[i - 1] + Size[ObjectCache[i].obj]]
    PROVE  f[Len(ObjectCache)] = CurrentBytes
<1> DEFINE n == Len(ObjectCache)
           S == {i \in Nat : i <= n => f[i] = End(Evicted + i) - End(Evicted)}
<1>1. n \in Nat /\ Len(history) \in Nat /\ n <= Len(history)
      BY DEF CacheTypeOK, CacheIsWindow
<1>2. \A i \in 0 .. n : Evicted + i \in 0 .. Len(history) /\ End(Evicted + i) \in Nat
      BY <1>1, EndType DEF BytesAccounted, Evicted
<1>3. 0 \in S
      <2>1. f[0] = 0
            BY <1>1
      <2>2. Evicted + 0 = Evicted /\ End(Evicted) \in Nat
            BY <1>1, <1>2 DEF Evicted
      <2> QED BY <2>1, <2>2
<1>4. ASSUME NEW i \in S PROVE i + 1 \in S
      <2> SUFFICES ASSUME i + 1 <= n
                   PROVE  f[i + 1] = End(Evicted + (i + 1)) - End(Evicted)
          OBVIOUS
      <2> DEFINE k == Evicted + (i + 1)
      <2>1. i \in 0 .. n /\ i + 1 \in 1 .. n /\ (i + 1) - 1 = i /\ k \in 1 .. Len(history)
            /\ k - 1 = Evicted + i
            BY <1>1 DEF Evicted
      <2>2. f[i + 1] = f[i] + Size[ObjectCache[i + 1].obj]
            BY <1>1, <2>1, SMTT(30)
      <2>3. ObjectCache[i + 1] = history[k]
            BY <2>1 DEF CacheIsWindow
      <2>4. ends[k] = End(k - 1) + Size[history[k].obj] /\ End(k) = ends[k]
            BY <2>1 DEF BytesAccounted, End
      <2>5. Size[history[k].obj] \in Nat
            BY <2>1, SizeType DEF CacheTypeOK
      <2>6. f[i] = End(Evicted + i) - End(Evicted)
            BY <2>1
      <2>7. End(Evicted) \in Nat /\ End(Evicted + i) \in Nat
            BY <1>1, <1>2, <2>1 DEF Evicted
      <2>8. PICK a, b, z \in Nat : a = End(Evicted) /\ b = End(Evicted + i) /\ z = Size[history[k].obj]
            BY <2>5, <2>7
      <2>9. f[i + 1] = (b - a) + z /\ End(Evicted + (i + 1)) = b + z
            BY <2>1, <2>2, <2>3, <2>4, <2>6, <2>8
      <2>10. (b - a) + z = (b + z) - a
            BY ONLY a \in Nat, b \in Nat, z \in Nat
      <2> QED BY <2>8, <2>9, <2>10
<1>5. S = Nat
      <2>1. S \in SUBSET Nat
            OBVIOUS
      <2> HIDE DEF S
      <2> QED BY <1>3, <1>4, <2>1, SetInduction
<1>6. f[n] = End(Evicted + n) - End(Evicted)
      <2>1. n \in S
            BY <1>1, <1>5
      <2> HIDE DEF n
      <2> QED BY <1>1, <2>1
<1>7. Evicted + n = Len(history)
      BY <1>1 DEF Evicted
<1> QED BY <1>6, <1>7 DEF BytesAccounted

\* The recursive definition has a solution, namely those differences.
LEMMA SumExists ==
    ASSUME CacheTypeOK, CacheIsWindow, BytesAccounted
    PROVE  \E f : f = [i \in 0 .. Len(ObjectCache) |->
                          IF i = 0 THEN 0 ELSE f[i - 1] + Size[ObjectCache[i].obj]]
<1> DEFINE n == Len(ObjectCache)
           g == [i \in 0 .. n |-> End(Evicted + i) - End(Evicted)]
<1>1. n \in Nat /\ Len(history) \in Nat /\ n <= Len(history)
      BY DEF CacheTypeOK, CacheIsWindow
<1>2. \A i \in 0 .. n : Evicted + i \in 0 .. Len(history) /\ End(Evicted + i) \in Nat
      BY <1>1, EndType DEF BytesAccounted, Evicted
<1>3. ASSUME NEW i \in 0 .. n
      PROVE  g[i] = IF i = 0 THEN 0 ELSE g[i - 1] + Size[ObjectCache[i].obj]
      <2>1. Evicted + 0 = Evicted /\ End(Evicted) \in Nat
            BY <1>1, <1>2 DEF Evicted
      <2>2. CASE i = 0
            BY <2>1, <2>2
      <2>3. CASE i # 0
            <3> DEFINE k == Evicted + i
            <3>1. i - 1 \in 0 .. n /\ i \in 1 .. n /\ k \in 1 .. Len(history)
                  /\ k - 1 = Evicted + (i - 1)
                  BY <1>1, <2>3 DEF Evicted
            <3>2. ObjectCache[i] = history[k]
                  BY <3>1 DEF CacheIsWindow
            <3>3. ends[k] = End(k - 1) + Size[history[k].obj] /\ End(k) = ends[k]
                  BY <3>1 DEF BytesAccounted, End
            <3>4. Size[history[k].obj] \in Nat
                  BY <3>1, SizeType DEF CacheTypeOK
            <3>5. g[i] = End(k) - End(Evicted) /\ g[i - 1] = End(k - 1) - End(Evicted)
                  BY <3>1
            <3>6. End(k - 1) \in Nat
                  BY <1>2, <3>1
            <3> HIDE DEF k, g
            <3> QED BY <2>1, <2>3, <3>2, <3>3, <3>4, <3>5, <3>6
      <2> QED BY <2>2, <2>3
<1>4. g = [i \in 0 .. n |-> IF i = 0 THEN 0 ELSE g[i - 1] + Size[ObjectCache[i].obj]]
      BY <1>3
<1> QED BY <1>4

\* CurrentBytes is the sum of the payload sizes of the cached objects, computed one
\* by one over the cache, after any sequence of caching, evicting and clearing.
THEOREM CurrentBytesIsSum == Spec => []BytesAreSum
<1>1. ASSUME CacheInv PROVE BytesAreSum
      <2> DEFINE sum == CHOOSE f : f = [i \in 0 .. Len(ObjectCache) |->
                            IF i = 0 THEN 0 ELSE f[i - 1] + Size[ObjectCache[i].obj]]
      <2>1. CacheTypeOK /\ CacheIsWindow /\ BytesAccounted
            BY <1>1 DEF CacheInv
      <2>2. sum = [i \in 0 .. Len(ObjectCache) |->
                       IF i = 0 THEN 0 ELSE sum[i - 1] + Size[ObjectCache[i].obj]]
            BY <2>1, SumExists
      <2>3. CurrentBytes = sum[Len(ObjectCache)]
            <3> HIDE DEF sum
            <3> QED BY <2>1, <2>2, SumIsDifference
      <2> QED BY <2>3 DEF BytesAreSum
<1> QED BY <1>1, Invariance, PTL
=============================================================================
