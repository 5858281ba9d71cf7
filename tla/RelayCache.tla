------------------------------ MODULE RelayCache ------------------------------
(***************************************************************************)
(* The object cache of a RelayStream (moqt/relaystream.go): ObjectCache    *)
(* and CurrentBytes under CacheLock, filled by the ProcessObjects          *)
(* goroutines of the track's streams, copied and replayed to a subscriber  *)
(* that joins later by SendCachedObjects.                                  *)
(*                                                                         *)
(* cacheObject holds the write lock over a loop, so it is a sequence of    *)
(* steps (lock, evict one, append and unlock) during which CacheLock names *)
(* its goroutine; the read-locked sections are single steps that need      *)
(* CacheLock free. CacheEnabled is TRUE in every RelayStream the code      *)
(* makes and nothing assigns it later.                                     *)
(***************************************************************************)
EXTENDS Integers, Sequences

CONSTANTS Streams,        \* incoming streams of the track, one ProcessObjects each
          TrackStreams,   \* those that are TRACK streams; the others are GROUP streams
          Objects,        \* the objects published on them
          Size,           \* Size[o]: payload bytes of o
          Group,          \* Group[o]: the group o was published in
          Subs,           \* subscribers that join and are sent the cache
          MaxCacheSize, MaxCacheBytes,
          NoOne,          \* CacheLock is not write-locked
          MaxCached       \* bound: calls of cacheObject

ASSUME CacheAssumption ==
    /\ TrackStreams \subseteq Streams
    /\ Size \in [Objects -> Nat]
    /\ Group \in [Objects -> Nat]
    /\ MaxCacheSize \in Int /\ MaxCacheBytes \in Int
    /\ NoOne \notin Streams
    /\ MaxCached \in Nat

VARIABLES ObjectCache,    \* the cached objects, oldest first
          CurrentBytes,
          CacheLock,      \* the goroutine inside cacheObject, or NoOne
          incoming,       \* incoming[s]: the object that goroutine s is caching
          history,        \* (history) every object ever cached, in lock order
          ends,           \* (history) ends[i]: bytes of the first i of them
          cleared,        \* (history) how many of them ClearCache has dropped
          rpc,            \* rpc[r]: where the replay to subscriber r is
          snap,           \* snap[r]: cachedObjects, the copy the replay works on
          wanted,         \* (history) wanted[r]: ObjectCache when it was copied
          sent            \* sent[r]: the QUIC streams the replay has written

cacheVars  == <<ObjectCache, CurrentBytes, CacheLock, incoming, history, ends, cleared>>
replayVars == <<rpc, snap, wanted, sent>>
rcVars     == <<ObjectCache, CurrentBytes, CacheLock, incoming, history, ends, cleared,
                rpc, snap, wanted, sent>>

CachedObject == [GroupID : Nat, obj : Objects]

Init ==
    /\ ObjectCache = << >>
    /\ CurrentBytes = 0
    /\ CacheLock = NoOne
    /\ incoming = [s \in Streams |-> NoOne]
    /\ history = << >>
    /\ ends = << >>
    /\ cleared = 0
    /\ rpc = [r \in Subs |-> "idle"]
    /\ snap = [r \in Subs |-> << >>]
    /\ wanted = [r \in Subs |-> << >>]
    /\ sent = [r \in Subs |-> << >>]

-----------------------------------------------------------------------------
\* cacheObject

\* object.GroupID as ReadObject leaves it: TrackStream.ReadObject stores the group
\* it read; GroupStream.ReadObject leaves the zero value (the group is returned
\* separately, and ProcessObjects drops it).
ReadGroupID(s, o) == IF s \in TrackStreams THEN Group[o] ELSE 0

\* CacheLock.Lock()
CacheAcquire(s, o) ==
    /\ CacheLock = NoOne
    /\ CacheLock' = s
    /\ incoming' = [incoming EXCEPT ![s] = [GroupID |-> ReadGroupID(s, o), obj |-> o]]
    /\ UNCHANGED <<ObjectCache, CurrentBytes, history, ends, cleared, replayVars>>

\* Fault: > for >=.
CacheFullLate == Len(ObjectCache) > MaxCacheSize \/ CurrentBytes >= MaxCacheBytes

\* Fault: the limit is taken as one less.
CacheFullEarly == Len(ObjectCache) + 1 >= MaxCacheSize \/ CurrentBytes >= MaxCacheBytes

\* The loop's condition: the incoming object's own size is not counted.
CacheFull == Len(ObjectCache) >= MaxCacheSize \/ CurrentBytes >= MaxCacheBytes

\* Fault: the newest object is removed.
CacheEvictNewest(s) ==
    /\ CacheLock = s
    /\ CacheFull
    /\ ObjectCache # << >>
    /\ ObjectCache' = SubSeq(ObjectCache, 1, Len(ObjectCache) - 1)
    /\ CurrentBytes' = CurrentBytes - Size[ObjectCache[Len(ObjectCache)].obj]
    /\ UNCHANGED <<CacheLock, incoming, history, ends, cleared, replayVars>>

\* Fault: the size of the incoming object is subtracted.
CacheEvictWrongSize(s) ==
    /\ CacheLock = s
    /\ CacheFull
    /\ ObjectCache # << >>
    /\ ObjectCache' = Tail(ObjectCache)
    /\ CurrentBytes' = CurrentBytes - Size[incoming[s].obj]
    /\ UNCHANGED <<CacheLock, incoming, history, ends, cleared, replayVars>>

\* Fault: CurrentBytes is left alone.
CacheEvictUncounted(s) ==
    /\ CacheLock = s
    /\ CacheFull
    /\ ObjectCache # << >>
    /\ ObjectCache' = Tail(ObjectCache)
    /\ UNCHANGED <<CurrentBytes, CacheLock, incoming, history, ends, cleared, replayVars>>

\* One round of the loop.
CacheEvict(s) ==
    /\ CacheLock = s
    /\ CacheFull
    /\ ObjectCache # << >>
    /\ ObjectCache' = Tail(ObjectCache)
    /\ CurrentBytes' = CurrentBytes - Size[Head(ObjectCache).obj]
    /\ UNCHANGED <<CacheLock, incoming, history, ends, cleared, replayVars>>

\* Bytes of the first i objects ever cached.
End(i) == IF i = 0 THEN 0 ELSE ends[i]

\* The loop ends (room, or nothing left to evict): append and unlock.
CacheAppend(s) ==
    /\ CacheLock = s
    /\ ~CacheFull \/ ObjectCache = << >>
    /\ ObjectCache' = Append(ObjectCache, incoming[s])
    /\ CurrentBytes' = CurrentBytes + Size[incoming[s].obj]
    /\ history' = Append(history, incoming[s])
    /\ ends' = Append(ends, End(Len(ends)) + Size[incoming[s].obj])
    /\ CacheLock' = NoOne
    /\ incoming' = [incoming EXCEPT ![s] = NoOne]
    /\ UNCHANGED <<cleared, replayVars>>

ClearCache ==
    /\ CacheLock = NoOne
    /\ ObjectCache' = << >>
    /\ CurrentBytes' = 0
    /\ cleared' = Len(history)
    /\ UNCHANGED <<CacheLock, incoming, history, ends, replayVars>>

-----------------------------------------------------------------------------
\* Replay to a subscriber that joins a track the relay already receives.

\* GetCacheStats in HandleSubscribe: a replay is started if anything is cached.
ReplayCheck(r) ==
    /\ rpc[r] = "idle"
    /\ CacheLock = NoOne
    /\ rpc' = [rpc EXCEPT ![r] = IF ObjectCache # << >> THEN "spawned" ELSE "done"]
    /\ UNCHANGED <<cacheVars, snap, wanted, sent>>

\* SendCachedObjects copies the cache under the read lock.
ReplaySnapshot(r) ==
    /\ rpc[r] = "spawned"
    /\ CacheLock = NoOne
    /\ snap' = [snap EXCEPT ![r] = ObjectCache]
    /\ wanted' = [wanted EXCEPT ![r] = ObjectCache]
    /\ rpc' = [rpc EXCEPT ![r] = "sending"]
    /\ UNCHANGED <<cacheVars, sent>>

GroupsOf(objs) == {objs[i].GroupID : i \in DOMAIN objs}
OfGroup(objs, g) == SelectSeq(objs, LAMBDA c : c.GroupID = g)
SentGroups(r) == {sent[r][i].GroupID : i \in DOMAIN sent[r]}

\* Fault: the replay reads the live cache instead of its copy.
ReplayGroupLive(r, g, n) ==
    /\ rpc[r] = "sending"
    /\ g \in GroupsOf(snap[r]) \ SentGroups(r)
    /\ n = Len(OfGroup(ObjectCache, g))
    /\ sent' = [sent EXCEPT ![r] =
                  Append(@, [GroupID |-> g, objs |-> OfGroup(ObjectCache, g)])]
    /\ UNCHANGED <<cacheVars, rpc, snap, wanted>>

\* One round over `groups`, a Go map: the groups come in any order. Each is a GROUP
\* stream with the group's objects; if a Write fails, only the first n are sent, and
\* since its error is not looked at the loop goes on with the next group.
ReplayGroup(r, g, n) ==
    /\ rpc[r] \in {"sending", "broken"}
    /\ g \in GroupsOf(snap[r]) \ SentGroups(r)
    /\ n \in 0 .. Len(OfGroup(snap[r], g))
    /\ sent' = [sent EXCEPT ![r] =
                  Append(@, [GroupID |-> g, objs |-> SubSeq(OfGroup(snap[r], g), 1, n)])]
    /\ rpc' = [rpc EXCEPT ![r] =
                  IF n = Len(OfGroup(snap[r], g)) THEN @ ELSE "broken"]
    /\ UNCHANGED <<cacheVars, snap, wanted>>

\* OpenUniStream fails (no stream credit, or the connection is gone): the rest of
\* the groups is dropped.
ReplayFails(r) ==
    /\ rpc[r] \in {"sending", "broken"}
    /\ rpc' = [rpc EXCEPT ![r] = "failed"]
    /\ UNCHANGED <<cacheVars, snap, wanted, sent>>

\* All groups were visited. The errors of the Writes were not looked at.
ReplayEnds(r) ==
    /\ rpc[r] \in {"sending", "broken"}
    /\ GroupsOf(snap[r]) \subseteq SentGroups(r)
    /\ rpc' = [rpc EXCEPT ![r] = IF @ = "sending" THEN "done" ELSE "failed"]
    /\ UNCHANGED <<cacheVars, snap, wanted, sent>>

CacheStep(s) == CacheEvict(s) \/ CacheAppend(s)
ReplayStep(r) ==
    \/ ReplaySnapshot(r) \/ ReplayFails(r) \/ ReplayEnds(r)
    \/ \E g \in GroupsOf(snap[r]) : \E n \in 0 .. Len(snap[r]) : ReplayGroup(r, g, n)

Next ==
    \/ \E s \in Streams :
          \/ Len(history) < MaxCached /\ \E o \in Objects : CacheAcquire(s, o)
          \/ CacheStep(s)
    \/ ClearCache
    \/ \E r \in Subs : ReplayCheck(r) \/ ReplayStep(r)

Spec == Init /\ [][Next]_rcVars

-----------------------------------------------------------------------------
RPCs == {"idle", "spawned", "sending", "broken", "done", "failed"}

CacheTypeOK ==
    /\ ObjectCache \in Seq(CachedObject)
    /\ CurrentBytes \in Int
    /\ CacheLock \in Streams \cup {NoOne}
    /\ incoming \in [Streams -> CachedObject \cup {NoOne}]
    /\ history \in Seq(CachedObject)
    /\ ends \in Seq(Nat)
    /\ cleared \in Nat

\* What a replay has sent is a sequence of streams; ReplayIsSnapshot says which.
ReplayTypeOK ==
    /\ rpc \in [Subs -> RPCs]
    /\ snap \in [Subs -> Seq(CachedObject)]
    /\ wanted \in [Subs -> Seq(CachedObject)]
    /\ sent \in [Subs -> {sent[r] : r \in Subs}]
    /\ \A r \in Subs : sent[r] \in Seq({sent[r][i] : i \in DOMAIN sent[r]})

\* FIFO eviction: the cache is the newest part of what was cached, in the order of
\* the cacheObject calls, whatever goroutines made them.
Evicted == Len(history) - Len(ObjectCache)
CacheIsWindow ==
    /\ Len(ObjectCache) <= Len(history)
    /\ \A i \in 1 .. Len(ObjectCache) : ObjectCache[i] = history[Evicted + i]

\* CurrentBytes, kept by adding and subtracting, is the payload bytes of the
\* cached objects: it never drifts, so the byte limit means what it says.
BytesAccounted ==
    /\ Len(ends) = Len(history)
    /\ \A i \in 1 .. Len(history) : ends[i] = End(i - 1) + Size[history[i].obj]
    /\ CurrentBytes = End(Len(history)) - End(Evicted)

\* CurrentBytes against the reference definition: the sum over the cache.
BytesAreSum ==
    LET sum[i \in 0 .. Len(ObjectCache)] ==
            IF i = 0 THEN 0 ELSE sum[i - 1] + Size[ObjectCache[i].obj]
    IN  CurrentBytes = sum[Len(ObjectCache)]

\* The limits, at zero and negative settings too: without its newest object the
\* cache is below both limits, or it holds nothing else. So the bytes may exceed the
\* limit by the newest object: the loop evicts for what is there, not for what comes.
CacheBounded ==
    LET n == Len(ObjectCache) IN
    n > 1 => /\ n <= MaxCacheSize
             /\ CurrentBytes - Size[ObjectCache[n].obj] < MaxCacheBytes

\* Nothing is evicted early: outside cacheObject, the newest evicted object could
\* not have been kept, since with it the cache was full when the newest object came.
WindowIsMaximal ==
    LET n == Len(ObjectCache) IN
    (CacheLock = NoOne /\ Evicted > cleared /\ n > 0) =>
        \/ n >= MaxCacheSize
        \/ End(Len(history) - 1) - End(Evicted - 1) >= MaxCacheBytes

\* The inductive invariant behind the five properties above. Inside cacheObject
\* the window is maximal with respect to the rounds of the loop done so far.
CacheInv ==
    /\ CacheTypeOK
    /\ CacheLock # NoOne => incoming[CacheLock] \in CachedObject
    /\ CacheIsWindow
    /\ BytesAccounted
    /\ CacheBounded
    /\ cleared <= Evicted
    /\ (CacheLock = NoOne /\ ObjectCache = << >>) => Evicted = cleared
    /\ WindowIsMaximal
    /\ (CacheLock # NoOne /\ Evicted > cleared) =>
          \/ Len(ObjectCache) + 1 >= MaxCacheSize
          \/ End(Len(history)) - End(Evicted - 1) >= MaxCacheBytes

\* A replay sends what the cache held when it was copied, although objects are
\* cached and evicted meanwhile: each group once, its objects in order and without
\* gaps; all of it, when it is done.
ReplayIsSnapshot ==
    \A r \in Subs :
        /\ \A i \in DOMAIN sent[r] :
              LET g == sent[r][i].GroupID
                  all == OfGroup(wanted[r], g) IN
              /\ \E n \in 0 .. Len(all) :
                    /\ sent[r][i].objs = SubSeq(all, 1, n)
                    /\ rpc[r] \in {"sending", "done"} => n = Len(all)
              /\ \A j \in DOMAIN sent[r] : sent[r][j].GroupID = g => j = i
        /\ rpc[r] = "done" => SentGroups(r) = GroupsOf(wanted[r])

\* Why it is inductive: the copy a replay works on is not touched again, only its
\* groups are sent, and nothing is sent before it is made.
ReplayInv ==
    /\ ReplayTypeOK
    /\ ReplayIsSnapshot
    /\ \A r \in Subs :
          /\ wanted[r] = snap[r]
          /\ SentGroups(r) \subseteq GroupsOf(snap[r])
          /\ rpc[r] \in {"idle", "spawned"} => snap[r] = << >> /\ sent[r] = << >>

\* What a replayed stream should say, and does not for objects that came on a GROUP
\* stream: the stream's group is the group its objects were published in.
ReplayKeepsGroups ==
    \A r \in Subs : \A i \in DOMAIN sent[r] : \A j \in DOMAIN sent[r][i].objs :
        Group[sent[r][i].objs[j].obj] = sent[r][i].GroupID
=============================================================================
