---- MODULE EventLookupProofs ----
(***************************************************************************)
(* As long as the processes, of one thread each, fit in the pid-to-tgid    *)
(* cache, every event finds its process and its thread.                    *)
(***************************************************************************)
EXTENDS EventLookup, FiniteSetTheorems, SequenceTheorems, TLAPS

InCache(t) == \E i \in 1..Len(cache) : cache[i].pid = t

\* What the cache is after pid2tgid of t.
CacheGrows(t) ==
  /\ CacheTrue'
  /\ InCache(t)'
  /\ \A u \in Tid : InCache(u) => InCache(u)'

\* Seen by the tracer means cached and registered, for good.
Known ==
  \A t \in Tid :
    /\ threads[t] \subseteq {t}
    /\ kernel[t] \in {"run", "zombie"} => t \in enabled
    /\ t \in enabled /\ kernel[t] # "dead" => t \in threads[t] /\ InCache(t)

LookupInv == TypeOK /\ CacheTrue /\ OwnersFound /\ Known

----
(* Types.                                                                  *)

LEMMA PutType ==
  ASSUME TypeOK, NEW t \in Tid, NEW g \in Tid
  PROVE  /\ Put(t, g) \in Seq(Entry) /\ Len(Put(t, g)) <= CacheSize
         /\ Len(cache) < CacheSize =>
              /\ Len(Put(t, g)) = Len(cache) + 1
              /\ Put(t, g)[Len(cache) + 1] = [pid |-> t, tgid |-> g]
              /\ \A i \in 1..Len(cache) : Put(t, g)[i] = cache[i]
<1> DEFINE e == [pid |-> t, tgid |-> g]
<1>1. e \in Entry /\ cache \in Seq(Entry) /\ Len(cache) \in Nat
  BY LenProperties DEF Entry, TypeOK
<1>2. CASE Len(cache) < CacheSize
  <2>1. Put(t, g) = Append(cache, e)
    BY <1>2 DEF Put
  <2> HIDE DEF e
  <2>2. /\ Append(cache, e) \in Seq(Entry) /\ Len(Append(cache, e)) = Len(cache) + 1
        /\ Append(cache, e)[Len(cache) + 1] = e
        /\ \A i \in 1..Len(cache) : Append(cache, e)[i] = cache[i]
    BY <1>1, AppendProperties
  <2> QED
    BY <1>1, <1>2, <2>1, <2>2, SizeAssumption DEF e
<1>3. CASE ~(Len(cache) < CacheSize)
  <2>1. Put(t, g) = [cache EXCEPT ![CacheSize] = e]
    BY <1>3 DEF Put
  <2> HIDE DEF e
  <2>2. CacheSize \in 1..Len(cache)
    BY <1>1, <1>3, SizeAssumption DEF TypeOK
  <2>3. [cache EXCEPT ![CacheSize] = e] \in Seq(Entry)
        /\ Len([cache EXCEPT ![CacheSize] = e]) = Len(cache)
    BY <1>1, <2>2, ExceptSeq
  <2> QED
    BY <1>3, <2>1, <2>3 DEF TypeOK
<1> QED
  BY <1>2, <1>3

LEMMA CachedType ==
  ASSUME TypeOK, NEW t \in Tid
  PROVE  /\ Cached(t) \subseteq Tid
         /\ Cached(t) # {} <=> InCache(t)
         /\ \A i \in 1..Len(cache) : cache[i] \in Entry
<1>1. cache \in Seq(Entry)
  BY DEF TypeOK
<1>2. \A i \in 1..Len(cache) : cache[i] \in Entry
  BY <1>1, ElementOfSeq
<1> QED
  BY <1>2 DEF Cached, InCache, Entry

\* pid2tgid keeps its tables in order, whatever it answers.
LEMMA LookupType ==
  ASSUME TypeOK, NEW t \in Tid, NEW g \in Tid \cup {NoTgid}, Pid2tgid(t, g)
  PROVE  cache' \in Seq(Entry) /\ Len(cache') <= CacheSize /\ stack' \subseteq Tid
<1>1. CASE Cached(t) # {}
  BY <1>1 DEF Pid2tgid, TypeOK
<1>2. CASE Cached(t) = {}
  <2>1. stack' \subseteq Tid
    BY <1>2, TgidAssumption DEF Pid2tgid, TypeOK
  <2>2. CASE g = NoTgid
    BY <1>2, <2>1, <2>2 DEF Pid2tgid, TypeOK
  <2>3. CASE g # NoTgid
    <3>1. g \in Tid /\ cache' = Put(t, g)
      BY <1>2, <2>3 DEF Pid2tgid
    <3> QED
      BY <2>1, <3>1, PutType
  <2> QED
    BY <2>2, <2>3
<1> QED
  BY <1>1, <1>2

LEMMA LookupTypeNext == TypeOK /\ [Next]_vars => TypeOK'
<1> SUFFICES ASSUME TypeOK, [Next]_vars PROVE TypeOK'
  OBVIOUS
<1>1. ASSUME NEW t \in Tid, Stop(t) \/ Exit(t) PROVE TypeOK'
  BY <1>1 DEF TypeOK, Stop, Exit, tables
<1>2. ASSUME NEW t \in Tid, Handle(t) PROVE TypeOK'
  <2>1. PICK g \in Tid \cup {NoTgid} :
          /\ Pid2tgid(t, g)
          /\ IF Fails(t, g) THEN GiveUp(t)
             ELSE FirstEvent(t, g) \/ StopEvent(t, g) \/ ExitEvent(t, g)
    BY <1>2 DEF Handle
  <2>2. cache' \in Seq(Entry) /\ Len(cache') <= CacheSize /\ stack' \subseteq Tid
    BY <2>1, LookupType
  <2>3. CASE Fails(t, g)
    BY <2>1, <2>2, <2>3 DEF GiveUp, Becomes, TypeOK
  <2>4. CASE ~Fails(t, g)
    <3>1. g \in Tid
      BY <2>4 DEF Fails, TypeOK
    <3>2. CASE FirstEvent(t, g)
      BY <2>2, <3>1, <3>2 DEF FirstEvent, Register, Becomes, Reaped, TypeOK
    <3>3. CASE StopEvent(t, g)
      BY <2>2, <3>1, <3>3 DEF StopEvent, Register, Becomes, TypeOK
    <3>4. CASE ExitEvent(t, g)
      BY <2>2, <3>1, <3>4 DEF ExitEvent, Becomes, TypeOK
    <3> QED
      BY <2>1, <2>4, <3>2, <3>3, <3>4
  <2> QED
    BY <2>3, <2>4
<1>3. CASE Finished \/ UNCHANGED vars
  BY <1>3 DEF Finished, vars, tables, TypeOK
<1> QED
  BY <1>1, <1>2, <1>3 DEF Next

LEMMA LookupTypeInit == Init => TypeOK
<1> SUFFICES ASSUME Init PROVE TypeOK
  OBVIOUS
<1>1. cache \in Seq(Entry) /\ Len(cache) = 0
  BY DEF Init
<1> QED
  BY <1>1, SizeAssumption, TgidAssumption DEF Init, TypeOK

\* The cache never grows beyond its array, and its entries and the threads
\* registered are tids utrace is attached to, whatever pid2tgid reads.
THEOREM LookupTypeCorrect == Spec => []TypeOK
<1> QED
  BY LookupTypeInit, LookupTypeNext, PTL DEF Spec

----
(* Owners.                                                                 *)

\* There is room for a tid that is not cached.
LEMMA Room ==
  ASSUME LookupInv, Cardinality(Tid) <= CacheSize, NEW t \in Tid, ~InCache(t)
  PROVE  Len(cache) < CacheSize
<1>1. cache \in Seq(Entry) /\ Len(cache) \in Nat
  BY LenProperties DEF LookupInv, TypeOK
<1>2. IsFiniteSet(Tid) /\ Cardinality(Tid) \in Nat
  BY TidAssumption, FS_CardinalityType
<1>3. IsFiniteSet(Tid \ {t}) /\ Cardinality(Tid \ {t}) = Cardinality(Tid) - 1
  BY <1>2, FS_RemoveElement
<1>4. IsFiniteSet(1..Len(cache)) /\ Cardinality(1..Len(cache)) = Len(cache)
  BY <1>1, FS_Interval
<1>5. SUFFICES ASSUME Len(cache) >= Cardinality(Tid) PROVE FALSE
  BY <1>1, <1>2, SizeAssumption
<1> DEFINE f == [i \in 1..Len(cache) |-> cache[i].pid]
<1>6. f \in [1..Len(cache) -> Tid \ {t}]
  BY CachedType DEF InCache, Entry, LookupInv
<1>7. Cardinality(Tid \ {t}) < Cardinality(1..Len(cache))
  BY <1>1, <1>2, <1>3, <1>4, <1>5
<1> HIDE DEF f
<1>8. PICK i, j \in 1..Len(cache) : i # j /\ f[i] = f[j]
  BY <1>3, <1>4, <1>6, <1>7, FS_PigeonHole
<1> QED
  BY <1>8 DEF f, LookupInv, CacheTrue

\* pid2tgid finds the right group, and utrace does not give up.
LEMMA FindsOwner ==
  ASSUME LookupInv, Cardinality(Tid) <= CacheSize, Tgid = [u \in Tid |-> u],
         NEW t \in Tid, kernel[t] \in {"stop", "zombie"},
         NEW g \in Tid \cup {NoTgid}, Pid2tgid(t, g)
  PROVE  g = t /\ ~Fails(t, g) /\ CacheGrows(t)
<1>0. TypeOK
  BY DEF LookupInv
<1>1. g = t /\ CacheGrows(t)
  <2>1. CASE InCache(t)
    <3>1. Cached(t) # {} /\ g \in Cached(t) /\ cache' = cache
      BY <1>0, <2>1, CachedType DEF Pid2tgid
    <3>2. PICK i \in 1..Len(cache) : cache[i].pid = t /\ g = cache[i].tgid
      BY <3>1 DEF Cached
    <3>3. g = t
      BY <3>2 DEF LookupInv, CacheTrue
    <3>4. CacheTrue' /\ \A u \in Tid : InCache(u)' <=> InCache(u)
      BY <3>1 DEF LookupInv, CacheTrue, InCache
    <3> QED
      BY <2>1, <3>3, <3>4 DEF CacheGrows
  <2>2. CASE ~InCache(t)
    <3>1. Cached(t) = {}
      BY <1>0, <2>2, CachedType
    <3>2. kernel[t] = "stop"
      BY <2>2 DEF LookupInv, Known
    <3>3. g = t /\ g # NoTgid /\ cache' = Put(t, t)
      BY <3>1, <3>2, TidAssumption DEF Pid2tgid
    <3>4. Len(cache) < CacheSize
      BY <2>2, Room
    <3> DEFINE n == Len(cache)
    <3>5. /\ Len(cache') = n + 1 /\ cache'[n + 1] = [pid |-> t, tgid |-> t]
          /\ \A i \in 1..n : cache'[i] = cache[i]
      BY <1>0, <3>3, <3>4, PutType
    <3>6. n \in Nat
      BY <1>0, LenProperties DEF TypeOK
    <3> HIDE DEF n
    <3>7. \A i \in 1..n : cache[i].tgid = cache[i].pid /\ cache[i].pid # t
      BY <1>0, <2>2, CachedType DEF InCache, LookupInv, CacheTrue, Entry, n
    <3>8. CacheTrue'
      <4> SUFFICES ASSUME NEW i \in 1..(n + 1), NEW j \in 1..(n + 1)
                   PROVE  /\ cache'[i].tgid = Tgid[cache'[i].pid]
                          /\ cache'[i].pid = cache'[j].pid => i = j
        BY <3>5 DEF CacheTrue
      <4>1. \A k \in 1..(n + 1) : k \in 1..n \/ k = n + 1
        BY <3>6
      <4>2. \A k \in 1..n : cache[k].tgid = Tgid[cache[k].pid]
        BY DEF LookupInv, CacheTrue, n
      <4>3. \A k, l \in 1..n : cache[k].pid = cache[l].pid => k = l
        BY DEF LookupInv, CacheTrue, n
      <4> QED
        BY <3>5, <3>7, <4>1, <4>2, <4>3
    <3>9. InCache(t)' /\ \A u \in Tid : InCache(u) => InCache(u)'
      BY <3>5, <3>6 DEF InCache, n
    <3> QED
      BY <3>3, <3>8, <3>9 DEF CacheGrows
  <2> QED
    BY <2>1, <2>2
<1>2. ~Fails(t, t)
  <2>1. t \in list
    BY DEF LookupInv, OwnersFound
  <2>2. t \notin threads[t] => threads[t] = {}
    BY DEF LookupInv, Known
  <2>3. Cardinality({}) = 0
    BY FS_EmptySet
  <2> QED
    BY <2>1, <2>2, <2>3, SizeAssumption DEF Fails
<1> QED
  BY <1>1, <1>2

LEMMA OwnersNext ==
  ASSUME Cardinality(Tid) <= CacheSize, Tgid = [t \in Tid |-> t],
         LookupInv, [Next]_vars
  PROVE  LookupInv'
<1>1. TypeOK'
  BY LookupTypeNext DEF LookupInv
<1>2. ASSUME NEW t \in Tid, Stop(t) \/ Exit(t)
      PROVE  (CacheTrue /\ OwnersFound /\ Known)'
  <2>1. /\ kernel[t] = "run" /\ UNCHANGED tables
        /\ kernel' \in {[kernel EXCEPT ![t] = "stop"], [kernel EXCEPT ![t] = "zombie"]}
    BY <1>2 DEF Stop, Exit
  <2>2. CacheTrue' /\ \A u \in Tid : InCache(u)' <=> InCache(u)
    BY <2>1 DEF tables, LookupInv, CacheTrue, InCache
  <2> QED
    BY <2>1, <2>2 DEF tables, LookupInv, TypeOK, OwnersFound, Known
<1>3. ASSUME NEW t \in Tid, Handle(t)
      PROVE  (CacheTrue /\ OwnersFound /\ Known)'
  <2>1. PICK g \in Tid \cup {NoTgid} :
          /\ Pid2tgid(t, g)
          /\ IF Fails(t, g) THEN GiveUp(t)
             ELSE FirstEvent(t, g) \/ StopEvent(t, g) \/ ExitEvent(t, g)
    BY <1>3 DEF Handle
  <2>2. utrace = "loop" /\ kernel[t] \in {"stop", "zombie"}
    BY <1>3 DEF Handle
  <2>3. g = t /\ ~Fails(t, g) /\ CacheGrows(t)
    BY <2>1, <2>2, FindsOwner
  <2>4. CacheTrue' /\ InCache(t)' /\ \A u \in Tid : InCache(u) => InCache(u)'
    BY <2>3 DEF CacheGrows
  <2>5. CASE FirstEvent(t, t)
    BY <2>2, <2>4, <2>5
    DEF FirstEvent, Register, Becomes, Reaped, LookupInv, TypeOK, OwnersFound, Known
  <2>6. CASE StopEvent(t, t)
    BY <2>2, <2>4, <2>6
    DEF StopEvent, Register, Ghost, Becomes, LookupInv, TypeOK, OwnersFound, Known
  <2>7. CASE ExitEvent(t, t)
    BY <2>2, <2>4, <2>7
    DEF ExitEvent, Becomes, LookupInv, TypeOK, OwnersFound, Known
  <2> QED
    BY <2>1, <2>3, <2>5, <2>6, <2>7
<1>4. CASE Finished \/ UNCHANGED vars
  <2>1. UNCHANGED <<tables, kernel>>
    BY <1>4 DEF Finished, vars
  <2>2. \A u \in Tid : InCache(u)' <=> InCache(u)
    BY <2>1 DEF tables, InCache
  <2> QED
    BY <1>1, <2>1, <2>2 DEF tables, LookupInv, CacheTrue, OwnersFound, Known
<1> QED
  BY <1>1, <1>2, <1>3, <1>4 DEF Next, LookupInv

LEMMA OwnersInit ==
  ASSUME Tgid = [t \in Tid |-> t], Init
  PROVE  LookupInv
<1>1. TypeOK
  BY LookupTypeInit
<1>2. Len(cache) = 0
  BY DEF Init
<1> QED
  BY <1>1, <1>2, TgidAssumption
  DEF Init, LookupInv, CacheTrue, OwnersFound, Known, InCache

\* While there are no more tids than cache entries, and each process has one
\* thread, utrace never gives up, never drops a living process from its list
\* and never loses a thread.
THEOREM OwnersAlwaysFound ==
  ASSUME Cardinality(Tid) <= CacheSize, Tgid = [t \in Tid |-> t]
  PROVE  Spec => []OwnersFound
<1>1. Init => LookupInv
  BY OwnersInit
<1>2. LookupInv /\ [Next]_vars => LookupInv'
  BY OwnersNext
<1>3. LookupInv => OwnersFound
  BY DEF LookupInv
<1> QED
  BY <1>1, <1>2, <1>3, PTL DEF Spec

\* Then the cache never gives a tid two groups, nor one it is not in.
THEOREM CacheAlwaysTrue ==
  ASSUME Cardinality(Tid) <= CacheSize, Tgid = [t \in Tid |-> t]
  PROVE  Spec => []CacheTrue
<1>1. Init => LookupInv
  BY OwnersInit
<1>2. LookupInv /\ [Next]_vars => LookupInv'
  BY OwnersNext
<1>3. LookupInv => CacheTrue
  BY DEF LookupInv
<1> QED
  BY <1>1, <1>2, <1>3, PTL DEF Spec
====
