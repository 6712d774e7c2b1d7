------------------------- MODULE ReplacerCacheProofs -------------------------
(***************************************************************************)
(* Theorems about ReplacerCache, for any goroutines, replacements and size *)
(* of the cache.                                                           *)
(***************************************************************************)
EXTENDS ReplacerCache, SequenceTheorems, TLAPS

\* Whoever waits to add or has been answered has its own data, and so does every entry.
DataInv ==
    /\ \A i \in DOMAIN ll : entry[ll[i]].data = entry[ll[i]].key
    /\ \A c \in Callers : call[c].pc \in {"add", "done"} => call[c].data = call[c].key

IInv == TypeOK /\ MapMatchesList /\ DataInv

----------------------------------------------------------------------------
(* Lists                                                                   *)

\* Moving an element to the front permutes the list.
LEMMA MoveToFrontPermutes ==
    ASSUME NEW S, NEW s \in Seq(S), NEW e \in S, \E j \in DOMAIN s : s[j] = e,
           \A i, j \in DOMAIN s : s[i] = s[j] => i = j
    PROVE  LET t == MoveToFront(s, e) IN
             /\ t \in Seq(S) /\ Len(t) = Len(s)
             /\ \A i, j \in DOMAIN t : t[i] = t[j] => i = j
             /\ \A i \in DOMAIN t : \E j \in DOMAIN s : t[i] = s[j]
             /\ \A j \in DOMAIN s : \E i \in DOMAIN t : t[i] = s[j]
<1> DEFINE t == MoveToFront(s, e)
           p == CHOOSE j \in DOMAIN s : s[j] = e
           from(j) == IF j = 1 THEN p ELSE IF j <= p THEN j - 1 ELSE j
           to(j) == IF j = p THEN 1 ELSE IF j < p THEN j + 1 ELSE j
<1>1. DOMAIN s = 1..Len(s) /\ Len(s) \in Nat /\ p \in 1..Len(s) /\ s[p] = e
  OBVIOUS
<1>2. t = [j \in 1..Len(s) |-> IF j = 1 THEN e ELSE IF j <= p THEN s[j - 1] ELSE s[j]]
  BY DEF MoveToFront
<1> HIDE DEF t, p
<1>3. \A j \in 1..Len(s) : from(j) \in 1..Len(s) /\ t[j] = s[from(j)]
  BY <1>1, <1>2
<1>4. t \in Seq(S) /\ Len(t) = Len(s) /\ DOMAIN t = 1..Len(s)
  <2>1. \A j \in 1..Len(s) : t[j] \in S
    BY <1>1, <1>3
  <2> QED
    BY <1>1, <1>2, <2>1
<1>5. \A j \in 1..Len(s) : to(j) \in 1..Len(s) /\ from(to(j)) = j
  BY <1>1
<1>6. \A i, j \in 1..Len(s) : from(i) = from(j) => i = j
  BY <1>1
<1> HIDE DEF from, to
<1>7. \A i, j \in DOMAIN t : t[i] = t[j] => i = j
  BY <1>1, <1>3, <1>4, <1>6
<1>8. \A i \in DOMAIN t : \E j \in DOMAIN s : t[i] = s[j]
  BY <1>1, <1>3, <1>4
<1>9. \A j \in DOMAIN s : \E i \in DOMAIN t : t[i] = s[j]
  <2> SUFFICES ASSUME NEW j \in 1..Len(s)
               PROVE  t[to(j)] = s[j] /\ to(j) \in DOMAIN t
    BY <1>1
  <2> QED
    BY <1>3, <1>4, <1>5
<1> QED
  BY <1>4, <1>7, <1>8, <1>9 DEF t

\* A new element at the front keeps the others, one place further.
LEMMA PushFrontAdds ==
    ASSUME NEW S, NEW s \in Seq(S), NEW e \in S
    PROVE  LET t == PushFront(s, e) IN
             /\ t \in Seq(S) /\ Len(t) = Len(s) + 1
             /\ t[1] = e /\ \A j \in DOMAIN s : t[j + 1] = s[j]
BY DEF PushFront

\* RemoveBack leaves all entries but the last in place.
LEMMA RemoveBackShortens ==
    ASSUME NEW S, NEW s \in Seq(S), Len(s) > 0
    PROVE  LET t == RemoveBack(s) IN
             /\ t \in Seq(S) /\ Len(t) = Len(s) - 1
             /\ \A j \in DOMAIN t : t[j] = s[j]
BY DEF RemoveBack

----------------------------------------------------------------------------
(* The invariant                                                           *)

\* The cache is empty at first.
LEMMA InitIInv == Init => IInv
BY SizeAssumption DEF Init, IInv, TypeOK, MapMatchesList, DataInv, Calls, Entries, Listed

\* A step that leaves the cache alone.
LEMMA CacheUntouched ==
    ASSUME IInv, UNCHANGED <<ll, entry, cache>>, call' \in [Callers -> Calls],
           \A c \in Callers : call'[c].pc \in {"add", "done"} => call'[c].data = call'[c].key
    PROVE  IInv'
BY DEF IInv, TypeOK, MapMatchesList, DataInv, Listed

\* A hit, and an addition of a key that another goroutine has added.
LEMMA MovedToFront ==
    ASSUME IInv, NEW k \in Keys, cache[k] # None,
           ll' = MoveToFront(ll, cache[k]), UNCHANGED cache,
           entry' \in [Elements -> Entries],
           \A e \in Elements : entry'[e].key = entry[e].key,
           \A e \in Listed : entry'[e].data = entry'[e].key,
           call' \in [Callers -> Calls],
           \A c \in Callers : call'[c].pc \in {"add", "done"} => call'[c].data = call'[c].key
    PROVE  IInv'
<1> USE DEF IInv
<1>1. cache[k] \in Elements /\ \E j \in DOMAIN ll : ll[j] = cache[k]
  BY DEF TypeOK, MapMatchesList, Listed
<1>2. /\ ll' \in Seq(Elements) /\ Len(ll') = Len(ll)
      /\ \A i, j \in DOMAIN ll' : ll'[i] = ll'[j] => i = j
      /\ \A i \in DOMAIN ll' : \E j \in DOMAIN ll : ll'[i] = ll[j]
      /\ \A j \in DOMAIN ll : \E i \in DOMAIN ll' : ll'[i] = ll[j]
  <2>1. ll \in Seq(Elements) /\ \A i, j \in DOMAIN ll : ll[i] = ll[j] => i = j
    BY DEF TypeOK, MapMatchesList
  <2>2. LET t == MoveToFront(ll, cache[k]) IN
          /\ t \in Seq(Elements) /\ Len(t) = Len(ll)
          /\ \A i, j \in DOMAIN t : t[i] = t[j] => i = j
          /\ \A i \in DOMAIN t : \E j \in DOMAIN ll : t[i] = ll[j]
          /\ \A j \in DOMAIN ll : \E i \in DOMAIN t : t[i] = ll[j]
    BY <1>1, <2>1, MoveToFrontPermutes
  <2> QED
    BY <2>2
<1>3. TypeOK'
  BY <1>2 DEF TypeOK
<1>4. Listed' = Listed
  BY <1>2 DEF Listed
<1>5. MapMatchesList'
  <2>1. \A i \in DOMAIN ll' : ll'[i] \in Listed /\ ll'[i] \in Elements
    BY <1>2 DEF Listed, TypeOK
  <2>2. \A e \in Listed : cache[entry[e].key] = e
    BY DEF MapMatchesList, Listed
  <2>3. \A i \in DOMAIN ll' : cache'[entry'[ll'[i]].key] = ll'[i]
    BY <2>1, <2>2
  <2>4. \A j \in Keys : cache[j] # None => cache[j] \in Elements
    BY DEF TypeOK
  <2>5. \A j \in Keys : cache'[j] # None => cache'[j] \in Listed' /\ entry'[cache'[j]].key = j
    BY <1>4, <2>4 DEF MapMatchesList
  <2> QED
    BY <1>2, <2>3, <2>5 DEF MapMatchesList
<1>6. DataInv'
  BY <1>2 DEF DataInv, Listed
<1> QED
  BY <1>3, <1>5, <1>6

\* An addition of a key that nobody has added, with an eviction when the list is full.
LEMMA Added ==
    ASSUME IInv, NEW c \in Callers, AddNew(c)
    PROVE  IInv'
<1> DEFINE k == call[c].key
           pushed(e) == PushFront(ll, e)
           oldest(e) == pushed(e)[Len(pushed(e))]
<1> USE DEF IInv
<1>0. k \in Keys /\ call[c] \in Calls /\ cache[k] = None /\ call[c].data = k
  BY DEF TypeOK, Calls, AddNew, AlreadyAdded, DataInv
<1>1. PICK e \in Elements \ (Listed \cup Mapped) :
        /\ entry' = [entry EXCEPT ![e] = [key |-> k, data |-> call[c].data]]
        /\ ll' = IF Overfull(pushed(e)) THEN RemoveBack(pushed(e)) ELSE pushed(e)
        /\ cache' = IF Overfull(pushed(e))
                      THEN [cache EXCEPT ![k] = e, ![entry'[oldest(e)].key] = None]
                      ELSE [cache EXCEPT ![k] = e]
  BY DEF AddNew
<1> DEFINE n == Len(ll)
           p == PushFront(ll, e)
<1>2. /\ ll \in Seq(Elements) /\ n \in Nat /\ n <= MaxSize /\ DOMAIN ll = 1..n
      /\ e \in Elements /\ \A j \in 1..n : ll[j] # e /\ ll[j] \in Elements
      /\ \A j \in Keys : cache[j] # e
  BY NoneAssumption DEF TypeOK, Listed, Mapped
<1>3. /\ ll' = IF Overfull(p) THEN RemoveBack(p) ELSE p
      /\ cache' = IF Overfull(p) THEN [cache EXCEPT ![k] = e, ![entry'[p[Len(p)]].key] = None]
                  ELSE [cache EXCEPT ![k] = e]
      /\ p \in Seq(Elements) /\ Len(p) = n + 1
      /\ p[1] = e /\ \A j \in 1..n : p[j + 1] = ll[j]
  <2>1. LET t == PushFront(ll, e) IN
          /\ t \in Seq(Elements) /\ Len(t) = Len(ll) + 1
          /\ t[1] = e /\ \A j \in DOMAIN ll : t[j + 1] = ll[j]
    BY <1>2, PushFrontAdds
  <2> QED
    BY <1>1, <1>2, <2>1
<1> HIDE DEF p
<1>4. /\ entry' \in [Elements -> Entries] /\ entry'[e].key = k /\ entry'[e].data = k
      /\ \A j \in 1..n : entry'[ll[j]] = entry[ll[j]]
  BY <1>0, <1>1, <1>2 DEF TypeOK, Entries
<1>5. /\ call' \in [Callers -> Calls]
      /\ \A d \in Callers : call'[d].pc \in {"add", "done"} => call'[d].data = call'[d].key
  BY <1>0 DEF AddNew, TypeOK, Calls, DataInv
\* What both cases have in common: m elements stay, behind e, and the rest are forgotten.
<1>6. SUFFICES ASSUME NEW m \in 0..n, m < MaxSize,
                      ll' \in Seq(Elements), Len(ll') = m + 1,
                      ll'[1] = e, \A j \in 1..m : ll'[j + 1] = ll[j],
                      cache' \in [Keys -> Elements \cup {None}], cache'[k] = e,
                      \A j \in Keys \ {k} : cache'[j] \in {cache[j], None},
                      \A j \in 1..n : cache'[entry[ll[j]].key] = IF j <= m THEN ll[j] ELSE None
               PROVE  IInv'
  <2>1. CASE ~Overfull(p)
    <3>1. n < MaxSize
      BY <1>2, <1>3, <2>1, SizeAssumption DEF Overfull
    <3>2. ll' = p /\ cache' = [cache EXCEPT ![k] = e]
      BY <1>3, <2>1
    <3>3. ASSUME NEW j \in 1..n PROVE cache'[entry[ll[j]].key] = ll[j]
      <4>1. entry[ll[j]].key \in Keys /\ cache[entry[ll[j]].key] = ll[j] /\ ll[j] # None
        BY <1>2, NoneAssumption DEF MapMatchesList, TypeOK, Entries
      <4> QED
        BY <1>0, <3>2, <4>1 DEF TypeOK
    <3>4. /\ cache' \in [Keys -> Elements \cup {None}] /\ cache'[k] = e
          /\ \A j \in Keys \ {k} : cache'[j] \in {cache[j], None}
      BY <1>0, <1>2, <3>2 DEF TypeOK
    <3>5. /\ n \in 0..n /\ ll' \in Seq(Elements) /\ Len(ll') = n + 1
          /\ ll'[1] = e /\ \A j \in 1..n : ll'[j + 1] = ll[j]
      BY <1>2, <1>3, <3>2
    <3>6. \A j \in 1..n : cache'[entry[ll[j]].key] = IF j <= n THEN ll[j] ELSE None
      BY <1>2, <3>3
    <3> QED
      BY <1>6, <3>1, <3>4, <3>5, <3>6
  <2>2. CASE Overfull(p)
    <3> DEFINE q == entry[ll[n]].key
    <3>1. n = MaxSize /\ n >= 1
      BY <1>2, <1>3, <2>2, SizeAssumption DEF Overfull
    <3>2. p[Len(p)] = ll[n]
      BY <1>2, <1>3, <3>1
    <3>3. q \in Keys /\ cache[q] = ll[n] /\ q # k /\ entry'[p[Len(p)]].key = q
      BY <1>0, <1>2, <1>4, <3>1, <3>2, NoneAssumption DEF MapMatchesList, TypeOK, Entries
    <3>4. ll' = RemoveBack(p) /\ cache' = [cache EXCEPT ![k] = e, ![q] = None]
      BY <1>3, <2>2, <3>3
    <3>5. /\ ll' \in Seq(Elements) /\ Len(ll') = n
          /\ ll'[1] = e /\ \A j \in 1..(n - 1) : ll'[j + 1] = ll[j]
      <4>1. LET t == RemoveBack(p) IN
              /\ t \in Seq(Elements) /\ Len(t) = Len(p) - 1
              /\ \A j \in DOMAIN t : t[j] = p[j]
        BY <1>2, <1>3, RemoveBackShortens
      <4>2. ll' \in Seq(Elements) /\ Len(ll') = n
        <5>1. RemoveBack(p) \in Seq(Elements) /\ Len(RemoveBack(p)) = (n + 1) - 1
          BY <1>3, <4>1
        <5>2. (n + 1) - 1 = n
          BY <1>2
        <5> QED
          BY <3>4, <5>1, <5>2
      <4>3. \A j \in 1..n : ll'[j] = p[j]
        <5>1. DOMAIN ll' = 1..Len(ll')
          BY <4>2
        <5> QED
          BY <3>4, <4>1, <4>2, <5>1
      <4>4. ASSUME NEW j \in 1..(n - 1) PROVE ll'[j + 1] = ll[j]
        <5>1. j + 1 \in 1..n /\ j \in 1..n
          BY <1>2
        <5> QED
          BY <1>3, <4>3, <5>1
      <4>5. ll'[1] = e
        BY <1>2, <1>3, <3>1, <4>3
      <4> QED
        BY <4>2, <4>4, <4>5
    <3>6. /\ cache' \in [Keys -> Elements \cup {None}] /\ cache'[k] = e
          /\ \A j \in Keys \ {k} : cache'[j] \in {cache[j], None}
      BY <1>0, <1>2, <3>3, <3>4 DEF TypeOK
    <3>7. \A j \in 1..n : cache'[entry[ll[j]].key] = IF j <= n - 1 THEN ll[j] ELSE None
      <4> SUFFICES ASSUME NEW j \in 1..n
                   PROVE  cache'[entry[ll[j]].key] = IF j <= n - 1 THEN ll[j] ELSE None
        OBVIOUS
      <4>1. entry[ll[j]].key \in Keys /\ cache[entry[ll[j]].key] = ll[j] /\ ll[j] # None
        BY <1>2, NoneAssumption DEF MapMatchesList, TypeOK, Entries
      <4>2. entry[ll[j]].key = q => j = n
        BY <1>2, <3>1, <3>3, <4>1 DEF MapMatchesList
      <4> QED
        BY <1>0, <1>2, <3>1, <3>3, <3>4, <4>1, <4>2 DEF TypeOK
    <3> QED
      BY <1>2, <1>6, <3>1, <3>5, <3>6, <3>7
  <2> QED
    BY <2>1, <2>2
<1>7. DOMAIN ll' = 1..(m + 1)
  BY <1>6
<1>8. TypeOK'
  BY <1>2, <1>4, <1>5, <1>6, SizeAssumption DEF TypeOK
<1>9. \A i \in DOMAIN ll' : \/ i = 1 /\ ll'[i] = e
                            \/ i - 1 \in 1..m /\ ll'[i] = ll[i - 1]
  BY <1>6, <1>7
<1>10. MapMatchesList'
  <2>1. \A i, j \in DOMAIN ll' : ll'[i] = ll'[j] => i = j
    BY <1>2, <1>7, <1>9 DEF MapMatchesList
  <2>2. \A i \in DOMAIN ll' : cache'[entry'[ll'[i]].key] = ll'[i]
    <3> SUFFICES ASSUME NEW i \in DOMAIN ll'
                 PROVE  cache'[entry'[ll'[i]].key] = ll'[i]
      OBVIOUS
    <3>1. CASE i = 1 /\ ll'[i] = e
      BY <1>4, <1>6, <3>1
    <3>2. CASE i - 1 \in 1..m /\ ll'[i] = ll[i - 1]
      <4>1. i - 1 \in 1..n /\ entry'[ll'[i]] = entry[ll[i - 1]]
        BY <1>2, <1>4, <3>2
      <4> QED
        BY <1>6, <3>2, <4>1
    <3> QED
      BY <1>9, <3>1, <3>2
  <2>3. ASSUME NEW j \in Keys, cache'[j] # None
        PROVE  cache'[j] \in Listed' /\ entry'[cache'[j]].key = j
    <3>1. CASE j = k
      <4>1. 1 \in DOMAIN ll' /\ ll'[1] = e /\ cache'[j] = e
        BY <1>6, <1>7, <3>1
      <4> QED
        BY <1>4, <3>1, <4>1 DEF Listed
    <3>2. CASE j # k
      <4>1. cache'[j] = cache[j] /\ cache[j] # None
        BY <1>6, <2>3, <3>2
      <4>2. PICK i \in 1..n : ll[i] = cache[j] /\ entry[ll[i]].key = j
        BY <1>2, <4>1 DEF MapMatchesList, Listed
      <4>3. i <= m
        BY <1>6, <2>3, <4>1, <4>2
      <4>4. ll'[i + 1] = cache'[j] /\ i + 1 \in DOMAIN ll'
        BY <1>6, <1>7, <4>1, <4>2, <4>3
      <4> QED
        BY <1>4, <4>1, <4>2, <4>4 DEF Listed
    <3> QED
      BY <3>1, <3>2
  <2> QED
    BY <2>1, <2>2, <2>3 DEF MapMatchesList
<1>11. DataInv'
  <2>1. ASSUME NEW i \in DOMAIN ll' PROVE entry'[ll'[i]].data = entry'[ll'[i]].key
    <3>1. CASE i = 1 /\ ll'[i] = e
      BY <1>4, <3>1
    <3>2. CASE i - 1 \in 1..m /\ ll'[i] = ll[i - 1]
      <4>1. i - 1 \in 1..n /\ i - 1 \in DOMAIN ll /\ entry'[ll'[i]] = entry[ll[i - 1]]
        BY <1>2, <1>4, <3>2
      <4> QED
        BY <4>1 DEF DataInv
    <3> QED
      BY <1>9, <3>1, <3>2
  <2> QED
    BY <1>5, <2>1 DEF DataInv
<1> QED
  BY <1>8, <1>10, <1>11

\* The invariant is inductive.
LEMMA NextIInv == IInv /\ [Next]_vars => IInv'
<1> SUFFICES ASSUME IInv, [Next]_vars PROVE IInv'
  OBVIOUS
<1> USE DEF IInv
<1>1. CASE UNCHANGED vars
  BY <1>1 DEF vars, TypeOK, MapMatchesList, DataInv, Listed
<1>2. ASSUME NEW c \in Callers, NEW k \in Keys, Start(c, k) PROVE IInv'
  <2>1. call' \in [Callers -> Calls]
    BY <1>2 DEF Start, TypeOK, Calls
  <2> QED
    BY <1>2, <2>1, CacheUntouched DEF Start, DataInv, TypeOK
<1>3. ASSUME NEW c \in Callers, GetHit(c) PROVE IInv'
  <2> DEFINE k == call[c].key
  <2>1. k \in Keys /\ cache[k] # None /\ cache[k] \in Listed /\ cache[k] \in Elements
    BY <1>3 DEF GetHit, TypeOK, Calls, MapMatchesList
  <2>2. entry[cache[k]].data = k
    BY <2>1 DEF MapMatchesList, DataInv, Listed
  <2>3. /\ call' \in [Callers -> Calls]
        /\ \A d \in Callers : call'[d].pc \in {"add", "done"} => call'[d].data = call'[d].key
    BY <1>3, <2>1, <2>2 DEF GetHit, Found, TypeOK, Calls, DataInv
  <2>4. /\ \A x \in Listed : entry[x].data = entry[x].key
        /\ ll' = MoveToFront(ll, cache[k]) /\ entry' = entry /\ cache' = cache
    BY <1>3 DEF GetHit, Found, DataInv, Listed
  <2> QED
    BY <2>1, <2>3, <2>4, MovedToFront DEF TypeOK
<1>4. ASSUME NEW c \in Callers, GetMiss(c) PROVE IInv'
  <2>1. call' \in [Callers -> Calls]
    BY <1>4 DEF GetMiss, TypeOK, Calls
  <2> QED
    BY <1>4, <2>1, CacheUntouched DEF GetMiss, DataInv, TypeOK
<1>5. ASSUME NEW c \in Callers, Parse(c) PROVE IInv'
  <2>1. call[c] \in Calls /\ call \in [Callers -> Calls]
    BY DEF TypeOK
  <2>2. call[c].key \in Keys /\ call' \in [Callers -> Calls]
    BY <1>5, <2>1 DEF Parse, Calls
  <2> QED
    BY <1>5, <2>1, <2>2, CacheUntouched DEF Parse, DataInv, Calls
<1>6. ASSUME NEW c \in Callers, AddAgain(c) PROVE IInv'
  <2> DEFINE k == call[c].key
  <2>1. k \in Keys /\ cache[k] # None /\ cache[k] \in Elements /\ entry[cache[k]].key = k
    BY <1>6 DEF AddAgain, AlreadyAdded, TypeOK, Calls, MapMatchesList
  <2>2. call[c].data = k
    BY <1>6 DEF AddAgain, DataInv
  <2>3. /\ call' \in [Callers -> Calls]
        /\ \A d \in Callers : call'[d].pc \in {"add", "done"} => call'[d].data = call'[d].key
    BY <1>6, <2>2 DEF AddAgain, TypeOK, Calls, DataInv
  <2>4. /\ entry' \in [Elements -> Entries]
        /\ \A x \in Elements : entry'[x].key = entry[x].key
        /\ \A x \in Elements : entry'[x].data = IF x = cache[k] THEN k ELSE entry[x].data
    BY <1>6, <2>1, <2>2 DEF AddAgain, TypeOK, Entries
  <2>5. \A x \in Listed : x \in Elements /\ entry[x].data = entry[x].key
    BY DEF TypeOK, DataInv, Listed
  <2>6. \A x \in Listed : entry'[x].data = entry'[x].key
    BY <2>1, <2>4, <2>5
  <2> QED
    BY <1>6, <2>1, <2>3, <2>4, <2>6, MovedToFront DEF AddAgain
<1>7. ASSUME NEW c \in Callers, AddNew(c) PROVE IInv'
  BY <1>7, Added
<1>8. ASSUME NEW c \in Callers, Return(c) PROVE IInv'
  <2>1. call' \in [Callers -> Calls]
    BY <1>8 DEF Return, TypeOK, Calls
  <2> QED
    BY <1>8, <2>1, CacheUntouched DEF Return, DataInv, TypeOK
<1> QED
  BY <1>1, <1>2, <1>3, <1>4, <1>5, <1>6, <1>7, <1>8 DEF Next

\* The invariant holds always.
LEMMA Invariance == Spec => []IInv
BY InitIInv, NextIInv, PTL DEF Spec

----------------------------------------------------------------------------
(* Theorems                                                                *)

\* The list never exceeds the configured size, and the state stays well-formed.
THEOREM CacheBounded == Spec => []TypeOK
BY Invariance, PTL DEF IInv

\* The list and the map never disagree, though they are updated one after the
\* other and an entry may be added twice.
THEOREM ListAndMapAgree == Spec => []MapMatchesList
BY Invariance, PTL DEF IInv

\* Every caller gets the data of its own replacement.
THEOREM CallersGetOwnData == Spec => []DataIsOwn
<1>1. IInv => DataIsOwn
  BY DEF IInv, DataInv, DataIsOwn
<1> QED
  BY Invariance, <1>1, PTL

----------------------------------------------------------------------------
(***************************************************************************)
(* ReplacerCache implements LeastRecentlyUsed.                             *)
(*                                                                         *)
(* A goroutine's request is served in one abstract step: the hit, the      *)
(* addition, or, for a replacement that is never cached, the parse.  What  *)
(* it does between a miss and its addition is invisible.                   *)
(***************************************************************************)

NotCached == Oversized \cup Invalid

\* What is cached, and what is about to be, may be cached.
CacheableInv ==
    /\ \A k \in Keys : cache[k] # None => k \notin NotCached
    /\ \A c \in Callers : call[c].pc = "add" => call[c].key \notin NotCached

RInv == IInv /\ CacheableInv

\* The refinement mapping.
Order == [i \in DOMAIN ll |-> entry[ll[i]].key]

StateOf(pc) ==
    CASE pc = "idle" -> "idle"
      [] pc \in {"done", "failed"} -> "served"
      [] OTHER -> "waiting"

Client == [c \in Callers |-> [state |-> StateOf(call[c].pc), key |-> call[c].key]]

----------------------------------------------------------------------------
(* The abstract list                                                       *)

Least(a, b) == IF a < b THEN a ELSE b

\* The newest keys are a prefix, no longer than the cache.
LEMMA NewestIsPrefix ==
    ASSUME NEW S, NEW s \in Seq(S)
    PROVE  /\ LRU!Newest(s) \in Seq(S)
           /\ Len(LRU!Newest(s)) = Least(Len(s), MaxSize)
           /\ \A j \in 1..Least(Len(s), MaxSize) : LRU!Newest(s)[j] = s[j]
<1> DEFINE n == Least(Len(s), MaxSize)
<1>1. n \in Nat /\ n <= Len(s) /\ \A j \in 1..n : s[j] \in S
  BY SizeAssumption DEF Least
<1>2. LRU!Newest(s) = SubSeq(s, 1, n)
  BY SizeAssumption DEF LRU!Newest, Least
<1> HIDE DEF n
<1>3. /\ SubSeq(s, 1, n) \in Seq(S)
      /\ Len(SubSeq(s, 1, n)) = IF 1 <= n THEN n - 1 + 1 ELSE 0
      /\ \A j \in 1..(n - 1 + 1) : SubSeq(s, 1, n)[j] = s[1 + j - 1]
  BY <1>1, SubSeqProperties
<1>4. Len(SubSeq(s, 1, n)) = n /\ \A j \in 1..n : SubSeq(s, 1, n)[j] = s[j]
  BY <1>1, <1>3
<1> QED
  BY <1>2, <1>3, <1>4 DEF n

\* A key put before a list.
LEMMA PutFirst ==
    ASSUME NEW S, NEW k \in S, NEW s \in Seq(S)
    PROVE  /\ <<k>> \o s \in Seq(S) /\ Len(<<k>> \o s) = Len(s) + 1
           /\ (<<k>> \o s)[1] = k
           /\ \A j \in 1..Len(s) : (<<k>> \o s)[j + 1] = s[j]
<1>1. <<k>> \in Seq(S) /\ Len(<<k>>) = 1 /\ <<k>>[1] = k
  OBVIOUS
<1>2. /\ <<k>> \o s \in Seq(S) /\ Len(<<k>> \o s) = Len(<<k>>) + Len(s)
      /\ \A i \in 1..(Len(<<k>>) + Len(s)) :
            (<<k>> \o s)[i] = IF i <= Len(<<k>>) THEN <<k>>[i] ELSE s[i - Len(<<k>>)]
  BY <1>1, ConcatProperties
<1>3. Len(s) \in Nat
  OBVIOUS
<1> DEFINE t == <<k>> \o s
<1> HIDE DEF t
<1>4. /\ t \in Seq(S) /\ Len(t) = 1 + Len(s)
      /\ \A i \in 1..(1 + Len(s)) : t[i] = IF i <= 1 THEN k ELSE s[i - 1]
  BY <1>1, <1>2 DEF t
<1>5. t[1] = k /\ \A j \in 1..Len(s) : t[j + 1] = s[j]
  BY <1>3, <1>4
<1> QED
  BY <1>3, <1>4, <1>5 DEF t

\* The cached keys form a list without duplicates.
LEMMA OrderOfKeys ==
    ASSUME IInv
    PROVE  /\ ll \in Seq(Elements) /\ Order \in Seq(Keys)
           /\ Len(Order) = Len(ll) /\ Len(ll) \in Nat /\ Len(ll) <= MaxSize
           /\ DOMAIN ll = 1..Len(ll) /\ DOMAIN Order = 1..Len(ll)
           /\ \A i \in 1..Len(ll) : Order[i] = entry[ll[i]].key /\ Order[i] \in Keys
           /\ \A i, j \in 1..Len(ll) : Order[i] = Order[j] => i = j
           /\ \A i \in 1..Len(ll) : cache[Order[i]] = ll[i]
<1>1. ll \in Seq(Elements) /\ DOMAIN ll = 1..Len(ll) /\ Len(ll) \in Nat /\ Len(ll) <= MaxSize
  BY DEF IInv, TypeOK
<1>2. \A i \in 1..Len(ll) : entry[ll[i]].key \in Keys
  BY <1>1 DEF IInv, TypeOK, Entries
<1>3. Order \in Seq(Keys) /\ Len(Order) = Len(ll) /\ DOMAIN Order = 1..Len(ll)
  BY <1>1, <1>2 DEF Order
<1>4. \A i \in 1..Len(ll) : Order[i] = entry[ll[i]].key
  BY <1>1 DEF Order
<1>5. \A i \in 1..Len(ll) : cache[Order[i]] = ll[i]
  BY <1>1, <1>4 DEF IInv, MapMatchesList
<1>6. \A i, j \in 1..Len(ll) : Order[i] = Order[j] => i = j
  BY <1>1, <1>5 DEF IInv, MapMatchesList
<1> QED
  BY <1>1, <1>2, <1>3, <1>4, <1>5, <1>6

\* Serving a cached key moves it to the front.
LEMMA ServedCached ==
    ASSUME IInv, NEW i \in DOMAIN ll
    PROVE  LET t == LRU!Newest(<<Order[i]>> \o LRU!Others(Order[i])) IN
             t = [j \in 1..Len(ll) |-> IF j = 1 THEN Order[i]
                                       ELSE IF j <= i THEN Order[j - 1] ELSE Order[j]]
<1> DEFINE n == Len(ll)
           k == Order[i]
           o == LRU!Others(k)
           t == LRU!Newest(<<k>> \o o)
<1>1. /\ Order \in Seq(Keys) /\ Len(Order) = n /\ n \in Nat /\ n <= MaxSize
      /\ DOMAIN Order = 1..n /\ i \in 1..n /\ k \in Keys
      /\ \A j \in 1..n : Order[j] \in Keys
      /\ \A j \in 1..n : Order[j] = k => j = i
  BY OrderOfKeys
<1>2. o = [j \in 1..(n - 1) |-> IF j < i THEN Order[j] ELSE Order[j + 1]]
  <2>1. (CHOOSE j \in DOMAIN Order : Order[j] = k) = i
    BY <1>1
  <2>2. o = [j \in 1..(Len(Order) - 1) |->
               IF j < (CHOOSE h \in DOMAIN Order : Order[h] = k) THEN Order[j] ELSE Order[j + 1]]
    BY <1>1 DEF LRU!Others, Order
  <2> QED
    BY <1>1, <2>1, <2>2
<1> HIDE DEF o, k
<1>3. o \in Seq(Keys) /\ Len(o) = n - 1
  <2>1. \A j \in 1..(n - 1) : o[j] \in Keys
    BY <1>1, <1>2
  <2> QED
    BY <1>1, <1>2, <2>1
<1> HIDE DEF n
<1> DEFINE s == <<k>> \o o
<1>4. /\ s \in Seq(Keys) /\ Len(s) = n /\ s[1] = k
      /\ \A j \in 1..(n - 1) : s[j + 1] = o[j]
  <2>0. k \in Keys /\ o \in Seq(Keys)
    BY <1>1, <1>3
  <2>1. /\ s \in Seq(Keys) /\ Len(s) = Len(o) + 1 /\ s[1] = k
        /\ \A j \in 1..Len(o) : s[j + 1] = o[j]
    BY <2>0, PutFirst
  <2> HIDE DEF s
  <2> QED
    BY <1>1, <1>3, <2>1
<1>5. t = LRU!Newest(s)
  OBVIOUS
<1> HIDE DEF s, t
<1>6. t \in Seq(Keys) /\ Len(t) = n /\ \A j \in 1..n : t[j] = s[j]
  <2>1. Least(Len(s), MaxSize) = n
    <3>1. Len(s) = n /\ n \in Nat /\ n <= MaxSize
      BY <1>1, <1>4
    <3> QED
      BY <3>1, SizeAssumption DEF Least
  <2> QED
    BY <1>4, <1>5, <2>1, NewestIsPrefix
<1>7. \A j \in 1..n : s[j] = IF j = 1 THEN k ELSE IF j <= i THEN Order[j - 1] ELSE Order[j]
  <2> SUFFICES ASSUME NEW j \in 1..n, j # 1
               PROVE  s[j] = IF j <= i THEN Order[j - 1] ELSE Order[j]
    BY <1>4
  <2>1. j - 1 \in 1..(n - 1) /\ (j - 1) + 1 = j
    BY <1>1
  <2>2. s[j] = o[j - 1]
    BY <1>4, <2>1
  <2>3. o[j - 1] = IF j - 1 < i THEN Order[j - 1] ELSE Order[(j - 1) + 1]
    BY <1>2, <2>1
  <2> QED
    BY <1>1, <2>1, <2>2, <2>3
<1>8. t = [j \in 1..n |-> t[j]]
  BY <1>1, <1>6
<1> QED
  BY <1>6, <1>7, <1>8 DEF t, s, o, k, n

\* Serving a key that is not cached puts it before what still fits.
LEMMA ServedNew ==
    ASSUME IInv, NEW k \in Keys, \A i \in DOMAIN ll : Order[i] # k
    PROVE  LET t == LRU!Newest(<<k>> \o LRU!Others(k)) IN
             t = [j \in 1..Least(Len(ll) + 1, MaxSize) |-> IF j = 1 THEN k ELSE Order[j - 1]]
<1> DEFINE n == Len(ll)
           s == <<k>> \o Order
           t == LRU!Newest(s)
           m == Least(n + 1, MaxSize)
<1>1. /\ Order \in Seq(Keys) /\ Len(Order) = n /\ n \in Nat
      /\ DOMAIN ll = 1..n /\ DOMAIN Order = 1..n
  BY OrderOfKeys
<1>2. LRU!Others(k) = Order
  BY <1>1 DEF LRU!Others, Order
<1>3. /\ s \in Seq(Keys) /\ Len(s) = n + 1 /\ s[1] = k
      /\ \A j \in 1..n : s[j + 1] = Order[j]
  BY <1>1, PutFirst
<1>4. t = LRU!Newest(<<k>> \o LRU!Others(k))
  BY <1>2
<1> HIDE DEF s
<1>5. t \in Seq(Keys) /\ Len(t) = m /\ \A j \in 1..m : t[j] = s[j]
  BY <1>3, NewestIsPrefix
<1> HIDE DEF t
<1>6. m \in Nat /\ m <= n + 1
  BY <1>1, SizeAssumption DEF Least
<1> HIDE DEF m
<1>7. \A j \in 1..m : s[j] = IF j = 1 THEN k ELSE Order[j - 1]
  <2> SUFFICES ASSUME NEW j \in 1..m, j # 1 PROVE s[j] = Order[j - 1]
    BY <1>3
  <2>1. j - 1 \in 1..n /\ (j - 1) + 1 = j
    BY <1>1, <1>6
  <2> QED
    BY <1>3, <2>1
<1>8. t = [j \in 1..m |-> t[j]]
  BY <1>5, <1>6
<1>9. t = [j \in 1..m |-> IF j = 1 THEN k ELSE Order[j - 1]]
  BY <1>5, <1>7, <1>8
<1> QED
  BY <1>4, <1>9 DEF m
----------------------------------------------------------------------------
(* What the steps do to the cached keys                                    *)

\* A hit, and an addition of a key that another goroutine has added.
LEMMA MovedKeys ==
    ASSUME IInv, NEW k \in Keys, cache[k] # None, ll' = MoveToFront(ll, cache[k]),
           \A e \in Elements : entry'[e].key = entry[e].key
    PROVE  Order' = LRU!Newest(<<k>> \o LRU!Others(k))
<1> DEFINE n == Len(ll)
<1>1. /\ DOMAIN ll = 1..n /\ n \in Nat
      /\ \A j \in 1..n : ll[j] \in Elements /\ Order[j] = entry[ll[j]].key
      /\ \A i, j \in 1..n : ll[i] = ll[j] => i = j
  BY OrderOfKeys DEF IInv, MapMatchesList
<1>2. PICK i \in 1..n : ll[i] = cache[k] /\ Order[i] = k
  BY <1>1 DEF IInv, MapMatchesList, Listed
<1>3. (CHOOSE j \in DOMAIN ll : ll[j] = cache[k]) = i
  BY <1>1, <1>2
<1>4. ll' = [j \in 1..n |-> IF j = 1 THEN cache[k] ELSE IF j <= i THEN ll[j - 1] ELSE ll[j]]
  BY <1>3 DEF MoveToFront
<1>5. \A j \in 1..n : entry'[ll'[j]].key = IF j = 1 THEN k
                                           ELSE IF j <= i THEN Order[j - 1] ELSE Order[j]
  <2> SUFFICES ASSUME NEW j \in 1..n
               PROVE  entry'[ll'[j]].key = IF j = 1 THEN k
                                           ELSE IF j <= i THEN Order[j - 1] ELSE Order[j]
    OBVIOUS
  <2>1. CASE j = 1
    BY <1>1, <1>2, <1>4, <2>1
  <2>2. CASE j # 1 /\ j <= i
    <3>1. j - 1 \in 1..n /\ ll'[j] = ll[j - 1]
      BY <1>1, <1>4, <2>2
    <3> QED
      BY <1>1, <2>2, <3>1
  <2>3. CASE j # 1 /\ ~(j <= i)
    BY <1>1, <1>4, <2>3
  <2> QED
    BY <2>1, <2>2, <2>3
<1>6. Order' = [j \in 1..n |-> entry'[ll'[j]].key]
  BY <1>1, <1>4 DEF Order
<1>7. Order' = [j \in 1..n |-> IF j = 1 THEN k ELSE IF j <= i THEN Order[j - 1] ELSE Order[j]]
  BY <1>5, <1>6
<1>8. LET t == LRU!Newest(<<Order[i]>> \o LRU!Others(Order[i])) IN
        t = [j \in 1..n |-> IF j = 1 THEN Order[i] ELSE IF j <= i THEN Order[j - 1] ELSE Order[j]]
  <2>1. i \in DOMAIN ll
    BY <1>1
  <2> QED
    BY <2>1, ServedCached
<1> QED
  BY <1>2, <1>7, <1>8

\* An addition of a key that nobody has added.
LEMMA AddedKeys ==
    ASSUME IInv, NEW c \in Callers, AddNew(c)
    PROVE  Order' = LRU!Newest(<<call[c].key>> \o LRU!Others(call[c].key))
<1> DEFINE k == call[c].key
           n == Len(ll)
           m == Least(n + 1, MaxSize)
<1>1. k \in Keys /\ cache[k] = None
  BY DEF IInv, TypeOK, Calls, AddNew, AlreadyAdded
<1>2. /\ DOMAIN ll = 1..n /\ n \in Nat /\ n <= MaxSize /\ ll \in Seq(Elements)
      /\ \A j \in 1..n : ll[j] \in Elements /\ Order[j] = entry[ll[j]].key
      /\ \A j \in 1..n : cache[Order[j]] = ll[j]
  BY OrderOfKeys
<1>3. \A i \in DOMAIN ll : Order[i] # k
  BY <1>1, <1>2, NoneAssumption
<1>4. PICK e \in Elements \ (Listed \cup Mapped) :
        /\ entry' = [entry EXCEPT ![e] = [key |-> k, data |-> call[c].data]]
        /\ ll' = IF Overfull(PushFront(ll, e)) THEN RemoveBack(PushFront(ll, e)) ELSE PushFront(ll, e)
  BY DEF AddNew
<1>5. /\ entry'[e].key = k
      /\ \A j \in 1..n : ll[j] # e /\ entry'[ll[j]].key = Order[j]
  <2>1. entry \in [Elements -> Entries]
    BY DEF IInv, TypeOK
  <2>2. \A j \in 1..n : ll[j] # e
    BY <1>2 DEF Listed
  <2> QED
    BY <1>2, <1>4, <2>1, <2>2
<1> HIDE DEF k
<1>6. m \in Nat /\ m <= n + 1 /\ ll' = [j \in 1..m |-> IF j = 1 THEN e ELSE ll[j - 1]]
  <2>1. PushFront(ll, e) = [j \in 1..(n + 1) |-> IF j = 1 THEN e ELSE ll[j - 1]]
    BY DEF PushFront
  <2>2. Len(PushFront(ll, e)) = n + 1
    BY <1>2, PushFrontAdds
  <2>3. CASE n + 1 > MaxSize
    <3>1. m = n /\ MaxSize = n
      <4>1. n \in Nat /\ n <= MaxSize /\ MaxSize \in Nat
        BY <1>2, SizeAssumption
      <4>2. MaxSize = n
        BY <2>3, <4>1
      <4> QED
        BY <4>1, <4>2 DEF Least
    <3>2. ll' = [j \in 1..(n + 1 - 1) |-> PushFront(ll, e)[j]]
      BY <1>4, <2>2, <2>3 DEF Overfull, RemoveBack
    <3>3. n + 1 - 1 = n /\ \A j \in 1..n : j \in 1..(n + 1)
      BY <1>2
    <3>4. ll' = [j \in 1..n |-> PushFront(ll, e)[j]]
      BY <3>2, <3>3
    <3> QED
      BY <1>2, <2>1, <3>1, <3>3, <3>4
  <2>4. CASE ~(n + 1 > MaxSize)
    <3>1. m = n + 1
      BY <1>2, <2>4, SizeAssumption DEF Least
    <3> QED
      BY <1>2, <1>4, <2>1, <2>2, <2>4, <3>1 DEF Overfull
  <2> QED
    BY <2>3, <2>4
<1> HIDE DEF m
<1>7. \A j \in 1..m : entry'[ll'[j]].key = IF j = 1 THEN k ELSE Order[j - 1]
  <2> SUFFICES ASSUME NEW j \in 1..m
               PROVE  entry'[ll'[j]].key = IF j = 1 THEN k ELSE Order[j - 1]
    OBVIOUS
  <2>1. CASE j = 1
    BY <1>5, <1>6, <2>1
  <2>2. CASE j # 1
    <3>1. j - 1 \in 1..n /\ ll'[j] = ll[j - 1]
      BY <1>2, <1>6, <2>2
    <3> QED
      BY <1>5, <2>2, <3>1
  <2> QED
    BY <2>1, <2>2
<1>8. Order' = [j \in 1..m |-> entry'[ll'[j]].key]
  BY <1>6 DEF Order
<1>9. Order' = [j \in 1..m |-> IF j = 1 THEN k ELSE Order[j - 1]]
  BY <1>7, <1>8
<1>10. LET t == LRU!Newest(<<k>> \o LRU!Others(k)) IN
         t = [j \in 1..m |-> IF j = 1 THEN k ELSE Order[j - 1]]
  BY <1>1, <1>3, ServedNew DEF m
<1> QED
  BY <1>9, <1>10 DEF k
----------------------------------------------------------------------------
(* The steps                                                               *)

\* What is cached stays cacheable.
LEMMA NextCacheable == RInv /\ [Next]_vars => CacheableInv'
<1> SUFFICES ASSUME RInv, [Next]_vars PROVE CacheableInv'
  OBVIOUS
<1>0. IInv /\ CacheableInv /\ call \in [Callers -> Calls]
      /\ cache \in [Keys -> Elements \cup {None}]
  BY DEF RInv, IInv, TypeOK
<1>1. CASE UNCHANGED vars
  BY <1>0, <1>1 DEF vars, CacheableInv
<1>2. ASSUME NEW c \in Callers, NEW k \in Keys, Start(c, k) PROVE CacheableInv'
  BY <1>0, <1>2 DEF Start, CacheableInv
<1>3. ASSUME NEW c \in Callers, GetHit(c) PROVE CacheableInv'
  BY <1>0, <1>3 DEF GetHit, CacheableInv, Calls
<1>4. ASSUME NEW c \in Callers, GetMiss(c) PROVE CacheableInv'
  BY <1>0, <1>4 DEF GetMiss, CacheableInv, Calls
<1>5. ASSUME NEW c \in Callers, Parse(c) PROVE CacheableInv'
  <2>1. ASSUME NEW d \in Callers, call'[d].pc = "add" PROVE call'[d].key \notin NotCached
    <3>1. CASE d = c
      BY <1>0, <1>5, <2>1, <3>1 DEF Parse, Calls, NotCached
    <3>2. CASE d # c
      BY <1>0, <1>5, <2>1, <3>2 DEF Parse, CacheableInv
    <3> QED
      BY <3>1, <3>2
  <2> QED
    BY <1>0, <1>5, <2>1 DEF Parse, CacheableInv
<1>6. ASSUME NEW c \in Callers, AddAgain(c) PROVE CacheableInv'
  BY <1>0, <1>6 DEF AddAgain, CacheableInv, Calls
<1>7. ASSUME NEW c \in Callers, AddNew(c) PROVE CacheableInv'
  <2> DEFINE k == call[c].key
  <2>1. k \in Keys /\ k \notin NotCached
    BY <1>0, <1>7 DEF AddNew, CacheableInv, Calls
  <2>2. ASSUME NEW j \in Keys, cache'[j] # None PROVE j = k \/ cache[j] # None
    BY <1>0, <1>7, <2>1, <2>2 DEF AddNew
  <2>3. \A d \in Callers : call'[d].pc = "add" => call[d].pc = "add" /\ call'[d].key = call[d].key
    BY <1>0, <1>7 DEF AddNew, Calls
  <2> QED
    BY <1>0, <2>1, <2>2, <2>3 DEF CacheableInv
<1>8. ASSUME NEW c \in Callers, Return(c) PROVE CacheableInv'
  BY <1>0, <1>8 DEF Return, CacheableInv, Calls
<1> QED
  BY <1>1, <1>2, <1>3, <1>4, <1>5, <1>6, <1>7, <1>8 DEF Next

\* What the refinement needs of the cache holds at first.
LEMMA InitRInv == Init => RInv
BY InitIInv DEF Init, RInv, CacheableInv

\* An empty cache implements an empty cache.
LEMMA InitRefines == Init => LRU!Init
<1> SUFFICES ASSUME Init PROVE LRU!Init
  OBVIOUS
<1>1. Order = << >>
  BY DEF Init, Order
<1>2. Client \in [Callers -> {[state |-> "idle", key |-> k] : k \in Keys}]
  BY DEF Init, Client, StateOf
<1> QED
  BY <1>1, <1>2 DEF LRU!Init, Order, Client, StateOf

\* A step that only changes the call of c.
LEMMA ClientStep ==
    ASSUME IInv, NEW c \in Callers, NEW pc, NEW d,
           call' = [call EXCEPT ![c].pc = pc, ![c].data = d]
    PROVE  Client' = [Client EXCEPT ![c].state = StateOf(pc)]
<1>1. call \in [Callers -> Calls]
  BY DEF IInv, TypeOK
<1> QED
  BY <1>1 DEF Client, Calls

\* A step that only moves the pc of c is seen as a step of client c.
LEMMA ClientMoves ==
    ASSUME IInv, NEW c \in Callers, NEW pc, call' = [call EXCEPT ![c].pc = pc]
    PROVE  Client' = [Client EXCEPT ![c].state = StateOf(pc)]
<1>1. call \in [Callers -> Calls]
  BY DEF IInv, TypeOK
<1> QED
  BY <1>1 DEF Client, Calls

\* The abstract steps in terms of the mapping.
LEMMA AbstractSteps ==
    ASSUME NEW c \in Callers
    PROVE  /\ \A k \in Keys :
                /\ Client[c].state = "idle"
                /\ Client' = [Client EXCEPT ![c] = [state |-> "waiting", key |-> k]]
                /\ Order' = Order
                => LRU!Ask(c, k)
           /\ /\ Client[c].state = "waiting"
              /\ Client' = [Client EXCEPT ![c].state = "served"]
              /\ Order' = IF Client[c].key \in NotCached THEN Order
                          ELSE LRU!Newest(<<Client[c].key>> \o LRU!Others(Client[c].key))
              => LRU!Serve(c)
           /\ /\ Client[c].state = "served"
              /\ Client' = [Client EXCEPT ![c].state = "idle"]
              /\ Order' = Order
              => LRU!Leave(c)
<1>1. ASSUME NEW k \in Keys, Client[c].state = "idle",
             Client' = [Client EXCEPT ![c] = [state |-> "waiting", key |-> k]], Order' = Order
      PROVE  LRU!Ask(c, k)
  BY <1>1 DEF LRU!Ask, Client, Order, StateOf
<1>2. ASSUME Client[c].state = "waiting", Client' = [Client EXCEPT ![c].state = "served"],
             Order' = IF Client[c].key \in NotCached THEN Order
                      ELSE LRU!Newest(<<Client[c].key>> \o LRU!Others(Client[c].key))
      PROVE  LRU!Serve(c)
  BY <1>2 DEF LRU!Serve, Client, Order, StateOf, NotCached
<1>3. ASSUME Client[c].state = "served", Client' = [Client EXCEPT ![c].state = "idle"],
             Order' = Order
      PROVE  LRU!Leave(c)
  BY <1>3 DEF LRU!Leave, Client, Order, StateOf
<1> QED
  BY <1>1, <1>2, <1>3

\* Every step of the cache is a step of the abstract cache or invisible to it.
LEMMA NextRefines ==
    ASSUME RInv, [Next]_vars
    PROVE  \/ LRU!Next
           \/ UNCHANGED <<Order, Client>>
<1> USE DEF RInv
<1>0. /\ call \in [Callers -> Calls] /\ entry \in [Elements -> Entries]
      /\ cache \in [Keys -> Elements \cup {None}]
      /\ \A c \in Callers : /\ Client[c] = [state |-> StateOf(call[c].pc), key |-> call[c].key]
                            /\ call[c].key \in Keys
      /\ Client = [c \in Callers |-> Client[c]]
  BY DEF IInv, TypeOK, Client, Calls
<1>1. CASE UNCHANGED vars
  BY <1>1 DEF vars, Order, Client
<1>2. ASSUME NEW c \in Callers, NEW k \in Keys, Start(c, k) PROVE LRU!Ask(c, k)
  <2>1. Client[c].state = "idle"
    BY <1>0, <1>2 DEF Start, StateOf
  <2>2. Client' = [Client EXCEPT ![c] = [state |-> "waiting", key |-> k]]
    BY <1>0, <1>2 DEF Start, Client, StateOf
  <2>3. Order' = Order
    BY <1>2 DEF Start, Order
  <2> QED
    BY <2>1, <2>2, <2>3, AbstractSteps
<1>3. ASSUME NEW c \in Callers, GetHit(c) PROVE LRU!Serve(c)
  <2> DEFINE k == call[c].key
  <2>1. Client[c].state = "waiting" /\ Client[c].key = k
    BY <1>0, <1>3 DEF GetHit, StateOf
  <2>2. Client' = [Client EXCEPT ![c].state = "served"]
    BY <1>3, ClientStep DEF GetHit, StateOf
  <2>3. k \in Keys /\ cache[k] # None /\ k \notin NotCached
    BY <1>0, <1>3 DEF GetHit, CacheableInv
  <2>4. Order' = LRU!Newest(<<k>> \o LRU!Others(k))
    <3>1. ll' = MoveToFront(ll, cache[k]) /\ \A e \in Elements : entry'[e].key = entry[e].key
      BY <1>3 DEF GetHit, Found
    <3> QED
      BY <2>3, <3>1, MovedKeys
  <2> QED
    BY <2>1, <2>2, <2>3, <2>4, AbstractSteps
<1>4. ASSUME NEW c \in Callers, GetMiss(c) PROVE UNCHANGED <<Order, Client>>
  <2>1. Client' = [Client EXCEPT ![c].state = StateOf("parse")]
    BY <1>0, <1>4 DEF GetMiss, Client, Calls
  <2>2. Client[c].state = StateOf("parse")
    BY <1>0, <1>4 DEF GetMiss, StateOf
  <2> QED
    BY <1>0, <1>4, <2>1, <2>2 DEF GetMiss, Order
<1>5. ASSUME NEW c \in Callers, Parse(c) PROVE LRU!Serve(c) \/ UNCHANGED <<Order, Client>>
  <2> DEFINE k == call[c].key
  <2>1. /\ Client[c].state = "waiting" /\ Client[c].key = k /\ call[c].pc = "parse"
        /\ Order' = Order
    BY <1>0, <1>5 DEF Parse, StateOf, Order
  <2>2. CASE k \in NotCached
    <3>1. Client' = [Client EXCEPT ![c].state = "served"]
      BY <1>0, <1>5, <2>2 DEF Parse, Client, Calls, NotCached, StateOf
    <3> QED
      BY <2>1, <2>2, <3>1, AbstractSteps
  <2>3. CASE k \notin NotCached
    <3>1. Client' = [Client EXCEPT ![c].state = StateOf("add")]
      BY <1>0, <1>5, <2>3 DEF Parse, Client, Calls, NotCached
    <3>2. Client[c].state = StateOf("add")
      BY <2>1 DEF StateOf
    <3> QED
      BY <1>0, <2>1, <3>1, <3>2
  <2> QED
    BY <2>2, <2>3
<1>6. ASSUME NEW c \in Callers, AddAgain(c) PROVE LRU!Serve(c)
  <2> DEFINE k == call[c].key
  <2>1. Client[c].state = "waiting" /\ Client[c].key = k
    BY <1>0, <1>6 DEF AddAgain, StateOf
  <2>2. Client' = [Client EXCEPT ![c].state = "served"]
    BY <1>0, <1>6 DEF AddAgain, Client, Calls, StateOf
  <2>3. k \in Keys /\ cache[k] # None /\ k \notin NotCached
    BY <1>0, <1>6 DEF AddAgain, AlreadyAdded, CacheableInv
  <2>4. Order' = LRU!Newest(<<k>> \o LRU!Others(k))
    <3>1. ll' = MoveToFront(ll, cache[k])
      BY <1>6 DEF AddAgain
    <3>2. \A e \in Elements : entry'[e].key = entry[e].key
      BY <1>0, <1>6 DEF AddAgain, Entries
    <3> QED
      BY <2>3, <3>1, <3>2, MovedKeys
  <2> QED
    BY <2>1, <2>2, <2>3, <2>4, AbstractSteps
<1>7. ASSUME NEW c \in Callers, AddNew(c) PROVE LRU!Serve(c)
  <2> DEFINE k == call[c].key
  <2>1. Client[c].state = "waiting" /\ Client[c].key = k /\ k \notin NotCached
    BY <1>0, <1>7 DEF AddNew, StateOf, CacheableInv
  <2>2. Client' = [Client EXCEPT ![c].state = "served"]
    <3>1. call' = [call EXCEPT ![c].pc = "done"]
      BY <1>7 DEF AddNew
    <3>2. Client' = [Client EXCEPT ![c].state = StateOf("done")]
      BY <3>1, ClientMoves
    <3> QED
      BY <3>2 DEF StateOf
  <2>3. Order' = LRU!Newest(<<k>> \o LRU!Others(k))
    BY <1>7, AddedKeys
  <2> QED
    BY <2>1, <2>2, <2>3, AbstractSteps
<1>8. ASSUME NEW c \in Callers, Return(c) PROVE LRU!Leave(c)
  <2>1. Client[c].state = "served"
    BY <1>0, <1>8 DEF Return, StateOf
  <2>2. Client' = [Client EXCEPT ![c].state = "idle"]
    <3>1. call' = [call EXCEPT ![c].pc = "idle"]
      BY <1>8 DEF Return
    <3>2. Client' = [Client EXCEPT ![c].state = StateOf("idle")]
      BY <3>1, ClientMoves
    <3> QED
      BY <3>2 DEF StateOf
  <2>3. Order' = Order
    BY <1>8 DEF Return, Order
  <2> QED
    BY <2>1, <2>2, <2>3, AbstractSteps
<1> QED
  BY <1>1, <1>2, <1>3, <1>4, <1>5, <1>6, <1>7, <1>8 DEF Next, LRU!Next

----------------------------------------------------------------------------
(* The theorem                                                             *)

\* The cache is one of the most recently used replacements: what goroutines do to
\* the list and the map, in whatever order, is what a cache does whose requests
\* are each served in one step.
THEOREM CacheIsLeastRecentlyUsed == Spec => KeepsMostRecentlyUsed
<1>1. Spec => []RInv
  <2>1. RInv /\ [Next]_vars => RInv'
    BY NextIInv, NextCacheable DEF RInv
  <2> QED
    BY InitRInv, <2>1, PTL DEF Spec
<1>2. RInv /\ [Next]_vars => [LRU!Next]_<<Order, Client>>
  BY NextRefines
<1>3. RInv /\ [Next]_vars => [LRU!Next]_(LRU!vars)
  BY <1>2 DEF Order, Client, StateOf, LRU!vars
<1> QED
  BY InitRefines, <1>1, <1>3, PTL DEF Spec, KeepsMostRecentlyUsed, LRU!Spec
=============================================================================
