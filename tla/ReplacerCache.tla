---------------------------- MODULE ReplacerCache ----------------------------
(***************************************************************************)
(* regexp.go: replacerDataCache and getReplacerData, its only user.        *)
(*                                                                         *)
(* The cache is a container/list of entries and a map from keys to list    *)
(* elements, both guarded by mu.  A goroutine looks its replacement up,    *)
(* parses it outside the lock when it is missing, and adds the result, so  *)
(* that two goroutines may add the same key.  Parsed data is represented   *)
(* by the replacement it was parsed from.                                  *)
(***************************************************************************)
EXTENDS Integers, Sequences

CONSTANTS
    Callers,     \* goroutines calling Replace on one Regexp
    Keys,        \* replacement patterns
    Oversized,   \* those too long to be cached (cacheReplacerData)
    Invalid,     \* those that do not parse
    Elements,    \* list elements that can be allocated
    None,        \* no element, no data
    MaxSize      \* MaxCachedReplacerDataEntries

\* initCaches makes no cache unless MaxSize is positive.
ASSUME SizeAssumption == MaxSize \in Nat \ {0}
ASSUME NoneAssumption == None \notin Elements

VARIABLES
    ll,      \* the list, front first
    entry,   \* per element, the entry it holds
    cache,   \* per key, its element or None
    call     \* per goroutine: pc, key, data

vars == <<ll, entry, cache, call>>

Entries == [key : Keys, data : Keys]
Calls == [pc : {"idle", "get", "parse", "add", "done", "failed"}, key : Keys, data : Keys \cup {None}]

Listed == {ll[i] : i \in DOMAIN ll}
Mapped == {cache[k] : k \in Keys} \ {None}

\* At any time the list is within its limit.
TypeOK ==
    /\ ll \in Seq(Elements) /\ Len(ll) <= MaxSize
    /\ entry \in [Elements -> Entries]
    /\ cache \in [Keys -> Elements \cup {None}]
    /\ call \in [Callers -> Calls]

----------------------------------------------------------------------------
(* Lists                                                                   *)

\* Mutant: a hit leaves the list as it is.
MoveToFrontNot(s, e) == s

MoveToFront(s, e) ==
    LET i == CHOOSE j \in DOMAIN s : s[j] = e
    IN  [j \in 1..Len(s) |-> IF j = 1 THEN e ELSE IF j <= i THEN s[j - 1] ELSE s[j]]

PushFront(s, e) == [j \in 1..Len(s) + 1 |-> IF j = 1 THEN e ELSE s[j - 1]]

RemoveBack(s) == [j \in 1..Len(s) - 1 |-> s[j]]

----------------------------------------------------------------------------
(* getReplacerData                                                         *)

Start(c, k) ==
    /\ call[c].pc = "idle"
    /\ call' = [call EXCEPT ![c] = [pc |-> IF k \in Oversized THEN "parse" ELSE "get",
                                    key |-> k, data |-> None]]
    /\ UNCHANGED <<ll, entry, cache>>

\* Mutant: the front element before the move.
FoundAtFront(k) == ll[1]

Found(k) == cache[k]

GetHit(c) ==
    LET e == Found(call[c].key) IN
    /\ call[c].pc = "get" /\ cache[call[c].key] # None
    /\ ll' = MoveToFront(ll, e)
    /\ call' = [call EXCEPT ![c].pc = "done", ![c].data = entry[e].data]
    /\ UNCHANGED <<entry, cache>>

GetMiss(c) ==
    /\ call[c].pc = "get" /\ cache[call[c].key] = None
    /\ call' = [call EXCEPT ![c].pc = "parse"]
    /\ UNCHANGED <<ll, entry, cache>>

\* NewReplacerData, outside the lock
Parse(c) ==
    LET k == call[c].key IN
    /\ call[c].pc = "parse"
    /\ call' = IF k \in Invalid
                 THEN [call EXCEPT ![c].pc = "failed"]
                 ELSE [call EXCEPT ![c].pc = IF k \in Oversized THEN "done" ELSE "add", ![c].data = k]
    /\ UNCHANGED <<ll, entry, cache>>

\* Mutant: add relies on the miss that get reported.
AlreadyAddedNever(k) == FALSE

\* Another goroutine has added the key since get missed it.
AlreadyAdded(k) == cache[k] # None

AddAgain(c) ==
    LET k == call[c].key IN
    /\ call[c].pc = "add" /\ AlreadyAdded(k)
    /\ entry' = [entry EXCEPT ![cache[k]].data = call[c].data]
    /\ ll' = MoveToFront(ll, cache[k])
    /\ call' = [call EXCEPT ![c].pc = "done"]
    /\ UNCHANGED cache

\* Mutant: one entry more than the limit.
OverfullByTwo(s) == Len(s) > MaxSize + 1

Overfull(s) == Len(s) > MaxSize

AddNew(c) ==
    LET k == call[c].key IN
    /\ call[c].pc = "add" /\ ~AlreadyAdded(k)
    /\ \E e \in Elements \ (Listed \cup Mapped) :
         LET pushed == PushFront(ll, e)
             added == [cache EXCEPT ![k] = e]
             oldest == pushed[Len(pushed)]
         IN  /\ entry' = [entry EXCEPT ![e] = [key |-> k, data |-> call[c].data]]
             /\ ll' = IF Overfull(pushed) THEN RemoveBack(pushed) ELSE pushed
             /\ cache' = IF Overfull(pushed) THEN [added EXCEPT ![entry'[oldest].key] = None]
                         ELSE added
    /\ call' = [call EXCEPT ![c].pc = "done"]

Return(c) ==
    /\ call[c].pc \in {"done", "failed"}
    /\ call' = [call EXCEPT ![c].pc = "idle"]
    /\ UNCHANGED <<ll, entry, cache>>

----------------------------------------------------------------------------
Init ==
    /\ ll = <<>>
    /\ entry \in [Elements -> Entries]
    /\ cache = [k \in Keys |-> None]
    /\ call \in [Callers -> {[pc |-> "idle", key |-> k, data |-> None] : k \in Keys}]

Next ==
    \E c \in Callers :
        \/ \E k \in Keys : Start(c, k)
        \/ GetHit(c) \/ GetMiss(c) \/ Parse(c) \/ AddAgain(c) \/ AddNew(c) \/ Return(c)

Spec == Init /\ [][Next]_vars

----------------------------------------------------------------------------
(* Properties                                                              *)

\* The list and the map have the same elements, each once and under its own key.
\* After an eviction neither keeps what the other has forgotten.
MapMatchesList ==
    /\ \A i, j \in DOMAIN ll : ll[i] = ll[j] => i = j
    /\ \A i \in DOMAIN ll : cache[entry[ll[i]].key] = ll[i]
    /\ \A k \in Keys : cache[k] # None => cache[k] \in Listed /\ entry[cache[k]].key = k

\* A caller gets what its own replacement parses to, never another key's data.
DataIsOwn == \A c \in Callers : call[c].pc = "done" => call[c].data = call[c].key

LRU == INSTANCE LeastRecentlyUsed WITH
    Clients <- Callers,
    Uncached <- Oversized \cup Invalid,
    order <- [i \in DOMAIN ll |-> entry[ll[i]].key],
    client <- [c \in Callers |->
                 [state |-> CASE call[c].pc = "idle" -> "idle"
                              [] call[c].pc \in {"done", "failed"} -> "served"
                              [] OTHER -> "waiting",
                  key |-> call[c].key]]

\* The cache keeps the most recently used replacements.  Whatever goroutines do
\* between a miss and its addition, every hit and every addition moves its key to
\* the front, and only the back is evicted.
KeepsMostRecentlyUsed == LRU!Spec
=============================================================================
