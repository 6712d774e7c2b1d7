---------------------------- MODULE SharedRegexp ----------------------------
(***************************************************************************)
(* regexp.go, runner.go, bufferpool.go, decode.go: what the goroutines     *)
(* that use one Regexp share.                                              *)
(*                                                                         *)
(* Runners are pooled.  So are the buffers that string inputs are decoded  *)
(* into: MatchString gives its buffer back, FindStringMatch hands it to    *)
(* the match it returns and gives back the empty wrapper.  FindNextMatch   *)
(* continues in the text of a match that other goroutines may be using     *)
(* too, and passes on what the required landmark searches have learned of  *)
(* that text.  The objects are numbered and refer to each other by number; *)
(* one that nothing refers to may be allocated again.                      *)
(*                                                                         *)
(* A scan is two steps, its prologue and its end; what happens in between  *)
(* is RegexVM's matter.  It finds the first hit after `from' in what it    *)
(* sees of the text, and sees what the landmark searches tell it.          *)
(***************************************************************************)
EXTENDS Integers, FiniteSets

CONSTANTS
    Callers,     \* goroutines
    Inputs,      \* strings to search
    Hits,        \* per input, the positions of its matches
    Size,        \* per input, its number of runes
    Runners, Wrappers, Buffers, Infos, Matches, Landmarks,   \* numbers for objects
    MaxCalls     \* bound: calls made

None == 0

ASSUME ObjectAssumption ==
    \A S \in {Runners, Wrappers, Buffers, Infos, Matches, Landmarks} : None \notin S
ASSUME HitsAssumption == \A x \in Inputs : Hits[x] \subseteq Nat

VARIABLES
    idle,        \* re.runnerPool
    runner,      \* per runner: code, text (Runtext), info (textInfo), match (runmatch), landmarks
    wrapPool,    \* pooledMatchRuneBuffers
    wrap,        \* per wrapper, the buffer it points to
    boolPool,    \* pooledRuneBuffers
    data,        \* per buffer, the runes decoded into it
    info,        \* per matchText: runes and landmarkMatch
    match,       \* per Match: text, textpos, landmarks
    learned,     \* per requiredLandmarkState: the text it knows, and from where
    escaped,     \* matches that callers hold
    about,       \* the input in which an escaped match was found
    call,        \* per goroutine, the call it is in
    calls        \* calls made

pools == <<idle, wrapPool, boolPool>>
heap == <<runner, wrap, data, info, match, learned>>
users == <<escaped, about>>
vars == <<pools, heap, users, call, calls>>

Nothing == [text |-> None, from |-> 0]
FreshRunner == [code |-> "full", text |-> None, info |-> None, match |-> None, landmarks |-> None]
NoCall == [pc |-> "idle", op |-> "none", input |-> None, from |-> 0, r |-> None, w |-> None,
           b |-> None, given |-> None, res |-> [pos |-> None, full |-> FALSE], m |-> None]

----------------------------------------------------------------------------
(* Objects in use                                                          *)

Active == {c \in Callers : call[c].pc # "idle"}
Busy == {call[c].r : c \in Active}

\* Matches that a caller, a runner or a call still refers to.
LiveMatches ==
    escaped \cup {runner[r].match : r \in Runners} \cup {call[c].m : c \in Callers}
            \cup {call[c].given : c \in Callers}
LiveInfos == {runner[r].info : r \in Runners} \cup {match[m].info : m \in LiveMatches \ {None}}
LiveBuffers ==
    boolPool \cup {wrap[w] : w \in Wrappers} \cup {call[c].b : c \in Callers}
             \cup {runner[r].text : r \in Runners} \cup {info[t].runes : t \in LiveInfos \ {None}}
LiveLandmarks ==
    {runner[r].landmarks : r \in Runners} \cup {match[m].landmarks : m \in LiveMatches \ {None}}

Some(S) == CHOOSE x \in S : TRUE

\* Mutant: a runner stays in the pool while it is used.
TakenKept(r) == idle

Taken(r) == idle \ {r}

\* getRunner: sync.Pool returns any pooled runner or makes a new one.
GetsRunner(r) == r \in idle \/ (r \notin Busy /\ runner[r] = FreshRunner)

----------------------------------------------------------------------------
(* Searching                                                               *)

HitsAfter(x, from) == {h \in Hits[x] : h > from}
FirstHit(x, from) ==
    IF HitsAfter(x, from) = {} THEN None
    ELSE CHOOSE h \in HitsAfter(x, from) : \A g \in HitsAfter(x, from) : h <= g

Later(a, b) == IF a > b THEN a ELSE b

\* scan's test whether the landmarks were computed on the same rune slice.
SameRuntext(a, b) == a = b

\* The prologue of scan in a runner that has become rn: t is the text metadata,
\* None for bool-only scans, b the buffer to search.
Prologue(c, r, rn, t, b, from) ==
    LET m == IF rn.match # None THEN rn.match ELSE Some(Matches \ LiveMatches)
        stale == rn.landmarks # None /\ ~SameRuntext(rn.text, b)
    IN  /\ rn.match # None \/ Matches \ LiveMatches # {}
        /\ runner' = [runner EXCEPT ![r] = [rn EXCEPT !.text = b, !.match = m]]
        /\ match' = [match EXCEPT ![m].info = t]
        /\ learned' = IF stale THEN [learned EXCEPT ![rn.landmarks] = Nothing] ELSE learned
        /\ idle' = Taken(r)

\* The end of scan.  The landmark searches are allocated when first needed; they
\* know nothing of the runes before the ones they were last asked about.
ScanEnd(c) ==
    LET k   == call[c]
        rn  == runner[k.r]
        l   == IF rn.landmarks # None THEN rn.landmarks ELSE Some(Landmarks \ LiveLandmarks)
        old == IF rn.landmarks # None THEN learned[l] ELSE Nothing
        sees == IF old.text = None THEN [text |-> data[rn.text], from |-> k.from]
                ELSE [text |-> old.text, from |-> Later(old.from, k.from)]
        hit == FirstHit(sees.text, sees.from)
        quick == k.op = "bool"
    IN  /\ k.pc = "scanning"
        /\ rn.landmarks # None \/ Landmarks \ LiveLandmarks # {}
        /\ learned' = [learned EXCEPT ![l] = [sees EXCEPT !.from = IF hit = None THEN @ ELSE hit]]
        /\ call' = [call EXCEPT ![c].pc = "scanned",
                                ![c].res = [pos |-> hit, full |-> rn.code = "full"],
                                ![c].m = IF hit = None \/ quick THEN None ELSE rn.match]
        /\ runner' = [runner EXCEPT ![k.r].landmarks = l,
                                    ![k.r].match = IF quick \/ hit = None THEN @ ELSE None]
        /\ match' = IF hit = None THEN match ELSE [match EXCEPT ![rn.match].pos = hit]
        /\ UNCHANGED <<pools, wrap, data, info, users, calls>>

----------------------------------------------------------------------------
(* FindStringMatch: findDecodedStringMatch                                 *)

\* A buffer of exactly the size of x: the wrapper's own, or a new one.
Fits(w, x) == wrap[w] # None /\ Size[data[wrap[w]]] = Size[x]
ExactBuffer(w, x) == IF Fits(w, x) THEN wrap[w] ELSE Some(Buffers \ LiveBuffers)

\* decodeStringInput, getExact
Decode(c, x) ==
    /\ call[c].pc = "idle" /\ calls < MaxCalls /\ calls' = calls + 1
    /\ \E w \in Wrappers :
         /\ w \in wrapPool \/ (wrap[w] = None /\ w \notin {call[d].w : d \in Callers})
         /\ wrapPool' = wrapPool \ {w}
         /\ Fits(w, x) \/ Buffers \ LiveBuffers # {}
         /\ LET b == ExactBuffer(w, x) IN
              /\ data' = [data EXCEPT ![b] = x]
              /\ call' = [call EXCEPT ![c] = [NoCall EXCEPT !.pc = "decoded", !.op = "find",
                                                            !.input = x, !.w = w, !.b = b]]
    /\ UNCHANGED <<idle, boolPool, runner, wrap, info, match, learned, users>>

\* getRunner, stringMatchText and the prologue of scan
BeginFind(c) ==
    LET k == call[c] IN
    /\ k.pc = "decoded"
    /\ \E r \in Runners :
         /\ GetsRunner(r)
         /\ LET t == IF runner[r].info # None THEN runner[r].info ELSE Some(Infos \ LiveInfos) IN
              /\ runner[r].info # None \/ Infos \ LiveInfos # {}
              /\ info' = [info EXCEPT ![t] = [runes |-> k.b, last |-> None]]
              /\ Prologue(c, r, [runner[r] EXCEPT !.info = t], t, k.b, 0)
         /\ call' = [call EXCEPT ![c].pc = "scanning", ![c].r = r]
    /\ UNCHANGED <<wrapPool, boolPool, wrap, data, users, calls>>

\* Mutant: the wrapper keeps the buffer that the match has taken.
DetachedKept(b) == b

\* detach: *bufp = nil
Detached(b) == None

\* Mutant: the runner keeps the metadata that the match has taken.
InfoAfterHandOverKept(t) == t

\* runner.textInfo = nil
InfoAfterHandOver(t) == None

\* A match takes the buffer and the metadata.
HandOver(c) ==
    LET k == call[c] IN
    /\ k.pc = "scanned" /\ k.op = "find" /\ k.m # None
    /\ runner' = [runner EXCEPT ![k.r].info = InfoAfterHandOver(@)]
    /\ wrap' = [wrap EXCEPT ![k.w] = Detached(k.b)]
    /\ wrapPool' = wrapPool \cup {k.w}
    /\ call' = [call EXCEPT ![c].pc = "leaving", ![c].w = None, ![c].b = None]
    /\ UNCHANGED <<idle, boolPool, data, info, match, learned, users, calls>>

\* decodedInput.release, putExact
Release(c) ==
    LET k == call[c] IN
    /\ k.pc = "scanned" /\ k.op = "find" /\ k.m = None
    /\ wrap' = [wrap EXCEPT ![k.w] = k.b]
    /\ wrapPool' = wrapPool \cup {k.w}
    /\ call' = [call EXCEPT ![c].pc = "leaving", ![c].w = None, ![c].b = None]
    /\ UNCHANGED <<idle, boolPool, runner, data, info, match, learned, users, calls>>

----------------------------------------------------------------------------
(* MatchString: matchStringAt                                              *)

\* A pooled buffer of x's size class or a new one.
GetsBuffer(b) == b \in boolPool \/ b = Some(Buffers \ LiveBuffers)

BeginBool(c, x) ==
    /\ call[c].pc = "idle" /\ calls < MaxCalls /\ calls' = calls + 1
    /\ \E r \in Runners, b \in Buffers :
         /\ GetsRunner(r)
         /\ b \in boolPool \/ (Buffers \ LiveBuffers # {} /\ GetsBuffer(b))
         /\ boolPool' = boolPool \ {b}
         /\ data' = [data EXCEPT ![b] = x]
         /\ Prologue(c, r, [runner[r] EXCEPT !.code = "quick"], None, b, 0)
         /\ call' = [call EXCEPT ![c] = [NoCall EXCEPT !.pc = "scanning", !.op = "bool",
                                                       !.input = x, !.r = r, !.b = b]]
    /\ UNCHANGED <<wrapPool, wrap, info, users>>

----------------------------------------------------------------------------
(* FindNextMatch                                                           *)

\* Mutant: whoever continues from m takes its landmarks.
TakesLandmarksAlways(m) == match[m].landmarks # None

\* m.text.landmarkMatch.CompareAndSwap(m, nil)
TakesLandmarks(m) == info[match[m].info].last = m

BeginNext(c, m) ==
    LET t == match[m].info
        b == info[t].runes
        Given(r) == IF TakesLandmarks(m)
                      THEN [runner[r] EXCEPT !.landmarks = match[m].landmarks, !.text = b]
                      ELSE runner[r]
    IN  /\ call[c].pc = "idle" /\ calls < MaxCalls /\ calls' = calls + 1
        /\ m \in escaped
        /\ \E r \in Runners :
             /\ GetsRunner(r)
             /\ Prologue(c, r, Given(r), t, b, match[m].pos)
             /\ call' = [call EXCEPT ![c] = [NoCall EXCEPT !.pc = "scanning", !.op = "next",
                                                           !.input = about[m], !.from = match[m].pos,
                                                           !.r = r, !.given = m]]
        /\ info' = IF TakesLandmarks(m) THEN [info EXCEPT ![t].last = None] ELSE info
        /\ UNCHANGED <<wrapPool, boolPool, wrap, data, users>>

\* The new match takes the landmarks, for whoever continues from it first.
PassLandmarksOn(c) ==
    LET k == call[c] IN
    /\ k.pc = "scanned" /\ k.op = "next" /\ k.m # None
    /\ match' = [match EXCEPT ![k.m].landmarks = runner[k.r].landmarks]
    /\ runner' = [runner EXCEPT ![k.r].landmarks = None]
    /\ info' = [info EXCEPT ![match[k.m].info].last = k.m]
    /\ call' = [call EXCEPT ![c].pc = "leaving"]
    /\ UNCHANGED <<pools, wrap, data, learned, users, calls>>

----------------------------------------------------------------------------
(* Leaving                                                                 *)

\* Mutant: the runner goes on with the code it has.
PutCodeAsIs(rn) == rn.code

\* r.code = re.code
PutCode(rn) == "full"

\* Mutant: Runtext is left behind.
PutTextAsIs(rn) == rn.text

\* r.Runtext = nil
PutText(rn) == None

\* The caller has its result, and keeps the match.
Return(c) ==
    LET k == call[c] IN
    /\ escaped' = escaped \cup ({k.m} \ {None})
    /\ about' = IF k.m = None THEN about ELSE [about EXCEPT ![k.m] = k.input]
    /\ call' = [call EXCEPT ![c] = NoCall]

\* putRunner, deferred to the end of the call; MatchString has a buffer to give
\* back after it.
PutRunner(c) ==
    LET k == call[c]
        rn == runner[k.r]
    IN  /\ \/ k.pc = "leaving"
           \/ k.pc = "scanned" /\ (k.op = "bool" \/ (k.op = "next" /\ k.m = None))
        /\ runner' = [runner EXCEPT ![k.r].code = PutCode(rn), ![k.r].text = PutText(rn)]
        /\ match' = IF rn.match = None THEN match ELSE [match EXCEPT ![rn.match].info = None]
        /\ info' = IF rn.info = None THEN info
                   ELSE [info EXCEPT ![rn.info] = [runes |-> None, last |-> None]]
        /\ idle' = idle \cup {k.r}
        /\ IF k.op = "bool"
             THEN /\ call' = [call EXCEPT ![c].pc = "giving", ![c].r = None]
                  /\ UNCHANGED users
             ELSE Return(c)
        /\ UNCHANGED <<wrapPool, boolPool, wrap, data, learned, calls>>

\* pooledRuneBuffers.put, the end of MatchString
PutBuffer(c) ==
    /\ call[c].pc = "giving"
    /\ boolPool' = boolPool \cup {call[c].b}
    /\ Return(c)
    /\ UNCHANGED <<idle, wrapPool, heap, calls>>

----------------------------------------------------------------------------
Init ==
    /\ idle = {} /\ wrapPool = {} /\ boolPool = {}
    /\ runner = [r \in Runners |-> FreshRunner]
    /\ wrap = [w \in Wrappers |-> None]
    /\ data = [b \in Buffers |-> None]
    /\ info = [t \in Infos |-> [runes |-> None, last |-> None]]
    /\ match = [m \in Matches |-> [info |-> None, pos |-> 0, landmarks |-> None]]
    /\ learned = [l \in Landmarks |-> Nothing]
    /\ escaped = {} /\ about = [m \in Matches |-> None]
    /\ call = [c \in Callers |-> NoCall]
    /\ calls = 0

Next ==
    \E c \in Callers :
        \/ \E x \in Inputs : Decode(c, x) \/ BeginBool(c, x)
        \/ \E m \in Matches : BeginNext(c, m)
        \/ BeginFind(c) \/ ScanEnd(c) \/ HandOver(c) \/ Release(c)
        \/ PassLandmarksOn(c) \/ PutRunner(c) \/ PutBuffer(c)

Spec == Init /\ [][Next]_vars

----------------------------------------------------------------------------
(* Properties                                                              *)

Found(c) == call[c].pc \in {"scanned", "leaving", "giving"}

\* Every call finds the next match of its own input, whatever the runner, the
\* buffer and the landmark searches that it was given did before and whatever
\* other goroutines do meanwhile.
ResultsAreOwn == \A c \in Callers : Found(c) => call[c].res.pos = FirstHit(call[c].input, call[c].from)

\* Only bool-only matching runs the code without captures.
MatchesHaveCaptures == \A c \in Callers : Found(c) /\ call[c].m # None => call[c].res.full

\* The text of a match that callers hold never changes.
MatchesKeepText ==
    \A m \in escaped : /\ match[m].info # None
                       /\ info[match[m].info].runes # None
                       /\ data[info[match[m].info].runes] = about[m]

\* The landmark searches of a text belong to one goroutine or to the one match
\* that can pass them on.
LandmarksHaveOneOwner ==
    /\ \A r, s \in Runners : r # s /\ runner[r].landmarks # None
                               => runner[r].landmarks # runner[s].landmarks
    /\ \A r \in Runners, m \in escaped :
         runner[r].landmarks # None /\ info[match[m].info].last = m
             => match[m].landmarks # runner[r].landmarks
=============================================================================
