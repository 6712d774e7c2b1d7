------------------------- MODULE SharedRegexpProofs -------------------------
(***************************************************************************)
(* Theorems about SharedRegexp, for any goroutines, inputs and pools.      *)
(*                                                                         *)
(* The invariant says who owns what: runners, wrappers and buffers belong  *)
(* to one call or to their pool, the text metadata of a runner and the     *)
(* landmark searches to one runner or match, and the buffer of a match to  *)
(* nobody who would write into it.                                         *)
(***************************************************************************)
EXTENDS SharedRegexp, WellFoundedInduction, TLAPS

Maybe(S) == S \cup {None}

RunnerStates ==
    [code : {"full", "quick"}, text : Maybe(Buffers), info : Maybe(Infos),
     match : Maybe(Matches), landmarks : Maybe(Landmarks)]
Texts == [runes : Maybe(Buffers), last : Maybe(Matches)]
MatchStates == [info : Maybe(Infos), pos : Nat, landmarks : Maybe(Landmarks)]
Knowledge == [text : Maybe(Inputs), from : Nat]
Calls ==
    [pc : {"idle", "decoded", "scanning", "scanned", "leaving", "giving"},
     op : {"none", "find", "bool", "next"}, input : Maybe(Inputs), from : Nat,
     r : Maybe(Runners), w : Maybe(Wrappers), b : Maybe(Buffers), given : Maybe(Matches),
     res : [pos : Nat, full : BOOLEAN], m : Maybe(Matches)]

TypeOK ==
    /\ idle \subseteq Runners /\ wrapPool \subseteq Wrappers /\ boolPool \subseteq Buffers
    /\ runner \in [Runners -> RunnerStates]
    /\ wrap \in [Wrappers -> Maybe(Buffers)]
    /\ data \in [Buffers -> Maybe(Inputs)]
    /\ info \in [Infos -> Texts]
    /\ match \in [Matches -> MatchStates]
    /\ learned \in [Landmarks -> Knowledge]
    /\ escaped \subseteq Matches
    /\ about \in [Matches -> Maybe(Inputs)]
    /\ call \in [Callers -> Calls]

\* Matches that callers hold or are about to.
Held(m) == m \in escaped \/ \E c \in Callers : call[c].m = m
RunesOf(m) == info[match[m].info].runes

\* The match that may pass on the landmark searches of its text.
Passer(m) == Held(m) /\ info[match[m].info].last = m

\* The text of m is the input x.
Keeps(m, x) ==
    /\ x \in Inputs
    /\ match[m].info \in Infos
    /\ RunesOf(m) \in Buffers
    /\ data[RunesOf(m)] = x

----------------------------------------------------------------------------
(* The invariant                                                           *)

\* What a call holds in each of its states.
CallInv ==
    \A c \in Callers : LET k == call[c] IN
        /\ k.pc = "idle" <=> k.op = "none"
        /\ k.pc # "idle" => k.input \in Inputs
        /\ k.r # None <=> k.pc \in {"scanning", "scanned", "leaving"}
        /\ k.w # None <=> k.op = "find" /\ k.pc \in {"decoded", "scanning", "scanned"}
        /\ k.b # None <=> k.w # None \/ k.op = "bool"
        /\ k.m # None => k.pc \in {"scanned", "leaving"} /\ k.op \in {"find", "next"}
        /\ k.pc = "decoded" => k.op = "find"
        /\ k.pc = "giving" => k.op = "bool"
        /\ k.pc = "leaving" => k.op \in {"find", "next"}
        /\ k.op = "next" => /\ k.given \in escaped
                            /\ k.input = about[k.given] /\ k.from = match[k.given].pos

\* A runner serves one call, and is itself again when it serves none.
RunnerInv ==
    /\ \A c, d \in Callers : call[c].r # None /\ call[c].r = call[d].r => c = d
    /\ \A c \in Callers : call[c].r \notin idle
    /\ \A r \in Runners : (\A c \in Callers : call[c].r # r)
                            => runner[r].code = "full" /\ runner[r].text = None

\* A match belongs to its callers, to a call or to a runner.
MatchInv ==
    /\ \A c, d \in Callers : call[c].m # None /\ call[c].m = call[d].m => c = d
    /\ \A c \in Callers : call[c].m \notin escaped
    /\ \A r, s \in Runners : runner[r].match # None /\ runner[r].match = runner[s].match => r = s
    /\ \A r \in Runners : runner[r].match # None => ~Held(runner[r].match)

\* A runner shares its text metadata only with a match that is about to take it.
InfoInv ==
    /\ \A r, s \in Runners : runner[r].info # None /\ runner[r].info = runner[s].info => r = s
    /\ \A m \in Matches, r \in Runners :
         Held(m) /\ runner[r].info # None /\ match[m].info = runner[r].info
             => \E c \in Callers : /\ call[c].r = r /\ call[c].m = m
                                   /\ call[c].pc = "scanned" /\ call[c].op = "find"

\* Buffers and wrappers belong to one call or to their pool.
BufferInv ==
    /\ \A c, d \in Callers : call[c].b # None /\ call[c].b = call[d].b => c = d
    /\ \A c, d \in Callers : call[c].w # None /\ call[c].w = call[d].w => c = d
    /\ \A c \in Callers : call[c].b \notin boolPool /\ call[c].w \notin wrapPool
    /\ \A v, w \in Wrappers : wrap[v] # None /\ wrap[v] = wrap[w] => v = w
    /\ \A w \in Wrappers : wrap[w] \notin boolPool
    /\ \A w \in Wrappers, c \in Callers : wrap[w] # None /\ wrap[w] = call[c].b => call[c].w = w
    /\ \A c \in Callers : call[c].b # None => data[call[c].b] = call[c].input

\* The text of a match is kept, and nobody writes into its buffer.
TextInv ==
    /\ \A m \in escaped : Keeps(m, about[m])
    /\ \A c \in Callers : call[c].m # None => Keeps(call[c].m, call[c].input)
    /\ \A m \in Matches : Held(m) =>
         /\ RunesOf(m) \notin boolPool
         /\ \A w \in Wrappers : wrap[w] = RunesOf(m)
                => \E c \in Callers : call[c].w = w /\ call[c].m = m
         /\ \A c \in Callers : call[c].b = RunesOf(m) => call[c].m = m

\* Landmark searches belong to one runner or to one match that may pass them on.
LandmarkInv ==
    /\ \A r, s \in Runners : runner[r].landmarks # None /\ runner[r].landmarks = runner[s].landmarks
                               => r = s
    /\ \A t \in Infos : info[t].last # None =>
         Held(info[t].last) /\ match[info[t].last].info = t
    /\ \A m \in Matches : Passer(m) =>
         match[m].landmarks # None /\ \A r \in Runners : runner[r].landmarks # match[m].landmarks
    /\ \A m, n \in Matches : Passer(m) /\ Passer(n) /\ match[m].landmarks = match[n].landmarks
                               => m = n

\* A scan is of the text that its call is about.
ScansOwn(c) ==
    LET k == call[c]
        rn == runner[k.r]
    IN  /\ rn.match # None
        /\ k.op # "bool" => rn.code = "full"
        /\ k.op # "next" => rn.text = k.b
        /\ k.op = "find" => /\ rn.info # None /\ info[rn.info].runes = k.b
                            /\ match[rn.match].info = rn.info
        /\ k.op = "next" => /\ rn.text = RunesOf(k.given)
                            /\ match[rn.match].info = match[k.given].info

ScanInv == \A c \in Callers : call[c].pc = "scanning" => ScansOwn(c)

\* Landmark searches that a match may pass on know its text up to the match.
PassedInv ==
    /\ \A m \in escaped : Passer(m) =>
         learned[match[m].landmarks] = [text |-> about[m], from |-> match[m].pos]
    /\ \A c \in Callers : call[c].m # None /\ Passer(call[c].m) =>
         learned[match[call[c].m].landmarks] = [text |-> call[c].input, from |-> match[call[c].m].pos]

\* Those of a runner know nothing, or the text that its call is about.
KnowsOwn(c) ==
    LET l == runner[call[c].r].landmarks IN
    l # None /\ learned[l].text # None =>
        learned[l] = [text |-> call[c].input, from |-> call[c].from]

KnowsMatch(c) ==
    LET l == runner[call[c].r].landmarks IN
    l # None /\ learned[l] = [text |-> call[c].input, from |-> match[call[c].m].pos]

KnowledgeInv ==
    \A c \in Callers :
        /\ call[c].pc = "scanning" => KnowsOwn(c)
        /\ call[c].pc = "scanned" /\ call[c].op = "next" /\ call[c].m # None => KnowsMatch(c)

IInv ==
    /\ TypeOK /\ CallInv /\ RunnerInv /\ MatchInv /\ InfoInv /\ BufferInv
    /\ TextInv /\ LandmarkInv /\ ScanInv /\ PassedInv /\ KnowledgeInv
    /\ ResultsAreOwn /\ MatchesHaveCaptures
----------------------------------------------------------------------------
(* Operators                                                               *)

\* The first hit is a position, or None.
LEMMA FirstHitNat ==
    ASSUME NEW x \in Inputs, NEW from \in Nat
    PROVE  FirstHit(x, from) \in Nat
<1> DEFINE S == HitsAfter(x, from)
<1>1. S \subseteq Nat
  BY HitsAssumption DEF HitsAfter
<1>2. CASE S = {}
  BY <1>2 DEF FirstHit, None
<1>3. CASE S # {}
  <2> DEFINE R == OpToRel(<, Nat)
  <2>1. \A g, h \in Nat : g < h => <<g, h>> \in R
    BY DEF OpToRel
  <2>2. IsWellFoundedOn(R, Nat)
    BY NatLessThanWellFounded
  <2> HIDE DEF R, S
  <2>3. PICK h \in S : \A g \in S : ~(<<g, h>> \in R)
    BY <1>1, <1>3, <2>2, WFMin
  <2>4. \A g \in S : h <= g
    <3> SUFFICES ASSUME NEW g \in S PROVE h <= g
      OBVIOUS
    <3>1. g \in Nat /\ h \in Nat /\ ~(<<g, h>> \in R)
      BY <1>1, <2>3
    <3>2. ~(g < h)
      BY <2>1, <3>1
    <3> QED
      BY <3>1, <3>2
  <2> QED
    BY <1>1, <1>3, <2>4 DEF FirstHit, S
<1> QED
  BY <1>2, <1>3

\* Init.
LEMMA InitIInv == Init => IInv
<1> SUFFICES ASSUME Init PROVE IInv
  OBVIOUS
<1>1. TypeOK
  <2>1. runner \in [Runners -> RunnerStates] /\ call \in [Callers -> Calls]
    BY DEF Init, RunnerStates, Calls, Maybe, FreshRunner, NoCall, None
  <2> QED
    BY <2>1 DEF Init, TypeOK, Maybe, Texts, MatchStates, Knowledge, Nothing, None
<1>2. CallInv /\ RunnerInv /\ MatchInv /\ InfoInv
  BY DEF Init, CallInv, RunnerInv, MatchInv, InfoInv, Held, FreshRunner, NoCall
<1>3. BufferInv /\ TextInv
  BY ObjectAssumption DEF Init, BufferInv, TextInv, Held, NoCall
<1>4. LandmarkInv /\ ScanInv /\ PassedInv /\ KnowledgeInv
  BY ObjectAssumption DEF Init, LandmarkInv, ScanInv, PassedInv, KnowledgeInv, Held, Passer, FreshRunner, NoCall
<1>5. ResultsAreOwn /\ MatchesHaveCaptures
  BY DEF Init, ResultsAreOwn, MatchesHaveCaptures, Found, NoCall
<1> QED
  BY <1>1, <1>2, <1>3, <1>4, <1>5 DEF IInv
----------------------------------------------------------------------------
(* What steps leave alone                                                  *)

\* Matches that are held are matches, with a text.
LEMMA HeldMatches ==
    ASSUME IInv
    PROVE  /\ \A m : Held(m) /\ m # None => m \in Matches
           /\ \A m \in Matches : Held(m) => match[m].info \in Infos /\ RunesOf(m) \in Buffers
           /\ \A m \in escaped : m \in Matches /\ m # None /\ Held(m)
           /\ \A c \in Callers : call[c].m # None => call[c].m \in Matches /\ Held(call[c].m)
BY ObjectAssumption DEF IInv, TypeOK, Held, TextInv, Keeps, Calls, Maybe

\* The texts of matches, when the same matches are held.
LEMMA TextFrame ==
    ASSUME IInv, UNCHANGED <<escaped, about>>,
           \A c \in Callers : call'[c].m = call[c].m /\ (call[c].m # None => call'[c].input = call[c].input),
           \A m \in Matches : Held(m) =>
              /\ match'[m].info = match[m].info
              /\ info'[match[m].info].runes = info[match[m].info].runes
              /\ data'[RunesOf(m)] = data[RunesOf(m)]
              /\ RunesOf(m) \notin boolPool'
              /\ \A w \in Wrappers : wrap'[w] = RunesOf(m)
                    => \E c \in Callers : call'[c].w = w /\ call'[c].m = m
              /\ \A c \in Callers : call'[c].b = RunesOf(m) => call'[c].m = m
    PROVE  TextInv'
<1>1. \A m \in escaped' : Keeps(m, about[m])'
  <2>1. \A m \in escaped : m \in Matches /\ Held(m) /\ Keeps(m, about[m])
    BY HeldMatches DEF IInv, TextInv
  <2> QED
    BY <2>1 DEF Keeps, RunesOf
<1>2. \A c \in Callers : (call[c].m # None => Keeps(call[c].m, call[c].input))'
  <2>1. \A c \in Callers : call[c].m # None =>
           call[c].m \in Matches /\ Held(call[c].m) /\ Keeps(call[c].m, call[c].input)
    BY HeldMatches DEF IInv, TextInv
  <2> QED
    BY <2>1 DEF Keeps, RunesOf
<1>3. \A m \in Matches : Held(m)' => Held(m) /\ RunesOf(m)' = RunesOf(m)
  BY DEF Held, RunesOf
<1> QED
  BY <1>1, <1>2, <1>3 DEF TextInv

\* The owners of landmark searches, when at most the passers lose theirs.
LEMMA LandmarkFrame ==
    ASSUME IInv,
           \A r \in Runners : runner'[r].landmarks = runner[r].landmarks,
           \A m \in Matches : Held(m) => Held(m)' /\ match'[m] = match[m],
           \A m \in Matches : Passer(m)' => Passer(m),
           \A t \in Infos : info'[t].last \in {None, info[t].last}
    PROVE  LandmarkInv'
<1>1. \A t \in Infos : info[t].last # None => info[t].last \in Matches
  BY DEF IInv, TypeOK, Texts, Maybe
<1>2. ASSUME NEW t \in Infos, info'[t].last # None
      PROVE  Held(info[t].last)' /\ match'[info'[t].last].info = t
  <2>1. info'[t].last = info[t].last /\ info[t].last \in Matches
    BY <1>1, <1>2
  <2>2. Held(info[t].last) /\ match[info[t].last].info = t
    BY <1>2, <2>1 DEF IInv, LandmarkInv
  <2>3. \A m \in Matches : Held(m) => m \in escaped' \/ \E c \in Callers : call'[c].m = m
    BY DEF Held
  <2>4. info'[t].last \in escaped' \/ \E c \in Callers : call'[c].m = info'[t].last
    BY <2>1, <2>2, <2>3
  <2> QED
    BY <2>1, <2>2, <2>4 DEF Held
<1>3. \A m \in Matches : Passer(m)' => Passer(m) /\ match'[m] = match[m]
  BY DEF Passer
<1> QED
  BY <1>2, <1>3 DEF IInv, LandmarkInv

\* What the landmark searches of passers know.
LEMMA PassedFrame ==
    ASSUME IInv, UNCHANGED <<escaped, about>>,
           \A c \in Callers : call'[c].m = call[c].m /\ (call[c].m # None => call'[c].input = call[c].input),
           \A m \in Matches : Held(m) => match'[m] = match[m],
           \A m \in Matches : Passer(m)' => Passer(m),
           \A m \in Matches : Passer(m) => learned'[match[m].landmarks] = learned[match[m].landmarks]
    PROVE  PassedInv'
<1>1. \A m \in escaped : m \in Matches /\ Held(m)
  BY HeldMatches
<1>2. \A c \in Callers : call[c].m # None => call[c].m \in Matches /\ Held(call[c].m)
  BY HeldMatches
<1>3. \A m \in escaped' : (Passer(m) =>
         learned[match[m].landmarks] = [text |-> about[m], from |-> match[m].pos])'
  BY <1>1 DEF IInv, PassedInv
<1>4. ASSUME NEW c \in Callers, (call[c].m # None /\ Passer(call[c].m))'
      PROVE  (learned[match[call[c].m].landmarks] = [text |-> call[c].input, from |-> match[call[c].m].pos])'
  <2> DEFINE m == call[c].m
  <2>1. m # None /\ m \in Matches /\ call'[c].m = m /\ match'[m] = match[m]
    BY <1>2, <1>4
  <2>2. Passer(m)
    <3>1. \A n \in Matches : (n \in escaped' \/ \E d \in Callers : call'[d].m = n)
                               /\ info'[match'[n].info].last = n => Passer(n)
      BY DEF Passer, Held
    <3> QED
      BY <1>4, <2>1, <3>1 DEF Passer, Held
  <2> QED
    BY <2>1, <2>2 DEF IInv, PassedInv
<1> QED
  BY <1>3, <1>4 DEF PassedInv

\* A scan that a step of another call does not touch.
LEMMA ScanFrame ==
    ASSUME IInv, NEW c \in Callers, call[c].pc = "scanning", call'[c] = call[c],
           LET rn == runner[call[c].r] IN
             /\ runner'[call[c].r] = rn
             /\ match'[rn.match].info = match[rn.match].info
             /\ call[c].op = "find" => info'[rn.info].runes = info[rn.info].runes,
           call[c].op = "next" =>
             LET m == call[c].given IN
             match'[m].info = match[m].info /\ info'[match[m].info].runes = info[match[m].info].runes
    PROVE  ScansOwn(c)'
BY DEF IInv, ScanInv, ScansOwn, RunesOf

\* What a call knows through its runner's landmarks, when another step leaves them alone.
LEMMA KnowledgeFrame ==
    ASSUME IInv, NEW c \in Callers, call'[c] = call[c],
           LET l == runner[call[c].r].landmarks IN
             /\ runner'[call[c].r].landmarks = l
             /\ l # None => learned'[l] = learned[l],
           call[c].m # None => match'[call[c].m].pos = match[call[c].m].pos
    PROVE  /\ call[c].pc = "scanning" => KnowsOwn(c)'
           /\ call[c].pc = "scanned" /\ call[c].op = "next" /\ call[c].m # None => KnowsMatch(c)'
BY DEF IInv, KnowledgeInv, KnowsOwn, KnowsMatch

----------------------------------------------------------------------------
(* FindStringMatch                                                         *)

\* A buffer that is decoded into: the wrapper's own, which no call uses and no
\* match keeps, or one that nothing refers to.
LEMMA DecodeBuffer ==
    ASSUME IInv, NEW c \in Callers, NEW x \in Inputs, NEW w \in Wrappers,
           w \in wrapPool \/ (wrap[w] = None /\ w \notin {call[d].w : d \in Callers}),
           Fits(w, x) \/ Buffers \ LiveBuffers # {}
    PROVE  LET b == ExactBuffer(w, x) IN
           /\ b \in Buffers /\ b \notin boolPool
           /\ \A d \in Callers : call[d].b # b /\ call[d].w # w
           /\ \A v \in Wrappers : wrap[v] = b => v = w
           /\ \A m \in Matches : Held(m) => RunesOf(m) # b
<1> DEFINE b == ExactBuffer(w, x)
<1>0. /\ wrap \in [Wrappers -> Maybe(Buffers)] /\ call \in [Callers -> Calls]
      /\ match \in [Matches -> MatchStates] /\ None \notin Buffers /\ None \notin Infos
  BY ObjectAssumption DEF IInv, TypeOK
<1>1. \A d \in Callers : call[d].w # w
  BY DEF IInv, BufferInv
<1>2. CASE b = wrap[w] /\ wrap[w] # None
  <2>1. b \in Buffers
    BY <1>0, <1>2 DEF Maybe
  <2>2. \A d \in Callers : call[d].b # b
    BY <1>1, <1>2 DEF IInv, BufferInv
  <2>3. b \notin boolPool /\ \A v \in Wrappers : wrap[v] = b => v = w
    BY <1>2 DEF IInv, BufferInv
  <2>4. \A m \in Matches : Held(m) => RunesOf(m) # b
    BY <1>1, <1>2 DEF IInv, TextInv
  <2> QED
    BY <1>1, <2>1, <2>2, <2>3, <2>4
<1>3. CASE ~(b = wrap[w] /\ wrap[w] # None)
  <2>1. b = Some(Buffers \ LiveBuffers) /\ Buffers \ LiveBuffers # {}
    BY <1>3 DEF ExactBuffer, Fits
  <2>2. b \in Buffers /\ b \notin LiveBuffers
    BY <2>1 DEF Some
  <2>3. /\ b \notin boolPool /\ \A d \in Callers : call[d].b # b
        /\ \A v \in Wrappers : wrap[v] # b
    BY <2>2 DEF LiveBuffers
  <2>4. ASSUME NEW m \in Matches, Held(m) PROVE RunesOf(m) # b
    <3>1. m # None /\ match[m].info \in Infos
      BY <2>4, ObjectAssumption DEF IInv, TextInv, Keeps, Held
    <3>2. m \in LiveMatches \ {None}
      BY <2>4, <3>1 DEF LiveMatches, Held
    <3>3. match[m].info \in LiveInfos \ {None}
      BY <1>0, <3>1, <3>2 DEF LiveInfos
    <3> QED
      BY <2>2, <3>3 DEF LiveBuffers, RunesOf
  <2> QED
    BY <1>1, <2>2, <2>3, <2>4
<1> QED
  BY <1>2, <1>3

\* decodeStringInput: the call has a wrapper and a buffer that nobody else holds.
LEMMA DecodeIInv ==
    ASSUME IInv, NEW c \in Callers, NEW x \in Inputs, Decode(c, x)
    PROVE  IInv'
<1>1. PICK w \in Wrappers :
         /\ w \in wrapPool \/ (wrap[w] = None /\ w \notin {call[d].w : d \in Callers})
         /\ wrapPool' = wrapPool \ {w}
         /\ Fits(w, x) \/ Buffers \ LiveBuffers # {}
         /\ data' = [data EXCEPT ![ExactBuffer(w, x)] = x]
         /\ call' = [call EXCEPT ![c] = [NoCall EXCEPT !.pc = "decoded", !.op = "find", !.input = x,
                                                       !.w = w, !.b = ExactBuffer(w, x)]]
  BY DEF Decode
<1> DEFINE b == ExactBuffer(w, x)
<1>2. /\ b \in Buffers /\ b \notin boolPool
      /\ \A d \in Callers : call[d].b # b /\ call[d].w # w
      /\ \A v \in Wrappers : wrap[v] = b => v = w
      /\ \A m \in Matches : Held(m) => RunesOf(m) # b
  BY <1>1, DecodeBuffer
<1> HIDE DEF b
<1>3. /\ UNCHANGED <<idle, boolPool, runner, wrap, info, match, learned, escaped, about>>
      /\ call[c].pc = "idle"
  BY DEF Decode, users
<1>4. /\ call \in [Callers -> Calls] /\ data \in [Buffers -> Maybe(Inputs)] /\ None \notin Buffers
      /\ None \notin Wrappers
  BY ObjectAssumption DEF IInv, TypeOK
<1>5. /\ call'[c] = [pc |-> "decoded", op |-> "find", input |-> x, from |-> 0, r |-> None, w |-> w,
                     b |-> b, given |-> None, res |-> [pos |-> None, full |-> FALSE], m |-> None]
      /\ \A d \in Callers \ {c} : call'[d] = call[d]
      /\ call' \in [Callers -> Calls]
      /\ data'[b] = x /\ \A e \in Buffers \ {b} : data'[e] = data[e]
      /\ data' \in [Buffers -> Maybe(Inputs)]
  BY <1>1, <1>2, <1>4 DEF b, NoCall, Calls, Maybe, None
<1>6. call[c].m = None /\ call[c].r = None /\ call[c].w = None /\ call[c].b = None
  BY <1>3 DEF IInv, CallInv
<1>7. /\ \A m : Held(m)' <=> Held(m)
      /\ \A d \in Callers : call'[d].m = call[d].m /\ call'[d].r = call[d].r
      /\ \A m : RunesOf(m)' = RunesOf(m) /\ (Passer(m)' <=> Passer(m))
  BY <1>3, <1>5, <1>6 DEF Held, RunesOf, Passer
<1>8. TypeOK'
  BY <1>1, <1>3, <1>5 DEF IInv, TypeOK
<1>9. CallInv'
  BY <1>2, <1>3, <1>4, <1>5 DEF IInv, CallInv
<1>10. RunnerInv'
  BY <1>3, <1>7 DEF IInv, RunnerInv
<1>11. MatchInv'
  BY <1>3, <1>7 DEF IInv, MatchInv
<1>12. InfoInv'
  BY <1>3, <1>5, <1>6, <1>7 DEF IInv, InfoInv
<1>13. BufferInv'
  <2>1. \A d \in Callers \ {c} : call'[d].b # b /\ call'[d].w # w
    BY <1>2, <1>5
  <2>2. \A d \in Callers : call'[d].b # None => data'[call'[d].b] = call'[d].input
    <3>1. \A d \in Callers \ {c} : call[d].b # None => call[d].b \in Buffers \ {b}
      BY <1>2, <1>4 DEF Calls, Maybe
    <3> QED
      BY <1>5, <3>1 DEF IInv, BufferInv
  <2>3. wrapPool' = wrapPool \ {w}
    BY <1>1
  <2> QED
    BY <1>2, <1>3, <1>4, <1>5, <2>1, <2>2, <2>3 DEF IInv, BufferInv
<1>14. TextInv'
  <2>1. ASSUME NEW m \in Matches, Held(m), NEW y, Keeps(m, y) PROVE data'[RunesOf(m)] = y
    BY <1>2, <1>5, <2>1 DEF Keeps
  <2>2. \A m \in escaped : m \in Matches /\ Held(m) /\ data'[RunesOf(m)] = about[m]
    BY <2>1 DEF IInv, TypeOK, Held, TextInv
  <2>3. ASSUME NEW d \in Callers, call[d].m # None PROVE data'[RunesOf(call[d].m)] = call[d].input
    <3>1. call[d].m \in Matches /\ Held(call[d].m) /\ Keeps(call[d].m, call[d].input)
      BY <1>4, <2>3 DEF Held, Calls, Maybe, IInv, TextInv
    <3> QED
      BY <2>1, <3>1
  <2>4. \A m \in escaped' : Keeps(m, about[m])'
    BY <1>3, <2>2 DEF IInv, TextInv, Keeps, RunesOf
  <2>5. \A d \in Callers : (call[d].m # None => Keeps(call[d].m, call[d].input))'
    BY <1>3, <1>5, <1>6, <2>3 DEF IInv, TextInv, Keeps, RunesOf
  <2>6. \A m \in Matches : Held(m)' => Held(m) /\ RunesOf(m)' = RunesOf(m) /\ RunesOf(m) # b
    BY <1>2, <1>7
  <2>7. \A v \in Wrappers, m \in Matches : Held(m) /\ wrap[v] = RunesOf(m)
           => \E d \in Callers : call'[d].w = v /\ call'[d].m = m
    BY <1>4, <1>5, <1>6 DEF IInv, TextInv
  <2>8. \A m \in Matches, d \in Callers : Held(m) /\ call'[d].b = RunesOf(m) => call'[d].m = m
    BY <1>2, <1>5 DEF IInv, TextInv
  <2>9. \A m \in Matches : Held(m) => RunesOf(m) \notin boolPool'
    BY <1>3 DEF IInv, TextInv
  <2> QED
    BY <1>3, <2>4, <2>5, <2>6, <2>7, <2>8, <2>9 DEF TextInv
<1>15. LandmarkInv'
  BY <1>3, <1>7 DEF IInv, LandmarkInv
<1>16. ScanInv'
  <2> SUFFICES ASSUME NEW d \in Callers, call'[d].pc = "scanning" PROVE ScansOwn(d)'
    BY DEF ScanInv
  <2> QED
    BY <1>3, <1>5, ScanFrame
<1>17. PassedInv' /\ KnowledgeInv'
  <2>1. PassedInv'
    BY <1>3, <1>5, <1>6, <1>7, PassedFrame
  <2>2. ASSUME NEW d \in Callers
        PROVE  /\ call'[d].pc = "scanning" => KnowsOwn(d)'
               /\ call'[d].pc = "scanned" /\ call'[d].op = "next" /\ call'[d].m # None => KnowsMatch(d)'
    BY <1>3, <1>5, KnowledgeFrame
  <2> QED
    BY <2>1, <2>2 DEF KnowledgeInv
<1>18. ResultsAreOwn' /\ MatchesHaveCaptures'
  BY <1>5 DEF IInv, ResultsAreOwn, MatchesHaveCaptures, Found
<1> QED
  BY <1>8, <1>9, <1>10, <1>11, <1>12, <1>13, <1>14, <1>15, <1>16, <1>17, <1>18 DEF IInv
----------------------------------------------------------------------------
(* The prologue of a scan                                                  *)

\* What getRunner returns is nobody else's, and as good as new.
LEMMA GotRunner ==
    ASSUME IInv, NEW r \in Runners, GetsRunner(r)
    PROVE  /\ \A d \in Callers : call[d].r # r
           /\ runner[r].code = "full" /\ runner[r].text = None
<1>1. ASSUME NEW d \in Callers PROVE call[d].r # r
  <2>1. CASE r \in idle
    BY <2>1 DEF IInv, RunnerInv
  <2>2. CASE r \notin Busy
    <3>1. call[d].pc # "idle" => call[d].r # r
      BY <2>2 DEF Busy, Active
    <3>2. call[d].pc = "idle" => call[d].r = None
      BY DEF IInv, CallInv
    <3> QED
      BY <3>1, <3>2, ObjectAssumption
  <2> QED
    BY <2>1, <2>2 DEF GetsRunner
<1> QED
  BY <1>1 DEF IInv, RunnerInv

\* A match that a prologue takes, its runner's or a new one, is nobody else's.
LEMMA GotMatch ==
    ASSUME IInv, NEW r \in Runners, runner[r].match # None \/ Matches \ LiveMatches # {}
    PROVE  LET m == IF runner[r].match # None THEN runner[r].match ELSE Some(Matches \ LiveMatches) IN
           /\ m \in Matches /\ m # None /\ ~Held(m)
           /\ \A s \in Runners : runner[s].match = m => s = r
<1> DEFINE m == IF runner[r].match # None THEN runner[r].match ELSE Some(Matches \ LiveMatches)
<1>0. runner \in [Runners -> RunnerStates] /\ call \in [Callers -> Calls] /\ None \notin Matches
  BY ObjectAssumption DEF IInv, TypeOK
<1>1. CASE runner[r].match # None
  BY <1>0, <1>1 DEF IInv, MatchInv, RunnerStates, Maybe
<1>2. CASE runner[r].match = None
  <2>1. m \in Matches /\ m \notin LiveMatches
    BY <1>2 DEF Some
  <2>2. \A s \in Runners : runner[s].match # m
    BY <2>1 DEF LiveMatches
  <2>3. ~Held(m)
    BY <2>1 DEF LiveMatches, Held
  <2> QED
    BY <1>0, <2>1, <2>2, <2>3
<1> QED
  BY <1>1, <1>2

\* Text metadata that FindStringMatch takes, its runner's or new, is no match's.
LEMMA GotInfo ==
    ASSUME IInv, NEW r \in Runners, GetsRunner(r), runner[r].info # None \/ Infos \ LiveInfos # {}
    PROVE  LET t == IF runner[r].info # None THEN runner[r].info ELSE Some(Infos \ LiveInfos) IN
           /\ t \in Infos /\ t # None
           /\ \A s \in Runners : runner[s].info = t => s = r
           /\ \A m \in Matches : Held(m) => match[m].info # t
<1> DEFINE t == IF runner[r].info # None THEN runner[r].info ELSE Some(Infos \ LiveInfos)
<1>0. runner \in [Runners -> RunnerStates] /\ None \notin Infos /\ None \notin Matches
  BY ObjectAssumption DEF IInv, TypeOK
<1>1. CASE runner[r].info # None
  <2>1. \A d \in Callers : call[d].r # r
    BY GotRunner
  <2> QED
    BY <1>0, <1>1, <2>1 DEF IInv, InfoInv, RunnerStates, Maybe
<1>2. CASE runner[r].info = None
  <2>1. t \in Infos /\ t \notin LiveInfos
    BY <1>2 DEF Some
  <2>2. \A s \in Runners : runner[s].info # t
    BY <2>1 DEF LiveInfos
  <2>3. ASSUME NEW m \in Matches, Held(m) PROVE match[m].info # t
    <3>1. m \in LiveMatches \ {None}
      BY <1>0, <2>3 DEF LiveMatches, Held
    <3> QED
      BY <2>1, <3>1 DEF LiveInfos
  <2> QED
    BY <1>0, <2>1, <2>2, <2>3
<1> QED
  BY <1>1, <1>2

\* getRunner, stringMatchText: the runner is the call's own, as is the text it is given.
LEMMA BeginFindIInv ==
    ASSUME IInv, NEW c \in Callers, BeginFind(c)
    PROVE  IInv'
<1> DEFINE k == call[c]
<1>1. PICK r \in Runners :
        /\ GetsRunner(r)
        /\ LET t == IF runner[r].info # None THEN runner[r].info ELSE Some(Infos \ LiveInfos) IN
              /\ runner[r].info # None \/ Infos \ LiveInfos # {}
              /\ info' = [info EXCEPT ![t] = [runes |-> k.b, last |-> None]]
              /\ Prologue(c, r, [runner[r] EXCEPT !.info = t], t, k.b, 0)
        /\ call' = [call EXCEPT ![c].pc = "scanning", ![c].r = r]
  BY DEF BeginFind
<1> DEFINE t == IF runner[r].info # None THEN runner[r].info ELSE Some(Infos \ LiveInfos)
           m == IF runner[r].match # None THEN runner[r].match ELSE Some(Matches \ LiveMatches)
           l == runner[r].landmarks
<1>2. /\ call \in [Callers -> Calls] /\ runner \in [Runners -> RunnerStates]
      /\ info \in [Infos -> Texts] /\ match \in [Matches -> MatchStates]
      /\ learned \in [Landmarks -> Knowledge]
      /\ \A S \in {Runners, Wrappers, Buffers, Infos, Matches, Landmarks} : None \notin S
  BY ObjectAssumption DEF IInv, TypeOK
<1>3. /\ UNCHANGED <<wrapPool, boolPool, wrap, data, escaped, about>>
      /\ k.pc = "decoded" /\ k.op = "find"
      /\ k.r = None /\ k.m = None /\ k.b \in Buffers /\ k.w \in Wrappers /\ k.input \in Inputs
  <2>1. UNCHANGED <<wrapPool, boolPool, wrap, data, escaped, about>> /\ k.pc = "decoded"
    BY DEF BeginFind, users
  <2>2. k.op = "find" /\ k.r = None /\ k.m = None /\ k.b # None /\ k.w # None /\ k.input \in Inputs
    BY <2>1 DEF IInv, CallInv
  <2> QED
    BY <1>2, <2>1, <2>2 DEF Calls, Maybe
<1>4. /\ \A d \in Callers : call[d].r # r
      /\ runner[r].code = "full" /\ runner[r].text = None
  BY <1>1, GotRunner
<1>5. /\ t \in Infos /\ t # None
      /\ \A s \in Runners : runner[s].info = t => s = r
      /\ \A n \in Matches : Held(n) => match[n].info # t
  BY <1>1, GotInfo
<1>6. /\ m \in Matches /\ m # None /\ ~Held(m)
      /\ \A s \in Runners : runner[s].match = m => s = r
  <2>1. runner[r].match # None \/ Matches \ LiveMatches # {}
    BY <1>1, <1>2 DEF Prologue, RunnerStates
  <2> QED
    BY <2>1, GotMatch
<1>7. /\ runner' = [runner EXCEPT ![r] = [code |-> "full", text |-> k.b, info |-> t, match |-> m,
                                          landmarks |-> l]]
      /\ match' = [match EXCEPT ![m].info = t]
      /\ learned' = IF l # None THEN [learned EXCEPT ![l] = Nothing] ELSE learned
      /\ idle' = idle \ {r}
      /\ info' = [info EXCEPT ![t] = [runes |-> k.b, last |-> None]]
  <2> HIDE DEF t, m, l, k
  <2> DEFINE q == [code |-> "full", text |-> None, info |-> t, match |-> runner[r].match,
                   landmarks |-> l]
  <2>1. [runner[r] EXCEPT !.info = t] = q
    BY <1>2, <1>4 DEF RunnerStates, l
  <2>2. Prologue(c, r, q, t, k.b, 0) /\ info' = [info EXCEPT ![t] = [runes |-> k.b, last |-> None]]
    BY <1>1, <2>1 DEF t, k
  <2>3. /\ q.match = runner[r].match /\ q.landmarks = l /\ q.text = None
        /\ [q EXCEPT !.text = k.b, !.match = m]
             = [code |-> "full", text |-> k.b, info |-> t, match |-> m, landmarks |-> l]
    <3> DEFINE p == [code |-> "full", text |-> k.b, info |-> t, match |-> runner[r].match,
                     landmarks |-> l]
    <3>1. [q EXCEPT !.text = k.b, !.match = m] = [[q EXCEPT !.text = k.b] EXCEPT !.match = m]
      OBVIOUS
    <3>2. [q EXCEPT !.text = k.b] = p
      OBVIOUS
    <3>3. [p EXCEPT !.match = m]
            = [code |-> "full", text |-> k.b, info |-> t, match |-> m, landmarks |-> l]
      OBVIOUS
    <3> QED
      BY <3>1, <3>2, <3>3
  <2>4. k.b # None
    BY <1>2, <1>3
  <2> HIDE DEF q
  <2> QED
    BY <2>2, <2>3, <2>4 DEF Prologue, SameRuntext, Taken, m
<1> HIDE DEF t, m
<1>8. /\ runner' \in [Runners -> RunnerStates] /\ match' \in [Matches -> MatchStates]
      /\ info' \in [Infos -> Texts] /\ learned' \in [Landmarks -> Knowledge] /\ idle' \subseteq Runners
      /\ call' \in [Callers -> Calls]
  <2>1. runner' \in [Runners -> RunnerStates]
    BY <1>2, <1>3, <1>5, <1>6, <1>7 DEF RunnerStates, Maybe
  <2>2. match' \in [Matches -> MatchStates]
    BY <1>2, <1>5, <1>6, <1>7 DEF MatchStates, Maybe
  <2>3. info' \in [Infos -> Texts]
    BY <1>2, <1>3, <1>5, <1>7 DEF Texts, Maybe
  <2>4. learned' \in [Landmarks -> Knowledge]
    BY <1>2, <1>7 DEF Knowledge, Nothing, Maybe
  <2>5. call' \in [Callers -> Calls]
    <3>1. call' = [call EXCEPT ![c] = [[k EXCEPT !.pc = "scanning"] EXCEPT !.r = r]]
      BY <1>1
    <3>2. [k EXCEPT !.pc = "scanning"] \in Calls
      BY <1>2 DEF Calls
    <3>3. \A q \in Calls : [q EXCEPT !.r = r] \in Calls
      BY DEF Calls, Maybe
    <3> QED
      BY <1>2, <3>1, <3>2, <3>3
  <2> QED
    BY <1>7, <2>1, <2>2, <2>3, <2>4, <2>5 DEF IInv, TypeOK
<1>9. /\ runner'[r] = [code |-> "full", text |-> k.b, info |-> t, match |-> m, landmarks |-> l]
      /\ \A s \in Runners \ {r} : runner'[s] = runner[s]
      /\ match'[m].info = t /\ \A n \in Matches \ {m} : match'[n] = match[n]
      /\ info'[t].runes = k.b /\ info'[t].last = None
      /\ \A u \in Infos \ {t} : info'[u] = info[u]
      /\ l # None => learned'[l] = Nothing
      /\ \A j \in Landmarks \ {l} : learned'[j] = learned[j]
      /\ l \in Maybe(Landmarks)
  BY <1>2, <1>5, <1>6, <1>7 DEF l, RunnerStates, MatchStates, Maybe
<1>10. /\ call'[c].pc = "scanning" /\ call'[c].r = r
       /\ call'[c].op = "find" /\ call'[c].input = k.input /\ call'[c].from = k.from
       /\ call'[c].w = k.w /\ call'[c].b = k.b /\ call'[c].m = None
       /\ \A d \in Callers \ {c} : call'[d] = call[d]
  BY <1>1, <1>2, <1>3 DEF Calls
<1>11. \A d \in Callers : /\ call'[d].m = call[d].m /\ call'[d].b = call[d].b /\ call'[d].w = call[d].w
                           /\ call'[d].input = call[d].input
  BY <1>3, <1>10
<1>12. /\ \A n : Held(n)' <=> Held(n)
       /\ \A n \in Matches : Held(n) => /\ match'[n] = match[n] /\ match[n].info \in Infos
                                         /\ info'[match[n].info] = info[match[n].info]
       /\ \A n \in Matches : Held(n) => RunesOf(n)' = RunesOf(n)
       /\ \A n \in Matches : Passer(n)' <=> Passer(n)
  <2>1. \A n : Held(n)' <=> Held(n)
    BY <1>3, <1>11 DEF Held
  <2>2. \A n \in Matches : Held(n) => match[n].info \in Infos
    BY <1>2 DEF IInv, TextInv, Held, Keeps
  <2>3. \A n \in Matches : Held(n) => /\ match'[n] = match[n]
                                      /\ info'[match[n].info] = info[match[n].info]
    BY <1>5, <1>6, <1>9, <2>2
  <2>4. \A n \in Matches : Held(n) => RunesOf(n)' = RunesOf(n)
    BY <2>3 DEF RunesOf
  <2>5. \A n \in Matches : Passer(n)' <=> Passer(n)
    BY <2>1, <2>3 DEF Passer
  <2> QED
    BY <2>1, <2>2, <2>3, <2>4, <2>5
<1>13. TypeOK'
  BY <1>3, <1>8 DEF IInv, TypeOK
<1>14. CallInv'
  BY <1>2, <1>3, <1>8, <1>10, <1>12 DEF IInv, CallInv, TypeOK, Held
<1>15. RunnerInv'
  <2>1. \A d, e \in Callers : call'[d].r # None /\ call'[d].r = call'[e].r => d = e
    BY <1>4, <1>10 DEF IInv, RunnerInv
  <2>2. \A d \in Callers : call'[d].r \notin idle'
    BY <1>4, <1>7, <1>10 DEF IInv, RunnerInv
  <2>3. ASSUME NEW s \in Runners, \A d \in Callers : call'[d].r # s
        PROVE  runner'[s].code = "full" /\ runner'[s].text = None
    <3>1. s # r /\ runner'[s] = runner[s]
      BY <1>9, <1>10, <2>3
    <3>2. \A d \in Callers : call[d].r # s
      BY <1>2, <1>3, <1>10, <2>3
    <3> QED
      BY <3>1, <3>2 DEF IInv, RunnerInv
  <2> QED
    BY <2>1, <2>2, <2>3 DEF RunnerInv
<1>16. MatchInv'
  BY <1>3, <1>6, <1>9, <1>11, <1>12 DEF IInv, MatchInv
<1>17. InfoInv'
  BY <1>3, <1>4, <1>5, <1>9, <1>10, <1>12 DEF IInv, InfoInv
<1>18. BufferInv'
  BY <1>3, <1>11 DEF IInv, BufferInv
<1>19. TextInv'
  <2>1. \A n \in Matches : Held(n) =>
           /\ RunesOf(n) \notin boolPool'
           /\ \A w \in Wrappers : wrap'[w] = RunesOf(n)
                 => \E d \in Callers : call'[d].w = w /\ call'[d].m = n
           /\ \A d \in Callers : call'[d].b = RunesOf(n) => call'[d].m = n
    BY <1>3, <1>11 DEF IInv, TextInv
  <2> QED
    BY <1>3, <1>11, <1>12, <2>1, TextFrame
<1>20. LandmarkInv'
  <2>1. \A s \in Runners : runner'[s].landmarks = runner[s].landmarks
    BY <1>9 DEF l
  <2>2. \A u \in Infos : info'[u].last \in {None, info[u].last}
    BY <1>9
  <2> QED
    BY <1>12, <2>1, <2>2, LandmarkFrame
<1>21. ScanInv'
  <2> SUFFICES ASSUME NEW d \in Callers, call'[d].pc = "scanning" PROVE ScansOwn(d)'
    BY DEF ScanInv
  <2>1. CASE d = c
    BY <1>5, <1>6, <1>9, <1>10, <2>1 DEF ScansOwn
  <2>2. CASE d # c
    <3> DEFINE rn == runner[call[d].r]
    <3>1. call'[d] = call[d] /\ call[d].pc = "scanning" /\ call[d].r \in Runners /\ call[d].r # r
      BY <1>2, <1>4, <1>10, <2>2 DEF IInv, CallInv, Calls, Maybe
    <3>2. /\ runner'[call[d].r] = rn
          /\ rn.match \in Matches /\ match'[rn.match].info = match[rn.match].info
          /\ call[d].op = "find" => info'[rn.info].runes = info[rn.info].runes
      BY <1>2, <1>5, <1>6, <1>9, <3>1 DEF IInv, ScanInv, ScansOwn, RunnerStates, Maybe
    <3>3. call[d].op = "next" => call[d].given \in escaped
      BY DEF IInv, CallInv
    <3> QED
      BY <1>12, <3>1, <3>2, <3>3, HeldMatches, ScanFrame DEF RunesOf
  <2> QED
    BY <2>1, <2>2
<1>22. PassedInv' /\ KnowledgeInv'
  <2>1. \A s \in Runners \ {r} : runner[s].landmarks # None
           => learned'[runner[s].landmarks] = learned[runner[s].landmarks]
    BY <1>2, <1>9 DEF IInv, LandmarkInv, RunnerStates, Maybe, l
  <2>2. \A n \in Matches : Passer(n) => learned'[match[n].landmarks] = learned[match[n].landmarks]
    BY <1>2, <1>9 DEF IInv, LandmarkInv, MatchStates, Maybe, l
  <2>3. PassedInv'
    BY <1>3, <1>11, <1>12, <2>2, PassedFrame
  <2>4. ASSUME NEW d \in Callers
        PROVE  /\ call'[d].pc = "scanning" => KnowsOwn(d)'
               /\ call'[d].pc = "scanned" /\ call'[d].op = "next" /\ call'[d].m # None => KnowsMatch(d)'
    <3>1. CASE d = c
      BY <1>9, <1>10, <3>1 DEF KnowsOwn, Nothing
    <3>2. CASE d # c /\ call[d].pc \in {"scanning", "scanned"}
      <4>1. call'[d] = call[d] /\ call[d].r \in Runners /\ call[d].r # r
        BY <1>2, <1>4, <1>10, <3>2 DEF IInv, CallInv, Calls, Maybe
      <4>2. call[d].m # None => match'[call[d].m] = match[call[d].m]
        BY <1>12, HeldMatches
      <4> QED
        BY <1>9, <2>1, <4>1, <4>2, KnowledgeFrame
    <3>3. CASE d # c /\ call[d].pc \notin {"scanning", "scanned"}
      BY <1>10, <3>3
    <3> QED
      BY <3>1, <3>2, <3>3
  <2> QED
    BY <2>3, <2>4 DEF KnowledgeInv
<1>23. ResultsAreOwn' /\ MatchesHaveCaptures'
  BY <1>10 DEF IInv, ResultsAreOwn, MatchesHaveCaptures, Found
<1> QED
  BY <1>13, <1>14, <1>15, <1>16, <1>17, <1>18, <1>19, <1>20, <1>21, <1>22, <1>23 DEF IInv
----------------------------------------------------------------------------
(* FindStringMatch: the match takes the buffer, or nobody does             *)

\* The match takes the buffer and the metadata, and the call has neither any more.
LEMMA HandOverIInv ==
    ASSUME IInv, NEW c \in Callers, HandOver(c)
    PROVE  IInv'
<1> DEFINE k == call[c]
<1>1. /\ call \in [Callers -> Calls] /\ runner \in [Runners -> RunnerStates]
      /\ wrap \in [Wrappers -> Maybe(Buffers)] /\ wrapPool \subseteq Wrappers /\ boolPool \subseteq Buffers
      /\ \A S \in {Runners, Wrappers, Buffers, Infos, Matches, Landmarks} : None \notin S
  BY ObjectAssumption DEF IInv, TypeOK
<1>2. /\ k.pc = "scanned" /\ k.op = "find" /\ k.m # None
      /\ runner' = [runner EXCEPT ![k.r].info = None]
      /\ wrap' = [wrap EXCEPT ![k.w] = None]
      /\ wrapPool' = wrapPool \cup {k.w}
      /\ call' = [call EXCEPT ![c].pc = "leaving", ![c].w = None, ![c].b = None]
      /\ UNCHANGED <<idle, boolPool, data, info, match, learned, escaped, about>>
  BY DEF HandOver, InfoAfterHandOver, Detached, users
<1>3. k.r \in Runners /\ k.w \in Wrappers
  BY <1>1, <1>2 DEF IInv, CallInv, Calls, Maybe
<1>4. /\ call' \in [Callers -> Calls]
      /\ call'[c].pc = "leaving" /\ call'[c].w = None /\ call'[c].b = None
      /\ call'[c].op = "find" /\ call'[c].input = k.input /\ call'[c].from = k.from
      /\ call'[c].r = k.r /\ call'[c].m = k.m /\ call'[c].res = k.res
      /\ \A d \in Callers \ {c} : call'[d] = call[d]
  <2>1. call' = [call EXCEPT ![c] = [[[k EXCEPT !.pc = "leaving"] EXCEPT !.w = None] EXCEPT !.b = None]]
    BY <1>2
  <2>2. [k EXCEPT !.pc = "leaving"] \in Calls
    BY <1>1 DEF Calls
  <2>3. \A q \in Calls : [q EXCEPT !.w = None] \in Calls /\ [q EXCEPT !.b = None] \in Calls
    BY DEF Calls, Maybe
  <2>4. call' \in [Callers -> Calls]
    BY <1>1, <2>1, <2>2, <2>3
  <2> QED
    BY <1>1, <1>2, <2>4 DEF Calls
<1>5. /\ runner' \in [Runners -> RunnerStates]
      /\ runner'[k.r].info = None
      /\ \A r \in Runners : /\ runner'[r].code = runner[r].code /\ runner'[r].text = runner[r].text
                            /\ runner'[r].match = runner[r].match
                            /\ runner'[r].landmarks = runner[r].landmarks
      /\ \A r \in Runners \ {k.r} : runner'[r] = runner[r]
  BY <1>1, <1>2, <1>3 DEF RunnerStates, Maybe
<1>6. /\ \A d \in Callers : call'[d].m = call[d].m /\ call'[d].r = call[d].r /\ call'[d].input = call[d].input
      /\ \A d \in Callers \ {c} : call[d].w # k.w /\ call[d].r # k.r
      /\ wrap'[k.w] = None /\ \A w \in Wrappers \ {k.w} : wrap'[w] = wrap[w]
  BY <1>1, <1>2, <1>3, <1>4 DEF IInv, BufferInv, RunnerInv
<1>7. /\ \A n : Held(n)' <=> Held(n)
      /\ \A n : RunesOf(n)' = RunesOf(n) /\ (Passer(n)' <=> Passer(n))
  BY <1>2, <1>6 DEF Held, RunesOf, Passer
<1>0. UNCHANGED <<idle, boolPool, data, info, match, learned, escaped, about>>
  BY <1>2
<1>8. TypeOK'
  BY <1>1, <1>2, <1>3, <1>4, <1>5 DEF IInv, TypeOK, Maybe
<1>9. CallInv'
  BY <1>2, <1>4, <1>1, <1>3 DEF IInv, CallInv
<1>10. RunnerInv' /\ MatchInv'
  <2>1. RunnerInv'
    BY <1>0, <1>5, <1>6 DEF IInv, RunnerInv
  <2>2. MatchInv'
    <3>1. \A r \in Runners : (runner[r].match # None => ~Held(runner[r].match))'
      <4>1. \A r \in Runners : runner[r].match # None => ~Held(runner[r].match)
        BY DEF IInv, MatchInv
      <4> QED
        BY <1>0, <1>5, <1>6, <4>1 DEF Held
    <3>2. /\ \A d, e \in Callers : call'[d].m # None /\ call'[d].m = call'[e].m => d = e
          /\ \A d \in Callers : call'[d].m \notin escaped'
      BY <1>0, <1>6 DEF IInv, MatchInv
    <3>3. \A r, s \in Runners : runner'[r].match # None /\ runner'[r].match = runner'[s].match => r = s
      BY <1>5 DEF IInv, MatchInv
    <3> QED
      BY <3>1, <3>2, <3>3 DEF MatchInv
  <2> QED
    BY <2>1, <2>2
<1>11. InfoInv'
  BY <1>2, <1>4, <1>5, <1>7 DEF IInv, InfoInv
<1>12. BufferInv'
  <2>1. \A d \in Callers : call'[d].b \notin boolPool' /\ call'[d].w \notin wrapPool'
    <3>1. wrapPool' = wrapPool \cup {k.w}
      BY <1>2
    <3> QED
      BY <1>0, <1>1, <1>3, <1>4, <1>6, <3>1 DEF IInv, BufferInv
  <2>2. /\ \A w \in Wrappers : wrap'[w] \notin boolPool'
        /\ \A v, w \in Wrappers : wrap'[v] # None /\ wrap'[v] = wrap'[w] => v = w
        /\ \A w \in Wrappers, d \in Callers :
             wrap'[w] # None /\ wrap'[w] = call'[d].b => call'[d].w = w
    BY <1>1, <1>2, <1>4, <1>6 DEF IInv, BufferInv
  <2> QED
    BY <1>2, <1>4, <2>1, <2>2 DEF IInv, BufferInv
<1>13. TextInv'
  <2>1. \A n \in Matches : Held(n) =>
           /\ RunesOf(n) \notin boolPool'
           /\ \A w \in Wrappers : wrap'[w] = RunesOf(n)
                 => \E d \in Callers : call'[d].w = w /\ call'[d].m = n
           /\ \A d \in Callers : call'[d].b = RunesOf(n) => call'[d].m = n
    <3> SUFFICES ASSUME NEW n \in Matches, Held(n)
                 PROVE  /\ RunesOf(n) \notin boolPool'
                        /\ \A w \in Wrappers : wrap'[w] = RunesOf(n)
                              => \E d \in Callers : call'[d].w = w /\ call'[d].m = n
                        /\ \A d \in Callers : call'[d].b = RunesOf(n) => call'[d].m = n
      OBVIOUS
    <3>1. RunesOf(n) # None
      BY <1>1, HeldMatches
    <3> QED
      BY <1>2, <1>3, <1>4, <1>6, <3>1 DEF IInv, TextInv
  <2> QED
    BY <1>2, <1>6, <2>1, TextFrame
<1>14. LandmarkInv'
  BY <1>2, <1>5, <1>7, LandmarkFrame
<1>15. ScanInv'
  <2> SUFFICES ASSUME NEW d \in Callers, call'[d].pc = "scanning" PROVE ScansOwn(d)'
    BY DEF ScanInv
  <2>1. call'[d] = call[d] /\ call[d].pc = "scanning" /\ call[d].r \in Runners \ {k.r}
    BY <1>1, <1>4, <1>6 DEF IInv, CallInv, Calls, Maybe
  <2> QED
    BY <1>2, <1>5, <2>1, ScanFrame
<1>16. PassedInv' /\ KnowledgeInv'
  <2>1. PassedInv'
    BY <1>2, <1>6, <1>7, PassedFrame
  <2>2. ASSUME NEW d \in Callers
        PROVE  /\ call'[d].pc = "scanning" => KnowsOwn(d)'
               /\ call'[d].pc = "scanned" /\ call'[d].op = "next" /\ call'[d].m # None => KnowsMatch(d)'
    <3>1. CASE d = c
      BY <1>4, <3>1
    <3>2. CASE d # c /\ call[d].pc \in {"scanning", "scanned"}
      <4>1. call'[d] = call[d] /\ call[d].r \in Runners
        BY <1>1, <1>4, <3>2 DEF IInv, CallInv, Calls, Maybe
      <4> QED
        BY <1>2, <1>5, <4>1, KnowledgeFrame
    <3>3. CASE d # c /\ call[d].pc \notin {"scanning", "scanned"}
      BY <1>4, <3>3
    <3> QED
      BY <3>1, <3>2, <3>3
  <2> QED
    BY <2>1, <2>2 DEF KnowledgeInv
<1>17. ResultsAreOwn' /\ MatchesHaveCaptures'
  BY <1>2, <1>4 DEF IInv, ResultsAreOwn, MatchesHaveCaptures, Found
<1> QED
  BY <1>8, <1>9, <1>10, <1>11, <1>12, <1>13, <1>14, <1>15, <1>16, <1>17 DEF IInv

\* decodedInput.release: what goes back to the pool is named by no match.
LEMMA ReleaseIInv ==
    ASSUME IInv, NEW c \in Callers, Release(c)
    PROVE  IInv'
<1> DEFINE k == call[c]
<1>1. /\ call \in [Callers -> Calls] /\ runner \in [Runners -> RunnerStates]
      /\ wrap \in [Wrappers -> Maybe(Buffers)] /\ wrapPool \subseteq Wrappers /\ boolPool \subseteq Buffers
      /\ \A S \in {Runners, Wrappers, Buffers, Infos, Matches, Landmarks} : None \notin S
  BY ObjectAssumption DEF IInv, TypeOK
<1>2. /\ k.pc = "scanned" /\ k.op = "find" /\ k.m = None
      /\ wrap' = [wrap EXCEPT ![k.w] = k.b]
      /\ wrapPool' = wrapPool \cup {k.w}
      /\ call' = [call EXCEPT ![c].pc = "leaving", ![c].w = None, ![c].b = None]
      /\ UNCHANGED <<idle, boolPool, runner, data, info, match, learned, escaped, about>>
  BY DEF Release, users
<1>3. k.r \in Runners /\ k.w \in Wrappers /\ k.b \in Buffers
  BY <1>1, <1>2 DEF IInv, CallInv, Calls, Maybe
<1>4. /\ call' \in [Callers -> Calls]
      /\ call'[c].pc = "leaving" /\ call'[c].w = None /\ call'[c].b = None
      /\ call'[c].op = "find" /\ call'[c].input = k.input /\ call'[c].from = k.from
      /\ call'[c].r = k.r /\ call'[c].m = k.m /\ call'[c].res = k.res
      /\ \A d \in Callers \ {c} : call'[d] = call[d]
  <2>1. call' = [call EXCEPT ![c] = [[[k EXCEPT !.pc = "leaving"] EXCEPT !.w = None] EXCEPT !.b = None]]
    BY <1>2
  <2>2. [k EXCEPT !.pc = "leaving"] \in Calls
    BY <1>1 DEF Calls
  <2>3. \A q \in Calls : [q EXCEPT !.w = None] \in Calls /\ [q EXCEPT !.b = None] \in Calls
    BY DEF Calls, Maybe
  <2>4. call' \in [Callers -> Calls]
    BY <1>1, <2>1, <2>2, <2>3
  <2> QED
    BY <1>1, <1>2, <2>4 DEF Calls
<1>5. /\ \A d \in Callers : call'[d].m = call[d].m /\ call'[d].r = call[d].r /\ call'[d].input = call[d].input
      /\ \A d \in Callers \ {c} : call[d].w # k.w /\ call[d].b # k.b
      /\ wrap'[k.w] = k.b /\ \A w \in Wrappers \ {k.w} : wrap'[w] = wrap[w] /\ wrap[w] # k.b
  BY <1>1, <1>2, <1>3, <1>4 DEF IInv, BufferInv
<1>6. /\ \A n : Held(n)' <=> Held(n)
      /\ \A n : RunesOf(n)' = RunesOf(n) /\ (Passer(n)' <=> Passer(n))
  BY <1>2, <1>5 DEF Held, RunesOf, Passer
<1>0. UNCHANGED <<idle, boolPool, runner, data, info, match, learned, escaped, about>>
  BY <1>2
<1>7. TypeOK'
  BY <1>1, <1>2, <1>3, <1>4 DEF IInv, TypeOK, Maybe
<1>8. CallInv'
  BY <1>1, <1>2, <1>3, <1>4 DEF IInv, CallInv
<1>9. RunnerInv' /\ MatchInv'
  <2>1. RunnerInv'
    BY <1>0, <1>5 DEF IInv, RunnerInv
  <2>2. MatchInv'
    BY <1>0, <1>5, <1>6 DEF IInv, MatchInv
  <2> QED
    BY <2>1, <2>2
<1>10. InfoInv'
  BY <1>2, <1>3, <1>4, <1>6, <1>1 DEF IInv, InfoInv
<1>11. BufferInv'
  BY <1>1, <1>2, <1>3, <1>4, <1>5 DEF IInv, BufferInv
<1>12. TextInv'
  <2>1. \A n \in Matches : Held(n) => RunesOf(n) # k.b
    BY <1>1, <1>2 DEF IInv, TextInv
  <2>2. \A n \in Matches : Held(n) =>
           /\ RunesOf(n) \notin boolPool'
           /\ \A w \in Wrappers : wrap'[w] = RunesOf(n)
                 => \E d \in Callers : call'[d].w = w /\ call'[d].m = n
           /\ \A d \in Callers : call'[d].b = RunesOf(n) => call'[d].m = n
    <3> SUFFICES ASSUME NEW n \in Matches, Held(n)
                 PROVE  /\ RunesOf(n) \notin boolPool'
                        /\ \A w \in Wrappers : wrap'[w] = RunesOf(n)
                              => \E d \in Callers : call'[d].w = w /\ call'[d].m = n
                        /\ \A d \in Callers : call'[d].b = RunesOf(n) => call'[d].m = n
      OBVIOUS
    <3>1. RunesOf(n) # None
      BY <1>1, HeldMatches
    <3> QED
      BY <1>2, <1>3, <1>4, <1>5, <2>1, <3>1 DEF IInv, TextInv
  <2> QED
    BY <1>2, <1>5, <2>2, TextFrame
<1>13. LandmarkInv'
  BY <1>2, <1>6, LandmarkFrame
<1>14. ScanInv'
  <2> SUFFICES ASSUME NEW d \in Callers, call'[d].pc = "scanning" PROVE ScansOwn(d)'
    BY DEF ScanInv
  <2>1. call'[d] = call[d] /\ call[d].pc = "scanning"
    BY <1>4
  <2> QED
    BY <1>2, <2>1, ScanFrame
<1>15. PassedInv' /\ KnowledgeInv'
  <2>1. PassedInv'
    BY <1>2, <1>5, <1>6, PassedFrame
  <2>2. ASSUME NEW d \in Callers
        PROVE  /\ call'[d].pc = "scanning" => KnowsOwn(d)'
               /\ call'[d].pc = "scanned" /\ call'[d].op = "next" /\ call'[d].m # None => KnowsMatch(d)'
    <3>1. CASE d = c
      BY <1>4, <3>1
    <3>2. CASE d # c
      BY <1>2, <1>4, <3>2, KnowledgeFrame
    <3> QED
      BY <3>1, <3>2
  <2> QED
    BY <2>1, <2>2 DEF KnowledgeInv
<1>16. ResultsAreOwn' /\ MatchesHaveCaptures'
  BY <1>2, <1>4 DEF IInv, ResultsAreOwn, MatchesHaveCaptures, Found
<1> QED
  BY <1>7, <1>8, <1>9, <1>10, <1>11, <1>12, <1>13, <1>14, <1>15, <1>16 DEF IInv
----------------------------------------------------------------------------
(* Leaving                                                                 *)

\* pooledRuneBuffers.put: MatchString's buffer is named by no match.
LEMMA PutBufferIInv ==
    ASSUME IInv, NEW c \in Callers, PutBuffer(c)
    PROVE  IInv'
<1> DEFINE k == call[c]
<1>1. /\ call \in [Callers -> Calls] /\ boolPool \subseteq Buffers
      /\ \A S \in {Runners, Wrappers, Buffers, Infos, Matches, Landmarks} : None \notin S
  BY ObjectAssumption DEF IInv, TypeOK
<1>2. /\ k.pc = "giving" /\ k.op = "bool" /\ k.m = None /\ k.r = None /\ k.w = None /\ k.b # None
      /\ call' = [call EXCEPT ![c] = NoCall]
      /\ boolPool' = boolPool \cup {k.b}
      /\ UNCHANGED <<idle, wrapPool, runner, wrap, data, info, match, learned, escaped, about>>
  BY DEF PutBuffer, Return, IInv, CallInv, heap
<1>3. k.b \in Buffers
  BY <1>1, <1>2 DEF Calls, Maybe
<1>4. /\ call' \in [Callers -> Calls]
      /\ call'[c] = NoCall
      /\ \A d \in Callers \ {c} : call'[d] = call[d]
      /\ \A d \in Callers : call'[d].m = call[d].m /\ call'[d].r = call[d].r /\ call'[d].w = call[d].w
      /\ \A d \in Callers : call'[d].b # None => d # c
  BY <1>1, <1>2 DEF NoCall, Calls, Maybe, None
<1>5. /\ \A d \in Callers \ {c} : call[d].b # k.b
      /\ \A w \in Wrappers : wrap[w] # k.b
      /\ \A n \in Matches : Held(n) => RunesOf(n) # k.b
  BY <1>1, <1>2 DEF IInv, BufferInv, TextInv
<1>6. /\ \A n : Held(n)' <=> Held(n)
      /\ \A n : RunesOf(n)' = RunesOf(n) /\ (Passer(n)' <=> Passer(n))
  BY <1>2, <1>4 DEF Held, RunesOf, Passer
<1>7. TypeOK'
  BY <1>1, <1>2, <1>3, <1>4 DEF IInv, TypeOK
<1>8. CallInv'
  BY <1>2, <1>4 DEF IInv, CallInv, NoCall
<1>9. RunnerInv' /\ MatchInv'
  <2>1. RunnerInv'
    BY <1>2, <1>4 DEF IInv, RunnerInv
  <2>2. MatchInv'
    BY <1>2, <1>4, <1>6 DEF IInv, MatchInv
  <2> QED
    BY <2>1, <2>2
<1>10. InfoInv'
  BY <1>2, <1>4, <1>6 DEF IInv, InfoInv
<1>11. BufferInv'
  BY <1>1, <1>2, <1>4, <1>5 DEF IInv, BufferInv
<1>12. TextInv'
  <2>1. \A n \in Matches : Held(n) =>
           /\ RunesOf(n) \notin boolPool'
           /\ \A w \in Wrappers : wrap'[w] = RunesOf(n)
                 => \E d \in Callers : call'[d].w = w /\ call'[d].m = n
           /\ \A d \in Callers : call'[d].b = RunesOf(n) => call'[d].m = n
    <3> SUFFICES ASSUME NEW n \in Matches, Held(n)
                 PROVE  /\ RunesOf(n) \notin boolPool'
                        /\ \A w \in Wrappers : wrap'[w] = RunesOf(n)
                              => \E d \in Callers : call'[d].w = w /\ call'[d].m = n
                        /\ \A d \in Callers : call'[d].b = RunesOf(n) => call'[d].m = n
      OBVIOUS
    <3>1. RunesOf(n) # None
      BY <1>1, HeldMatches
    <3> QED
      BY <1>2, <1>4, <1>5, <3>1 DEF IInv, TextInv
  <2>2. \A d \in Callers : call[d].m # None => call'[d].input = call[d].input
    BY <1>2, <1>4
  <2> QED
    BY <1>2, <1>4, <2>1, <2>2, TextFrame
<1>13. LandmarkInv'
  BY <1>2, <1>6, LandmarkFrame
<1>14. ScanInv'
  <2> SUFFICES ASSUME NEW d \in Callers, call'[d].pc = "scanning" PROVE ScansOwn(d)'
    BY DEF ScanInv
  <2>1. call'[d] = call[d] /\ call[d].pc = "scanning"
    BY <1>4 DEF NoCall
  <2> QED
    BY <1>2, <2>1, ScanFrame
<1>15. PassedInv' /\ KnowledgeInv'
  <2>1. PassedInv'
    <3>1. \A d \in Callers : call[d].m # None => call'[d].input = call[d].input
      BY <1>2, <1>4
    <3> QED
      BY <1>2, <1>4, <1>6, <3>1, PassedFrame
  <2>2. ASSUME NEW d \in Callers
        PROVE  /\ call'[d].pc = "scanning" => KnowsOwn(d)'
               /\ call'[d].pc = "scanned" /\ call'[d].op = "next" /\ call'[d].m # None => KnowsMatch(d)'
    <3>1. CASE d = c
      BY <1>4, <3>1 DEF NoCall
    <3>2. CASE d # c
      BY <1>2, <1>4, <3>2, KnowledgeFrame
    <3> QED
      BY <3>1, <3>2
  <2> QED
    BY <2>1, <2>2 DEF KnowledgeInv
<1>16. ResultsAreOwn' /\ MatchesHaveCaptures'
  BY <1>4 DEF IInv, ResultsAreOwn, MatchesHaveCaptures, Found, NoCall
<1> QED
  BY <1>7, <1>8, <1>9, <1>10, <1>11, <1>12, <1>13, <1>14, <1>15, <1>16 DEF IInv

\* putRunner: an idle runner keeps nothing that a call or a match may still use.
LEMMA PutRunnerIInv ==
    ASSUME IInv, NEW c \in Callers, PutRunner(c)
    PROVE  IInv'
<1> DEFINE k == call[c]
           rn == runner[k.r]
<1>1. /\ call \in [Callers -> Calls] /\ runner \in [Runners -> RunnerStates]
      /\ info \in [Infos -> Texts] /\ match \in [Matches -> MatchStates]
      /\ about \in [Matches -> Maybe(Inputs)]
      /\ \A S \in {Runners, Wrappers, Buffers, Infos, Matches, Landmarks} : None \notin S
  BY ObjectAssumption DEF IInv, TypeOK
<1>2. /\ UNCHANGED <<wrapPool, boolPool, wrap, data, learned>>
      /\ k.pc \in {"scanned", "leaving"} /\ k.op # "none"
      /\ ~(k.pc = "scanned" /\ k.op = "find")
      /\ k.op = "bool" => k.m = None
      /\ k.w = None /\ (k.op # "bool" => k.b = None)
  <2>1. /\ UNCHANGED <<wrapPool, boolPool, wrap, data, learned>>
        /\ \/ k.pc = "leaving"
           \/ k.pc = "scanned" /\ (k.op = "bool" \/ (k.op = "next" /\ k.m = None))
    BY DEF PutRunner
  <2> QED
    BY <2>1 DEF IInv, CallInv
<1>3. rn \in RunnerStates /\ k.r \in Runners
  BY <1>1, <1>2 DEF IInv, CallInv, Calls, Maybe
<1>4. /\ runner' = [runner EXCEPT ![k.r].code = "full", ![k.r].text = None]
      /\ match' = IF rn.match = None THEN match ELSE [match EXCEPT ![rn.match].info = None]
      /\ info' = IF rn.info = None THEN info
                 ELSE [info EXCEPT ![rn.info] = [runes |-> None, last |-> None]]
      /\ idle' = idle \cup {k.r}
  BY DEF PutRunner, PutCode, PutText
<1>5. /\ escaped' = escaped \cup ({k.m} \ {None})
      /\ about' = IF k.m = None THEN about ELSE [about EXCEPT ![k.m] = k.input]
      /\ call' = IF k.op = "bool" THEN [call EXCEPT ![c].pc = "giving", ![c].r = None]
                 ELSE [call EXCEPT ![c] = NoCall]
  BY <1>2 DEF PutRunner, Return, users
<1>6. /\ call' \in [Callers -> Calls]
      /\ \A d \in Callers \ {c} : call'[d] = call[d]
      /\ call'[c].m = None /\ call'[c].r = None /\ call'[c].w = None /\ call'[c].b = k.b
      /\ \/ call'[c] = NoCall
         \/ /\ call'[c].pc = "giving" /\ call'[c].op = "bool" /\ k.op = "bool"
            /\ call'[c].input = k.input /\ call'[c].from = k.from /\ call'[c].res = k.res
  <2>1. CASE k.op = "bool"
    <3>1. call' = [call EXCEPT ![c] = [[k EXCEPT !.pc = "giving"] EXCEPT !.r = None]]
      BY <1>5, <2>1
    <3>2. [k EXCEPT !.pc = "giving"] \in Calls
      BY <1>1 DEF Calls
    <3>3. \A q \in Calls : [q EXCEPT !.r = None] \in Calls
      BY DEF Calls, Maybe
    <3>4. call' \in [Callers -> Calls]
      BY <1>1, <3>1, <3>2, <3>3
    <3>5. call' = [call EXCEPT ![c].pc = "giving", ![c].r = None]
      BY <1>5, <2>1
    <3> QED
      BY <1>1, <1>2, <2>1, <3>4, <3>5 DEF Calls
  <2>2. CASE k.op # "bool"
    BY <1>1, <1>2, <1>5, <2>2 DEF NoCall, Calls, Maybe, None
  <2> QED
    BY <2>1, <2>2
<1>7. /\ runner' \in [Runners -> RunnerStates]
      /\ runner'[k.r].code = "full" /\ runner'[k.r].text = None
      /\ \A r \in Runners : /\ runner'[r].info = runner[r].info /\ runner'[r].match = runner[r].match
                            /\ runner'[r].landmarks = runner[r].landmarks
      /\ \A r \in Runners \ {k.r} : runner'[r] = runner[r]
  <2>1. runner' = [runner EXCEPT ![k.r] = [[rn EXCEPT !.code = "full"] EXCEPT !.text = None]]
    BY <1>4
  <2>2. \A q \in RunnerStates : [q EXCEPT !.code = "full"] \in RunnerStates
                                  /\ [q EXCEPT !.text = None] \in RunnerStates
    BY DEF RunnerStates, Maybe
  <2>3. runner' \in [Runners -> RunnerStates]
    BY <1>1, <1>3, <2>1, <2>2
  <2> QED
    BY <1>1, <1>3, <1>4, <2>3 DEF RunnerStates
<1>8. /\ match' \in [Matches -> MatchStates] /\ info' \in [Infos -> Texts]
      /\ escaped' \subseteq Matches /\ about' \in [Matches -> Maybe(Inputs)] /\ idle' \subseteq Runners
  <2>1. match' \in [Matches -> MatchStates] /\ info' \in [Infos -> Texts]
    BY <1>1, <1>3, <1>4 DEF MatchStates, Texts, RunnerStates, Maybe
  <2>2. k.m \in Maybe(Matches) /\ k.input \in Maybe(Inputs)
    BY <1>1 DEF Calls
  <2>3. escaped' \subseteq Matches /\ about' \in [Matches -> Maybe(Inputs)] /\ idle' \subseteq Runners
    BY <1>1, <1>3, <1>4, <1>5, <2>2 DEF IInv, TypeOK, Maybe
  <2> QED
    BY <2>1, <2>3
<1>9. /\ \A d \in Callers \ {c} : call[d].r # k.r
      /\ \A d \in Callers \ {c} : k.m # None => call[d].m # k.m
      /\ k.m \notin escaped
  BY <1>1, <1>3 DEF IInv, RunnerInv, MatchInv
<1>10. \A n \in Matches : Held(n)' <=> Held(n)
  <2> SUFFICES ASSUME NEW n \in Matches PROVE Held(n)' <=> Held(n)
    OBVIOUS
  <2>1. n # None /\ (n \in escaped' <=> n \in escaped \/ n = k.m)
    BY <1>1, <1>5
  <2>2. (\E d \in Callers : call'[d].m = n) <=> (\E d \in Callers \ {c} : call[d].m = n)
    BY <1>6, <2>1
  <2> QED
    BY <2>1, <2>2 DEF Held
<1>11. \A n \in Matches : Held(n) => /\ match'[n] = match[n] /\ match[n].info \in Infos
                                      /\ info'[match[n].info] = info[match[n].info]
  <2> SUFFICES ASSUME NEW n \in Matches, Held(n)
               PROVE  /\ match'[n] = match[n] /\ match[n].info \in Infos
                      /\ info'[match[n].info] = info[match[n].info]
    OBVIOUS
  <2>1. match[n].info \in Infos
    BY HeldMatches
  <2>2. rn.match # None => rn.match # n
    BY <1>3 DEF IInv, MatchInv
  <2>3. rn.info # None => rn.info # match[n].info
    BY <1>2, <1>3, <1>9 DEF IInv, InfoInv
  <2> QED
    BY <1>1, <1>4, <2>1, <2>2, <2>3
<1>12. /\ \A n \in Matches : Held(n) => RunesOf(n)' = RunesOf(n)
       /\ \A n \in Matches : Passer(n)' <=> Passer(n)
  BY <1>10, <1>11 DEF RunesOf, Passer
<1>13. /\ \A n \in escaped : n \in Matches /\ Held(n) /\ about'[n] = about[n]
       /\ k.m # None => k.m \in Matches /\ Held(k.m) /\ about'[k.m] = k.input
  BY <1>1, <1>5, <1>9, HeldMatches
<1> HIDE DEF rn
<1>14. TypeOK'
  BY <1>2, <1>6, <1>7, <1>8 DEF IInv, TypeOK
<1>15. CallInv'
  <2>1. ASSUME NEW d \in Callers \ {c}, call[d].op = "next"
        PROVE  /\ call[d].given \in escaped' /\ call[d].input = about'[call[d].given]
               /\ call[d].from = match'[call[d].given].pos
    <3>1. call[d].given \in escaped /\ call[d].input = about[call[d].given]
          /\ call[d].from = match[call[d].given].pos
      BY <2>1 DEF IInv, CallInv
    <3> QED
      BY <1>5, <1>11, <1>13, <3>1
  <2>2. call'[c].pc # "idle" => call'[c].input \in Inputs /\ call'[c].b # None
    BY <1>2, <1>6 DEF IInv, CallInv, NoCall
  <2> QED
    BY <1>2, <1>6, <2>1, <2>2 DEF IInv, CallInv, NoCall
<1>16. RunnerInv'
  <2>1. \A d, e \in Callers : call'[d].r # None /\ call'[d].r = call'[e].r => d = e
    BY <1>6 DEF IInv, RunnerInv
  <2>2. \A d \in Callers : call'[d].r \notin idle'
    <3>1. idle' = idle \cup {k.r} /\ None \notin idle'
      BY <1>1, <1>4, <1>8
    <3> QED
      BY <1>6, <1>9, <3>1 DEF IInv, RunnerInv
  <2>3. ASSUME NEW s \in Runners, \A d \in Callers : call'[d].r # s
        PROVE  runner'[s].code = "full" /\ runner'[s].text = None
    <3>1. CASE s = k.r
      BY <1>7, <3>1
    <3>2. CASE s # k.r
      <4>1. \A d \in Callers : call[d].r # s
        BY <1>6, <2>3, <3>2
      <4> QED
        BY <1>7, <3>2, <4>1 DEF IInv, RunnerInv
    <3> QED
      BY <3>1, <3>2
  <2> QED
    BY <2>1, <2>2, <2>3 DEF RunnerInv
<1>17. MatchInv'
  <2>1. \A d, e \in Callers : call'[d].m # None /\ call'[d].m = call'[e].m => d = e
    BY <1>6 DEF IInv, MatchInv
  <2>2. \A d \in Callers : call'[d].m \notin escaped'
    <3>1. None \notin escaped'
      BY <1>1, <1>8
    <3> QED
      BY <1>5, <1>6, <1>9, <3>1 DEF IInv, MatchInv
  <2>3. \A r, s \in Runners : runner'[r].match # None /\ runner'[r].match = runner'[s].match => r = s
    BY <1>7 DEF IInv, MatchInv
  <2>4. ASSUME NEW r \in Runners, runner'[r].match # None PROVE (~Held(runner[r].match))'
    <3>1. runner[r].match \in Matches /\ ~Held(runner[r].match) /\ runner'[r].match = runner[r].match
      BY <1>1, <1>7, <2>4 DEF IInv, MatchInv, RunnerStates, Maybe
    <3>2. \A n \in Matches : (n \in escaped' \/ \E d \in Callers : call'[d].m = n) <=> Held(n)
      BY <1>10 DEF Held
    <3> QED
      BY <3>1, <3>2 DEF Held
  <2> QED
    BY <2>1, <2>2, <2>3, <2>4 DEF MatchInv
<1>18. InfoInv'
  <2>1. ASSUME NEW n \in Matches, NEW r \in Runners,
               Held(n)', runner'[r].info # None, match'[n].info = runner'[r].info
        PROVE  \E d \in Callers : /\ call'[d].r = r /\ call'[d].m = n
                                  /\ call'[d].pc = "scanned" /\ call'[d].op = "find"
    <3>1. Held(n) /\ runner[r].info # None /\ match[n].info = runner[r].info
      BY <1>7, <1>10, <1>11, <2>1
    <3> QED
      BY <1>2, <1>6, <3>1 DEF IInv, InfoInv
  <2>2. \A r, s \in Runners : runner'[r].info # None /\ runner'[r].info = runner'[s].info => r = s
    BY <1>7 DEF IInv, InfoInv
  <2> QED
    BY <2>1, <2>2 DEF InfoInv
<1>19. BufferInv'
  <2>1. \A d \in Callers : /\ call'[d].b = call[d].b /\ call'[d].w = call[d].w
                           /\ call[d].b # None => call'[d].input = call[d].input
    BY <1>2, <1>6 DEF NoCall
  <2> QED
    BY <1>2, <2>1 DEF IInv, BufferInv
<1>20. TextInv'
  <2>1. \A n \in escaped' : Keeps(n, about[n])'
    <3>1. \A n \in escaped : n \in Matches /\ Held(n) /\ about'[n] = about[n] /\ Keeps(n, about[n])
      BY <1>13 DEF IInv, TextInv
    <3>2. k.m # None => k.m \in Matches /\ Held(k.m) /\ about'[k.m] = k.input /\ Keeps(k.m, k.input)
      BY <1>13 DEF IInv, TextInv
    <3>3. \A n \in escaped' : /\ n \in Matches /\ match'[n] = match[n] /\ Keeps(n, about'[n])
                              /\ info'[match[n].info] = info[match[n].info]
      BY <1>5, <1>11, <3>1, <3>2
    <3> QED
      BY <1>2, <3>3 DEF Keeps, RunesOf
  <2>2. \A d \in Callers : (call[d].m # None => Keeps(call[d].m, call[d].input))'
    <3>1. \A d \in Callers \ {c} : call[d].m # None =>
             /\ Keeps(call[d].m, call[d].input) /\ match'[call[d].m] = match[call[d].m]
             /\ info'[match[call[d].m].info] = info[match[call[d].m].info]
      BY <1>11, HeldMatches DEF IInv, TextInv
    <3> QED
      BY <1>2, <1>6, <3>1 DEF Keeps, RunesOf
  <2>3. \A n \in Matches : Held(n) =>
           /\ RunesOf(n) \notin boolPool'
           /\ \A w \in Wrappers : wrap'[w] = RunesOf(n)
                 => \E d \in Callers : call'[d].w = w /\ call'[d].m = n
           /\ \A d \in Callers : call'[d].b = RunesOf(n) => call'[d].m = n
    <3> SUFFICES ASSUME NEW n \in Matches, Held(n)
                 PROVE  /\ RunesOf(n) \notin boolPool'
                        /\ \A w \in Wrappers : wrap'[w] = RunesOf(n)
                              => \E d \in Callers : call'[d].w = w /\ call'[d].m = n
                        /\ \A d \in Callers : call'[d].b = RunesOf(n) => call'[d].m = n
      OBVIOUS
    <3>1. RunesOf(n) # None
      BY <1>1, HeldMatches
    <3>2. \A w \in Wrappers : wrap[w] = RunesOf(n) => \E d \in Callers \ {c} : call[d].w = w /\ call[d].m = n
      BY <1>1, <1>2 DEF IInv, TextInv
    <3>3. call[c].b # RunesOf(n)
      BY <1>1, <1>2, <3>1 DEF IInv, TextInv
    <3> QED
      BY <1>2, <1>6, <3>2, <3>3 DEF IInv, TextInv
  <2> QED
    BY <1>10, <1>12, <2>1, <2>2, <2>3 DEF TextInv
<1>21. LandmarkInv'
  <2>1. \A u \in Infos : info'[u].last \in {None, info[u].last}
    BY <1>1, <1>4
  <2> QED
    BY <1>7, <1>10, <1>11, <1>12, <2>1, LandmarkFrame
<1>22. ScanInv'
  <2> SUFFICES ASSUME NEW d \in Callers, call'[d].pc = "scanning" PROVE ScansOwn(d)'
    BY DEF ScanInv
  <2> DEFINE sn == runner[call[d].r]
  <2>1. call'[d] = call[d] /\ call[d].pc = "scanning" /\ call[d].r \in Runners \ {k.r}
    <3>1. d # c
      BY <1>6 DEF NoCall
    <3> QED
      BY <1>1, <1>6, <1>9, <3>1 DEF IInv, CallInv, Calls, Maybe
  <2>2. /\ runner'[call[d].r] = sn
        /\ match'[sn.match].info = match[sn.match].info
        /\ call[d].op = "find" => info'[sn.info].runes = info[sn.info].runes
    <3>1. sn.match \in Matches /\ (call[d].op = "find" => sn.info \in Infos)
      BY <1>1, <2>1 DEF IInv, ScanInv, ScansOwn, RunnerStates, Maybe
    <3>2. rn.match # None => rn.match # sn.match
      BY <1>3, <2>1 DEF IInv, MatchInv, rn
    <3>3. rn.info # None => rn.info # sn.info
      BY <1>3, <2>1 DEF IInv, InfoInv, rn
    <3> QED
      BY <1>1, <1>4, <1>7, <2>1, <3>1, <3>2, <3>3
  <2>3. call[d].op = "next" => call[d].given \in escaped
    BY DEF IInv, CallInv
  <2> QED
    BY <1>11, <1>13, <2>1, <2>2, <2>3, ScanFrame
<1>23. PassedInv'
  <2>1. \A n \in escaped' : (Passer(n) =>
           learned[match[n].landmarks] = [text |-> about[n], from |-> match[n].pos])'
    <3>1. \A n \in escaped : Passer(n) =>
             learned[match[n].landmarks] = [text |-> about'[n], from |-> match[n].pos]
      BY <1>13 DEF IInv, PassedInv
    <3>2. k.m # None /\ Passer(k.m) =>
             learned[match[k.m].landmarks] = [text |-> about'[k.m], from |-> match[k.m].pos]
      BY <1>13 DEF IInv, PassedInv
    <3>3. \A n \in escaped' : n \in Matches /\ match'[n] = match[n]
      BY <1>5, <1>11, <1>13
    <3> QED
      BY <1>2, <1>5, <1>12, <3>1, <3>2, <3>3
  <2>2. ASSUME NEW d \in Callers, (call[d].m # None /\ Passer(call[d].m))'
        PROVE  (learned[match[call[d].m].landmarks] = [text |-> call[d].input, from |-> match[call[d].m].pos])'
    <3> DEFINE m == call[d].m
    <3>1. call'[d] = call[d] /\ m # None /\ m \in Matches /\ match'[m] = match[m]
      BY <1>6, <1>11, <2>2, HeldMatches
    <3>2. Passer(m)
      <4>1. \A n \in Matches : (n \in escaped' \/ \E e \in Callers : call'[e].m = n)
                                 /\ info'[match'[n].info].last = n => Passer(n)
        BY <1>12 DEF Passer, Held
      <4> QED
        BY <2>2, <3>1, <4>1 DEF Passer, Held
    <3> QED
      BY <1>2, <3>1, <3>2 DEF IInv, PassedInv
  <2> QED
    BY <2>1, <2>2 DEF PassedInv
<1>24. KnowledgeInv'
  <2> SUFFICES ASSUME NEW d \in Callers
               PROVE  /\ call'[d].pc = "scanning" => KnowsOwn(d)'
                      /\ call'[d].pc = "scanned" /\ call'[d].op = "next" /\ call'[d].m # None => KnowsMatch(d)'
    BY DEF KnowledgeInv
  <2>1. CASE d = c
    BY <1>6, <2>1 DEF NoCall
  <2>2. CASE d # c /\ call[d].pc \in {"scanning", "scanned"}
    <3>1. call'[d] = call[d] /\ call[d].r \in Runners \ {k.r}
      BY <1>1, <1>6, <1>9, <2>2 DEF IInv, CallInv, Calls, Maybe
    <3>2. call[d].m # None => match'[call[d].m].pos = match[call[d].m].pos
      BY <1>11, HeldMatches
    <3> QED
      BY <1>2, <1>7, <3>1, <3>2, KnowledgeFrame
  <2>3. CASE d # c /\ call[d].pc \notin {"scanning", "scanned"}
    BY <1>6, <2>3
  <2> QED
    BY <2>1, <2>2, <2>3
<1>25. ResultsAreOwn' /\ MatchesHaveCaptures'
  BY <1>2, <1>6 DEF IInv, ResultsAreOwn, MatchesHaveCaptures, Found, NoCall
<1> QED
  BY <1>14, <1>15, <1>16, <1>17, <1>18, <1>19, <1>20, <1>21, <1>22, <1>23, <1>24, <1>25 DEF IInv
----------------------------------------------------------------------------
(* FindNextMatch: the landmark searches are passed on                      *)

\* The landmarks pass from the runner to the match that was found, and have one owner.
LEMMA PassLandmarksOnIInv ==
    ASSUME IInv, NEW c \in Callers, PassLandmarksOn(c)
    PROVE  IInv'
<1> DEFINE k == call[c]
           l == runner[k.r].landmarks
           t == match[k.m].info
<1>1. /\ call \in [Callers -> Calls] /\ runner \in [Runners -> RunnerStates]
      /\ info \in [Infos -> Texts] /\ match \in [Matches -> MatchStates]
      /\ \A S \in {Runners, Wrappers, Buffers, Infos, Matches, Landmarks} : None \notin S
  BY ObjectAssumption DEF IInv, TypeOK
<1>2. /\ k.pc = "scanned" /\ k.op = "next" /\ k.m # None
      /\ match' = [match EXCEPT ![k.m].landmarks = l]
      /\ runner' = [runner EXCEPT ![k.r].landmarks = None]
      /\ info' = [info EXCEPT ![t].last = k.m]
      /\ call' = [call EXCEPT ![c].pc = "leaving"]
      /\ UNCHANGED <<idle, wrapPool, boolPool, wrap, data, learned, escaped, about>>
  BY DEF PassLandmarksOn, pools, users
<1>3. /\ k.r \in Runners /\ k.m \in Matches /\ Held(k.m) /\ t \in Infos /\ k.m \notin escaped
      /\ l # None /\ learned[l] = [text |-> k.input, from |-> match[k.m].pos]
  <2>1. k.r \in Runners
    BY <1>1, <1>2 DEF IInv, CallInv, Calls, Maybe
  <2>2. l # None /\ learned[l] = [text |-> k.input, from |-> match[k.m].pos]
    BY <1>2 DEF IInv, KnowledgeInv, KnowsMatch
  <2>3. k.m \notin escaped
    BY DEF IInv, MatchInv
  <2> QED
    BY <1>2, <2>1, <2>2, <2>3, HeldMatches
<1> HIDE DEF l, t
<1>4. /\ call' \in [Callers -> Calls]
      /\ call'[c].pc = "leaving" /\ call'[c].op = "next" /\ call'[c].given = k.given
      /\ \A d \in Callers : /\ call'[d].m = call[d].m /\ call'[d].r = call[d].r
                            /\ call'[d].w = call[d].w /\ call'[d].b = call[d].b
                            /\ call'[d].input = call[d].input /\ call'[d].from = call[d].from
                            /\ call'[d].res = call[d].res
      /\ \A d \in Callers \ {c} : call'[d] = call[d]
  BY <1>1, <1>2 DEF Calls
<1>5. /\ runner' \in [Runners -> RunnerStates]
      /\ runner'[k.r].landmarks = None
      /\ \A r \in Runners : /\ runner'[r].code = runner[r].code /\ runner'[r].text = runner[r].text
                            /\ runner'[r].match = runner[r].match /\ runner'[r].info = runner[r].info
      /\ \A r \in Runners \ {k.r} : runner'[r] = runner[r]
  BY <1>1, <1>2, <1>3 DEF RunnerStates, Maybe
<1>6. /\ match' \in [Matches -> MatchStates]
      /\ match'[k.m].landmarks = l
      /\ \A n \in Matches : match'[n].info = match[n].info /\ match'[n].pos = match[n].pos
      /\ \A n \in Matches \ {k.m} : match'[n] = match[n]
  <2>1. l \in Maybe(Landmarks)
    BY <1>1, <1>3 DEF RunnerStates, l
  <2> QED
    BY <1>1, <1>2, <1>3, <2>1 DEF MatchStates, Maybe
<1>7. /\ info' \in [Infos -> Texts]
      /\ info'[t].last = k.m
      /\ \A u \in Infos : info'[u].runes = info[u].runes
      /\ \A u \in Infos \ {t} : info'[u] = info[u]
  BY <1>1, <1>2, <1>3 DEF Texts, Maybe
<1>0. UNCHANGED <<idle, wrapPool, boolPool, wrap, data, learned, escaped, about>>
  BY <1>2
<1>8. /\ \A n : Held(n)' <=> Held(n)
      /\ \A n \in Matches : Held(n) => RunesOf(n)' = RunesOf(n)
      /\ \A n \in Matches \ {k.m} : Passer(n)' => Passer(n)
  <2>1. \A n : Held(n)' <=> Held(n)
    BY <1>0, <1>4 DEF Held
  <2>2. \A n \in Matches : Held(n) => RunesOf(n)' = RunesOf(n)
    BY <1>6, <1>7, HeldMatches DEF RunesOf
  <2>3. \A n \in Matches \ {k.m} : Held(n) /\ info'[match'[n].info].last = n => Passer(n)
    BY <1>6, <1>7, HeldMatches DEF Passer
  <2> QED
    BY <2>1, <2>2, <2>3 DEF Passer
<1>9. TypeOK'
  BY <1>0, <1>4, <1>5, <1>6, <1>7 DEF IInv, TypeOK
<1>10. CallInv'
  <2>1. \A d \in Callers : call[d].op = "next" => call[d].given \in escaped /\ call[d].given \in Matches
    BY HeldMatches DEF IInv, CallInv
  <2> QED
    BY <1>0, <1>2, <1>4, <1>6, <2>1 DEF IInv, CallInv
<1>11. RunnerInv' /\ MatchInv'
  <2>1. RunnerInv'
    BY <1>0, <1>4, <1>5 DEF IInv, RunnerInv
  <2>2. \A r \in Runners : (runner[r].match # None => ~Held(runner[r].match))'
    <3>1. \A r \in Runners : runner[r].match # None => ~Held(runner[r].match)
      BY DEF IInv, MatchInv
    <3> QED
      BY <1>0, <1>4, <1>5, <3>1 DEF Held
  <2>3. /\ \A d, e \in Callers : call'[d].m # None /\ call'[d].m = call'[e].m => d = e
        /\ \A d \in Callers : call'[d].m \notin escaped'
    BY <1>0, <1>4 DEF IInv, MatchInv
  <2>4. \A r, s \in Runners : runner'[r].match # None /\ runner'[r].match = runner'[s].match => r = s
    BY <1>5 DEF IInv, MatchInv
  <2> QED
    BY <2>1, <2>2, <2>3, <2>4 DEF MatchInv
<1>12. InfoInv'
  <2>1. ASSUME NEW n \in Matches, NEW r \in Runners,
               Held(n)', runner'[r].info # None, match'[n].info = runner'[r].info
        PROVE  \E d \in Callers : /\ call'[d].r = r /\ call'[d].m = n
                                  /\ call'[d].pc = "scanned" /\ call'[d].op = "find"
    <3>1. Held(n) /\ runner[r].info # None /\ match[n].info = runner[r].info
      BY <1>5, <1>6, <1>8, <2>1
    <3> QED
      BY <1>2, <1>4, <3>1 DEF IInv, InfoInv
  <2>2. \A r, s \in Runners : runner'[r].info # None /\ runner'[r].info = runner'[s].info => r = s
    BY <1>5 DEF IInv, InfoInv
  <2> QED
    BY <2>1, <2>2 DEF InfoInv
<1>13. BufferInv'
  BY <1>0, <1>4 DEF IInv, BufferInv
<1>14. TextInv'
  <2>1. \A n \in Matches : Held(n) =>
           /\ RunesOf(n) \notin boolPool'
           /\ \A w \in Wrappers : wrap'[w] = RunesOf(n)
                 => \E d \in Callers : call'[d].w = w /\ call'[d].m = n
           /\ \A d \in Callers : call'[d].b = RunesOf(n) => call'[d].m = n
    BY <1>0, <1>4 DEF IInv, TextInv
  <2>2. \A n \in Matches : Held(n) =>
           match'[n].info = match[n].info /\ info'[match[n].info].runes = info[match[n].info].runes
    BY <1>6, <1>7, HeldMatches
  <2> QED
    BY <1>0, <1>4, <2>1, <2>2, TextFrame
<1>15. LandmarkInv'
  <2>1. \A r, s \in Runners : runner'[r].landmarks # None /\ runner'[r].landmarks = runner'[s].landmarks
                                => r = s
    BY <1>5 DEF IInv, LandmarkInv
  <2>2. ASSUME NEW u \in Infos, info'[u].last # None
        PROVE  Held(info[u].last)' /\ match'[info'[u].last].info = u
    <3>1. CASE u = t
      <4>1. k.m \in escaped' \/ \E d \in Callers : call'[d].m = k.m
        BY <1>4
      <4> QED
        BY <1>3, <1>6, <1>7, <3>1, <4>1 DEF Held, t
    <3>2. CASE u # t
      <4>1. info'[u].last = info[u].last /\ info[u].last \in Matches
        BY <1>1, <1>7, <2>2, <3>2 DEF Texts, Maybe
      <4>2. Held(info[u].last) /\ match[info[u].last].info = u
        BY <2>2, <4>1 DEF IInv, LandmarkInv
      <4>3. info'[u].last \in escaped' \/ \E d \in Callers : call'[d].m = info'[u].last
        BY <1>0, <1>4, <4>1, <4>2 DEF Held
      <4> QED
        BY <1>6, <4>1, <4>2, <4>3 DEF Held
    <3> QED
      BY <3>1, <3>2
  <2>3. \A n \in Matches \ {k.m} : Passer(n)' =>
           /\ match'[n] = match[n] /\ match[n].landmarks # None /\ match[n].landmarks # l
           /\ \A r \in Runners : runner'[r].landmarks # match[n].landmarks
    BY <1>3, <1>5, <1>6, <1>8 DEF IInv, LandmarkInv, l
  <2>4. \A r \in Runners : runner'[r].landmarks # l
    BY <1>3, <1>5 DEF IInv, LandmarkInv, l
  <2>5. \A n \in Matches : Passer(n)' =>
           match'[n].landmarks # None /\ \A r \in Runners : runner'[r].landmarks # match'[n].landmarks
    BY <1>3, <1>6, <2>3, <2>4
  <2>6. \A n, o \in Matches : Passer(n)' /\ Passer(o)' /\ match'[n].landmarks = match'[o].landmarks
                                => n = o
    <3>1. \A n, o \in Matches \ {k.m} : Passer(n)' /\ Passer(o)' /\ match'[n].landmarks = match'[o].landmarks
                                => n = o
      BY <1>8, <2>3 DEF IInv, LandmarkInv
    <3> QED
      BY <1>6, <2>3, <3>1
  <2> QED
    BY <2>1, <2>2, <2>5, <2>6 DEF LandmarkInv
<1>16. ScanInv'
  <2> SUFFICES ASSUME NEW d \in Callers, call'[d].pc = "scanning" PROVE ScansOwn(d)'
    BY DEF ScanInv
  <2> DEFINE sn == runner[call[d].r]
  <2>1. call'[d] = call[d] /\ call[d].pc = "scanning" /\ call[d].r \in Runners \ {k.r}
    <3>1. d # c
      BY <1>4
    <3> QED
      BY <1>1, <1>3, <1>4, <3>1 DEF IInv, CallInv, RunnerInv, Calls, Maybe
  <2>2. /\ runner'[call[d].r] = sn
        /\ match'[sn.match].info = match[sn.match].info
        /\ call[d].op = "find" => info'[sn.info].runes = info[sn.info].runes
    <3>1. sn.match \in Matches /\ (call[d].op = "find" => sn.info \in Infos)
      BY <1>1, <2>1 DEF IInv, ScanInv, ScansOwn, RunnerStates, Maybe
    <3> QED
      BY <1>5, <1>6, <1>7, <2>1, <3>1
  <2>3. call[d].op = "next" =>
          LET m == call[d].given IN
          match'[m].info = match[m].info /\ info'[match[m].info].runes = info[match[m].info].runes
    <3>1. call[d].op = "next" => call[d].given \in escaped
      BY DEF IInv, CallInv
    <3> QED
      BY <1>6, <1>7, <3>1, HeldMatches
  <2> QED
    BY <2>1, <2>2, <2>3, ScanFrame
<1>17. PassedInv'
  <2>1. \A n \in escaped' : (Passer(n) =>
           learned[match[n].landmarks] = [text |-> about[n], from |-> match[n].pos])'
    <3>1. \A n \in escaped : n \in Matches \ {k.m}
      BY <1>3, HeldMatches
    <3> QED
      BY <1>0, <1>6, <1>8, <3>1 DEF IInv, PassedInv
  <2>2. ASSUME NEW d \in Callers, (call[d].m # None /\ Passer(call[d].m))'
        PROVE  (learned[match[call[d].m].landmarks] = [text |-> call[d].input, from |-> match[call[d].m].pos])'
    <3> DEFINE m == call[d].m
    <3>1. m # None /\ m \in Matches /\ call'[d].m = m
      BY <1>4, <2>2, HeldMatches
    <3>2. CASE d = c
      BY <1>0, <1>3, <1>4, <1>6, <3>2
    <3>3. CASE d # c
      <4>1. m # k.m /\ match'[m] = match[m]
        BY <1>6, <3>1, <3>3 DEF IInv, MatchInv
      <4>2. Passer(m)
        <5>1. \A n \in Matches \ {k.m} : (n \in escaped' \/ \E e \in Callers : call'[e].m = n)
                                           /\ info'[match'[n].info].last = n => Passer(n)
          BY <1>8 DEF Passer, Held
        <5> QED
          BY <2>2, <3>1, <4>1, <5>1 DEF Passer, Held
      <4> QED
        BY <1>0, <1>4, <3>1, <4>1, <4>2 DEF IInv, PassedInv
    <3> QED
      BY <3>2, <3>3
  <2> QED
    BY <2>1, <2>2 DEF PassedInv
<1>18. KnowledgeInv'
  <2> SUFFICES ASSUME NEW d \in Callers
               PROVE  /\ call'[d].pc = "scanning" => KnowsOwn(d)'
                      /\ call'[d].pc = "scanned" /\ call'[d].op = "next" /\ call'[d].m # None => KnowsMatch(d)'
    BY DEF KnowledgeInv
  <2>1. CASE d = c
    BY <1>4, <2>1
  <2>2. CASE d # c /\ call[d].pc \in {"scanning", "scanned"}
    <3>1. call'[d] = call[d] /\ call[d].r \in Runners \ {k.r}
      BY <1>1, <1>3, <1>4, <2>2 DEF IInv, CallInv, RunnerInv, Calls, Maybe
    <3>2. call[d].m # None => match'[call[d].m].pos = match[call[d].m].pos
      BY <1>6, HeldMatches
    <3> QED
      BY <1>0, <1>5, <3>1, <3>2, KnowledgeFrame
  <2>3. CASE d # c /\ call[d].pc \notin {"scanning", "scanned"}
    BY <1>4, <2>3
  <2> QED
    BY <2>1, <2>2, <2>3
<1>19. ResultsAreOwn' /\ MatchesHaveCaptures'
  BY <1>2, <1>4 DEF IInv, ResultsAreOwn, MatchesHaveCaptures, Found
<1> QED
  BY <1>9, <1>10, <1>11, <1>12, <1>13, <1>14, <1>15, <1>16, <1>17, <1>18, <1>19 DEF IInv
----------------------------------------------------------------------------
(* MatchString and FindNextMatch: the prologue of a scan                   *)

\* A buffer that MatchString takes is no call's, no wrapper's and no match's.
LEMMA GotBuffer ==
    ASSUME IInv, NEW b \in Buffers,
           b \in boolPool \/ (Buffers \ LiveBuffers # {} /\ GetsBuffer(b))
    PROVE  /\ \A d \in Callers : call[d].b # b
           /\ \A w \in Wrappers : wrap[w] # b
           /\ \A m \in Matches : Held(m) => RunesOf(m) # b
<1>1. CASE b \in boolPool
  BY <1>1 DEF IInv, BufferInv, TextInv
<1>2. CASE b \notin boolPool
  <2>1. b \notin LiveBuffers
    BY <1>2 DEF GetsBuffer, Some
  <2>2. (\A d \in Callers : call[d].b # b) /\ (\A w \in Wrappers : wrap[w] # b)
    BY <2>1 DEF LiveBuffers
  <2>3. ASSUME NEW m \in Matches, Held(m) PROVE RunesOf(m) # b
    <3>1. m # None /\ match[m].info \in Infos /\ None \notin Infos
      BY <2>3, HeldMatches, ObjectAssumption
    <3>2. m \in LiveMatches \ {None}
      BY <2>3, <3>1 DEF LiveMatches, Held
    <3>3. match[m].info \in LiveInfos \ {None}
      BY <3>1, <3>2 DEF LiveInfos
    <3> QED
      BY <2>1, <3>3 DEF LiveBuffers, RunesOf
  <2> QED
    BY <2>2, <2>3
<1> QED
  BY <1>1, <1>2

\* MatchString: a runner and a pooled buffer of the call's own.
LEMMA BeginBoolIInv ==
    ASSUME IInv, NEW c \in Callers, NEW x \in Inputs, BeginBool(c, x)
    PROVE  IInv'
<1>1. PICK r \in Runners, b \in Buffers :
         /\ GetsRunner(r)
         /\ b \in boolPool \/ (Buffers \ LiveBuffers # {} /\ GetsBuffer(b))
         /\ boolPool' = boolPool \ {b}
         /\ data' = [data EXCEPT ![b] = x]
         /\ Prologue(c, r, [runner[r] EXCEPT !.code = "quick"], None, b, 0)
         /\ call' = [call EXCEPT ![c] = [NoCall EXCEPT !.pc = "scanning", !.op = "bool",
                                                       !.input = x, !.r = r, !.b = b]]
  BY DEF BeginBool
<1> DEFINE m == IF runner[r].match # None THEN runner[r].match ELSE Some(Matches \ LiveMatches)
           l == runner[r].landmarks
<1>2. /\ call \in [Callers -> Calls] /\ runner \in [Runners -> RunnerStates]
      /\ match \in [Matches -> MatchStates] /\ learned \in [Landmarks -> Knowledge]
      /\ data \in [Buffers -> Maybe(Inputs)] /\ idle \subseteq Runners
      /\ \A S \in {Runners, Wrappers, Buffers, Infos, Matches, Landmarks} : None \notin S
  BY ObjectAssumption DEF IInv, TypeOK
<1>3. UNCHANGED <<wrapPool, wrap, info, escaped, about>> /\ call[c].pc = "idle"
  BY DEF BeginBool, users
<1>4. /\ \A d \in Callers : call[d].r # r
      /\ runner[r].code = "full" /\ runner[r].text = None
  BY <1>1, GotRunner
<1>5. /\ \A d \in Callers : call[d].b # b
      /\ \A w \in Wrappers : wrap[w] # b
      /\ \A n \in Matches : Held(n) => RunesOf(n) # b
  BY <1>1, GotBuffer
<1>6. /\ m \in Matches /\ m # None /\ ~Held(m)
      /\ \A s \in Runners : runner[s].match = m => s = r
  <2>1. runner[r].match # None \/ Matches \ LiveMatches # {}
    BY <1>1, <1>2 DEF Prologue, RunnerStates
  <2> QED
    BY <2>1, GotMatch
<1>7. /\ runner' = [runner EXCEPT ![r] = [code |-> "quick", text |-> b, info |-> runner[r].info,
                                          match |-> m, landmarks |-> l]]
      /\ match' = [match EXCEPT ![m].info = None]
      /\ learned' = IF l # None THEN [learned EXCEPT ![l] = Nothing] ELSE learned
      /\ idle' = idle \ {r}
  <2> HIDE DEF m, l
  <2> DEFINE q == [code |-> "quick", text |-> None, info |-> runner[r].info,
                   match |-> runner[r].match, landmarks |-> l]
  <2>1. [runner[r] EXCEPT !.code = "quick"] = q
    BY <1>2, <1>4 DEF RunnerStates, l
  <2>2. Prologue(c, r, q, None, b, 0)
    BY <1>1, <2>1
  <2>3. /\ q.match = runner[r].match /\ q.landmarks = l /\ q.text = None
        /\ [q EXCEPT !.text = b, !.match = m]
             = [code |-> "quick", text |-> b, info |-> runner[r].info, match |-> m, landmarks |-> l]
    <3> DEFINE p == [code |-> "quick", text |-> b, info |-> runner[r].info,
                     match |-> runner[r].match, landmarks |-> l]
    <3>1. [q EXCEPT !.text = b, !.match = m] = [[q EXCEPT !.text = b] EXCEPT !.match = m]
      OBVIOUS
    <3>2. [q EXCEPT !.text = b] = p
      OBVIOUS
    <3>3. [p EXCEPT !.match = m]
            = [code |-> "quick", text |-> b, info |-> runner[r].info, match |-> m, landmarks |-> l]
      OBVIOUS
    <3> QED
      BY <3>1, <3>2, <3>3
  <2>4. b # None
    BY <1>2
  <2> HIDE DEF q
  <2> QED
    BY <2>2, <2>3, <2>4 DEF Prologue, SameRuntext, Taken, m
<1> HIDE DEF m
<1>8. /\ runner' \in [Runners -> RunnerStates] /\ match' \in [Matches -> MatchStates]
      /\ learned' \in [Landmarks -> Knowledge] /\ idle' \subseteq Runners
      /\ data' \in [Buffers -> Maybe(Inputs)] /\ boolPool' \subseteq Buffers
  <2>1. runner' \in [Runners -> RunnerStates]
    BY <1>2, <1>6, <1>7 DEF RunnerStates, Maybe
  <2>2. match' \in [Matches -> MatchStates]
    BY <1>2, <1>6, <1>7 DEF MatchStates, Maybe
  <2>3. learned' \in [Landmarks -> Knowledge]
    BY <1>2, <1>7 DEF Knowledge, Nothing, Maybe
  <2>4. data' \in [Buffers -> Maybe(Inputs)] /\ boolPool' \subseteq Buffers
    BY <1>1, <1>2 DEF IInv, TypeOK, Maybe
  <2> QED
    BY <1>2, <1>7, <2>1, <2>2, <2>3, <2>4
<1>9. /\ runner'[r] = [code |-> "quick", text |-> b, info |-> runner[r].info, match |-> m, landmarks |-> l]
      /\ \A s \in Runners \ {r} : runner'[s] = runner[s]
      /\ \A s \in Runners : runner'[s].info = runner[s].info /\ runner'[s].landmarks = runner[s].landmarks
      /\ \A n \in Matches \ {m} : match'[n] = match[n]
      /\ l # None => learned'[l] = Nothing
      /\ \A j \in Landmarks \ {l} : learned'[j] = learned[j]
      /\ l \in Maybe(Landmarks)
      /\ data'[b] = x /\ \A e \in Buffers \ {b} : data'[e] = data[e]
      /\ b \notin boolPool' /\ boolPool' \subseteq boolPool
  BY <1>1, <1>2, <1>6, <1>7 DEF l, RunnerStates, Maybe
<1>10. /\ call' \in [Callers -> Calls]
       /\ call'[c] = [pc |-> "scanning", op |-> "bool", input |-> x, from |-> 0, r |-> r, w |-> None,
                      b |-> b, given |-> None, res |-> [pos |-> None, full |-> FALSE], m |-> None]
       /\ \A d \in Callers \ {c} : call'[d] = call[d]
  BY <1>1, <1>2 DEF NoCall, Calls, Maybe, None
<1>11. /\ call[c].m = None /\ call[c].w = None /\ call[c].b = None /\ call[c].r = None
       /\ \A d \in Callers : call'[d].m = call[d].m /\ call'[d].w = call[d].w
  BY <1>3, <1>10 DEF IInv, CallInv
<1>12. /\ \A n : Held(n)' <=> Held(n)
       /\ \A n \in Matches : Held(n) => match'[n] = match[n]
       /\ \A n \in Matches : Held(n) => RunesOf(n)' = RunesOf(n) /\ data'[RunesOf(n)] = data[RunesOf(n)]
       /\ \A n \in Matches : Passer(n)' <=> Passer(n)
  <2>1. \A n : Held(n)' <=> Held(n)
    BY <1>3, <1>11 DEF Held
  <2>2. \A n \in Matches : Held(n) => match'[n] = match[n]
    BY <1>6, <1>9
  <2>3. \A n \in Matches : Held(n) => RunesOf(n)' = RunesOf(n) /\ data'[RunesOf(n)] = data[RunesOf(n)]
    <3>1. \A n \in Matches : Held(n) => RunesOf(n)' = RunesOf(n)
      BY <1>3, <2>2 DEF RunesOf
    <3> QED
      BY <1>5, <1>9, <3>1, HeldMatches
  <2>4. \A n \in Matches : Passer(n)' <=> Passer(n)
    BY <1>3, <2>1, <2>2 DEF Passer
  <2> QED
    BY <2>1, <2>2, <2>3, <2>4
<1>13. TypeOK'
  BY <1>3, <1>8, <1>10 DEF IInv, TypeOK
<1>14. CallInv'
  <2>1. \A d \in Callers : call[d].op = "next" => call[d].given \in Matches /\ Held(call[d].given)
    BY HeldMatches DEF IInv, CallInv
  <2> QED
    BY <1>2, <1>3, <1>10, <1>12, <2>1 DEF IInv, CallInv
<1>15. RunnerInv'
  <2>1. \A d, e \in Callers : call'[d].r # None /\ call'[d].r = call'[e].r => d = e
    BY <1>4, <1>10 DEF IInv, RunnerInv
  <2>2. \A d \in Callers : call'[d].r \notin idle'
    BY <1>4, <1>7, <1>10 DEF IInv, RunnerInv
  <2>3. ASSUME NEW s \in Runners, \A d \in Callers : call'[d].r # s
        PROVE  runner'[s].code = "full" /\ runner'[s].text = None
    <3>1. s # r /\ runner'[s] = runner[s]
      BY <1>9, <1>10, <2>3
    <3>2. \A d \in Callers : call[d].r # s
      BY <1>2, <1>10, <1>11, <2>3
    <3> QED
      BY <3>1, <3>2 DEF IInv, RunnerInv
  <2> QED
    BY <2>1, <2>2, <2>3 DEF RunnerInv
<1>16. MatchInv'
  BY <1>3, <1>6, <1>9, <1>11, <1>12 DEF IInv, MatchInv
<1>17. InfoInv'
  <2>1. ASSUME NEW n \in Matches, NEW s \in Runners,
               Held(n)', runner'[s].info # None, match'[n].info = runner'[s].info
        PROVE  \E d \in Callers : /\ call'[d].r = s /\ call'[d].m = n
                                  /\ call'[d].pc = "scanned" /\ call'[d].op = "find"
    <3>1. Held(n) /\ runner[s].info # None /\ match[n].info = runner[s].info
      BY <1>9, <1>12, <2>1
    <3> QED
      BY <1>3, <1>10, <3>1 DEF IInv, InfoInv
  <2>2. \A q, s \in Runners : runner'[q].info # None /\ runner'[q].info = runner'[s].info => q = s
    BY <1>9 DEF IInv, InfoInv
  <2> QED
    BY <2>1, <2>2 DEF InfoInv
<1>18. BufferInv'
  <2>1. \A d \in Callers : call'[d].b # None => data'[call'[d].b] = call'[d].input
    <3>1. \A d \in Callers \ {c} : call[d].b # None => call[d].b \in Buffers \ {b}
      BY <1>2, <1>5 DEF Calls, Maybe
    <3> QED
      BY <1>9, <1>10, <3>1 DEF IInv, BufferInv
  <2>2. \A d \in Callers : call'[d].b \notin boolPool' /\ call'[d].w \notin wrapPool'
    BY <1>3, <1>9, <1>10, <1>11 DEF IInv, BufferInv
  <2>3. \A w \in Wrappers, d \in Callers : wrap'[w] # None /\ wrap'[w] = call'[d].b => call'[d].w = w
    BY <1>3, <1>5, <1>10 DEF IInv, BufferInv
  <2>4. /\ \A d, e \in Callers : call'[d].b # None /\ call'[d].b = call'[e].b => d = e
        /\ \A d, e \in Callers : call'[d].w # None /\ call'[d].w = call'[e].w => d = e
    BY <1>5, <1>10, <1>11 DEF IInv, BufferInv
  <2>5. /\ \A v, w \in Wrappers : wrap'[v] # None /\ wrap'[v] = wrap'[w] => v = w
        /\ \A w \in Wrappers : wrap'[w] \notin boolPool'
    BY <1>3, <1>9 DEF IInv, BufferInv
  <2> QED
    BY <2>1, <2>2, <2>3, <2>4, <2>5 DEF BufferInv
<1>19. TextInv'
  <2>1. \A n \in Matches : Held(n) =>
           /\ RunesOf(n) \notin boolPool'
           /\ \A w \in Wrappers : wrap'[w] = RunesOf(n)
                 => \E d \in Callers : call'[d].w = w /\ call'[d].m = n
           /\ \A d \in Callers : call'[d].b = RunesOf(n) => call'[d].m = n
    BY <1>3, <1>5, <1>9, <1>10, <1>11 DEF IInv, TextInv
  <2>2. \A d \in Callers : call[d].m # None => call'[d].input = call[d].input
    BY <1>10, <1>11
  <2> QED
    BY <1>3, <1>11, <1>12, <2>1, <2>2, TextFrame
<1>20. LandmarkInv'
  BY <1>3, <1>9, <1>12, LandmarkFrame
<1>21. ScanInv'
  <2> SUFFICES ASSUME NEW d \in Callers, call'[d].pc = "scanning" PROVE ScansOwn(d)'
    BY DEF ScanInv
  <2>1. CASE d = c
    BY <1>6, <1>9, <1>10, <2>1 DEF ScansOwn
  <2>2. CASE d # c
    <3> DEFINE rn == runner[call[d].r]
    <3>1. call'[d] = call[d] /\ call[d].pc = "scanning" /\ call[d].r \in Runners /\ call[d].r # r
      BY <1>2, <1>4, <1>10, <2>2 DEF IInv, CallInv, Calls, Maybe
    <3>2. /\ runner'[call[d].r] = rn
          /\ rn.match \in Matches /\ match'[rn.match].info = match[rn.match].info
      BY <1>2, <1>6, <1>9, <3>1 DEF IInv, ScanInv, ScansOwn, RunnerStates, Maybe
    <3>3. call[d].op = "next" => call[d].given \in escaped
      BY DEF IInv, CallInv
    <3> QED
      BY <1>3, <1>12, <3>1, <3>2, <3>3, HeldMatches, ScanFrame
  <2> QED
    BY <2>1, <2>2
<1>22. PassedInv' /\ KnowledgeInv'
  <2>1. \A s \in Runners \ {r} : runner[s].landmarks # None
           => learned'[runner[s].landmarks] = learned[runner[s].landmarks]
    BY <1>2, <1>9 DEF IInv, LandmarkInv, RunnerStates, Maybe, l
  <2>2. \A n \in Matches : Passer(n) => learned'[match[n].landmarks] = learned[match[n].landmarks]
    BY <1>2, <1>9 DEF IInv, LandmarkInv, MatchStates, Maybe, l
  <2>3. PassedInv'
    <3>1. \A d \in Callers : call[d].m # None => call'[d].input = call[d].input
      BY <1>10, <1>11
    <3> QED
      BY <1>3, <1>11, <1>12, <2>2, <3>1, PassedFrame
  <2>4. ASSUME NEW d \in Callers
        PROVE  /\ call'[d].pc = "scanning" => KnowsOwn(d)'
               /\ call'[d].pc = "scanned" /\ call'[d].op = "next" /\ call'[d].m # None => KnowsMatch(d)'
    <3>1. CASE d = c
      BY <1>9, <1>10, <3>1 DEF KnowsOwn, Nothing
    <3>2. CASE d # c /\ call[d].pc \in {"scanning", "scanned"}
      <4>1. call'[d] = call[d] /\ call[d].r \in Runners /\ call[d].r # r
        BY <1>2, <1>4, <1>10, <3>2 DEF IInv, CallInv, Calls, Maybe
      <4>2. call[d].m # None => match'[call[d].m] = match[call[d].m]
        BY <1>12, HeldMatches
      <4> QED
        BY <1>9, <2>1, <4>1, <4>2, KnowledgeFrame
    <3>3. CASE d # c /\ call[d].pc \notin {"scanning", "scanned"}
      BY <1>10, <3>3
    <3> QED
      BY <3>1, <3>2, <3>3
  <2> QED
    BY <2>3, <2>4 DEF KnowledgeInv
<1>23. ResultsAreOwn' /\ MatchesHaveCaptures'
  BY <1>10 DEF IInv, ResultsAreOwn, MatchesHaveCaptures, Found
<1> QED
  BY <1>13, <1>14, <1>15, <1>16, <1>17, <1>18, <1>19, <1>20, <1>21, <1>22, <1>23 DEF IInv

\* FindNextMatch: the scan reads the text of the given match; its landmarks are taken once.
LEMMA BeginNextIInv ==
    ASSUME IInv, NEW c \in Callers, NEW g \in Matches, BeginNext(c, g)
    PROVE  IInv'
<1> DEFINE t == match[g].info
           b == info[t].runes
           Given(r) == IF TakesLandmarks(g)
                         THEN [runner[r] EXCEPT !.landmarks = match[g].landmarks, !.text = b]
                         ELSE runner[r]
<1>1. PICK r \in Runners :
        /\ GetsRunner(r)
        /\ Prologue(c, r, Given(r), t, b, match[g].pos)
        /\ call' = [call EXCEPT ![c] = [NoCall EXCEPT !.pc = "scanning", !.op = "next",
                                                      !.input = about[g], !.from = match[g].pos,
                                                      !.r = r, !.given = g]]
  BY DEF BeginNext
<1> DEFINE m == IF runner[r].match # None THEN runner[r].match ELSE Some(Matches \ LiveMatches)
           l == runner[r].landmarks
           Takes == TakesLandmarks(g)
           nl == IF Takes THEN match[g].landmarks ELSE l
<1>2. /\ call \in [Callers -> Calls] /\ runner \in [Runners -> RunnerStates]
      /\ match \in [Matches -> MatchStates] /\ learned \in [Landmarks -> Knowledge]
      /\ info \in [Infos -> Texts] /\ idle \subseteq Runners
      /\ about \in [Matches -> Maybe(Inputs)]
      /\ \A S \in {Runners, Wrappers, Buffers, Infos, Matches, Landmarks} : None \notin S
  BY ObjectAssumption DEF IInv, TypeOK
<1>3. /\ UNCHANGED <<wrapPool, boolPool, wrap, data, escaped, about>>
      /\ call[c].pc = "idle" /\ g \in escaped
      /\ info' = IF Takes THEN [info EXCEPT ![t].last = None] ELSE info
  BY DEF BeginNext, users
<1>4. /\ \A d \in Callers : call[d].r # r
      /\ runner[r].code = "full" /\ runner[r].text = None
  BY <1>1, GotRunner
<1>5. /\ Held(g) /\ t \in Infos /\ b \in Buffers /\ about[g] \in Inputs /\ b = RunesOf(g)
      /\ Takes <=> Passer(g)
  BY <1>3 DEF IInv, TextInv, Keeps, RunesOf, Held, Passer, TakesLandmarks
<1>6. /\ m \in Matches /\ m # None /\ ~Held(m)
      /\ \A s \in Runners : runner[s].match = m => s = r
  <2>1. Given(r).match = runner[r].match
    BY <1>2 DEF RunnerStates
  <2>2. runner[r].match # None \/ Matches \ LiveMatches # {}
    BY <1>1, <2>1 DEF Prologue
  <2> QED
    BY <2>2, GotMatch
<1> HIDE DEF Takes
<1>7. /\ runner' = [runner EXCEPT ![r] = [code |-> "full", text |-> b, info |-> runner[r].info,
                                          match |-> m, landmarks |-> nl]]
      /\ match' = [match EXCEPT ![m].info = t]
      /\ learned' = IF ~Takes /\ l # None THEN [learned EXCEPT ![l] = Nothing] ELSE learned
      /\ idle' = idle \ {r}
  <2> HIDE DEF m, l, nl, t, b
  <2> DEFINE q == [code |-> "full", text |-> IF Takes THEN b ELSE None, info |-> runner[r].info,
                   match |-> runner[r].match, landmarks |-> nl]
  <2>1. Given(r) = q
    <3>1. runner[r] = [code |-> "full", text |-> None, info |-> runner[r].info,
                       match |-> runner[r].match, landmarks |-> l]
      BY <1>2, <1>4 DEF RunnerStates, l
    <3>2. CASE Takes
      <4> DEFINE j == match[g].landmarks
                 u == runner[r]
      <4> HIDE DEF j
      <4>1. Given(r) = [u EXCEPT !.landmarks = j, !.text = b]
        BY <3>2 DEF Takes, j
      <4>2. [u EXCEPT !.landmarks = j]
              = [code |-> "full", text |-> None, info |-> runner[r].info,
                 match |-> runner[r].match, landmarks |-> j]
        BY <3>1
      <4> HIDE DEF u
      <4>3. [u EXCEPT !.landmarks = j, !.text = b] = [[u EXCEPT !.landmarks = j] EXCEPT !.text = b]
        OBVIOUS
      <4>4. nl = j
        BY <3>2 DEF nl, j
      <4> QED
        BY <3>2, <4>1, <4>2, <4>3, <4>4
    <3>3. CASE ~Takes
      BY <3>1, <3>3 DEF Takes, nl
    <3> QED
      BY <3>2, <3>3
  <2>2. Prologue(c, r, q, t, b, match[g].pos)
    BY <1>1, <2>1 DEF t, b
  <2>3. /\ q.match = runner[r].match /\ q.landmarks = nl /\ q.text = IF Takes THEN b ELSE None
        /\ [q EXCEPT !.text = b, !.match = m]
             = [code |-> "full", text |-> b, info |-> runner[r].info, match |-> m, landmarks |-> nl]
    <3> DEFINE p == [code |-> "full", text |-> b, info |-> runner[r].info,
                     match |-> runner[r].match, landmarks |-> nl]
    <3>1. [q EXCEPT !.text = b, !.match = m] = [[q EXCEPT !.text = b] EXCEPT !.match = m]
      OBVIOUS
    <3>2. [q EXCEPT !.text = b] = p
      OBVIOUS
    <3>3. [p EXCEPT !.match = m]
            = [code |-> "full", text |-> b, info |-> runner[r].info, match |-> m, landmarks |-> nl]
      OBVIOUS
    <3> QED
      BY <3>1, <3>2, <3>3
  <2>4. b # None
    BY <1>2, <1>5 DEF b, t
  <2> HIDE DEF q
  <2>5. /\ runner' = [runner EXCEPT ![r] = [q EXCEPT !.text = b, !.match = m]]
        /\ match' = [match EXCEPT ![m].info = t]
        /\ learned' = IF nl # None /\ ~(q.text = b) THEN [learned EXCEPT ![nl] = Nothing] ELSE learned
        /\ idle' = idle \ {r}
    BY <2>2, <2>3 DEF Prologue, SameRuntext, Taken, m
  <2> QED
    BY <2>3, <2>4, <2>5 DEF nl
<1> HIDE DEF m, nl
<1>8. /\ runner' \in [Runners -> RunnerStates] /\ match' \in [Matches -> MatchStates]
      /\ learned' \in [Landmarks -> Knowledge] /\ idle' \subseteq Runners
      /\ info' \in [Infos -> Texts]
  <2>1. nl \in Maybe(Landmarks)
    BY <1>2 DEF nl, RunnerStates, MatchStates
  <2>2. runner' \in [Runners -> RunnerStates]
    BY <1>2, <1>5, <1>6, <1>7, <2>1 DEF RunnerStates, Maybe
  <2>3. match' \in [Matches -> MatchStates]
    BY <1>2, <1>5, <1>6, <1>7 DEF MatchStates, Maybe
  <2>4. learned' \in [Landmarks -> Knowledge]
    BY <1>2, <1>7 DEF Knowledge, Nothing, Maybe
  <2>5. info' \in [Infos -> Texts]
    BY <1>2, <1>3, <1>5 DEF Texts, Maybe
  <2> QED
    BY <1>2, <1>7, <2>2, <2>3, <2>4, <2>5
<1>9. /\ runner'[r] = [code |-> "full", text |-> b, info |-> runner[r].info, match |-> m, landmarks |-> nl]
      /\ \A s \in Runners \ {r} : runner'[s] = runner[s]
      /\ \A s \in Runners : runner'[s].info = runner[s].info
      /\ match'[m].info = t /\ \A n \in Matches \ {m} : match'[n] = match[n]
      /\ ~Takes /\ l # None => learned'[l] = Nothing
      /\ \A j \in Landmarks \ {l} : learned'[j] = learned[j]
      /\ Takes => learned' = learned
      /\ l \in Maybe(Landmarks)
      /\ \A u \in Infos : info'[u].runes = info[u].runes /\ info'[u].last \in {None, info[u].last}
      /\ Takes => info'[t].last = None
  <2>1. /\ \A u \in Infos : info'[u].runes = info[u].runes /\ info'[u].last \in {None, info[u].last}
        /\ Takes => info'[t].last = None
    BY <1>2, <1>3, <1>5 DEF Texts
  <2> QED
    BY <1>2, <1>6, <1>7, <2>1 DEF l, RunnerStates, MatchStates, Maybe
<1> HIDE DEF l, t, b
<1>10. /\ call' \in [Callers -> Calls]
       /\ call'[c] = [pc |-> "scanning", op |-> "next", input |-> about[g], from |-> match[g].pos, r |-> r,
                      w |-> None, b |-> None, given |-> g, res |-> [pos |-> None, full |-> FALSE],
                      m |-> None]
       /\ \A d \in Callers \ {c} : call'[d] = call[d]
  BY <1>1, <1>2 DEF NoCall, Calls, MatchStates, Maybe, None
<1>11. /\ call[c].m = None /\ call[c].w = None /\ call[c].b = None /\ call[c].r = None
       /\ \A d \in Callers : /\ call'[d].m = call[d].m /\ call'[d].w = call[d].w /\ call'[d].b = call[d].b
                             /\ call[d].m # None => call'[d].input = call[d].input
                             /\ call[d].b # None => call'[d].input = call[d].input
  BY <1>3, <1>10 DEF IInv, CallInv
<1>12. /\ \A n : Held(n)' <=> Held(n)
       /\ \A n \in Matches : Held(n) => match'[n] = match[n] /\ n # m
       /\ \A n \in Matches : Held(n) => RunesOf(n)' = RunesOf(n)
       /\ \A n \in Matches : Passer(n)' => Passer(n)
       /\ \A n \in Matches : Passer(n)' /\ Takes => n # g
  <2>1. \A n : Held(n)' <=> Held(n)
    BY <1>3, <1>11 DEF Held
  <2>2. \A n \in Matches : Held(n) => match'[n] = match[n] /\ n # m
    BY <1>6, <1>9
  <2>3. \A n \in Matches : Held(n) => RunesOf(n)' = RunesOf(n)
    BY <1>9, <2>2, HeldMatches DEF RunesOf
  <2>4. \A n \in Matches : Held(n) /\ info'[match'[n].info].last = n => Passer(n)
    BY <1>2, <1>9, <2>2, HeldMatches DEF Passer
  <2>5. Takes => info'[match'[g].info].last = None
    BY <1>5, <1>9, <2>2 DEF t
  <2>6. \A n \in Matches : Passer(n)' => Held(n) /\ info'[match'[n].info].last = n
    BY <2>1 DEF Passer
  <2> QED
    BY <1>2, <2>1, <2>2, <2>3, <2>4, <2>5, <2>6
<1>0. UNCHANGED <<wrapPool, boolPool, wrap, data, escaped, about>> /\ call[c].pc = "idle" /\ g \in escaped
  BY <1>3
<1>13. TypeOK'
  BY <1>0, <1>8, <1>10 DEF IInv, TypeOK
<1>14. CallInv'
  <2>1. \A d \in Callers : call[d].op = "next" => call[d].given \in Matches /\ Held(call[d].given)
    BY HeldMatches DEF IInv, CallInv
  <2> QED
    BY <1>0, <1>2, <1>5, <1>10, <1>12, <2>1 DEF IInv, CallInv
<1>15. RunnerInv'
  <2>1. \A d, e \in Callers : call'[d].r # None /\ call'[d].r = call'[e].r => d = e
    BY <1>4, <1>10 DEF IInv, RunnerInv
  <2>2. \A d \in Callers : call'[d].r \notin idle'
    BY <1>4, <1>7, <1>10 DEF IInv, RunnerInv
  <2>3. ASSUME NEW s \in Runners, \A d \in Callers : call'[d].r # s
        PROVE  runner'[s].code = "full" /\ runner'[s].text = None
    <3>1. s # r /\ runner'[s] = runner[s]
      BY <1>9, <1>10, <2>3
    <3>2. \A d \in Callers : call[d].r # s
      BY <1>2, <1>10, <1>11, <2>3
    <3> QED
      BY <3>1, <3>2 DEF IInv, RunnerInv
  <2> QED
    BY <2>1, <2>2, <2>3 DEF RunnerInv
<1>16. MatchInv'
  BY <1>0, <1>6, <1>9, <1>11, <1>12 DEF IInv, MatchInv
<1>17. InfoInv'
  <2>1. ASSUME NEW n \in Matches, NEW s \in Runners,
               Held(n)', runner'[s].info # None, match'[n].info = runner'[s].info
        PROVE  \E d \in Callers : /\ call'[d].r = s /\ call'[d].m = n
                                  /\ call'[d].pc = "scanned" /\ call'[d].op = "find"
    <3>1. Held(n) /\ runner[s].info # None /\ match[n].info = runner[s].info
      BY <1>9, <1>12, <2>1
    <3> QED
      BY <1>0, <1>10, <3>1 DEF IInv, InfoInv
  <2>2. \A q, s \in Runners : runner'[q].info # None /\ runner'[q].info = runner'[s].info => q = s
    BY <1>9 DEF IInv, InfoInv
  <2> QED
    BY <2>1, <2>2 DEF InfoInv
<1>18. BufferInv'
  BY <1>0, <1>11 DEF IInv, BufferInv
<1>19. TextInv'
  <2>1. \A n \in Matches : Held(n) =>
           /\ RunesOf(n) \notin boolPool'
           /\ \A w \in Wrappers : wrap'[w] = RunesOf(n)
                 => \E d \in Callers : call'[d].w = w /\ call'[d].m = n
           /\ \A d \in Callers : call'[d].b = RunesOf(n) => call'[d].m = n
    BY <1>0, <1>11 DEF IInv, TextInv
  <2>2. \A n \in Matches : Held(n) =>
           match'[n].info = match[n].info /\ info'[match[n].info].runes = info[match[n].info].runes
    BY <1>9, <1>12, HeldMatches
  <2> QED
    BY <1>0, <1>11, <2>1, <2>2, TextFrame
<1>20. LandmarkInv'
  <2>1. CASE ~Takes
    <3>1. \A s \in Runners : runner'[s].landmarks = runner[s].landmarks
      BY <1>9, <2>1 DEF l, nl
    <3> QED
      BY <1>9, <1>12, <3>1, LandmarkFrame
  <2>2. CASE Takes
    <3>1. nl # None /\ \A s \in Runners : runner[s].landmarks # nl
      BY <1>5, <2>2 DEF IInv, LandmarkInv, nl
    <3>2. \A q, s \in Runners : runner'[q].landmarks # None /\ runner'[q].landmarks = runner'[s].landmarks
                                => q = s
      BY <1>9, <3>1 DEF IInv, LandmarkInv
    <3>3. ASSUME NEW u \in Infos, info'[u].last # None
          PROVE  Held(info[u].last)' /\ match'[info'[u].last].info = u
      <4>1. info'[u].last = info[u].last /\ info[u].last \in Matches
        BY <1>2, <1>9, <3>3 DEF Texts, Maybe
      <4>2. Held(info[u].last) /\ match[info[u].last].info = u
        BY <3>3, <4>1 DEF IInv, LandmarkInv
      <4>3. info'[u].last \in escaped' \/ \E d \in Callers : call'[d].m = info'[u].last
        BY <1>0, <1>11, <4>1, <4>2 DEF Held
      <4> QED
        BY <1>12, <4>1, <4>2, <4>3 DEF Held
    <3>4. \A n \in Matches : Passer(n)' =>
             Passer(n) /\ match'[n] = match[n] /\ n # g /\ match[n].landmarks # nl
      BY <1>5, <1>12, <2>2 DEF IInv, LandmarkInv, Passer, nl
    <3>5. \A n \in Matches : Passer(n)' =>
             match'[n].landmarks # None /\ \A s \in Runners : runner'[s].landmarks # match'[n].landmarks
      BY <1>9, <3>4 DEF IInv, LandmarkInv
    <3>6. \A n, o \in Matches : Passer(n)' /\ Passer(o)' /\ match'[n].landmarks = match'[o].landmarks
                                  => n = o
      BY <3>4 DEF IInv, LandmarkInv
    <3> QED
      BY <3>2, <3>3, <3>5, <3>6 DEF LandmarkInv
  <2> QED
    BY <2>1, <2>2
<1>21. ScanInv'
  <2> SUFFICES ASSUME NEW d \in Callers, call'[d].pc = "scanning" PROVE ScansOwn(d)'
    BY DEF ScanInv
  <2>1. CASE d = c
    <3>1. match'[g].info = t /\ info'[t].runes = b
      BY <1>5, <1>9, <1>12 DEF t, b
    <3> QED
      BY <1>6, <1>9, <1>10, <2>1, <3>1 DEF ScansOwn, RunesOf
  <2>2. CASE d # c
    <3> DEFINE rn == runner[call[d].r]
    <3>1. call'[d] = call[d] /\ call[d].pc = "scanning" /\ call[d].r \in Runners /\ call[d].r # r
      BY <1>2, <1>4, <1>10, <2>2 DEF IInv, CallInv, Calls, Maybe
    <3>2. /\ runner'[call[d].r] = rn
          /\ rn.match \in Matches /\ match'[rn.match].info = match[rn.match].info
          /\ call[d].op = "find" => rn.info \in Infos
      BY <1>2, <1>6, <1>9, <3>1 DEF IInv, ScanInv, ScansOwn, RunnerStates, Maybe
    <3>3. call[d].op = "next" => call[d].given \in escaped
      BY DEF IInv, CallInv
    <3>4. call[d].op = "next" =>
            LET n == call[d].given IN
            match'[n].info = match[n].info /\ info'[match[n].info].runes = info[match[n].info].runes
      BY <1>9, <1>12, <3>3, HeldMatches
    <3> QED
      BY <1>9, <3>1, <3>2, <3>4, ScanFrame
  <2> QED
    BY <2>1, <2>2
<1>22. PassedInv'
  <2>1. \A n \in Matches : Passer(n) => learned'[match[n].landmarks] = learned[match[n].landmarks]
    BY <1>2, <1>9 DEF IInv, LandmarkInv, MatchStates, Maybe, l
  <2> QED
    BY <1>0, <1>11, <1>12, <2>1, PassedFrame
<1>23. KnowledgeInv'
  <2>1. \A s \in Runners \ {r} : runner[s].landmarks # None
           => learned'[runner[s].landmarks] = learned[runner[s].landmarks]
    BY <1>2, <1>9 DEF IInv, LandmarkInv, RunnerStates, Maybe, l
  <2>2. ASSUME NEW d \in Callers
        PROVE  /\ call'[d].pc = "scanning" => KnowsOwn(d)'
               /\ call'[d].pc = "scanned" /\ call'[d].op = "next" /\ call'[d].m # None => KnowsMatch(d)'
    <3>1. CASE d = c /\ Takes
      <4>1. learned[nl] = [text |-> about[g], from |-> match[g].pos]
        BY <1>0, <1>5, <3>1 DEF IInv, PassedInv, nl
      <4> QED
        BY <1>9, <1>10, <3>1, <4>1 DEF KnowsOwn
    <3>2. CASE d = c /\ ~Takes
      BY <1>9, <1>10, <3>2 DEF KnowsOwn, Nothing, nl
    <3>3. CASE d # c /\ call[d].pc \in {"scanning", "scanned"}
      <4>1. call'[d] = call[d] /\ call[d].r \in Runners /\ call[d].r # r
        BY <1>2, <1>4, <1>10, <3>3 DEF IInv, CallInv, Calls, Maybe
      <4>2. call[d].m # None => match'[call[d].m] = match[call[d].m]
        BY <1>12, HeldMatches
      <4> QED
        BY <1>9, <2>1, <4>1, <4>2, KnowledgeFrame
    <3>4. CASE d # c /\ call[d].pc \notin {"scanning", "scanned"}
      BY <1>10, <3>4
    <3> QED
      BY <3>1, <3>2, <3>3, <3>4
  <2> QED
    BY <2>2 DEF KnowledgeInv
<1>24. ResultsAreOwn' /\ MatchesHaveCaptures'
  BY <1>10 DEF IInv, ResultsAreOwn, MatchesHaveCaptures, Found
<1> QED
  BY <1>13, <1>14, <1>15, <1>16, <1>17, <1>18, <1>19, <1>20, <1>21, <1>22, <1>23, <1>24 DEF IInv
----------------------------------------------------------------------------
(* The end of a scan                                                       *)

\* A scan sees the input of its call, from where the call starts, whether the
\* landmark searches it was given know something or not.
LEMMA SeesOwnInput ==
    ASSUME IInv, NEW c \in Callers, call[c].pc = "scanning"
    PROVE  LET k   == call[c]
               rn  == runner[k.r]
               l   == IF rn.landmarks # None THEN rn.landmarks ELSE Some(Landmarks \ LiveLandmarks)
               old == IF rn.landmarks # None THEN learned[l] ELSE Nothing
           IN  (IF old.text = None THEN [text |-> data[rn.text], from |-> k.from]
                ELSE [text |-> old.text, from |-> Later(old.from, k.from)])
               = [text |-> k.input, from |-> k.from]
<1> DEFINE k   == call[c]
           rn  == runner[k.r]
           l   == IF rn.landmarks # None THEN rn.landmarks ELSE Some(Landmarks \ LiveLandmarks)
           old == IF rn.landmarks # None THEN learned[l] ELSE Nothing
<1>1. data[rn.text] = k.input
  <2>1. ScansOwn(c)
    BY DEF IInv, ScanInv
  <2>2. CASE k.op # "next"
    <3>1. k.op \in {"none", "find", "bool", "next"}
      BY DEF IInv, TypeOK, Calls
    <3>2. rn.text = k.b /\ k.b # None
      BY <2>1, <2>2, <3>1 DEF ScansOwn, IInv, CallInv
    <3> QED
      BY <3>2 DEF IInv, BufferInv
  <2>3. CASE k.op = "next"
    <3>1. rn.text = RunesOf(k.given) /\ k.given \in escaped /\ k.input = about[k.given]
      BY <2>1, <2>3 DEF ScansOwn, IInv, CallInv
    <3> QED
      BY <3>1 DEF IInv, TextInv, Keeps
  <2> QED
    BY <2>2, <2>3
<1>2. CASE old.text = None
  BY <1>1, <1>2
<1>3. CASE old.text # None
  <2>1. rn.landmarks # None
    BY <1>3 DEF Nothing
  <2>2. old = [text |-> k.input, from |-> k.from]
    BY <1>3, <2>1 DEF IInv, KnowledgeInv, KnowsOwn
  <2> QED
    BY <1>3, <2>2 DEF Later
<1> QED
  BY <1>2, <1>3

\* The landmark searches of a scan, its runner's or new ones, are nobody else's.
LEMMA GotLandmarks ==
    ASSUME IInv, NEW r \in Runners, runner[r].landmarks # None \/ Landmarks \ LiveLandmarks # {}
    PROVE  LET l == IF runner[r].landmarks # None THEN runner[r].landmarks
                    ELSE Some(Landmarks \ LiveLandmarks)
           IN  /\ l \in Landmarks /\ l # None
               /\ \A s \in Runners \ {r} : runner[s].landmarks # l
               /\ \A m \in Matches : Passer(m) => match[m].landmarks # l
<1> DEFINE l == IF runner[r].landmarks # None THEN runner[r].landmarks
                ELSE Some(Landmarks \ LiveLandmarks)
<1>0. runner \in [Runners -> RunnerStates] /\ None \notin Landmarks /\ None \notin Matches
  BY ObjectAssumption DEF IInv, TypeOK
<1>1. CASE runner[r].landmarks # None
  BY <1>0, <1>1 DEF IInv, LandmarkInv, RunnerStates, Maybe
<1>2. CASE runner[r].landmarks = None
  <2>1. l \in Landmarks /\ l \notin LiveLandmarks
    BY <1>2 DEF Some
  <2>2. \A s \in Runners : runner[s].landmarks # l
    BY <2>1 DEF LiveLandmarks
  <2>3. ASSUME NEW m \in Matches, Passer(m) PROVE match[m].landmarks # l
    <3>1. m \in LiveMatches \ {None}
      BY <1>0, <2>3 DEF LiveMatches, Passer, Held
    <3> QED
      BY <2>1, <3>1 DEF LiveLandmarks
  <2> QED
    BY <1>0, <2>1, <2>2, <2>3
<1> QED
  BY <1>1, <1>2

\* scan: a match has its captures in place before anybody else sees it.
LEMMA ScanEndIInv ==
    ASSUME IInv, NEW c \in Callers, ScanEnd(c)
    PROVE  IInv'
<1> DEFINE k  == call[c]
           r  == k.r
           rn == runner[r]
           l  == IF rn.landmarks # None THEN rn.landmarks ELSE Some(Landmarks \ LiveLandmarks)
           m  == rn.match
           hit == FirstHit(k.input, k.from)
           quick == k.op = "bool"
           found == hit # None /\ ~quick
           know == [text |-> k.input, from |-> IF hit = None THEN k.from ELSE hit]
<1>1. /\ call \in [Callers -> Calls] /\ runner \in [Runners -> RunnerStates]
      /\ match \in [Matches -> MatchStates] /\ learned \in [Landmarks -> Knowledge]
      /\ info \in [Infos -> Texts]
      /\ \A S \in {Runners, Wrappers, Buffers, Infos, Matches, Landmarks} : None \notin S
  BY ObjectAssumption DEF IInv, TypeOK
<1>2. /\ k.pc = "scanning" /\ UNCHANGED <<idle, wrapPool, boolPool, wrap, data, info, escaped, about>>
      /\ rn.landmarks # None \/ Landmarks \ LiveLandmarks # {}
  BY DEF ScanEnd, pools, users
<1>3. /\ r \in Runners /\ k.input \in Inputs /\ k.from \in Nat /\ k.m = None
      /\ m \in Matches /\ m # None /\ ~Held(m)
      /\ \A s \in Runners : runner[s].match = m => s = r
      /\ ~quick => k.op \in {"find", "next"} /\ rn.code = "full"
      /\ hit \in Nat
  <2>1. /\ r # None /\ k.input \in Inputs /\ k.m = None /\ k.op # "none"
    BY <1>2 DEF IInv, CallInv
  <2>2. r \in Runners /\ k.from \in Nat /\ k.op \in {"none", "find", "bool", "next"}
    BY <1>1, <2>1 DEF Calls, Maybe
  <2>3. m # None /\ (~quick => rn.code = "full")
    BY <1>2 DEF IInv, ScanInv, ScansOwn
  <2>4. m \in Matches
    BY <1>1, <2>2, <2>3 DEF RunnerStates, Maybe
  <2>5. ~Held(m) /\ \A s \in Runners : runner[s].match = m => s = r
    BY <2>2, <2>3 DEF IInv, MatchInv
  <2>6. hit \in Nat
    BY <2>1, <2>2, FirstHitNat
  <2> QED
    BY <2>1, <2>2, <2>3, <2>4, <2>5, <2>6
<1>4. /\ l \in Landmarks /\ l # None
      /\ \A s \in Runners \ {r} : runner[s].landmarks # l
      /\ \A n \in Matches : Passer(n) => match[n].landmarks # l
  BY <1>2, <1>3, GotLandmarks
<1>5. /\ learned' = [learned EXCEPT ![l] = know]
      /\ call' = [call EXCEPT ![c].pc = "scanned",
                              ![c].res = [pos |-> hit, full |-> rn.code = "full"],
                              ![c].m = IF hit = None \/ quick THEN None ELSE m]
      /\ runner' = [runner EXCEPT ![r].landmarks = l,
                                  ![r].match = IF quick \/ hit = None THEN @ ELSE None]
      /\ match' = IF hit = None THEN match ELSE [match EXCEPT ![m].pos = hit]
  <2> DEFINE old == IF rn.landmarks # None THEN learned[l] ELSE Nothing
             sees == IF old.text = None THEN [text |-> data[rn.text], from |-> k.from]
                     ELSE [text |-> old.text, from |-> Later(old.from, k.from)]
  <2>1. sees = [text |-> k.input, from |-> k.from]
    BY <1>2, SeesOwnInput
  <2>2. LET seen == FirstHit(sees.text, sees.from) IN
        /\ learned' = [learned EXCEPT ![l] = [sees EXCEPT !.from = IF seen = None THEN @ ELSE seen]]
        /\ call' = [call EXCEPT ![c].pc = "scanned",
                                ![c].res = [pos |-> seen, full |-> rn.code = "full"],
                                ![c].m = IF seen = None \/ quick THEN None ELSE m]
        /\ runner' = [runner EXCEPT ![r].landmarks = l,
                                    ![r].match = IF quick \/ seen = None THEN @ ELSE None]
        /\ match' = IF seen = None THEN match ELSE [match EXCEPT ![m].pos = seen]
    BY DEF ScanEnd
  <2> HIDE DEF sees, l
  <2>3. FirstHit(sees.text, sees.from) = hit
    BY <2>1
  <2>4. [sees EXCEPT !.from = IF hit = None THEN @ ELSE hit] = know
    BY <2>1
  <2> HIDE DEF hit, know
  <2> QED
    BY <2>2, <2>3, <2>4
<1> HIDE DEF l, hit
<1>6. /\ call' \in [Callers -> Calls]
      /\ call'[c].pc = "scanned" /\ call'[c].res = [pos |-> hit, full |-> rn.code = "full"]
      /\ call'[c].m = IF found THEN m ELSE None
      /\ call'[c].r = r /\ call'[c].op = k.op /\ call'[c].given = k.given
      /\ \A d \in Callers : /\ call'[d].w = call[d].w /\ call'[d].b = call[d].b /\ call'[d].r = call[d].r
                            /\ call'[d].input = call[d].input /\ call'[d].from = call[d].from
      /\ \A d \in Callers \ {c} : call'[d] = call[d]
  <2> DEFINE v == [pos |-> hit, full |-> rn.code = "full"]
             w == IF hit = None \/ quick THEN None ELSE m
  <2>1. v \in [pos : Nat, full : BOOLEAN] /\ w \in Maybe(Matches)
    BY <1>3 DEF Maybe
  <2>2. call' = [call EXCEPT ![c].pc = "scanned", ![c].res = v, ![c].m = w]
    BY <1>5
  <2>3. w = IF found THEN m ELSE None
    OBVIOUS
  <2> HIDE DEF v, w
  <2>4. call' = [call EXCEPT ![c] = [[[k EXCEPT !.pc = "scanned"] EXCEPT !.res = v] EXCEPT !.m = w]]
    BY <2>2
  <2>5. [k EXCEPT !.pc = "scanned"] \in Calls
    BY <1>1 DEF Calls
  <2>6. \A q \in Calls : [q EXCEPT !.res = v] \in Calls /\ [q EXCEPT !.m = w] \in Calls
    BY <2>1 DEF Calls, Maybe
  <2>7. call' \in [Callers -> Calls]
    BY <1>1, <2>4, <2>5, <2>6
  <2>8. /\ call'[c].pc = "scanned" /\ call'[c].res = v /\ call'[c].m = w
        /\ call'[c].r = r /\ call'[c].op = k.op /\ call'[c].given = k.given
        /\ call'[c].w = k.w /\ call'[c].b = k.b /\ call'[c].input = k.input /\ call'[c].from = k.from
        /\ \A d \in Callers \ {c} : call'[d] = call[d]
    BY <1>1, <2>2 DEF Calls
  <2> QED
    BY <2>3, <2>7, <2>8 DEF v
<1>7. /\ runner' \in [Runners -> RunnerStates]
      /\ runner'[r].landmarks = l /\ runner'[r].match = IF found THEN None ELSE m
      /\ \A s \in Runners : /\ runner'[s].code = runner[s].code /\ runner'[s].text = runner[s].text
                            /\ runner'[s].info = runner[s].info
      /\ \A s \in Runners \ {r} : runner'[s] = runner[s]
  <2> DEFINE w == IF quick \/ hit = None THEN m ELSE None
  <2>1. runner' = [runner EXCEPT ![r].landmarks = l, ![r].match = w]
    <3>1. w = IF quick \/ hit = None THEN runner[r].match ELSE None
      OBVIOUS
    <3> HIDE DEF w
    <3> QED
      BY <1>5, <3>1
  <2>2. w \in Maybe(Matches) /\ w = IF found THEN None ELSE m
    BY <1>3 DEF Maybe
  <2> HIDE DEF w
  <2>3. runner' = [runner EXCEPT ![r] = [[rn EXCEPT !.landmarks = l] EXCEPT !.match = w]]
    BY <2>1
  <2>4. \A q \in RunnerStates : [q EXCEPT !.landmarks = l] \in RunnerStates
                                  /\ [q EXCEPT !.match = w] \in RunnerStates
    BY <1>4, <2>2 DEF RunnerStates, Maybe
  <2>5. runner' \in [Runners -> RunnerStates]
    BY <1>1, <1>3, <2>3, <2>4
  <2>6. /\ runner'[r].landmarks = l /\ runner'[r].match = w
        /\ runner'[r].code = rn.code /\ runner'[r].text = rn.text /\ runner'[r].info = rn.info
        /\ \A s \in Runners \ {r} : runner'[s] = runner[s]
    BY <1>1, <1>3, <2>1 DEF RunnerStates
  <2> QED
    BY <2>2, <2>5, <2>6
<1>8. /\ match' \in [Matches -> MatchStates]
      /\ hit # None => match'[m].pos = hit
      /\ \A n \in Matches : match'[n].info = match[n].info
      /\ \A n \in Matches \ {m} : match'[n] = match[n]
  BY <1>1, <1>3, <1>5 DEF MatchStates, Maybe
<1>9. /\ learned' \in [Landmarks -> Knowledge]
      /\ learned'[l] = know
      /\ \A j \in Landmarks \ {l} : learned'[j] = learned[j]
  <2>1. know \in Knowledge
    BY <1>3 DEF Knowledge, Maybe
  <2> HIDE DEF know
  <2> QED
    BY <1>1, <1>4, <1>5, <2>1
<1>0. UNCHANGED <<idle, wrapPool, boolPool, wrap, data, info, escaped, about>>
  BY <1>2
\* The metadata of the new match, when there is one.
<1>10. ASSUME found
       PROVE  /\ Keeps(m, k.input) /\ RunesOf(m) \notin boolPool
              /\ \A w \in Wrappers : wrap[w] = RunesOf(m) => call[c].w = w
              /\ \A d \in Callers : call[d].b = RunesOf(m) => d = c
              /\ \A s \in Runners : runner[s].info # None /\ match[m].info = runner[s].info
                   => s = r /\ k.op = "find"
  <2>1. CASE k.op = "find"
    <3>1. /\ rn.info # None /\ info[rn.info].runes = k.b /\ match[m].info = rn.info
          /\ k.b # None
      BY <1>2, <2>1 DEF IInv, ScanInv, ScansOwn, CallInv
    <3>2. rn.info \in Infos /\ k.b \in Buffers /\ RunesOf(m) = k.b
      BY <1>1, <1>3, <3>1 DEF RunnerStates, Calls, Maybe, RunesOf
    <3>3. Keeps(m, k.input)
      BY <1>3, <3>1, <3>2 DEF Keeps, IInv, BufferInv
    <3>4. /\ RunesOf(m) \notin boolPool
          /\ \A w \in Wrappers : wrap[w] = RunesOf(m) => call[c].w = w
          /\ \A d \in Callers : call[d].b = RunesOf(m) => d = c
      BY <3>1, <3>2 DEF IInv, BufferInv
    <3>5. \A s \in Runners : runner[s].info # None /\ match[m].info = runner[s].info => s = r
      <4>1. \A p, q \in Runners : runner[p].info # None /\ runner[p].info = runner[q].info => p = q
        BY DEF IInv, InfoInv
      <4> QED
        BY <1>3, <3>1, <4>1
    <3> QED
      BY <2>1, <3>3, <3>4, <3>5
  <2>2. CASE k.op = "next"
    <3> DEFINE g == k.given
    <3>1. /\ g \in escaped /\ k.input = about[g] /\ match[m].info = match[g].info
      BY <1>2, <2>2 DEF IInv, ScanInv, ScansOwn, CallInv
    <3>2. g \in Matches /\ g # None /\ Held(g) /\ RunesOf(m) = RunesOf(g) /\ Keeps(g, k.input)
          /\ \A d \in Callers : call[d].m # g
      BY <3>1, HeldMatches DEF RunesOf, IInv, TextInv, MatchInv
    <3>3. Keeps(m, k.input)
      BY <3>1, <3>2 DEF Keeps
    <3>4. /\ RunesOf(m) \notin boolPool
          /\ \A w \in Wrappers : wrap[w] # RunesOf(m)
          /\ \A d \in Callers : call[d].b # RunesOf(m)
      BY <3>2 DEF IInv, TextInv
    <3>5. \A s \in Runners : ~(runner[s].info # None /\ match[m].info = runner[s].info)
      BY <3>1, <3>2 DEF IInv, InfoInv
    <3> QED
      BY <3>3, <3>4, <3>5
  <2> QED
    BY <1>3, <1>10, <2>1, <2>2
<1> HIDE DEF found
<1>11. /\ \A n \in Matches : Held(n)' <=> Held(n) \/ (found /\ n = m)
       /\ \A n \in Matches : Held(n) => n # m /\ match'[n] = match[n]
       /\ \A n \in Matches : RunesOf(n)' = RunesOf(n)
       /\ \A n \in Matches : Passer(n)' => Passer(n) /\ n # m
  <2>1. ASSUME NEW n \in Matches PROVE Held(n)' <=> Held(n) \/ (found /\ n = m)
    <3>1. n # None
      BY <1>1
    <3>2. (\E d \in Callers : call'[d].m = n)
             <=> (found /\ n = m) \/ \E d \in Callers \ {c} : call[d].m = n
      BY <1>6, <3>1
    <3> QED
      BY <1>0, <1>3, <3>1, <3>2 DEF Held
  <2>2. \A n \in Matches : Held(n) => n # m /\ match'[n] = match[n]
    BY <1>3, <1>8
  <2>3. \A n \in Matches : RunesOf(n)' = RunesOf(n)
    BY <1>0, <1>8 DEF RunesOf
  <2>4. found => info[match[m].info].last # m
    <3>1. found => match[m].info \in Infos
      BY <1>10 DEF Keeps
    <3> QED
      BY <1>3, <3>1 DEF IInv, LandmarkInv
  <2>5. \A n \in Matches : Passer(n)' => (Held(n) \/ (found /\ n = m)) /\ info[match[n].info].last = n
    BY <1>0, <1>8, <2>1 DEF Passer
  <2> QED
    BY <2>1, <2>2, <2>3, <2>4, <2>5 DEF Passer
<1>12. TypeOK'
  BY <1>0, <1>6, <1>7, <1>8, <1>9 DEF IInv, TypeOK
<1>13. CallInv'
  <2>1. \A d \in Callers : call[d].op = "next" =>
           call[d].given \in escaped /\ match'[call[d].given] = match[call[d].given]
    BY <1>11, HeldMatches DEF IInv, CallInv
  <2>2. found => k.op \in {"find", "next"}
    BY <1>3 DEF found
  <2> QED
    BY <1>0, <1>2, <1>6, <2>1, <2>2 DEF IInv, CallInv
<1>14. RunnerInv'
  BY <1>0, <1>6, <1>7 DEF IInv, RunnerInv
<1>15. MatchInv'
  <2>1. \A d \in Callers : call[d].m # m
    BY <1>3 DEF Held
  <2>2. \A d, e \in Callers : call'[d].m # None /\ call'[d].m = call'[e].m => d = e
    BY <1>6, <2>1 DEF IInv, MatchInv
  <2>3. \A d \in Callers : call'[d].m \notin escaped'
    <3>1. m \notin escaped /\ None \notin escaped
      BY <1>1, <1>3 DEF Held, IInv, TypeOK
    <3> QED
      BY <1>0, <1>6, <3>1 DEF IInv, MatchInv
  <2>4. \A q, s \in Runners : runner'[q].match # None /\ runner'[q].match = runner'[s].match => q = s
    BY <1>3, <1>7 DEF IInv, MatchInv
  <2>5. ASSUME NEW s \in Runners, runner'[s].match # None PROVE (~Held(runner[s].match))'
    <3>1. /\ runner'[s].match = runner[s].match /\ runner[s].match \in Matches /\ ~Held(runner[s].match)
          /\ found => runner[s].match # m
      BY <1>1, <1>3, <1>7, <2>5 DEF IInv, MatchInv, RunnerStates, Maybe
    <3>2. \A n \in Matches : (n \in escaped' \/ \E d \in Callers : call'[d].m = n)
                               <=> Held(n) \/ (found /\ n = m)
      BY <1>11 DEF Held
    <3> QED
      BY <3>1, <3>2 DEF Held
  <2> QED
    BY <2>2, <2>3, <2>4, <2>5 DEF MatchInv
<1>16. InfoInv'
  <2>1. ASSUME NEW n \in Matches, NEW s \in Runners,
               Held(n)', runner'[s].info # None, match'[n].info = runner'[s].info
        PROVE  \E d \in Callers : /\ call'[d].r = s /\ call'[d].m = n
                                  /\ call'[d].pc = "scanned" /\ call'[d].op = "find"
    <3>1. runner[s].info # None /\ match[n].info = runner[s].info
      BY <1>7, <1>8, <2>1
    <3>2. CASE Held(n)
      BY <1>2, <1>6, <3>1, <3>2 DEF IInv, InfoInv
    <3>3. CASE found /\ n = m
      BY <1>6, <1>10, <3>1, <3>3
    <3> QED
      BY <1>11, <2>1, <3>2, <3>3
  <2>2. \A q, s \in Runners : runner'[q].info # None /\ runner'[q].info = runner'[s].info => q = s
    BY <1>7 DEF IInv, InfoInv
  <2> QED
    BY <2>1, <2>2 DEF InfoInv
<1>17. BufferInv'
  BY <1>0, <1>6 DEF IInv, BufferInv
<1>18. TextInv'
  <2>1. \A n \in escaped' : Keeps(n, about[n])'
    <3>1. \A n \in escaped : n \in Matches /\ match'[n] = match[n] /\ Keeps(n, about[n])
      BY <1>11, HeldMatches DEF IInv, TextInv
    <3> QED
      BY <1>0, <3>1 DEF Keeps, RunesOf
  <2>2. ASSUME NEW d \in Callers, call'[d].m # None PROVE Keeps(call[d].m, call[d].input)'
    <3>1. CASE d = c
      <4>1. found /\ call'[c].m = m /\ call'[c].input = k.input
        BY <1>6, <2>2, <3>1
      <4>2. Keeps(m, k.input) /\ match'[m].info = match[m].info
        BY <1>3, <1>8, <1>10, <4>1
      <4> QED
        BY <1>0, <3>1, <4>1, <4>2 DEF Keeps, RunesOf
    <3>2. CASE d # c
      <4>1. call'[d] = call[d] /\ Keeps(call[d].m, call[d].input) /\ call[d].m \in Matches
        BY <1>6, <2>2, <3>2, HeldMatches DEF IInv, TextInv
      <4>2. match'[call[d].m].info = match[call[d].m].info
        BY <1>8, <4>1
      <4> QED
        BY <1>0, <4>1, <4>2 DEF Keeps, RunesOf
    <3> QED
      BY <3>1, <3>2
  <2>3. ASSUME NEW n \in Matches, Held(n)'
        PROVE  /\ RunesOf(n) \notin boolPool'
               /\ \A w \in Wrappers : wrap'[w] = RunesOf(n)
                     => \E d \in Callers : call'[d].w = w /\ call'[d].m = n
               /\ \A d \in Callers : call'[d].b = RunesOf(n) => call'[d].m = n
    <3>1. CASE Held(n)
      <4>1. call[c].m # n
        BY <1>1, <1>3
      <4> QED
        BY <1>0, <1>6, <3>1, <4>1 DEF IInv, TextInv
    <3>2. CASE found /\ n = m
      BY <1>0, <1>6, <1>10, <3>2
    <3> QED
      BY <1>11, <2>3, <3>1, <3>2
  <2> QED
    BY <1>11, <2>1, <2>2, <2>3 DEF TextInv
<1>19. LandmarkInv'
  <2>1. \A q, s \in Runners : runner'[q].landmarks # None /\ runner'[q].landmarks = runner'[s].landmarks
                                => q = s
    BY <1>4, <1>7 DEF IInv, LandmarkInv
  <2>2. ASSUME NEW u \in Infos, info'[u].last # None
        PROVE  Held(info[u].last)' /\ match'[info'[u].last].info = u
    <3>1. info'[u].last = info[u].last /\ info[u].last \in Matches
      BY <1>0, <1>1, <2>2 DEF Texts, Maybe
    <3>2. Held(info[u].last) /\ match[info[u].last].info = u
      BY <2>2, <3>1 DEF IInv, LandmarkInv
    <3>3. info'[u].last \in escaped' \/ \E d \in Callers : call'[d].m = info'[u].last
      <4>1. \A n \in Matches : Held(n) => n \in escaped' \/ \E d \in Callers : call'[d].m = n
        BY <1>11 DEF Held
      <4> QED
        BY <3>1, <3>2, <4>1
    <3> QED
      BY <1>8, <3>1, <3>2, <3>3 DEF Held
  <2>3. \A n \in Matches : Passer(n)' =>
           match'[n].landmarks # None /\ \A s \in Runners : runner'[s].landmarks # match'[n].landmarks
    BY <1>4, <1>7, <1>8, <1>11 DEF IInv, LandmarkInv
  <2>4. \A n, o \in Matches : Passer(n)' /\ Passer(o)' /\ match'[n].landmarks = match'[o].landmarks
                                => n = o
    BY <1>8, <1>11 DEF IInv, LandmarkInv
  <2> QED
    BY <2>1, <2>2, <2>3, <2>4 DEF LandmarkInv
<1>20. ScanInv'
  <2> SUFFICES ASSUME NEW d \in Callers, call'[d].pc = "scanning" PROVE ScansOwn(d)'
    BY DEF ScanInv
  <2> DEFINE sn == runner[call[d].r]
  <2>1. call'[d] = call[d] /\ call[d].pc = "scanning" /\ call[d].r \in Runners \ {r}
    <3>1. d # c
      BY <1>6
    <3> QED
      BY <1>1, <1>3, <1>6, <3>1 DEF IInv, CallInv, RunnerInv, Calls, Maybe
  <2>2. /\ runner'[call[d].r] = sn
        /\ match'[sn.match].info = match[sn.match].info
    <3>1. sn.match \in Matches
      BY <1>1, <2>1 DEF IInv, ScanInv, ScansOwn, RunnerStates, Maybe
    <3> QED
      BY <1>7, <1>8, <2>1, <3>1
  <2>3. call[d].op = "next" => match'[call[d].given].info = match[call[d].given].info
    <3>1. call[d].op = "next" => call[d].given \in escaped
      BY DEF IInv, CallInv
    <3> QED
      BY <1>8, <3>1, HeldMatches
  <2> QED
    BY <1>0, <2>1, <2>2, <2>3, ScanFrame
<1>21. \A n \in Matches : Passer(n) => learned'[match[n].landmarks] = learned[match[n].landmarks]
  BY <1>1, <1>4, <1>9 DEF IInv, LandmarkInv, MatchStates, Maybe
<1>22. PassedInv'
  <2>1. \A n \in escaped' : (Passer(n) =>
           learned[match[n].landmarks] = [text |-> about[n], from |-> match[n].pos])'
    <3>1. \A n \in escaped : n \in Matches /\ match'[n] = match[n]
      BY <1>11, HeldMatches
    <3> QED
      BY <1>0, <1>11, <1>21, <3>1 DEF IInv, PassedInv
  <2>2. ASSUME NEW d \in Callers, (call[d].m # None /\ Passer(call[d].m))'
        PROVE  (learned[match[call[d].m].landmarks] = [text |-> call[d].input, from |-> match[call[d].m].pos])'
    <3> DEFINE n == call'[d].m
    <3>1. n \in Matches
      BY <1>6, <2>2 DEF Calls, Maybe
    <3>2. Passer(n) /\ n # m
      <4>1. \A o \in Matches : (o \in escaped' \/ \E e \in Callers : call'[e].m = o)
                                 /\ info'[match'[o].info].last = o => Passer(o) /\ o # m
        BY <1>11 DEF Passer, Held
      <4> QED
        BY <2>2, <3>1, <4>1 DEF Passer, Held
    <3>3. d # c /\ call'[d] = call[d]
      BY <1>6, <2>2, <3>2
    <3>4. call[d].m # None /\ call[d].m = n /\ match'[n] = match[n]
      BY <1>8, <2>2, <3>1, <3>2, <3>3
    <3> QED
      BY <1>21, <3>1, <3>2, <3>3, <3>4 DEF IInv, PassedInv
  <2> QED
    BY <2>1, <2>2 DEF PassedInv
<1>23. KnowledgeInv'
  <2> SUFFICES ASSUME NEW d \in Callers
               PROVE  /\ call'[d].pc = "scanning" => KnowsOwn(d)'
                      /\ call'[d].pc = "scanned" /\ call'[d].op = "next" /\ call'[d].m # None => KnowsMatch(d)'
    BY DEF KnowledgeInv
  <2>1. CASE d = c
    <3>1. call'[c].m # None => /\ hit # None /\ call'[c].m = m /\ match'[m].pos = hit
                               /\ know = [text |-> k.input, from |-> hit]
      BY <1>6, <1>8 DEF found
    <3> HIDE DEF know
    <3>2. call'[c].m # None => KnowsMatch(c)'
      BY <1>4, <1>6, <1>7, <1>9, <3>1 DEF KnowsMatch
    <3> QED
      BY <1>6, <2>1, <3>2
  <2>2. CASE d # c /\ call[d].pc \in {"scanning", "scanned"}
    <3>1. call'[d] = call[d] /\ call[d].r \in Runners \ {r}
      BY <1>1, <1>3, <1>6, <2>2 DEF IInv, CallInv, RunnerInv, Calls, Maybe
    <3>2. runner'[call[d].r].landmarks = runner[call[d].r].landmarks
          /\ (runner[call[d].r].landmarks # None
                => learned'[runner[call[d].r].landmarks] = learned[runner[call[d].r].landmarks])
      BY <1>1, <1>4, <1>7, <1>9, <3>1 DEF RunnerStates, Maybe
    <3>3. call[d].m # None => match'[call[d].m].pos = match[call[d].m].pos
      BY <1>11, HeldMatches
    <3> QED
      BY <3>1, <3>2, <3>3, KnowledgeFrame
  <2>3. CASE d # c /\ call[d].pc \notin {"scanning", "scanned"}
    BY <1>6, <2>3
  <2> QED
    BY <2>1, <2>2, <2>3
<1>24. ResultsAreOwn' /\ MatchesHaveCaptures'
  <2>1. ResultsAreOwn'
    BY <1>6 DEF IInv, ResultsAreOwn, Found, hit
  <2>2. MatchesHaveCaptures'
    <3>1. call'[c].m # None => call'[c].res.full
      <4>1. call'[c].res.full = (rn.code = "full")
        BY <1>6
      <4>2. call'[c].m # None => rn.code = "full"
        BY <1>3, <1>6 DEF found
      <4> QED
        BY <4>1, <4>2
    <3> QED
      BY <1>6, <3>1 DEF IInv, MatchesHaveCaptures, Found
  <2> QED
    BY <2>1, <2>2
<1> QED
  BY <1>12, <1>13, <1>14, <1>15, <1>16, <1>17, <1>18, <1>19, <1>20, <1>22, <1>23, <1>24 DEF IInv
----------------------------------------------------------------------------
(* Theorems                                                                *)

\* The invariant is inductive.
LEMMA NextIInv == IInv /\ [Next]_vars => IInv'
<1> SUFFICES ASSUME IInv, [Next]_vars PROVE IInv'
  OBVIOUS
<1>1. ASSUME NEW c \in Callers, NEW x \in Inputs, Decode(c, x) PROVE IInv'
  BY <1>1, DecodeIInv
<1>2. ASSUME NEW c \in Callers, NEW x \in Inputs, BeginBool(c, x) PROVE IInv'
  BY <1>2, BeginBoolIInv
<1>3. ASSUME NEW c \in Callers, NEW m \in Matches, BeginNext(c, m) PROVE IInv'
  BY <1>3, BeginNextIInv
<1>4. ASSUME NEW c \in Callers, BeginFind(c) PROVE IInv'
  BY <1>4, BeginFindIInv
<1>5. ASSUME NEW c \in Callers, ScanEnd(c) PROVE IInv'
  BY <1>5, ScanEndIInv
<1>6. ASSUME NEW c \in Callers, HandOver(c) PROVE IInv'
  BY <1>6, HandOverIInv
<1>7. ASSUME NEW c \in Callers, Release(c) PROVE IInv'
  BY <1>7, ReleaseIInv
<1>8. ASSUME NEW c \in Callers, PassLandmarksOn(c) PROVE IInv'
  BY <1>8, PassLandmarksOnIInv
<1>9. ASSUME NEW c \in Callers, PutRunner(c) PROVE IInv'
  BY <1>9, PutRunnerIInv
<1>10. ASSUME NEW c \in Callers, PutBuffer(c) PROVE IInv'
  BY <1>10, PutBufferIInv
<1>11. ASSUME UNCHANGED vars PROVE IInv'
  <2>1. UNCHANGED <<idle, wrapPool, boolPool, runner, wrap, data, info, match, learned,
                    escaped, about, call>>
    BY <1>11 DEF vars, pools, heap, users
  <2>2. \A n : Held(n)' <=> Held(n)
    BY <2>1 DEF Held
  <2>3. TypeOK' /\ CallInv' /\ RunnerInv' /\ MatchInv' /\ InfoInv' /\ BufferInv'
    BY <2>1, <2>2 DEF IInv, TypeOK, CallInv, RunnerInv, MatchInv, InfoInv, BufferInv
  <2>4. TextInv' /\ LandmarkInv' /\ PassedInv'
    BY <2>1, <2>2 DEF IInv, TextInv, LandmarkInv, PassedInv, Passer, Keeps, RunesOf
  <2>5. ScanInv' /\ KnowledgeInv'
    BY <2>1 DEF IInv, ScanInv, KnowledgeInv, ScansOwn, KnowsOwn, KnowsMatch, RunesOf
  <2>6. ResultsAreOwn' /\ MatchesHaveCaptures'
    BY <2>1 DEF IInv, ResultsAreOwn, MatchesHaveCaptures, Found
  <2> QED
    BY <2>3, <2>4, <2>5, <2>6 DEF IInv
<1> QED
  BY <1>1, <1>2, <1>3, <1>4, <1>5, <1>6, <1>7, <1>8, <1>9, <1>10, <1>11 DEF Next

\* The invariant holds in every behaviour.
LEMMA Invariance == Spec => []IInv
<1> QED
  BY InitIInv, NextIInv, PTL DEF Spec

\* Every MatchString, FindStringMatch and FindNextMatch finds the first hit of its
\* own input after the position that it starts from, whatever runner, buffers and
\* landmark searches it takes from the pools or from another match, and whatever the
\* other goroutines do.
THEOREM CallsFindTheirOwn == Spec => []ResultsAreOwn
<1>1. IInv => ResultsAreOwn
  BY DEF IInv
<1> QED
  BY <1>1, Invariance, PTL

\* A runner that MatchString has switched to the code without captures never finds
\* the match that FindStringMatch or FindNextMatch returns.
THEOREM CapturesAreRecorded == Spec => []MatchesHaveCaptures
<1>1. IInv => MatchesHaveCaptures
  BY DEF IInv
<1> QED
  BY <1>1, Invariance, PTL

\* The runes of a match that a caller holds are never decoded over, and its metadata
\* never cleared: runners, wrappers and buffer pools have let go of them.
THEOREM HeldMatchesKeepText == Spec => []MatchesKeepText
<1>1. IInv => MatchesKeepText
  <2> SUFFICES ASSUME IInv, NEW m \in escaped
               PROVE  /\ match[m].info # None /\ RunesOf(m) # None
                      /\ data[RunesOf(m)] = about[m]
    BY DEF MatchesKeepText, RunesOf
  <2> QED
    BY ObjectAssumption DEF IInv, TextInv, Keeps
<1> QED
  BY <1>1, Invariance, PTL

\* CompareAndSwap gives the landmark searches of a text to one goroutine only: no two
\* runners have the same, nor does a runner and a match that may still pass them on.
THEOREM LandmarksAreOwned == Spec => []LandmarksHaveOneOwner
<1>1. IInv => LandmarksHaveOneOwner
  <2> SUFFICES ASSUME IInv PROVE LandmarksHaveOneOwner
    OBVIOUS
  <2>1. \A m \in escaped : m \in Matches /\ Held(m)
    BY HeldMatches
  <2>2. \A m \in escaped, r \in Runners : info[match[m].info].last = m
           => match[m].landmarks # runner[r].landmarks
    BY <2>1 DEF IInv, LandmarkInv, Passer
  <2> QED
    BY <2>2 DEF IInv, LandmarkInv, LandmarksHaveOneOwner
<1> QED
  BY <1>1, Invariance, PTL
=============================================================================
