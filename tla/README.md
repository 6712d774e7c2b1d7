# A TLA+ model of regexp2

regexp2 is a backtracking regular expression engine for Go with the features of
.NET's `Regex`: captures and balancing groups, lookarounds, atomic groups,
conditionals, right-to-left search, timeouts, and a backtracking limit. One
compiled `*Regexp` may be used by many goroutines at once.

This directory holds TLA+ modules that model it from the text of a pattern to the
bytes that a call reports, TLC configurations that check them, and TLAPS proofs
about the clock, the replacement cache, the shared `Regexp` and the interpreter.

Run a configuration with `tlc -workers 2 -config RegexCalls.cfg MCRegexCalls`
and a proof module with `tlapm FastClockProofs.tla`. `PROJECT.json` lists the
runs, the theorems, the hazards in the code, and which lines every definition
models.

## The system

A pattern is parsed to a tree, the tree is reduced and analysed, and code is
generated from it. A matching call may search the bytes of its input for a
candidate first; then it takes a pooled runner, decodes what it needs of the
input into a rune buffer, and runs a scan: it searches for a place where a match
can start, executes the code there, and moves on until a match is found or the
text ends. If a timeout is set, the executing loop polls a clock that a
background goroutine updates.

| Component | Source | State | Operations |
| --- | --- | --- | --- |
| Parser | `syntax/parser.go` | position, options and their stack, open groups, numbers and names of groups | `countCaptures`, `scanRegex` and what they call |
| Character classes | `syntax/charclass.go`, `syntax/ecma_unicode.go` | ranges, categories, negation, a subtracted class, a bitmap for ASCII | `addRange`, `canonicalize`, `negate`, `CharIn`, `MayOverlap`, `Hash` |
| Tree reductions | `syntax/tree.go` | none | `addChild` with `reduce...`, `finalOptimize` |
| Tree and prefix analyses | `syntax/tree.go`, `syntax/prefixanalyzer.go`, `syntax/prefix.go`, `syntax/optimizations.go` | none | `ComputeMinLength`, the prefixes, sets, anchors and landmarks of a tree |
| Code generator | `syntax/writer.go`, `syntax/code.go` | none | `codeFromTree`, `emitFragment`, `AnalyzeLeftContext` |
| Interpreter and scan loop | `runner.go`, `match.go` | code position, text position, `runtrack`, `runstack`, `runcrawl`, capture arrays | one case of `executeDefault` per instruction and way of backtracking, `scan`, `initMatch`, storage growth, `capture`, `transferCapture`, `uncapture`, `tidy` |
| Find-first-char searches | `runner.go`, `syntax/prefix.go` | none | `findFirstCharDefault` and the searches it chooses from |
| Required landmark search | `runner.go` | cursors that outlive a scan | `findRequiredLandmarkChainLeftToRight`, `nextRequiredLandmark` |
| Shared `Regexp` | `regexp.go`, `bufferpool.go`, `decode.go` | runner pool, buffer pools, `matchText` shared by the matches of one text | `FindStringMatch`, `MatchString`, `FindNextMatch`, `getRunner`, `putRunner` |
| Replacement cache | `regexp.go` | list and map under a mutex | `getReplacerData`, `get`, `add` |
| Find-all, replace, split | `regexp.go`, `replace.go`, `split.go`, `syntax/replacerdata.go` | locals of one call | loops over scans, the parse of a replacement |
| Decoding and offsets | `decode.go`, `match.go` | a rune window over the input, a cursor from runes to bytes | `decodeString...`, `byteRange`, the mappers |
| String prefix filter | `stringprefixfilter.go`, `prefixsearch.go` | none | candidate search in the undecoded string |
| Timeout clock | `fastclock.go` | `start`, `current`, `clockEnd`, `running`; the locals of callers and of the updater | `makeDeadline`, `extendClock`, `runClock`, `stopClock`, `reached` |
| `compat` API | `compat/` | none | wrappers, with loops and offsets of their own |
| Grapheme clusters | `syntax/grapheme.go` | none | boundary rules |
| Registry of generated engines | `regexp_codegen.go` | a global map | registration and lookup |
| Helpers, generated tables | `helpers/`, `syntax/*_tables.go` | none | pure functions, data |

### How the components interact

- The **parser** walks over the text twice: a prescan notes the groups, so that a
  reference may precede its group, and the scan builds the tree. Both read the
  same syntax with different code. Every node is reduced as it is added.
- The **reductions** trust the classes: a loop is made atomic because the class
  after it has no character in common with it.
- The **code generator** trusts the analyses, and the **interpreter** trusts the
  code generator in three ways that no single function shows. A loop is
  compiled with marks or with counters, and each treats an iteration that
  consumes nothing differently. Bool-only calls run "quick" code, from which
  captures that nobody observes are removed. And an alternation may be compiled
  to a dispatch on the next character, which gives up the chance to backtrack
  into another branch.
- The **scan loop** trusts `findFirstChar` never to skip a match, and that trusts
  the analyses to claim only what is true of every match.
- A **call** trusts the string filter to skip no match in the bytes, decodes only
  from a little before the candidate, and computes the byte offsets it reports
  back from that window.
- A match asks the **clock** for a deadline when it starts and compares
  `current` with it every so many steps. The clock never calls back.
- **Runners** are pooled. A scan that fails, times out or hits the limit leaves
  its stacks and captures behind and the next scan, perhaps of another text by
  another goroutine, starts from them.
- The **matches** of one text share a `matchText`. Whoever continues from the
  last of them takes over its landmark searches with a compare-and-swap.

### What is hard here, and what makes each part correct

- **Clock** (interleaving, time): the updater leaves its loop while a match
  extends the end; several matches find it stopped; time is rounded to ticks.
  Correct if there is one updater at most, if every running match's deadline is
  covered by `clockEnd`, if no match times out early, if a match that does not
  end is timed out, and if the updater stops.
- **Interpreter** (long protocols over four stacks): each instruction has up to
  three ways to be entered, and what the forward pass pushes a backward pass
  must take back, also when an atomic group has cut the track in between.
  Correct if every scan reports the match that the pattern defines, if captures
  are undone exactly with the path that made them, and if nothing is pushed
  past the end of the arrays, which are only checked at some jumps.
- **Reductions and analyses** (claims about all texts): correct if a rewritten
  tree has the matches and captures of the written one, and if nothing that is
  claimed of every match is false of one.
- **Searches** (stale knowledge): the landmark cursors remember what they read,
  across calls that may read further each time. Correct if what they know is
  true of the text and if no place where a match starts is passed over.
- **Parser and classes** (context everywhere): correct if the tree is the one
  that is written, if prescan and scan agree, if every turn gets further, and if
  all the answers of a class agree with its members.
- **Calls** (positions in two units): correct if every way of calling finds the
  same matches and tells where they are in its own unit, if each scan of a call
  starts beyond the one before, and if what is built from the input is the
  input around the matches.
- **Shared Regexp** (aliasing across pools): buffers, wrappers, runners, metadata
  and landmark searches change owner in the middle of a call, and several
  goroutines may continue from the same match. Correct if each call's result is
  that of its own input, if the text of a match never changes afterwards, and
  if the searches of a text have one owner.
- **Replacement cache** (check then act): the data is parsed outside the lock, so
  a key may be added twice. Correct if list and map always agree, the size is
  bounded, callers get their own data, and eviction is least-recently-used.

The hazards behind these, each at its line, are in `PROJECT.json`.

## The modules

| Module | Models | Kind |
| --- | --- | --- |
| `CharClass` | `syntax/charclass.go` | operators |
| `PatternText`, `ClassText`, `CaptureSlots`, `UnitText` | `syntax/parser.go`: escapes, numbers and names; bracketed classes; the numbering of groups; the nodes of units | operators |
| `RegexParser` | `syntax/parser.go`: prescan and scan | state machine |
| `WrittenRegex` | the text and the tree of a structure | reference definition |
| `RegexTree` | the nodes of `syntax/tree.go` and the analyses the code generator uses | operators |
| `AutoAtomicity`, `RegexReductions` | `syntax/tree.go`: loops that are made atomic; all other reductions, and all of them together (`Optimized`) | operators |
| `RegexOptimizer` | from the written to the compiled tree, in the passes of the code | state machine |
| `ChangedMatches` | patterns whose matches change between their text and the tree that is compiled | the parser with all reductions, on a few patterns |
| `RegexPrefix`, `SearchAnalysis` | `syntax/prefix.go`; `syntax/prefixanalyzer.go` and `syntax/optimizations.go`, and what `Compile` makes of a tree (`CodeOf`) | operators |
| `LandmarkSearch` | `runner.go`: the cursors and searches for landmarks | operators |
| `RegexSearch` | the scan loop with every search that skips places | state machine |
| `RegexWriter` | `syntax/writer.go`: full and quick code of a tree | operators |
| `CaptureArrays` | the capture arrays of `match.go` | operators |
| `RegexVM` | the interpreter and the scan loop of `runner.go` | state machine |
| `RegexSem` | what a pattern means, independently of the code | reference definition |
| `RegexScan` | what a matching call promises | abstract specification |
| `StringText` | `decode.go` and the offsets of `match.go` and `compat` | operators |
| `PrefixFilter` | `stringprefixfilter.go`, `prefixsearch.go` | operators |
| `ReplacementText` | the parse of a replacement | operators |
| `RegexCalls` | the calls on strings and runes | state machine |
| `SharedRegexp` | pools and ownership in a shared `Regexp` | state machine |
| `ReplacerCache` | the replacement cache | state machine |
| `LeastRecentlyUsed` | what a least-recently-used cache promises | abstract specification |
| `FastClock` | the timeout clock | state machine |
| `CodeShapes` | what the interpreter relies on in the code it is given (`syntax/writer.go`, `runner.go`) | assumptions on constants |
| `FastClockProofs`, `ReplacerCacheProofs`, `SharedRegexpProofs`, `RegexVMLog`, `RegexVMProofs` | | theorems; `RegexVMLog` has the lemmas about capture arrays, crawl, frames and track that `RegexVMProofs` rests on |
| `RegexPatterns`, `WrittenPatterns`, `ParsedPatterns`; `MCRegexSearch`, `MCRegexCalls` | the patterns and inputs that are run | instances |
| `MC...` | | instances for TLC |

Three stages lead from a text to a match, each checked against the same reference:

1. `RegexParser` builds from a text the tree that `WrittenRegex` means by it.
2. `RegexOptimizer`, `RegexSearch` and `RegexCalls` start from written trees, and
   their results are compared with what `RegexSem` says of the *written* tree.
   `RegexSearch` and `RegexCalls` compile it with `Optimized` and `CodeOf`, all
   reductions and analyses included; `RegexSearch` then runs the scan loop with the searches,
   and `RegexCalls` the calls, filter, window and offsets around scans. Inside,
   what a match is at a place is taken from `RegexSem`.
3. `MCRegexVM` compiles compiled trees with `RegexWriter` and runs `RegexVM`, which
   finds what `RegexSem` says of them.

`RegexVM` and `RegexSearch` both implement the abstract `RegexScan`: the one with
every instruction and a search of which only the contract is known, the other
with every search and an interpreter of which only the contract is known.

### `FastClock` and the code

Each caller is a match. `ReadClockEnd` and `ReadCurrent` are the two atomic loads
at the top of `makeDeadline`, with the test of the fast path; `Refresh` and
`ExtendClock` are its two sections under `fast.mu`; `TimeOut` is a poll that finds
the deadline reached. `ClockStart` and `ClockWake` are the locked sections of
`runClock`; `StopClock` and `StopPoll` are `stopClock`.

- Every locked section contains at most one write that is visible outside the
  lock (to `current` or to `clockEnd`), so a section is one action.
- Time is an integer, `TickSize` units of which are a tick of the clock.
  `DeadlineTicks` wraps around at `MaxInt` as int64 does.
- The updater is prompt: `Tick` is disabled while an updater can run. Without
  this the code promises nothing, since a starved updater publishes no time.
- A caller may be delayed anywhere for at most `MaxDelay`. `Stall` says whether it
  may be delayed between its two locked sections; see finding 1.
- The liveness properties are checked with `Stall`, too.

### `RegexVM` and the code

A state is a runner in the middle of a scan. `track` and `stack` are `runtrack`
and `runstack` with the top first, `trackLen` and `stackLen` the sizes of the
arrays behind them, `crawl` is `runcrawl`, `matches` are `runmatch.matches` cut to
their `matchcount`. `pc` and `mode` are the code position and the Back bits of the
operator. There is an action for every case of `executeDefault`, named after the
opcode: `Branchmark`, `BranchmarkBack`, `BranchmarkBack2` and so on.

- `NewScan` and `NextScan` are the entries: a call on a new text, and a call that
  continues after the previous match. `InitMatch` models `initMatch`, with what
  the runner's last scan left behind.
- `GiveUp`, `Candidate`, `NoCandidate` and `Stop` are the loop of `scan`.
  `findFirstChar` is modelled by its contract: it may go to any position that
  skips no match. So the checks hold for every search that keeps the contract;
  that the searches do is what `RegexSearch` is for.
- `EnsureStorage` is `ensureStorage` with `growTrack` and `doubleIntSlice`; it
  runs where the code runs it, at backward jumps and at backtracking.
- A push past the end of an array is a state of its own, in which the scan is
  stuck. In Go it is an index out of range panic. It occurs in `vm_limits` (finding 2)
  and in no other run.
- Addresses are instruction indexes. The operands of an instruction are fields
  and not words of the code, and the size of an instruction is one.
- Character classes are sets with a mark for negation; how a class comes to hold
  its characters is `CharClass`'s matter. Case is folded by a function that is
  given as a constant.
- Capture slots are dense: the `caps` map of sparse group numbers is left out.
- Quick code reserves for the track count of the full code, as in the code.
- `Grapheme` (`\X`) is the only instruction left out.
- The text position after a failed character test is left where it was. The code
  may have moved it, but backtracking restores it before it is read.

### `RegexSem`, the reference

`Outcomes` lists the states in which a node may end, in the order of backtracking,
by recursion over the tree. It has no stack, mark, counter or jump. For an
iteration that consumes nothing it states the rule of .NET, by which it ends the
loop once the required iterations are done, and that of ECMAScript, by which it
is rejected unless it is a required one. `RegexScan` uses it to say what a matching call reports:
the first match in the direction of the search, past the previous match if that
was empty, or none; the call may also fail with a timeout or at the limit.

### `RegexParser` and the code

A state is the parser between two turns of its loops. `slots` are the capture
tables, `frame` is the open group with the branches and items it has so far,
`stack` the groups around it, `options` and `optionsStack` those of the code. A
text is a sequence of characters, and an operator of `PatternText` begins at a
place in it and tells where it ends, with what it read or the error it met.

- `Count...` are the cases of `countCaptures`, `StartScan` is `assignNameSlots` and
  the change to the scan. `ScanText` is a run of ordinary characters, `Scan...` one
  case each of the switch in `scanRegex`, `OpenGroup`, `NextBranch` and `CloseGroup`
  the three things a parenthesis or bar does to the stack, `ScanRepeat` the
  quantifier that follows.
- The tree is the written one: its nodes are those the parser hands to `addChild`,
  and what that makes of them is `RegexReductions`.
- A Set node carries the class as `CharClass` builds it, and the set of its runes.
- The runes go to 131, beyond ASCII by a digit, the Kelvin sign, which equals K but for
  case, a no-break space and one with no property. Categories, properties and case are
  constants, so that what is checked does not depend on a version of Unicode.
- In the options, `ecma` is ECMAScript and `u` its Unicode mode.

`WrittenRegex` is the other direction: a structure has a text and a tree, both by
recursion over the structure. No position, stack or prescan occurs in it.

### `CharClass` and the code

A class has ranges, categories, a negation, and a class it subtracts, as `CharSet`
has. The operators are its methods, those that change it return the new one.
`Members` is the reference: the runes that the parts denote, without bitmap,
canonical form or shortcuts.

### `RegexOptimizer` and the code

`Build` is the reduction of each node as it is added, from the leaves up, as the
parser does it. `FindAndMakeLoopsAtomic`, `EliminateEndingBacktracking` and
`InsertUpdateBumpalong` are the passes of `finalOptimize`. The code changes nodes in
place and follows `Parent` pointers; here an operator returns the node, and a node
in the tree is named by its path. Prefix extraction from alternations, merging of
adjacent sets and strings, the coalescing of loops, the reductions of lookarounds and
conditionals, and the test by which a loop is made atomic are operators of
`RegexReductions` and `AutoAtomicity`, named after the code.

### `RegexSearch` and the code

- `Compile` computes what the code keeps of a pattern: the first characters, the
  string with its tables, the anchor, and the `FindOptimizations` with their
  mode, which is chosen in the order of the code.
- `FindFirstChar` is `findFirstCharDefault`: the trailing anchor, the leading
  anchors, the string, the optimized modes, the first characters. The searches
  inside one text, which call vectorized functions, are the set of places that
  these return, whose minimum is taken.
- The string tables are those of `prefix.go`: `Scan` moves by the greater of two
  distances, computed as the code does, and the comparison goes backwards.
- The landmark search is modelled in full: `memo` keeps for each landmark its
  alternatives' cursors with their undecided cores, and the core of the last
  chain, as the runner does between scans of one text.
- A failed attempt moves past the leading loop (`UpdateBumpalong`).
- The analyses' cutoffs are constants, so that small values reach both sides of
  each of them. `maxLoopPrefixLength` (256) is not modelled: no prefix is that long.

### `RegexCalls` and the code

- There is an action for every kind of call, for the turn of each loop over
  matches, and for its end. Names are those of the Go functions.
- A string is a sequence of units: a character of one, two or three bytes or an
  invalid byte. Positions in a string are byte offsets, positions in runes units.
  Calls may be asked to start at any byte, also within a character (where they
  start at the next rune) and behind the end (where they fail).
- `PrefixCandidate` is the filter with its fallback for invalid bytes, and the
  choice of it that `Compile` makes. `DecodeInput` is the window, cut where
  `LeftContextRunes` allows it, with its offsets in bytes and in runes.
- The three ways of computing byte offsets are modelled as they are: the mapper
  that moves forward with the loop, the table of `compat`, and the lazy index
  of a match.
- Replacements are texts, parsed by `RulesOf` as `scanReplacement` does.
- A scan is `RegexScan`'s promise as an operator; runners, pools and the choice of
  quick code are left to `SharedRegexp` and `RegexVM`.

### `SharedRegexp` and the code

Runners, wrappers, buffers, `matchText`s, matches and landmark searches are
numbered objects in records that refer to each other by number. An object that
nothing refers to may be allocated again, so that a stale reference would show.

- `Decode`, `BeginFind`, `HandOver` or `Release` and `PutRunner` are
  `FindStringMatch`; `BeginBool`, `PutRunner`, `PutBuffer` are `MatchString`;
  `BeginNext`, `PassLandmarksOn`, `PutRunner` are `FindNextMatch`.
- A scan is two actions, the `Prologue` that binds the runner to the text and
  `ScanEnd`, since what happens in between is `RegexVM`'s matter. In `ScanEnd` the
  runner finds what the landmark searches tell it: if they were computed on
  another text, or further on in this one, the result is wrong and
  `ResultsAreOwn` is false.
- `PutRunner` is deferred in the code, so it is the last step before the result
  reaches the caller, except for the buffer of `MatchString`.
- `sync.Pool` may return any object or a new one, and so may `GetsRunner`.

### `ReplacerCache` and the code

`GetHit` and `GetMiss` are `get`, `AddAgain` and `AddNew` are `add`, each in one
locked section; `Parse` is `NewReplacerData`, outside the lock. The list is the
`container/list` and `cache` the map. Parsed data is represented by the
replacement it was parsed from, so that `DataIsOwn` says that a caller gets the
data of its own replacement. Replacements that are too long are parsed each time,
and those that do not parse fail.

## The runs

All runs end within three minutes on two cores. `CHECK_DEADLOCK` is off where a bound
stops the system (time, calls, a tree that is final) or that is to show a violation;
`vm_scan`, `replacer_cache`, `parser` and `calls` check it.

| Run | Specification and bounds | Properties |
| --- | --- | --- |
| `clock_safety` | 2 callers, timeouts 1 and 3, period and slop 2, 2 units per tick, calls up to time 10, 16 units of time | `TypeOK`, `OneUpdater`, `DeadlineCovered`, `NoFalseTimeout`, `ClockMonotone` |
| `clock_liveness` | 2 callers that may stall, 1 stopper, 11 units of time, with fairness | `TimeoutHappens`, `UpdaterStops`, `LaterMatchesTimeOut` |
| `clock_stale` | 2 callers, `Stall` | `NoFalseTimeout` is violated (finding 1) |
| `vm_scan` | 70 patterns, all inputs of up to 2 to 4 characters, all starts, full and quick code; some with up to 3 scans per runner and timeouts, some with a limit; with fairness | `StackBalanced`, `CrawlAccounts`, `LastCaptureLives`, `CapturesAreIntervals`, `StorageSuffices`, `LimitHolds`, `ImplementsScan`, `ScanReturns` |
| `vm_limits` | one pattern that pushes more than half of its reserve per pass, a limit of 281 where the array begins with 280 | `LimitedMatchesFail` is violated (finding 2) |
| `parser` | thirteen thousand texts in all dialects | `ParsesWhatIsWritten`, `GroupsAreCounted`, `NamesHaveNumbers`, `ClassesAgree`, `OverlapsAreSeen`, `ParsesEnd` |
| `optimizer` | three thousand written trees, all texts of up to 3 or 4 characters | `OutcomesKept`, `MatchKept`, `SkippedStartsFail` |
| `changed_matches` | four patterns, from their text to the compiled tree, on all texts of up to 3 characters | `NothingChanged` is violated (findings 3 to 6) |
| `search` | a thousand written trees, all texts of up to 3 to 7 characters, all the scans of a text | `CursorsKnow`, `CutKeepsMatches`, `ImplementsScan` |
| `calls` | 76 patterns, all strings of up to 3 to 5 units, all starts, all limits, 26 replacements | `FilterSkipsNoMatch`, `FindsEveryMatch`, `RebuildsText`, `ScansAdvance` |
| `shared_calls` | 2 goroutines, 4 calls, 2 inputs of the same length | `ResultsAreOwn`, `MatchesHaveCaptures`, `MatchesKeepText`, `LandmarksHaveOneOwner` |
| `replacer_cache` | 3 goroutines, 5 replacements of which one is too long and one invalid, 2 entries | `TypeOK`, `MapMatchesList`, `DataIsOwn`, `KeepsMostRecentlyUsed` |

### Why the bounds are enough

- **`clock_safety`**. Two callers are what every race between `makeDeadline` and
  itself or the updater needs. Calls may start up to time 10, long after the
  first updater has stopped, so the clock is stopped, refreshed and started
  again within a behaviour, and with two units per tick every rounding occurs.
  Two updater identities suffice to see a second updater. Callers and updaters
  are interchangeable, hence the symmetry.
- **`clock_liveness`**. No symmetry, because it is unsound for liveness. Every
  deadline lies well before `MaxTime`, so `TimeoutHappens` and `UpdaterStops` are
  not decided by the end of time: in the mutants they are violated. A stopped
  clock owes nothing to running matches, so `TimeoutHappens` excludes behaviours
  in which somebody calls `StopTimeoutClock`. `LaterMatchesTimeOut` is about those:
  calls begin up to time 3, so a match may start at any moment of a stop (before
  `clockEnd` is cleared, after it, while `stopClock` polls and the updater is between
  its last two tests) and once it is over. What starts after the clearing must
  be timed out; a poll that cleared `clockEnd` again is the mutant.
- **`vm_scan`**. The patterns are chosen so that together they use each
  instruction in each way of entering it, and the combinations in which
  captures, empty iterations, atomic groups and lookarounds meet. Three or four
  characters are enough to take each loop through its minimum, its maximum and
  an empty iteration, and to fail after it. Balancing groups are only searched
  from left to right here; the remarks say why. Three scans are what it takes to
  abort one, to find a match with the same runner, and to continue from it. The
  patterns for the storage have bodies full of lazy loops, each of which leaves an
  entry on the backtracking stack: without a limit `runtrack` is doubled more than
  once. The limits are 176, which is less than one pattern's array has at first and
  twice the other's, and 140, to which `growTrack` cuts the doubled array with room
  for the reserve. `runstack` never grows in these runs: its depth is bounded by the
  nesting of the pattern, whatever the input, and the array is allocated for more.
- **`vm_limits`**. 281 is the limit that leaves least: the array grows by one slot.
- **`parser`**. Every part that opens or closes a group, refers to one or changes
  options stands next to every other and in the plain parentheses of a condition;
  groups of every kind stand as a condition with every part after them; duplicate
  names, repeated groups and options have families in which parts are nested in one
  another. Two parts in a row show what one leaves behind for the
  next (options, numbers, a unit without quantifier), groups with numbers and
  names in every order with references before and after, two members of a class
  before, after and around a hyphen, a class in a class. Texts cut off at every
  place, or with one character missing, must end in an error or in a tree.
- **`optimizer`**. All sequences of three items and all groups of two branches from a
  small vocabulary, in every kind of group and under every kind of quantifier, and
  every pair of more than a dozen units of other kinds. A reduction looks at most
  at a node, its neighbours and the children, and three characters tell apart what
  the items can match.
- **`search`**. For each mode of searching there is a family of patterns, with texts
  long enough for the search to find a candidate, fail there, and find another one,
  or to be stopped by the end. The cutoffs of the analyses are set so low that
  patterns lie on both sides of each: 2 copies of a loop for 32 and 4, prefixes of 3
  for 8, 3 prefixes for 16. Each text is scanned to its end, with the cursors
  kept from scan to scan.
- **`calls`**. The alphabets mix one, two and three byte characters, the replacement
  character U+FFFD and the invalid byte that decodes to it; starts are at every
  byte of the string, before it and behind it; limits are none, 0, 1 and 2. The
  patterns reach every filter. With `MinReplaceFiltered` at 3 instead of 32, Replace is
  called with and without the filter.
- **`shared_calls`**. The interesting hand-over needs four calls: find, find next
  (whose match carries the landmarks), and two goroutines that both continue from
  it. Inputs of the same length are those whose buffers can be mistaken.
- **`replacer_cache`**. Three goroutines are one more than the cache has entries,
  so a key can be evicted between another goroutine's miss and its add.

### Fairness

- `FastClock`: time advances, an updater that can run does, and a caller that has
  entered `makeDeadline` goes on and, when its deadline is reached, notices it:
  the goroutine scheduler is fair and `execute` polls at regular intervals. No
  match has to start, none has to end by itself, nobody has to call
  `StopTimeoutClock`.
- `RegexVM`: a scan that has begun is run by its goroutine until it returns. No
  scan has to begin and no timeout has to fire. This is weak fairness of the steps of
  a scan, written out as `Fairness`: as long as a scan is `Running` one of them is
  possible, for the run finds no state without a successor but those in which a
  runner has made its last scan (`Terminating`).
- `RegexParser`: Parse runs until it is done. This is weak fairness of its steps,
  written out as `Running` since the only state without one is the last; the run
  checks that there is no other.

### Findings

1. **`clock_stale`** (`fastclock.go:66`). `makeDeadline` refreshes a stopped clock in
   one locked section and extends it in another. If a caller is delayed between
   them, it extends the clock long after it refreshed it. The comment at
   `fastclock.go:49-50` says that whoever sees the extension sees the refreshed
   time "that preceded it"; that time may by then be older than a timeout, and
   the caller that relies on it times out as soon as the updater publishes the
   real time. The same property holds when callers do not stall there
   (`clock_safety`), and that it then holds in general is a theorem.
2. **`vm_limits`** (`runner.go:1186`). `growTrack` cuts the new size to
   `MaxBacktrackingStackSize` and succeeds if the array has grown at all;
   `ensureStorage` does not ask again whether the reserve is free. If the limit lies
   less than the reserve above the size the array had, the next pass may push below
   index 0, a panic, where `options.go:109` promises `ErrBacktrackingStackLimit`. The
   run shows it for 280 slots and a limit of 281. `StorageSuffices` says what is true
   whatever the limit.
3. **`changed_matches`** (`parser.go:1328`). The `(?` of a condition sets
   `ignoreNextParen`. A condition that is a group of another kind does not use it up,
   and the next plain parenthesis does not capture: in `(?(?=a)(a)|b)` the branch `(a)`
   captures nothing, though the prescan has counted group 1. So `GroupsAreCounted`
   requires all counted groups to be in the tree only where no such condition is.
4. **`changed_matches`** (`tree.go:1829`). The counts of a quantified loop and of the
   atomic loop in it are multiplied: `(?>a+)?ab` becomes `(?>a*)ab`, which does not
   match `ab`.
5. **`changed_matches`** (`tree.go:1053`). A loop over what is no word character is made
   atomic before `\B`, though `\B` also holds between two of them: `-+\B` becomes
   `(?>-+)\B`, which does not match `--a`.
6. **`changed_matches`** (`tree.go:862`). The last branch of a balancing group is made
   atomic as if nothing could fail after it, but a balancing group fails when there
   is nothing to pop: `(?<-n>a|(?<n>a))` no longer matches `a`.

### Remarks

Behaviour of the code that was met while modelling it, and that the patterns and
inputs of the passing runs leave out or that the references state as it is.

- `fastclock.go:52`: the clock period is added to a timeout before it is scaled to
  ticks, so a timeout within a period of `math.MaxInt64` wraps around. `MaxInt64`
  itself is the default and never reaches the clock.
- `runner.go:2588`: when the group that balances ends before the start of the capture
  it pops, as in a right-to-left search, `transferCapture` sets `start` and leaves
  `end`, so that the length is negative. The case above swaps both.
- `regexp.go:391`: FindAll compares an empty match with the end of the match before,
  also in a right-to-left search, where it would touch its beginning, so that
  there an adjacent empty match is kept. `FindsEveryMatch` states it so.
- Replace writes U+FFFD for an invalid byte once there is a match; ReplaceFunc and
  Split keep the byte. `RebuildsText` compares runes for the one, bytes for the others.
- Parser: with `MaintainCaptureOrder` explicit numbers may be given twice
  (`(?<2>a)(b)`); in `(?:ab)\Q\E*` the quantifier binds to the `b` that is left of the
  reduced group; `(?#c){` is an error; `[a-[]()]]` counts a group inside the class.
- Classes: `[a-\-]` loses its `a`; `[\Qad\E-f]` and `[a-\Q\E]` read the quotation and
  the range in an order of their own; `[\W\d]` does not contain `5`; `(?i)[a-c-[b]]`
  contains `B`; `(?i)\P{Lu}` folds the complement; `[^\s\S]` is taken for everything.
  `Analyze` takes rune 127 for a non-ASCII one (`charclass.go:1607`), which nothing in
  this repository reads.

## The proofs

The following is proved for every value of the constants that the named assumptions
allow: any number of goroutines, any timeouts and clock period, any set of
replacements and cache size, any number of calls, texts and pooled objects, and any
programs whose code is well shaped, with any limit on the backtracking stack.

| Theorem | States | Assumes |
| --- | --- | --- |
| `TypeCorrect` | `FastClock`'s `TypeOK`, that the origin of time does not lie in the future, and that `current` does not run ahead of the time since then | `TimeAssumption` |
| `AtMostOneUpdater` | `OneUpdater`, also with stoppers and with stalls | `TimeAssumption` |
| `DeadlinesCovered` | `DeadlineCovered` | and that nobody calls `StopTimeoutClock` |
| `NoFalseTimeouts` | `NoFalseTimeout` | and no stalls, no overflow |
| `ClockNeverTurnedBack` | `ClockMonotone`, of every step | `TimeAssumption` |
| `CacheBounded` | `ReplacerCache`'s `TypeOK`: never more than `MaxSize` entries | `SizeAssumption`, `NoneAssumption` |
| `ListAndMapAgree` | `MapMatchesList` | the same |
| `CallersGetOwnData` | `DataIsOwn` | the same |
| `CacheIsLeastRecentlyUsed` | `KeepsMostRecentlyUsed`: `ReplacerCache` implements `LeastRecentlyUsed` | the same |
| `CallsFindTheirOwn` | `SharedRegexp`'s `ResultsAreOwn` | `HitsAssumption`, `ObjectAssumption` |
| `CapturesAreRecorded` | `MatchesHaveCaptures` | the same |
| `HeldMatchesKeepText` | `MatchesKeepText` | the same |
| `LandmarksAreOwned` | `LandmarksHaveOneOwner` | the same |
| `MachineIsInStep` | `RegexVMProofs`' `IInv(FALSE)`, the inductive invariant of `RegexVM` | `SizesAssumption`, `CodeAssumption`, `TextsAssumption` |
| `MatchesLeaveNothing` | `StackBalanced` | the same |
| `CapturesAreAccountedFor` | `CrawlAccounts` | the same |
| `ReserveSuffices` | `StorageSuffices` | the same |
| `TrackStaysLimited` | `LimitHolds` | the same |
| `PositionsAreInText` | `IInv(TRUE)`: also that every position on the machine lies in the text and every capture array is sound | and `[]TransfersInOrder` of the run |
| `CapturesStayInText` | `CapturesAreIntervals` | the same |
| `LastCaptureIsKept` | `LastCaptureLives` | the same |
| `PlainCapturesAreKept` | both, of every run | the first three, and that no balancing group of the code saves an interval |

The assumptions on constants are evaluated by TLC for the constants of the runs.
`CodeAssumption` is the one that says something about the code of the repository: that
the code generator's code has a shape. It is not proved of `RegexWriter`, which is
recursive over trees, but TLC evaluates it for the full and the quick code of every
pattern of `vm_scan` and `vm_limits`, with frames that `MCRegexVM` computes.
`TextsAssumption` says that a text has a length. `TransfersInOrder` is not an assumption
on constants but on a run of the machine; it and the reason for it are explained below.

### The argument for the clock

None of the properties is inductive by itself.

- `TypeInv` adds `ClockInv` to `TypeOK`: the origin of time is not in the future,
  `current` does not run ahead of the machine's clock, and an updater implies an
  origin. Without it a time since the origin need not be a natural number. The
  counting argument for `AtMostOneUpdater` is `OneUpdater` itself: a goroutine is
  forked only when `running` is false, in the same locked section that sets it.
- `CoverInv`: a clock that is stopped has gone past `clockEnd`; a caller has never
  seen a `clockEnd` that is later than the present one; and the end of a caller
  that is matching is covered. The step that needs all three is the fast path:
  the caller compares with a `clockEnd` that it read before, which can only have
  been extended since.
- `DeadlineInv` bounds how far `current` may lag behind the machine's clock.
  `FreshInv`: not at all when an updater has just been forked, or when a caller
  has refreshed a stopped clock and is about to extend it; and while an updater
  sleeps, `current` is at most a period older than the time at which it wakes.
  `CallerInv`: a caller on the fast path has read a `current` that is at most a
  period older than its call, or one that is past the end it has seen, which
  sends it to the slow path; and a deadline that was computed lies the timeout
  after the call, up to the lag that the added period makes up for. It rests on two lemmas about rounding, `TicksMonotone` and
  `TicksBounds`.

### The argument for the cache

`IInv` is `TypeOK`, `MapMatchesList` and `DataInv`. `MapMatchesList` says that the list
has no element twice, that its elements are those the map has, and that the
entry of a key's element names the key. `DataInv` says that an entry holds the
data of its own key, and so does a call that is past its parse. Adding a key that
another goroutine has added meanwhile keeps it because it updates the entry and
moves the element (`MovedToFront`, on `MoveToFrontPermutes`); adding a new one
because the element is fresh, and because the key that is deleted from the map
is that of the element that leaves the list (`Added`, on `PushFrontAdds` and
`RemoveBackShortens`).

The refinement maps the list to `Order`, the keys of its elements, and each call to what
its client has seen: idle, waiting or served (`Client`, `StateOf`). A hit, both ways
of adding and a parse whose result is not cached serve the client; a lookup in vain
and any other parse are stutters. Adding needs the invariant: the code updates the
entry if another goroutine has added the key since, and otherwise drops the last
element of a full list, and the abstract cache does the same with a key that it has
and one that it has not (`ServedCached`, `ServedNew`). `CacheableInv` adds that what
may not be cached is neither listed nor about to be.

### The argument for the shared Regexp

Every object has one owner at a time: a call, a runner, a pool or a match. `IInv` says
which, in one conjunct for each kind of object.

- `CallInv`: what a call holds in each of its states. `RunnerInv`: a runner serves one
  call, and has its full code and no text when it serves none. `MatchInv`: a match
  belongs to its callers, to one call or to one runner.
- `BufferInv`: a buffer or wrapper belongs to one call or to its pool. `TextInv`: the
  runes of a match that is held are those of the input it was found in, and neither a
  pool nor another call has them. `InfoInv`: a runner shares its text metadata with
  no match, but for the call that is about to hand both over.
- `ScanInv`: the text that a runner scans is that of its call.
- `LandmarkInv`: landmark searches belong to one runner, or to the one match that may
  pass them on. `PassedInv` and `KnowledgeInv`: what they have learned is nothing, or
  is true of the text of that match or call up to where the next scan begins.

`ResultsAreOwn` follows from `ScanInv` and `KnowledgeInv`: whether a scan asks its text or
what its searches remember, it finds the first hit of its own input. The hardest step
is `BeginNext`: several goroutines may go on from the same match, and only the one
whose `CompareAndSwap` succeeds takes the searches along; the others scan the same
runes with searches of their own.

### The argument for the interpreter

The stacks of `executeDefault` are slices of integers. An instruction pops from the
grouping stack what it supposes to be there, and an instruction that is undone pops
from the track the operands that it supposes it has pushed. What makes that right is
not in `runner.go` but in the code that `writer.go` emits, so that the argument needs
an assumption about code.

`CodeShapes` states it. A *frame* of an address gives the kinds of the cells on the
grouping stack when the address is reached going forward (a mark, which is a position;
a value, which is a position or the -1 of `Nullmark`; a count; the two cells of a
jump: the height of the crawl and of the track), and how many slots may be
pushed from there until the next jump back, where `ensureStorage` is asked. Each
instruction leads from its frame to the frames of its successors (`Keeps`); the code
as a whole begins with a `Lazybranch` to its `Stop`, and captures group 0 before it
(`Framed`); no frame needs more than `initMatch` allocates (`WellShaped`).

The invariant ties the state to the frames. It has a parameter: `IInv(FALSE)` follows
the shapes of the stacks only, which needs nothing but the assumptions on constants;
`IInv(TRUE)` also follows what lies in them.

- `StoreInv` and `SizesInv`: the arrays are never smaller than `initMatch` makes them,
  never larger than the limit, and the stacks fit into them.
- `RunInv`: the grouping stack has the cells of the frame of `pc`, and the track
  `LeadsBack`. There is a *log*: for the end of each entry of the track the moment
  when it had been pushed, that is the cells of the grouping stack and the crawl.
  The entry on top of it was pushed by an instruction that was carried out at an
  earlier moment of the log (`Entry`), and what it pushed leads back to that moment
  (`Left`, `LeftAgain`: one case for each instruction that can be undone). A jump on
  the grouping stack names a moment of the log that is still there (`IsLog`'s last
  conjunct), which is why `Backjump` and `Forejump` may cut the track to a height that
  was saved long ago, and undo the captures down to a height of the crawl. `Heights`
  bounds the depth at which an entry may lie, with the room its address needs.
- `RestInv`: between the runs the stacks are empty; a match leaves the grouping stack
  empty because the frame of `Stop` is that of the first instruction.
- `CaptureInv`: each capture array has two numbers for each time its slot is on the
  crawl. It needs the log too: undoing may not ask for more of the crawl than
  there is.
- `PosInv`, with positions: `pos` lies in the text. The moments of the log describe the
  saved values as well as their kinds (`Describes`, `Placed`), so that a position that
  comes back from the track when an instruction is undone, or from a mark, lies in
  the text too.
- `ArraysInv`, with positions: every capture array is `Sound`.

A capture array is sound if each of its pairs either is an interval of the text or is
two references, and these name the capture that was left on top below the one they
take away. Which capture that is after each pair is a function `top` (`IsTops`): after
a capture it is that capture, after a pair of references the one below the last top,
found by following `top` itself, as the last balanced pair may stand on earlier ones.
`addMatch` keeps that, and so do `balanceMatch`, which must find the same capture by
arithmetic on the last pair alone, and `removeMatch`. `CapturesAreIntervals` is a part of
it. For `LastCaptureLives` the pass of `tidy` has to be compared with `top`: what `tidy`
keeps of the first n pairs is what it kept up to the pair of the top, whatever
was balanced in between (`IsKept`). With no induction theorem at hand, that, and that
`tidy`'s recursive function exists at all (`KeptBy`), is proved by taking the least
counterexample (`LeastOf`). `LastKept` concludes that what is left last is what
`isMatched` and `matchIndex` look at.

`TransfersInOrder` is what that needs of a run. A balancing group that saves, `(?<a-b>...)`,
records what lies between the capture of `b` and its own interval. If its interval
ends before that capture begins, which can happen right to left or after a
lookahead has captured what lies ahead, `transferCapture` records a negative length
(the remark on `runner.go:2588`). The array then is not sound: `(?<2-1>a)b(a)` on `aba`,
right to left, gives group 2 the pair 2, -1, and `tidy` takes the -1 for a reference and
drops the capture, though `isMatched` has reported it. So neither property holds of
all code. `TransfersInOrder` says that no such group closes on such an interval: its
own, the positions in either order, does not end before the capture it takes begins.
That excludes exactly the negative lengths. It is a condition on a balancing group
at one step; the theorems say that nothing else, in either direction, balanced,
backtracked or run again, can harm a capture array. It is not one of the run's
properties; added to the invariants of `RegexVM_scan.cfg` (from a module that extends
`MCRegexVM` and `RegexVMProofs`) it holds on all patterns and texts, whose balancing
groups do save, so that there the theorems explain the two invariants of the run. Code in which no `Capturemark`
has both operands, that is every pattern but those with a `(?<a-b>...)` of two names,
meets it trivially: `PlainCapturesAreKept`.

For each instruction, forward, undone and undone again, there is a lemma that it
keeps the machine in step. They rest on a few lemmas about the log: it may be cut at
an entry (`LeadsBackPop`) or at a jump (`LeadsBackJump`), extended by an entry
(`LeadsBackPush`), and read with more room (`LeadsBackHigher`).

Two things had to be said with care. `Branchmark` and its kin may be undone twice, and
the second time find an entry that they pushed when undone first, so the log has
moments that no instruction was at going forward. And once `growTrack` has cut the
array to the limit, the reserve need not be free (finding 2), so that the bound on the
depth of the track is part of the invariant only until then; after it, the steps that
push past the end lead to the state in which the scan is stuck, and the rest of the
invariant holds in it.

### Only model-checked

- Liveness (`TimeoutHappens`, `UpdaterStops`, `LaterMatchesTimeOut`,
  `ScanReturns`, `ParsesEnd`): out of the reach of the prover.
- Everything about trees: `RegexTree`, `RegexReductions`, `SearchAnalysis`, `RegexSem`
  and `RegexWriter` are recursive over them, for which the prover has no induction;
  so `RegexOptimizer`, `RegexSearch`, `RegexParser` and `RegexCalls`, and that the
  code of `RegexWriter` is well shaped.
- The refinements `ImplementsScan`, of `RegexVM` and of `RegexSearch`: what a match
  is comes from `RegexSem`.
- Of `RegexVM`: `CapturesAreIntervals` and `LastCaptureLives` of code with a balancing
  group that saves are proved of the runs with `TransfersInOrder` only; for the code of
  `vm_scan` both are checked.

## What is not modelled

- `\X`: grapheme clusters are a classifier over Unicode tables.
- The Unicode tables and the tool that generates them; the aliases of names of
  properties; descriptions of classes for humans.
- The analyses that only feed generated engines, and the registry by which such an
  engine is found: another program generates them.
- `helpers/`, whose searches are taken by what they return, and the choice
  between equivalent searches by the density of a text.
- Sparse group numbers (`caps`), access to groups by name, numbers beyond an int in
  a replacement, escapes in ECMAScript names of a replacement.
- `MatchTimeout` in calls of several scans, runner and buffer pools in FindAll,
  Replace and Split, which hand nothing over.
- The methods of `compat` that are the same calls with another form of the answer.
- Formatting, error texts and debugging output.

## Plan

What is left, in this order:

1. **Proofs.** `TransfersInOrder` from the code: that it holds where everything is
   matched from left to right and no lookaround captures, with frames that order the
   marks; that the steps of the scan loop follow `RegexScan`, given what a run of the
   code returns.
2. **Sparse groups.** `caps` and the names of groups from the parser to a match.
3. **Grapheme clusters.** The boundary rules as an automaton over classes of runes,
   and the instruction.
