# A TLA+ verification of rosu-pp (ccv3)

This directory holds TLA+ models of the difficulty and performance calculator in
`src/`, the TLC configurations that check them on small instances, and proofs
that TLAPS checks for instances of every size. `PROJECT.json` lists the runs,
the mutants that each property must catch, the source lines behind every
definition, the hazards and the theorems.

Paths below are relative to the root of the repository.

## 1. The system

The crate is a library. A caller decodes a `.osu` file into a `Beatmap`,
optionally converts it to another mode, and asks for *difficulty attributes*
(once for the whole map or a prefix of it, or gradually, object by object) and
for *performance attributes* of a score on it. Everything is single threaded
and synchronous: every operation takes `&mut self` or consumes its receiver, so
there are no races between threads to model. What makes the code hard is

* **the same thing computed twice**. Each mode has a one-shot calculation and a
  gradual one; each gradual one has `next()` and an `nth()` that repeats the
  body of `next()` for skipped objects; the legacy score is simulated from the
  whole map and object by object; hit results are generated by three algorithms
  that promise the same accuracy. The copies are meant to agree after **every**
  mix of calls, and tests try two or three mixes;
* **long sequences of legal calls** that move several counters, iterators and
  logs in lockstep (`idx`, `diff_objects_iter`, the counters, the break
  iterator), with off-by-ones between object and difficulty object numbers;
* **unsigned and saturating arithmetic** at the ends: an empty map, the first
  object (which has no difficulty object), the last one, `usize::MAX` as the
  argument of `nth`, `i32` casts in the score simulation;
* **partial work before an early return**: `?` in the middle of loops.

### Components

| component | source | state | operations | what makes it correct |
|---|---|---|---|---|
| gradual calculator contract | `src/any/difficulty/gradual.rs` | the four mode calculators behind one enum | `new`, `next`, `nth`, `len` | each answer is the one-shot value of the objects passed; `nth(n)` is `n + 1` times `next()`; `None` is final; `len()` tells how many answers are left |
| osu! gradual difficulty | `src/osu/difficulty/gradual.rs` | `idx`, `attrs`, `skills`, the score simulator and nested score | `new`, `next`, `nth`, `len` | the above |
| taiko gradual difficulty | `src/taiko/difficulty/gradual.rs` | `idx` (hits), `diff_objects_iter`, `first_combos`, `attrs`, `skills` | `new`, `next`, `nth`, `len` | the above; steps are hits, drum rolls and swells are passed on the way |
| catch gradual difficulty | `src/catch/difficulty/gradual.rs`, `src/catch/attributes.rs` | `idx`, `count` (deltas), `attrs`, `movement` | `new`, `next`, `nth`, `len`; `record_fruit`, `record_droplet`, `record_tiny_droplets` | the deltas add up to the one-shot counts |
| mania gradual difficulty | `src/mania/difficulty/gradual.rs` | `idx`, `note_state` (combo, hold notes), `strain` | `new`, `next`, `nth`, `len` | the above, cut off at `passed_objects` |
| one-shot difficulty | `src/{osu,taiko,catch,mania}/difficulty/mod.rs` | none | `difficulty`, `strains`, `DifficultyValues::{calculate, eval, create_difficulty_objects}` | the reference for the gradual calculators |
| legacy score simulation | `src/osu/legacy_score_simulator/`, `src/osu/utils/legacy_score.rs` | break iterator, break time, `object_count`, `start_time`, combo and scores | `simulate`, `simulate_next`, `simulate_hit`, `score_multiplier`, `calculate` | both simulators agree; every call returns |
| hit result generation | `src/any/hitresult_generator.rs`, `src/*/performance/hitresult_generator/`, `src/*/performance/inspect.rs` | none (pure) | `generate_hitresults` of `Fast`, `Closest`, `IgnoreAccuracy` | the results add up to the objects, keep what the caller gave and are as close as promised |
| gradual performance | `src/*/performance/gradual.rs`, `src/any/performance/gradual.rs` | a gradual difficulty | `next(state)`, `nth(state, n)`, `last(state)`, `len` | the performance counts exactly the objects that its attributes count |
| performance builders | `src/*/performance/mod.rs`, `src/any/performance/`, `src/util/map_or_attrs.rs` | `MapOrAttrs`, `Difficulty`, optional hit results | setters, `try_mode`, `mode_or_ignore`, `generate_state`, `calculate` | attributes replace the map for good; what the caller gave reaches the calculation of whatever mode; a call that fails leaves no trace |
| performance formulas | `src/*/performance/calculator.rs` | none | `calculate` | floating point |
| difficulty builder | `src/any/difficulty/mod.rs`, `inspect.rs` | mods, `passed_objects`, overrides | setters, getters | what is fixed wins over mods, mods over the map |
| strain skills | `src/any/difficulty/skills.rs`, `src/util/macros.rs`, `src/*/difficulty/skills/` | current section peak and end, list of peaks, object strains | `process`, `get_curr_strain_peaks`, `difficulty_value` | one peak per section, the highest of its strains; sections start with the first processed object |
| skill evaluators | `src/*/difficulty/evaluators/` | none | `evaluate_diff_of` | floating point |
| taiko preprocessing | `src/taiko/difficulty/{color,rhythm}/` | groups of objects | `process_and_assign` | groups partition the objects, and look back at the right ones |
| object conversion and stacking | `src/osu/convert.rs`, `src/osu/object.rs`, `src/catch/convert.rs`, `src/taiko/convert.rs` | stack heights, positions | `convert_objects`, `stacking`, `old_stacking` | stacked objects differ in height, objects caught are those counted, mirroring only moves |
| mania conversion | `src/mania/convert/` | pattern, random generator, density | `convert`, pattern generators, `apply_*` of the mods | every object gets a free column, no draw goes on forever, mods keep notes apart |
| decoding | `src/model/beatmap/decode.rs`, `src/model/control_point/` | pending control points, hit objects and sounds, curve points | `parse_*`, `flush_pending_points` | the value active at a time is the file's, objects and sounds stay together, one failing line does not spoil others |
| suspicion check | `src/model/beatmap/suspicious.rs` | none | `check` | a map refused is refused with more objects |
| beatmap attributes | `src/model/beatmap/attributes/` | none | `build`, `hit_windows`, `apply_clock_rate` | attributes, windows and clock rate agree |
| utilities | `src/util/` | `LimitedQueue`, sorts, `RefCount`, random generators | `push`, `as_slices`, `Index`, ... | the queue holds the latest N elements in order; sorts sort |
| mods | `src/model/mods.rs` | none | dispatch over three mod representations | the representations agree |
| `generate_play` binary | `src/bin/generate_play.rs` | none | command line | - |

### How they interact

`GradualDifficulty` dispatches to one of the four mode calculators. A
calculator owns its difficulty objects, its skills and (osu!) its score
simulator; every call feeds the object at `idx` to all of them. A
`GradualPerformance` owns a `GradualDifficulty`, calls `nth` on it and hands the
attributes with the caller's score state to a performance builder, whose
`generate_state` calls a hit result generator. The performance builder runs the
one-shot difficulty calculation when it was given a map, and keeps the
attributes instead of the map from then on (`MapOrAttrs`). There are no
callbacks and no shared mutable state; what is shared (`RefCount` between taiko
difficulty objects and colour data) is built once and only read afterwards.

## 2. The modules

```
Arithmetic                    integer operations of Rust, and f64 rounding
 ├─ GradualIterator           what a gradual calculator promises
 ├─ OsuGradual
 │   └─ Gradual ── MCGradual  composes the four modes, each of which
 │       TaikoGradual, CatchGradual, ManiaGradual    refines GradualIterator
 ├─ LegacyScore ── MCLegacyScore
 ├─ HitResults ── ScoreState ── MCScoreState
 │   CatchHitResults (an instance of ScoreState)
 ├─ ControlPoints, Sorting ── Decoding ── MCDecoding
 └─ Preparation ── MCPreparation, composed of
     ├─ ManiaConvert          NoteDensity over LimitedQueue, ManiaPatterns
     ├─ ManiaMods, OsuObjects, TaikoConvert, CatchObjects
     │                        over SliderEvents (over ControlPoints) and Sorting
     └─ TaikoGroups, Suspicion, StrainSkills
LimitedQueue refines LatestElements
Rational ── DifficultySettings ── BeatmapAttributes ── PerformanceBuilder ── MCPerformance

Induction                     over natural numbers, for the proofs
 ├─ GradualProofs, ScoreStateProofs, LegacyScoreProofs
 └─ SortingProofs ── DecodingProofs, PreparationProofs
PerformanceBuilderProofs
```

The MC modules only hold instances: small maps, files, requests and jobs.

### Gradual calculators

**GradualIterator** is the abstract specification of `GradualDifficulty`
(`src/any/difficulty/gradual.rs`): a position that calls move forward, answers
that are `regular[position]`, the one-shot attributes of the objects passed, and
`None` without any movement at the end.

**OsuGradual, TaikoGradual, CatchGradual, ManiaGradual** model
`src/*/difficulty/gradual.rs` next to the one-shot calculation of
`src/*/difficulty/mod.rs`. The variable `calc` holds the fields of the
calculator, `answer` what the last call returned, the other variables the map.
`CallNext` and `CallNth(n)` are whole calls: `&mut self` lets nothing run in
between. What an object contributes to a skill is a floating point function of
the object and of the ones fed before, so the models record *which* objects were
fed, in which order, instead of the numbers; if both logs are equal then so are
the numbers.

| in the model | in the code |
|---|---|
| `calc.idx` | `idx` |
| `calc.counted[i]` | how often `increment_combo` and the circle, slider and spinner counters saw object `i` |
| `calc.processed[s]` | the difficulty objects handed to `skills.s.process` |
| `calc.scored` | the objects handed to `score_simulator.simulate_next` and the nested score |
| `SkipOn` | the body of `nth` up to its final `self.next()` |
| `NextOn` | `next` |
| `RegularAttributes(k)` | `difficulty` with `passed_objects(k)` |

In osu!taiko a step is a hit, and `first_combos` and the `diff_objects_iter` are
fields of their own; in osu!catch the counts are the deltas recorded by
`CountedObjects`; in osu!mania combo and hold notes are counted by
`increment_combo`, holds being worth their length in ticks.

**Gradual** composes them. A map has one mode; the enum passes each call on to
the calculator of that mode and the other three stay as they are. If `wrapped`,
the caller holds a `GradualPerformance`: every call of it is an `nth` of the
difficulty calculator inside (`PerformanceNth`), and `passed` is the
`passed_objects` that the performance is then calculated with.

### Scores

**LegacyScore** models the gradual score simulator, `simulate_next` with its
loop over the breaks (`pc = "breaks"` while the loop runs, one action per
iteration, so that a loop without end is a behaviour), and the one-shot
simulator and the spinner formula as operators to compare with. `MapsAssumption`
says of a map what the decoder makes of every file: objects are sorted, a break
ends no sooner than it starts; breaks are neither sorted nor kept apart.

**HitResults, CatchHitResults** are the hit result generators
of `src/*/performance/hitresult_generator/` as operators from an `Inspect`
struct to hit results. The three modes with a single pool of hits share the
algorithms, osu!mania has its own; judgements are numbered best first.

**ScoreState** is a performance calculator that generates states: `perf` are the
options, `content` is `map_or_attrs`, `state` what `generate_state` returned,
and `asked` the options it was asked with. `GenerateState` is the whole of
`XPerformance::generate_state` including the attributes that replace the map
(`InsertAttrs`), the `Inspect` struct, the generator, what is filled up
afterwards and what is stored in the builder (`Store`). `SetAccuracy`,
`SetMisses` and `SetPassed` are setters; they come before, between and after.

### Performance calculators

**PerformanceBuilder** is the life of a performance calculator around those
numbers: `perf` is the calculator with its map or attributes, its `Difficulty`
and its fields; `generic` says whether the caller holds a `Performance` or the
calculator of a mode; `given` is a ghost of what the caller gave last. One
action per call: `SetOption`, `SetSetting`, `UseDifficulty`, `UseState`,
`TryMode` (`try_mode` and `mode_or_ignore`), `GenerateState` and `Calculate`
(plain and checked). Errors and panics are answers; a calculator that was
consumed or panicked takes no more calls. The hit results that a generator
would find are distinct numbers here, since ScoreState has the real ones.

Its first part says which option reaches which field of which mode, including
the fields handed over by `TryFrom<OsuPerformance>` and the score states.
**DifficultySettings** is the `Difficulty` builder with its clamps and its
inspection, after the questions about mods in each of the three
representations, with one table of key mods for each, the flags of `impl_has_mod!`
that say which questions bits answer, and the rates; **BeatmapAttributes** the attributes builder with overrides,
clock rate, hit windows and their inverses; **Rational** exact fractions for the
values these properties compare.

### Decoding

**Decoding** reads a file line by line. `state` is the `BeatmapState`, one action
per section whose lines change it, and `Finish` is the conversion to a `Beatmap`.
A line whose parser fails keeps what it had changed. `rosu-map` splits files
into lines and is external, so a line is a record of what its parser tells
apart. **ControlPoints** has the three kinds of control points with `add`,
`check_already_existing` and the lookups by time; Decoding has the splitting of
a slider's path into segments and its `curve_points` too; **Sorting** the sorts of
`src/util/sort/`: the introsort of C# (`CSharpSort`), the one of old osu!
(`LegacySort`), and the tandem sorter with its marks (`NewStable`, `Sort`), with
their loops as recursive functions of the rounds.

### Preparation

**Preparation** is everything between a decoded map and the first skill. Each
pure step is a job: one action that takes its input from `job` and leaves what
the code returns in `answer`. The conversion to osu!mania keeps state from
object to object and takes its steps one by one.

| module | models | actions or operators |
|---|---|---|
| ManiaConvert | `src/mania/convert/mod.rs` | `Circle`, `SliderHead`, `SliderTime` (each time of a slider enters the density), `SliderNotes`, `EndTimeObject` |
| ManiaPatterns | `src/mania/convert/pattern_generator/`, `pattern.rs` | sets of the patterns each generator may produce |
| NoteDensity, LimitedQueue, LatestElements | `compute_density`, `src/util/limited_queue.rs` | `ComputeDensity`, `Push` |
| ManiaMods | Invert, HoldOff, Random and keys in `src/mania/convert/mod.rs` | `ApplyManiaMods` |
| OsuObjects, SliderEvents | `src/osu/convert.rs`, `src/osu/object.rs` | `PlaceOsuObjects`: nested objects, stacking (old and new), reflection |
| TaikoConvert | `src/taiko/convert.rs` | `ConvertToTaikoMap`: sliders to hits, sounds and objects sorted in tandem, effect points, Random |
| TaikoGroups | `src/taiko/difficulty/{color,rhythm}/` | `GroupTaikoObjects` |
| CatchObjects | `src/catch/convert.rs`, `src/catch/object/juice_stream.rs` | `PlaceCatchObjects`: fruits and droplets, hard rock's offsets, hyper dashes |
| Suspicion | `src/model/beatmap/suspicious.rs` | `CheckSuspicion` |
| StrainSkills | `src/util/macros.rs`, `src/*/difficulty/skills/` | `CollectStrains`: sections, peaks and their value; the reading skill's window |
| Sorting | `src/util/sort/` | `SortKeys` |

The queue of `src/util/limited_queue.rs` has its fields `queue`, `end` and `len`;
`AsSlices` is `as_slices` and `Position` the index computed by `Index::index`.

### What is abstracted

* A random generator is **any** choice that the code around it can be led to: the
  conversion to osu!mania takes every column that a draw can end with, so what
  holds there holds for every seed. The sequence of one seed is not modelled.
* Times are whole ticks or milliseconds, positions whole pixels or thousandths;
  accuracies and attributes are exact fractions. Ties that the rounding of f32
  or f64 would break another way are broken exactly.
* Strains halve per tick (quarter in a column of osu!mania) instead of decaying
  exponentially, so that they stay integers; the weights of the peaks and the
  evaluated difficulty of an object are inputs. The properties compare strains,
  they say nothing of their size.
* Limits that need long lists (16 elements for a sort to split, 500 000 objects
  for suspicion) are parameters, instantiated small. Sorts run with the real
  threshold as well.
* Sliders are straight: paths are lengths, and what a curve would look like is
  `rosu-map`'s.

## 3. The runs

| run | shows | bounds |
|---|---|---|
| `Gradual` | in every mode, any mix of `next` and `nth`, of difficulties or performances, gives the values of the one-shot calculation (`AgreesWithRegular`, and by refinement `ImplementsIterator`, `ModesImplementIterator`), `nth(n)` is repeated `next` (`NthsAreRepeatedNexts`), `len` tells how many answers of `next` are left: exactly on maps with objects, one less without, in osu!taiko more by the non-hits among the first two objects (`LensTellAnswers`), a performance is told of exactly the objects its attributes count (`PerformanceCountsItsObjects`), a call answered `None` changes nothing, and iteration ends (`IterationsEnd`) | osu! maps of 0 to 6 objects; all osu!taiko maps of up to 6 objects, told apart by which are hits; all osu!catch maps of up to 5 recorded objects; all osu!mania maps of up to 4 circles, short and long holds; `passed_objects` 0, 2 or beyond the end; `n` of 0, 1, 2, 4 and 9 |
| `OsuGradualReading` | a violation: `next` does not feed the reading skill | osu! maps of up to 3 objects |
| `TaikoGradualLen` | a violation: `len` underflows on maps that do not start with two hits | osu!taiko maps of up to 4 objects |
| `LegacyScore` | the breaks collected piece by piece give the drain length of the whole list as soon as a call is through, and never more than the breaks cover before (`DrainAgrees`), both simulators give the same combo score unless a cast saturates, and the closed form of the nested score counts exactly the bonus spins and, with them, the full spins that the simulation pays (`ScoresAgree`), every call returns on maps without objects in breaks (`SimulationReturns`) | up to 3 objects and 2 breaks, which may be empty, overlap and come in any order, on a grid of 4 instants; spinners with an odd and with an even number of required half spins, one of them too short for a bonus; a small `i32::MAX` |
| `LegacyScoreBreakLoop` | a violation: for an object inside a break the call never returns | 3 instants |
| `ScoreState` | hit results add up and keep what was given (`HitsAddUp`), generating again from what was stored gives the same state, or, where the first one left its pools open or kept too many hits, another one that is final (`Repeatable`), `Closest` is closest against all possible hit results (`ClosestIsClosest`), best case is no worse than worst case (`PriorityOrders`), more accuracy gives no lower score (`MoreAccuracyMoreScore`) | maps of 3 to 5 objects with every kind of object, options from a set with a value that fits and one that does not; one change of an option at any point |
| `ScoreStateClosest` | a violation: `Closest` in osu!standard is not closest | osu!standard |
| `ScoreStateCatch` | a violation: the generated state is not the one that is used | osu!catch |
| `Decoding` | whatever lines come in whatever order: the velocity, effects and timing at every time are the file's (`ActivePointsAreThoseOfTheFile`, `TimingChangesAreKept`), sounds stay with their objects (`SoundsFollowTheirObjects`), sliders with their paths (`SlidersKeepTheirPaths`), and the approach rate follows the overall difficulty only without one of its own (`ApproachRateFollowsOverallDifficulty`) | files of up to 4 lines drawn from five sets: timing lines of three instants with every kind of change, timing lines around mode changes, settings in and out of range, objects of every kind, ten slider paths |
| `Performance` | for every sequence of calls: what the caller gave reaches the calculator through mode changes, states and inspections (`OptionsReachTheCalculator`), fixed and given values win over map and mods and the hit windows agree (`UserValuesWin`), mods without settings mean the same as bits, as acronyms and as Lazer mods, wherever these can express them: flags, rate, keys, offsets, slider head accuracy and attributes, and the reflection but for Mirror (`ModKindsAgree`), a generated state given back changes nothing (`StatesRoundTrip`), attributes replace a map for good, a failed call changes nothing, and a calculator made through `Performance` does not panic (`ContentOnlyMovesForward`) | 3 calls after the creation, 5 maps (one converted, one suspicious), 6 sets of mods, for `ModKindsAgree` each also with every single mod added that goes with them, one or two arguments for each of the setters, in and out of range |
| `PerformancePanics` | a violation: `Performance` panics on a map that its calculator cannot convert | the same |
| `Preparation` | the conversion to osu!mania never runs out of columns, and notes neither leave the stage nor overlap (`EveryNoteFitsTheStage`), quick notes move on (`FastNotesDoNotStack`), the density is that of the latest notes (`DensityOfLatest`, `HoldsLatest`); and of every job: sorts sort (`SortsSort`), refused maps stay refused (`MoreObjectsStaySuspicious`), mods keep notes apart (`ModsKeepNotesApart`), stacks differ in height (`StacksDoNotOverlap`), reflection keeps stacks and hyper dashes (`ReflectionOnlyMoves`), taiko sounds and kiai follow (`HitSoundsFollow`), groups partition (`TaikoGroupsPartition`), what is counted is what is caught (`PalpablesAreCounted`), peaks are those of their sections (`StrainsFollowTheMap`) | see below |

**Why the bounds are enough.** What can go wrong in the gradual calculators
happens at the first object (no difficulty object), the last one, and where two
calls meet; six objects have each of these, calls of every length from every
position, and calls past the end. The proofs lift the osu!standard result to all
sizes. For the breaks, a grid of four instants has every order of an object and
both ends of two breaks, equal instants included. The generators divide a
remainder among two to five judgements; with four or five objects each bound of
each search is met from both sides, and numbers that are too small, that fit and
that are too large are given for every subset of the judgements.

A control point meets the pending one of its instant, the one added before it
and the one active at its time: four lines at three instants have all of these
at once, in and out of order. The tandem sorter needs a cycle of three and a
second sort with the marks of the first, a path segment its predecessor and
whatever a failed line left. A performance calculator has no memory beyond its
fields, so three calls are a setter before a change of mode, the change, and a
call after; or a state, a setter and the calculation.

In `Preparation`, conversions have two objects at every key count from 1 to 8 and
every range of conversion difficulty, since a pattern looks back at one pattern
only; streams of four notes at three and eight keys for stairs, and eight notes
so that the queue of seven wraps around. The jobs are: lists of up to 8 keys of
two values and 5 of three with heaps from depth 0, maps of 5 objects against limits of 4, three
notes of osu!mania, all sequences of four osu! objects (stacks of three with
something in between), of three objects for osu!taiko and osu!catch, eight to
eleven taiko hits of every colouring and of intervals around the margin, and
four difficulty objects on, before and several sections behind a section's end.

**Deadlock** is checked for the gradual calculators, which always answer. It is
off where the program stops: in `LegacyScore` a map ends, in `ScoreState` a build
with overflow checks stops in a panic, in `Decoding` a file ends, in `Performance`
a calculator is consumed (or has had its `MaxCalls` calls), and in `Preparation` a
job is done.

**Fairness.** The library runs only when it is called. `WF(GradualNext \/
PerformanceNext)` is a caller that iterates (`for attrs in gradual`, or a score
followed to its end), the use the documentation shows; `IterationsEnd` says that
such a loop ends. In `LegacyScore` weak fairness of the loop says that a running
call goes on running; `SimulationReturns` says that it returns. The other modules
state no fairness and no liveness: their calls are single steps, and the loops
inside them are bounded by the lists they walk. The loops that draw random
columns until a free one is found have no bound, but they end with probability
one if and only if a free column exists, which `EveryNoteFitsTheStage` says.

## 4. The proofs

TLC checks small maps and short sequences of calls; the theorems below hold for
maps of every size, every set of options and every sequence of calls. A theorem
about a state machine is proved from an inductive invariant (`IInv` and its
relatives), which TLC checked on the instance of the run before it was proved.

| module | about | theorems |
|---|---|---|
| GradualProofs | OsuGradual | `TypeCorrectness`, `GradualAgreesWithRegular`, `ExhaustedIsFinal`, `Refinement` |
| | Gradual: the other modes | `TaikoInvariance`, `TaikoNoneIsFinal`, `CatchInvariance`, `ManiaInvariance` |
| | Gradual: the composition | `GradualInvariance`, `OsuInGradual`, `OsuRefinement`, `ModesRefinement`, `NthsAreNexts`, `LensCountAnswers`, `PerformanceCounts` |
| ScoreStateProofs | HitResults, ScoreState | `Invariance`, `StatesAddUp`, `StatesRepeat` |
| LegacyScoreProofs | LegacyScore | `Invariance`, `DrainsAgree`, `CombosAndSpinsAgree` |
| PerformanceBuilderProofs | PerformanceBuilder | `Invariance`, `GivenIsKept`, `StatesAreReturned`, `ContentMovesForward` |
| SortingProofs | Sorting | `CSharpSortsLists`, `LegacySortKeepsLists`, `BothListsAreMoved` |
| DecodingProofs | Decoding, ControlPoints | `Invariance`, `ActivePointsAreOfTheFile`, `TimingChangesStay`, `SoundsFollow`, `ApproachRateIsOfTheFile` |
| PreparationProofs | LimitedQueue, NoteDensity | `TypeCorrectness`, `Refinement`, `DensityInvariance` |
| | Suspicion, Sorting: the jobs of Preparation | `SortsStaySorted`, `SuspicionStays` |
| | ManiaConvert, ManiaPatterns | `NotesFitTheStage`, `FastNotesKeepApart` |
| Induction | natural numbers, sums, intervals | lemmas |

### Induction

Totals along a map, the objects fed so far and the sums over judgements need
induction over natural numbers. The theorem of the library that gives it takes
the statement to be proved as a parameter, which the provers cannot instantiate.
`Induction` works with sets instead: `<` on `Nat` is well-founded, so that a
non-empty set of numbers has a smallest element (`SmallestExists`); a set that
has 0 and with every number the next one has all of an interval
(`IntervalIsReached`). From it come the existence of recursive functions
(`RecursionExists`), of running totals (`TotalExists`, `TotalIsNatural`,
`TotalGrows`), and what an interval written as a sequence is
(`IntervalsJoin`, `IntervalGrows`).

### The gradual calculators

The first part of `GradualProofs` proves of OsuGradual, from the assumptions that the number of objects,
`passed_objects` and the arguments of `nth` are natural numbers, that the types
are right, that each answer is the one-shot value (`AgreesWithRegular`), that a
call answered `None` leaves the calculator alone (unless `passed_objects` is 0),
and that `Spec` implements `GradualIterator`.

`TypeOK` and `AgreesWithRegular` are not inductive: nothing in them says what
`calc` holds while `answer` is `None` or what an earlier answer left in it. The
inductive invariant `IInv` says what the `idx` objects that were passed leave in
the calculator (`Accumulated`): each of them counted once, the first from the
start; each skill but reading fed the difficulty objects `1 .. idx - 1` in order;
the simulator fed the objects `1 .. idx`, unless `passed_objects(0)` left a map
without difficulty objects, whose second object is simulated on every further
call. The argument: `SkipOn` keeps `Accumulated` and never reaches the last step
(`SkipNumbers`), `NextOn` keeps it and adds exactly one object, and joining
intervals shows that no object is fed twice or left out.

Its second part does the same for the other modes, in another form: the
calculators of osu!mania and osu!catch are functions of their position, and the
invariant is `calc = ManiaAt(idx)` (`CatchAt(idx)`) with the answer of that step.
Every call leads from one of these to another.

* In osu!catch the answers agree because the two ways in which `attributes.rs`
  counts the objects of a map agree: the gradual one collects a delta per
  palpable object, holding back the tiny droplets before it; the one-shot one
  counts on until `take` palpable objects were seen. `CountsAgree` shows by
  induction along the map that the sum of the first `k` deltas is the count of
  `k` palpable objects. It needs `CatchMapsAssumption`: a map that is not empty
  ends with a palpable object, which is so because a juice stream ends with its
  tail.
* In osu!taiko a step is a hit. The invariant relates the combo to the hits among
  the objects consumed, and the position to the combo: `idx` is ahead of it by the
  non-hits among the first two objects. On a map that starts with two hits they
  are the same, and every answer is the one-shot value. On any map, nothing but
  `None` follows `None` (`TaikoNoneIsFinal`).

The third part composes them. A step of Gradual is a call of one calculator while
the others rest (`OsuStepOfGradual` and its siblings), so that each mode keeps its
invariant, and `GradualIInv` is their conjunction with the one of the performance
calculator: it holds the position and an answer of the calculator it owns. From
it follow, for all modes: the refinement of the iterator, that `nth(n)` leads where
`n + 1` calls of `next` lead, that `len()` calls of `next` are still
answered (one less on a map without objects, in osu!taiko one more for each of the
first two objects that is no hit, and none on a map shorter than three objects),
and that a performance is told of exactly as many objects as its attributes
count. `None` must differ from every answer (`NoneAssumption`,
`TaikoNoneAssumption`).

### Score states

`ScoreStateProofs` first proves of every generator of osu!standard, osu!taiko and
osu!mania, for every `Inspect` struct the calculators can build (`IsRequest`,
`IsScored`): the result is a natural number for every judgement, the numbers add
up to the hits that are no misses, numbers that were given are kept if they fit
and leave something to be generated, and a request whose numbers already add up
(`Settled`) is answered with these numbers. The steps: a sum over the judgements
is the sum written out (`SumIsTotal`); clamping in the order of the code gives
each number what is left for it (`ClampIs`), so that numbers that fit are kept;
`Fast` spends what the accuracy allows from the best judgement to the worst and
keeps enough for the rest (`SpendAddsUp`); each search of `Closest` picks among
candidates that all add up (`FirstClosestIs`, `SolveAddsUp`, `NearestPairIs`).

On these lemmas rest the theorems about ScoreState. `IsOptions` says which options setters can
build: numbers that are natural, an accuracy between 0 and 1. The inductive
invariant says that the latest state is the one generated for the options of that
call, that attributes are counts, and that an accuracy is never removed. `HitsAddUp`
then says something of a function of attributes and options (`HitsAre`,
`CatchHitsAre`), and `Repeatable` follows because a state whose hits add up, stored
as options, is a request that is settled: total, misses, combo and ticks are
found again (`TotalsRepeat`, `ComboRepeats`, `TicksRepeat`), and so are the hits
(`HitsRepeat`). Three kinds of requests are told apart in both, because their hits
do not add up, and for each the theorems say what is true instead:

* `KeepsTooFew` (osu!taiko with an accuracy, both numbers given, too small): the
  hits are the numbers given, the first time and again.
* `KeepsTooMany` (osu!mania `Closest`, three or more numbers missing, given 200s,
  100s and 50s that exceed the hits): these are kept, and the sum exceeds the
  objects. This is exact: whenever another osu!mania request gives a state, its
  hits add up.
* `LeavesPoolsOpen` (osu!catch with an accuracy and a number missing, finding
  `ScoreStateCatch`): fruits, droplets and misses never exceed their pool, and the
  tiny droplets add up unless their misses are given (`CatchBounded`).

For the last two the second generation gives another state than the first. It
starts from a request with every number given, in which neither of them can
happen (`StoredIsGiven`), so that its hits add up and every later generation
gives the same; `Repeatable` says this of every request. Given 300s that
osu!mania `Closest` drops (`MayDrop`) are left out of `GivenAreKept`; the other
numbers of such a request are kept. osu!catch is left out of it, because it
raises given fruits to fill its pool.

### The score simulation

`LegacyScoreProofs` proves `DrainAgrees` and `ScoresAgree` for every map of
`MapsAssumption`, whatever its objects and breaks, in every state that calls of
`simulate_next` lead to, the rounds of a loop that does not end included.

`DrainAgrees` is not inductive: it does not say where the simulator is in the list
of breaks. The invariant does: what was added up are the breaks before
`next_break` and nothing else; all of these are over at the time of the object,
and once a call is through, the next one has not begun; a break is measured only
while an object lies in it, so that nothing of it is left when the call returns;
the start time is that of the first object, and the score is the one-shot score
of as many objects. When a call is through, the passed breaks are therefore exactly
those that the one-shot simulator takes while they end before the object
(`TakenArePassed`), in any order of breaks: both stop at the first break that
is not over. That the pieces never exceed what the breaks cover, and equal it when
breaks are ordered, is `BreaksCover`, from `TotalOfPrefix`.

For the scores, `ComboScoresAgree` compares a sum of saturated products with the
saturated product of the sum: if the former stays within `i32::MAX` none of its
terms was cut off (`SaturatedTotal`, `TotalOfProducts`). `BonusSpinsAgree` counts
the half spins of a spinner that earn a bonus by a bijection onto an interval of
numbers: the large ones are as many as the closed form takes, and those of even
number are the union of the large and small ones if the number of required half
spins is odd, and the small ones alone if it is even.

### Performance calculators

`PerformanceBuilderProofs` proves the three properties of every sequence of calls,
for all maps, inputs, score states and settings. The inductive invariant has four
parts: types; what was given last is in the fields that the mode has, and
nothing else counts as given (`OptionsInv`); a calculator made through
`Performance` holds a map of its mode or attributes (`ContentInv`); a generated
state that was returned is the one of the fields (`StateInv`). The argument rests on the tables
of the modes: which option has which field (`FieldTable`), what the conversion
takes over (`TakeOverTable`), and that the conversions of score states to and
from the common one are inverse on the fields of the mode
(`ConversionsAreInverse`); and on the setters of `Difficulty` being idempotent, so
that `inspect` and back keeps the settings. The assumptions: hit results are
natural numbers, the mods given are mods, and settings are those that setters
build (`IsDifficulty`).

### The limited queue and the density

`PreparationProofs` proves of `LimitedQueue`, for every capacity `N > 0` and every
set of elements:

* `TypeCorrectness`: the last conjunct of `TypeOK` makes it inductive: until the
  queue is full, the index after `end` is `len`;
* `Refinement`: `QueueSpec` implements `LatestElements`. While the queue is not
  full, positions are indices, and the index written is the one after the last;
  once it is full, position `k` is the `k`-th index after `end`, modulo `N`, so
  that a push overwrites the oldest element and moves every other one place down
  (`WrapAround`, `NextIndex`, `PushAppends`);
* `DensityInvariance`: however many notes are generated, the density is the one of
  the latest notes, and unchanged while there are fewer than two. The slices of
  the queue begin with the oldest and end with the newest element, also where the
  second one is empty. It is a theorem about `DensitySpec`, every sequence of
  calls of `compute_density`, of which the conversion in ManiaConvert is one.

### The sorts

`SortingProofs` proves of the sorts in `src/util/sort/` what they promise, for lists
of every length and elements of every kind that have integer times:

* `CSharpSortsLists`: the introsort of C# returns its elements in order, none lost
  and none twice, whatever the depth from which it heaps and the size below which
  it inserts (16 and `2 * ilog2(len)` in the code);
* `LegacySortKeepsLists`: the legacy sort keeps a list in order that is in order.
  It does not sort every list (section 5), so that nothing stronger holds;
* `BothListsAreMoved`: two lists sorted one after the other by one tandem sorter are
  moved by the same permutation, which orders the keys and keeps equal ones as
  they were. It takes lists that are shorter than the mark in an index, `TopBit`.

The argument of the first two: every step of a sort permutes a part of the list
(`Moves`, a permutation and its inverse), permutations compose, and a permuted
list has its elements as often as before (`MovesSameElements`). The loops are
recursive functions of their rounds, whose existence and invariants come from
`LoopExists` and `LoopStays`; a loop that ended stays as it is, and each round of a
running one makes a measure smaller, so that the rounds given to it are enough.
The invariants: a part of the list is a heap but at one element, which moves down
(`IsHeapBut`, `SiftKeeps`); what is drained from the heap is in order and not below
the rest (`Draining`); insertion keeps the elements before in order (`InsertKeeps`);
the two ends of a partition leave nothing later than the pivot behind on the left and
nothing earlier on the right, and one of them always finds something to stop at
(`EndsApart`, `NextEnds`). The recursion is an induction on the depth
(`IntroSortSorts`). For the legacy sort the invariant is stronger: nothing it
compares is ever swapped but for an element of the same time (`StaysInOrder`).

For the tandem sorter, one step of a cycle moves the element at an index to its
place and marks the index (`FollowsOnce`); a cycle returns to its start because a
permutation is onto (`CycleEnds`); afterwards exactly the indices of whole cycles
are marked (`Closed`), so that no element moves twice, and removing the marks
gives back the permutation (`MarksAreRemoved`).

### Decoding

`DecodingProofs` proves four of the five properties of the run for files of every
length and any lines. The assumptions: a file has at most `TopBit` lines, as the
length of a list does not reach the top bit of a `usize`; its lines are lines of the
format (`Lines`); `None` is no point.

The inductive invariant relates the state to the lines read so far, in whatever
order they come; two of its parts speak of timing lines in order only:

* each list of control points grows strictly in time, and the pending points
  have the pending time (`ListsGrow`, `PendingAtTime`);
* if the timing lines read so far are in order, no point in a list has the
  pending time yet, the pending points are those of the line that is active then,
  and at every time before, the lists give what the line active then says
  (`PointsInOrder`): points that were left out as redundant included. A line of a
  later time flushes the pending ones first, in an order in which each finds the
  state it would have found at once (`PendingIsFlushed`); one of the same time
  replaces the pending point or is dropped, as a timing change calls for
  (`ActiveIsNext`);
* in order again, the timing points are those of the first timing change of each
  time (`ChangesInOrder`);
* the approach rate is that of the latest line that gives one or, before
  any, the latest overall difficulty (`ApproachRateInv`);
* there are as many sounds as objects, and each pair comes from one object line,
  in the order of the lines (`ObjectsInv`).

At the end of the file `FlushPendingPoints` puts the pending points into the lists,
and the tandem sorter sorts objects and sounds: `SoundsFollow` is
`BothListsAreMoved`.

### The jobs of the preparation

The check for suspicion and the sorts are one step each, and no other step touches
their answers (`AnswersStay`). `SortsStaySorted` cites the two theorems about
sorts. `SuspicionStays` compares the check of a list with that of the list
without its last object: more objects are counted, the map is not shorter as
objects are in order (`InOrder` of `JobsAssumption`), an object that others follow
too closely is followed by the same ones still, and the sets of sliders that are
counted grow (`CountsGrow`). That a check comes before another in the code may
change the reason, not the refusal.

### The conversion to osu!mania

`NotesFitTheStage` and `FastNotesKeepApart` hold for maps of every length with any
objects, on every stage of one to ten columns, and for whatever the random
numbers are: each generator in `ManiaPatterns` is the set of patterns that some
draw leads to, and the proof is about each element of it. The code panics where
a search for a free column finds none; the model then puts the note outside the
stage (`NoColumn`), so that the theorem says that this does not happen.

The inductive invariant, `StageInv`, says of the pattern before the next object
that the columns seen of it are on the stage, and of eight columns at most six
(`SeenOnStage`); that a single note is seen in a column that notes may
take, since stairs and mirrored patterns continue from there; that a slider that
is begun has a span and no negative length; and that what was placed last fits.
It is needed since whether there is room for an object depends on how much of
the one before is kept free. The argument:

* A search finds a column if there is one (`FindsFreeColumn`), and
  there is one: a generator asks for at most as many columns as are free
  (`RoomRemains`, `RandomNotesFit`, `HoldsSuit`), with the counts that the tables
  of chances can give (`CircleCountsFit`, `MirroredCountsFit`); mirrored patterns
  search in one half only (`HalvesFindRoom`). The special column of eight is
  added to a pattern that leaves it free.
* Stairs, reversed, cycled and repeated patterns compute a column, which is
  on the stage and another one than the last (`StairsMove`, `StairSuits`).
* The notes of a slider share columns. They do not overlap since the times of
  its spans grow: a span lasts at least a millisecond wherever several notes are
  placed (`TimesGrow`), and notes at one time or beside a hold are in
  different columns (`InTurn`, `InPairs`, `AreBeside`).
* Of a slider only the notes at its end are seen by the next object, in as few
  columns as `SeenOnStage` needs (`EndSuits`).

A circle that follows within 125 ms gets `FORCE_NOT_STACK`, whichever of the rules
for spacing and sounds applies (`KeepsApart`), and each generator then keeps the
columns of the last pattern free (`Avoids`), but for the special one of eight, which
it adds regardless. The assumptions are those on maps (`ScenariosAssumption`): the
mods ask for up to ten columns or for none, and sliders have at least one span.

### Only model-checked

* Liveness (`IterationsEnd`, `SimulationReturns`), which needs ENABLED.
* `ClosestIsClosest`, `PriorityOrders` and `MoreAccuracyMoreScore`: they compare
  scores of all results of a search, with products of unknowns.
* `UserValuesWin` and `ModKindsAgree`: exact fractions are brought to lowest
  terms by a greatest common divisor, whose arithmetic the provers do not have.
* `SlidersKeepTheirPaths`: the segments of a path are folded over its tokens, and
  what a fold over data gives is induction over data.
* The other jobs of `Preparation`, which are folds over objects (stacking, nested
  objects, groups of osu!taiko, palpable objects of osu!catch) and sorts of the
  library (`SortSeq`, in the mods of osu!mania and the value of strain peaks).

## 5. What the code does differently from what one would expect

Six runs show a disagreement with a comment, a test or a promise of the
repository; each is a finding in `PROJECT.json`:

* `next` of the osu!standard calculator does not feed the reading skill, `nth`
  and the one-shot calculation do;
* `len` of the osu!taiko calculator underflows on maps whose first two objects
  are not both hits;
* the gradual score simulation never returns for an object inside a break;
* `Closest` in osu!standard gives only 50s when the accuracy exceeds what the
  misses leave (all of 300s, 100s and 50s missing);
* the osu!catch state that `generate_state` returns for an accuracy is not the
  one that the calculation uses;
* an osu!standard calculator made from a map of another mode panics in
  `generate_state` and `calculate` of `Performance`, where the panic is taken for
  unreachable.

Properties leave these cases out or say of them what does hold, where the code
does less than one might expect:

* osu!standard and osu!mania `Fast` with the number of the lowest judgement
  given: hits left over become 300s, a low accuracy notwithstanding
  (`MoreAccuracyMoreScore`); with every number given and an accuracy they become
  50s for the best case and 300s for the worst (`PriorityOrders`);
* osu!mania `Closest` works with a rounded target, so that it is closest only up
  to that; it drops given 300s when it chooses the 320s itself (`MayDrop`),
  keeps too many given 200s, 100s and 50s (`KeepsTooMany`), and underflows when
  three given numbers exceed the hits (`GenerateStatePanics`);
* osu!taiko with an accuracy takes two given numbers that are too small as they
  are (`KeepsTooFew`);
* a `passed_objects` that is raised after the attributes were calculated has no
  effect; the documentation warns of it. osu!mania counts hold notes beyond
  `passed_objects`, osu!catch ignores it once there are attributes, and does not
  clamp the combo;
* on a map without objects `len` is 1 in osu!standard, osu!catch and osu!mania,
  though `next` is `None` and the performance calculators document it as "the
  amount of remaining objects" (`src/osu/performance/gradual.rs:135`).
  `LensTellAnswers` covers this map and says by how much `len` is off, there and on
  osu!taiko maps that do not start with two hits;
* the osu!taiko combo of such a map, and gradual values without the CC V3
  post-processing;
* a slider line that fails after its path was read leaves `curve_points` behind,
  and the next slider begins with them (`SlidersKeepTheirPaths`);
* `osu_legacy.rs:51` compares with whatever is at the middle after the pivot was
  swapped away: `[0, 1, 1, 0, 0, 1]` comes out unsorted. Its only caller sorts
  lists that are nearly in order (`SortsSort`);
* a change of mode drops the hit result generator, and mods that are set after
  it do not convert the map again (`OptionsReachTheCalculator`); `Performance::try_mode`
  gives `Err` without a beatmap according to its comment, but `Ok` if the mode is
  the one it has;
* a spinner that requires an even number of half spins gets its large bonuses on
  odd half spins, beside a small bonus for every full spin, one that requires an
  odd number gets them in place of the small ones; the closed form has 1000 points
  for each either way (`ScoresAgree`);
* Mirror is expressible as a bit, an acronym and a Lazer mod, but only the Lazer
  mods of osu!standard and osu!catch reflect anything (`src/model/mods.rs:112-143`);
  `dt()` answers yes to the bits of Nightcore and no to its other forms, but
  nothing calls it (`ModKindsAgree`);
* the hit window of a fixed overall difficulty is multiplied by the clock rate,
  rounded down and divided again (`src/model/beatmap/attributes/mod.rs:150`), so
  that it can be up to a millisecond off the one of its value (`UserValuesWin`
  expects that rounding);
* in a map converted to osu!taiko, effect points that are added for a change of
  slider velocity keep kiai, but their scroll speed is the velocity
  (`HitSoundsFollow`).

## 6. Not modelled

* **Performance and rating formulas** (`src/*/performance/calculator.rs`, the
  evaluators, `src/osu/difficulty/rating.rs`, `speed_precal.rs`, `tap_bpm.rs` and the
  marathon and miss corrections): powers, logarithms, the error function and
  empirical constants on reals. They keep no state; which objects and options
  reach them is modelled, not what they compute.
* **The geometry of osu! difficulty objects** (`src/osu/difficulty/object.rs`): lazy
  cursor travel and angles, on single precision vectors.
* **Reading numbers and sections from text**, which is `rosu-map`'s, and the
  tables of the `rosu-mods` crate.
* **The random generators** (`src/util/random/`) bit by bit: a choice stands for
  them. A property about one seed would only repeat a table.
* **`generate_play`** (`src/bin/generate_play.rs`): command line input and output.
* **Tests and benchmarks**, read as documentation of intent.

## 7. The plan

Done, in this order: the iterator contract and osu!standard with its proofs (the
calculator with most state in lockstep); the other three modes and gradual
performance over all of them; the score simulation; hit results and score states;
the limited queue with its proofs; decoding; performance builders with mode
changes, settings, attributes and mods; conversions, mods that change objects,
stacking, taiko groups and the suspicion check; strain sections.

Proved since: the calculators of the other modes and their composition; the
performance builder; that hit results add up and are generated again; the density
of notes; that the two score simulators agree; the sorts; decoding but for the paths
of sliders; that a map that is refused stays refused with more objects; and that
every note of a map converted to osu!mania fits its stage.

To come, as a proof: that section peaks are those of their sections for every
list of objects.
