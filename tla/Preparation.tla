----------------------------- MODULE Preparation -----------------------------
(***************************************************************************)
(* What happens to a decoded map before any skill looks at it: the check   *)
(* for suspicion, the conversion to another mode, the mods that move or    *)
(* change objects, and the objects of each mode with the groups they are   *)
(* looked at in. Each job is one call; the conversion to osu!mania takes   *)
(* its steps one by one.                                                   *)
(***************************************************************************)
EXTENDS ManiaConvert, ManiaMods, OsuObjects, TaikoConvert, TaikoGroups, CatchObjects, Suspicion,
        StrainSkills

CONSTANTS
  Jobs,   (* Records with the kind of a job and what it works on.          *)
  Limits  (* The limits of the check for suspicion.                        *)

(* What the sorts and the check for suspicion are handed: elements that    *)
(* have times. The objects of a decoded map are in order.                  *)
AreTimed(keys) == keys \in Seq(ToSet(keys)) /\ \A key \in ToSet(keys) : key.time \in Int

ASSUME JobsAssumption ==
  \A j \in Jobs :
    /\ j.kind = "sort" => AreTimed(j.keys) /\ j.depth \in Nat /\ j.threshold \in Nat
    /\ j.kind = "suspicion" => AreTimed(j.objects) /\ InOrder(j.objects) /\ j.cs \in Nat
ASSUME LimitsAssumption ==
  \A field \in {"objects", "taikoObjects", "length", "second", "tenSeconds", "cutoff"} :
    Limits[field] \in Nat

VARIABLES
  job,    (* What is prepared.                                             *)
  answer  (* What came out of it, Pending before that.                     *)

vars == <<convertVars, job, answer>>

Pending == <<>>
Conversion == [kind |-> "conversion"]

Init ==
  /\ ConvertInit
  /\ answer = Pending
  /\ \/ scenario.choices # <<>> /\ job = Conversion
     \/ scenario.choices = <<>> /\ job \in Jobs

ConvertToMania == job = Conversion /\ ConvertNext /\ UNCHANGED <<job, answer>>

Prepare(kind) == job.kind = kind /\ answer = Pending /\ UNCHANGED <<convertVars, job>>

(* sort::csharp and sort::osu_legacy                                       *)
SortKeys ==
  /\ Prepare("sort")
  /\ answer' = [csharp |-> CSharpSort(job.keys, job.depth, job.threshold),
                legacy |-> IF InOrder(job.keys) THEN LegacySort(job.keys, job.depth) ELSE <<>>]

(* Beatmap::check_suspicion                                                *)
CheckSuspicion ==
  /\ Prepare("suspicion")
  /\ answer' = [i \in 0 .. Len(job.objects) |->
                  TooSuspicious(job.mode, SubSeq(job.objects, 1, i), job.cs, Limits)]

(* mania::convert::prepare_map                                             *)
ApplyManiaMods ==
  /\ Prepare("mania mods")
  /\ answer' = PrepareNotes(job.notes, job.total, job.beat, job.mods, job.shuffle)

(* osu::convert::convert_objects, under each reflection                    *)
PlaceOsuObjects ==
  /\ Prepare("osu")
  /\ answer' = [axes \in SUBSET {1, 2} |-> OsuObjects(job.map, axes)]

(* taiko::convert::prepare_map                                             *)
ConvertToTaikoMap ==
  /\ Prepare("taiko map")
  /\ answer' = WithRandom(ConvertToTaiko(job.map), job.rims)

(* TaikoDifficultyObjects and their preprocessors                          *)
GroupTaikoObjects ==
  /\ Prepare("taiko groups")
  /\ LET objects == DifficultyObjects(job.hits)
         streaks == MonoStreaks(objects)
         patterns == AlternatingMonoPatterns(streaks)
         rhythms == RhythmGroups(objects)
     IN  answer' = [objects |-> objects, streaks |-> streaks,
                    repeating |-> RepeatingHitPatterns(objects, patterns),
                    rhythms |-> rhythms, patterns |-> PatternGroups(rhythms)]

(* catch::convert::convert_objects, as it is and mirrored                  *)
PlaceCatchObjects ==
  /\ Prepare("catch")
  /\ answer' = [mirror \in BOOLEAN |-> CatchObjects(job.map, job.draw, job.hrOffsets, mirror)]

(* A skill that is handed one difficulty object after the other, and the   *)
(* reading skill, which gradual calls hand only some of them               *)
CollectStrains ==
  /\ Prepare("strains")
  /\ answer' = [skills |-> Progress(job.skill, job.objects),
                shown  |-> Densities(job.objects, job.seen, job.preempt)]

Next ==
  \/ ConvertToMania
  \/ SortKeys
  \/ CheckSuspicion
  \/ ApplyManiaMods
  \/ PlaceOsuObjects
  \/ ConvertToTaikoMap
  \/ GroupTaikoObjects
  \/ PlaceCatchObjects
  \/ CollectStrains

Spec == Init /\ [][Next]_vars

(***************************************************************************)
(* Properties                                                              *)
(***************************************************************************)
Done(kind) == job.kind = kind /\ answer # Pending

(* Whatever pivots and heaps its depth calls for, the sort of C# returns   *)
(* its elements in order, and the legacy sort of osu!mania returns what is *)
(* in order already in order again.                                        *)
SortsSort ==
  Done("sort") =>
    /\ InOrder(answer.csharp) /\ SameElements(answer.csharp, job.keys)
    /\ answer.legacy # <<>> =>
         InOrder(answer.legacy) /\ SameElements(answer.legacy, job.keys)

(* A map that is too suspicious stays so when objects are added at its end,*)
(* though the reason may become another one.                               *)
MoreObjectsStaySuspicious ==
  Done("suspicion") =>
    \A i \in 1 .. Len(job.objects) :
      answer[i - 1] # NotSuspicious => answer[i] # NotSuspicious

Apart(notes, keys) ==
  \A i, j \in DOMAIN notes :
    i < j /\ ColumnAt(notes[i].x, keys) = ColumnAt(notes[j].x, keys)
      => notes[i].end <= notes[j].time \/ notes[j].end <= notes[i].time

(* After the mods of osu!mania the notes are in order and those of a column*)
(* do not overlap if they did not before; HoldOff leaves no hold and Random*)
(* keeps notes in one column if and only if they were.                     *)
ModsKeepNotesApart ==
  Done("mania mods") =>
    /\ InOrder(answer)
    /\ Apart(job.notes, job.total) \/ "Invert" \in job.mods => Apart(answer, job.total)
    /\ job.mods = {"HoldOff"} => \A i \in DOMAIN answer : ~answer[i].hold
    /\ job.mods = {} =>
         \A c, d \in 0 .. job.total - 1 :
           LET In(notes, column) ==
                 Cardinality({i \in DOMAIN notes : ColumnAt(notes[i].x, job.total) = column})
           IN  In(answer, IF job.shuffle = <<>> THEN c ELSE job.shuffle[c]) = In(job.notes, c)

(* Circles at the same place within the stacking range are drawn at        *)
(* different heights, if no slider comes between them.                     *)
StacksDoNotOverlap ==
  Done("osu") =>
    LET objects == answer[{}].objects
        height  == answer[{}].height
    IN  \A i, j \in DOMAIN objects :
          /\ i < j
          /\ objects[i].kind = "circle" /\ objects[j].kind = "circle"
          /\ \A k \in i .. j : objects[k].kind # "slider"
          /\ objects[i].pos = objects[j].pos
          /\ objects[j].time - objects[i].time <= job.map.threshold
          => height[i] # height[j]

(* In a map converted to osu!taiko every object has the sounds of what it  *)
(* comes from when both lists were sorted, no instant gains or loses kiai, *)
(* and Random turns hits into rims or centres and nothing else.            *)
HitSoundsFollow ==
  Done("taiko map") =>
    /\ Len(answer.objects) = Len(answer.sounds)
    /\ \A k \in DOMAIN answer.objects : \E i \in DOMAIN job.map.objects :
         ComesFrom(job.map, answer.objects[k], answer.sounds[k], i)
    /\ \A point \in ToSet(answer.effects) :
         point.kiai = PointAt("effect", job.map.effects, point.time).kiai
    /\ \A k \in DOMAIN answer.objects :
         HitType(answer.objects[k], answer.random[k]) =
           IF answer.objects[k].kind # "circle" THEN "NonHit"
           ELSE IF k \in job.rims THEN "Rim" ELSE "Center"

IntervalIsNear(objects, group) ==
  LET delta == objects[group.members[2]].delta
  IN  group.within # NoInterval =>
        group.within - delta \in -2 * MarginOfError .. 2 * MarginOfError

(* The colour and rhythm groups of osu!taiko each hold every object, or    *)
(* every note, once and in order. The notes of a streak have one colour,   *)
(* whatever drum rolls it contains, the colour change that a note looks    *)
(* back at is one, and the interval of a rhythm group is off by at most one*)
(* margin from being a median and another from that of the group before.   *)
TaikoGroupsPartition ==
  Done("taiko groups") =>
    LET objects == answer.objects
        all == Interval(1, Len(objects))
        members == [k \in DOMAIN answer.rhythms |-> answer.rhythms[k].members]
        IsNote(i) == objects[i].type # "NonHit"
    IN  /\ FlattenSeq(answer.streaks) = all
        /\ FlattenSeq(FlattenSeq(FlattenSeq(answer.repeating))) = all
        /\ FlattenSeq(members) = Notes(objects)
        /\ FlattenSeq(answer.patterns) = answer.rhythms
        /\ <<>> \notin ToSet(answer.streaks) \cup ToSet(members)
        /\ \A streak \in ToSet(answer.streaks) : \A i, j \in ToSet(streak) :
             IsNote(i) /\ IsNote(j) => objects[i].type = objects[j].type
        /\ \A i \in DOMAIN objects : \A j \in PreviousColorChange(objects, i) :
             IsNote(i) => IsNote(j) /\ j < i /\ objects[j].type # objects[i].type
        /\ \A k \in DOMAIN answer.rhythms : IntervalIsNear(objects, answer.rhythms[k])

FruitsOf(map, h) ==
  CASE h.kind = "circle" -> 1
    [] h.kind = "slider" -> 2 + IF SpanDuration(map, h) = 0 THEN 0 ELSE h.spans - 1
    [] OTHER             -> 0
DropletsOf(map, h) == IF h.kind = "slider" THEN h.spans * Len(TicksOfSpan(map, h)) ELSE 0

(* As many objects are caught as are counted: a fruit for each circle and  *)
(* for the head, each repeat and the tail of a slider, a droplet for each  *)
(* of its ticks, none for its last tick; and they are caught in order.     *)
PalpablesAreCounted ==
  Done("catch") =>
    \A mirror \in BOOLEAN :
      LET result == answer[mirror]
          objects == job.map.objects
          Count(kind) == Cardinality({k \in DOMAIN result.records : result.records[k] = kind})
      IN  /\ Len(result.objects) = Count("fruit") + Count("droplet")
          /\ InOrder(result.objects)
          /\ Count("fruit") = FoldLeft(LAMBDA n, h : n + FruitsOf(job.map, h), 0, objects)
          /\ Count("droplet") = FoldLeft(LAMBDA n, h : n + DropletsOf(job.map, h), 0, objects)

(* Reflecting a map only moves what is in it: it mirrors where the objects *)
(* of osu!standard end and changes no stack, and in osu!catch it leaves    *)
(* every hyper dash where it is, hard rock's offsets included, unless an   *)
(* object is right above another.                                          *)
ReflectionOnlyMoves ==
  /\ Done("osu") =>
       \A axes \in SUBSET {1, 2} :
         /\ answer[axes].height = answer[{}].height
         /\ \A i \in DOMAIN answer[{}].objects :
              EndPos(answer[axes].objects[i]) = ReflectPos(EndPos(answer[{}].objects[i]), axes)
  /\ Done("catch") =>
       LET objects == answer[FALSE].objects
       IN  (\A i \in 1 .. Len(objects) - 1 :
              EffectiveX(objects[i]) # EffectiveX(objects[i + 1]))
           => answer[TRUE].hyper = answer[FALSE].hyper

(* The strain peaks after any number of objects are one for each section   *)
(* from that of the first object to that of the last one, and a section's  *)
(* peak is the highest of the strains of its objects and of what the last  *)
(* object before it leaves at its start, however many sections lie between.*)
(* A further object never lowers the value of the peaks. The reading skill *)
(* counts the objects on the screen, also when it misses some of them.     *)
StrainsFollowTheMap ==
  Done("strains") =>
    LET objects == job.objects
        skills  == answer.skills
        length  == job.skill.length
        FirstEnd == Ceil(objects[1].time, length)
        SectionOf(i) == Ceil(objects[i].time, length) - FirstEnd + 1
        Start(k) == (FirstEnd + k - 2) * length
        LastBefore(k) == Max({i \in DOMAIN objects : objects[i].time <= Start(k)})
        Left(k) == IF k = 1 THEN 0
                   ELSE InitialStrain(skills[LastBefore(k)], Start(k) - objects[LastBefore(k)].time)
        Values(n) == LET peaks == CurrentStrainPeaks(skills[n])
                     IN  <<DifficultyValue(peaks, job.weights),
                           ReducedValue(peaks, job.weights, job.scales), FlashlightValue(peaks)>>
    IN  /\ \A n \in DOMAIN objects :
             LET peaks == CurrentStrainPeaks(skills[n])
             IN  /\ Len(peaks) = SectionOf(n)
                 /\ \A k \in DOMAIN peaks :
                      LET members == {i \in 1 .. n : SectionOf(i) = k}
                      IN  peaks[k] = Max({Left(k)} \cup {skills[n].strains[i] : i \in members})
                 /\ \A v \in 1 .. 3 : Values(n)[v] >= Values(n - 1)[v]
        /\ answer.shown =
             [s \in 1 .. Cardinality(job.seen) |->
                LET i == SelectSeq(Interval(1, Len(objects)), LAMBDA j : j \in job.seen)[s]
                IN  Cardinality({j \in i .. Len(objects) :
                                   objects[j].time <= objects[i].time + job.preempt})]
=============================================================================
