--------------------------- MODULE ManiaPatterns ----------------------------
(*************************************************************************)
(* How osu! objects are converted to osu!mania notes: the stage and      *)
(* src/mania/convert/pattern_generator with mod.rs, hit_object.rs,       *)
(* path_object.rs and end_time_object.rs, pattern.rs and the columns of  *)
(* src/mania/object.rs.                                                  *)
(*                                                                       *)
(* The random number generator is any generator: an operator here returns *)
(* the set of what it may return for some random numbers. Probabilities  *)
(* are in thousandths. A note is [column, from, to] in milliseconds after *)
(* the start of the object it comes from; circles end where they start.  *)
(*************************************************************************)
EXTENDS Arithmetic, SequencesExt

(* ManiaObject::column. Positions left of the field saturate to column 0.  *)
ColumnAt(x, total) == Least(Greatest((x * total) \div 512, 0), total - 1)

(* column_to_pos                                                           *)
ColumnToPos(column, total) == (column * 512 + total - 1) \div total

(* With eight columns the first one is special.                            *)
RandomStart(total) == IF total = 8 THEN 1 ELSE 0

Usable(total) == RandomStart(total) .. total - 1

(* get_column(Some(true))                                                  *)
GetColumn(x, total) == IF total = 8 THEN ColumnAt(x, 7) + 1 ELSE ColumnAt(x, total)

(* What stands for a column once the assertion that there is a free one    *)
(* has failed.                                                             *)
NoColumn == -1

(* find_available_column without a next_column function: the initial       *)
(* column if nothing occupies it, or a random free one.                    *)
FindAvailable(initial, columns, occupied) ==
  IF initial \notin occupied THEN {initial}
  ELSE IF columns \subseteq occupied THEN {NoColumn}
  ELSE columns \ occupied

(* get_random_note_count: a number with a positive probability. p6 is zero *)
(* for every caller. The conditions are asked from p5 down, so a count is  *)
(* only chosen if its interval is longer than those of higher counts.      *)
NoteCounts(p2, p3, p4, p5) ==
  LET p == <<1000, p2, p3, p4, p5, 0>>
  IN  {n \in 1 .. 5 : \A m \in n + 1 .. 6 : p[m] < p[n]}

(* conversion_difficulty, in hundredths, of a map with these settings in   *)
(* tenths, this many hit objects and this drain time in seconds.           *)
ConversionDifficulty(hp, ar, hitObjects, drain) ==
  LET seconds  == IF drain = 0 THEN 10000 ELSE drain
      settings == ((hp + Least(Greatest(ar, 40), 70)) * 100) \div 15
  IN  Least(((settings + (hitObjects * 900) \div seconds) * 500) \div (38 * 115), 1200)

(***************************************************************************)
(* A Pattern: its notes and how many there are, more than there are        *)
(* different ones if two notes coincide. Later objects look only at the    *)
(* columns of some of its notes, at whether this is a single note, and then*)
(* at its column.                                                          *)
(***************************************************************************)
PatternOf(notes) == [notes |-> {notes[i] : i \in DOMAIN notes}, size |-> Len(notes)]

(* Notes at one time, one for each of these columns.                       *)
NotesAt(columns, time) ==
  [i \in DOMAIN columns |-> [column |-> columns[i], from |-> time, to |-> time]]

(* ContainedColumns, and the column of the last object of a pattern as the *)
(* position of the object gives it.                                        *)
ColumnsOf(pattern) == {note.column : note \in pattern.notes}
EmptyPattern == [columns |-> {}, single |-> FALSE]
Seen(notes, at) == [columns |-> {notes[i].column : i \in at}, single |-> Cardinality(at) = 1]
LastColumn(prev, total) ==
  ColumnAt(ColumnToPos(CHOOSE c \in prev.columns : prev.single, total), total)


(*************************************************************************)
(* Circles, hit_object.rs.                                               *)
(*                                                                       *)
(* A generator g is a record of its total columns, the x and the sounds of *)
(* the circle, the conversion difficulty in hundredths, the pattern before *)
(* (prev) and the set of pattern types (convert). The operators return the *)
(* sets of sequences of columns that the generator may choose.           *)
(*************************************************************************)

(* The pattern type that the time and distance since the last object, the  *)
(* density of notes and kiai call for.                                     *)
SpacingType(gap, near, dense, kiai, stair) ==
  CASE gap <= 80                   -> {"FORCE_NOT_STACK", "KEEP_SINGLE"}
    [] gap \in 81 .. 95            -> {"FORCE_NOT_STACK", "KEEP_SINGLE", stair}
    [] gap \in 96 .. 105           -> {"FORCE_NOT_STACK", "LOW_PROBABILITY"}
    [] gap \in 106 .. 125          -> {"FORCE_NOT_STACK"}
    [] gap \in 126 .. 135 /\ near  -> {"CYCLE", "KEEP_SINGLE"}
    [] gap \in 136 .. 150 /\ near  -> {"FORCE_STACK", "LOW_PROBABILITY"}
    [] gap > 150 /\ near /\ ~dense -> {"REVERSE", "LOW_PROBABILITY"}
    [] gap > 125 /\ (gap > 150 \/ ~near) /\ dense -> {}
    [] OTHER -> IF kiai THEN {} ELSE {"LOW_PROBABILITY"}

SoundType(convert, sounds, total) ==
  IF "KEEP_SINGLE" \in convert THEN {}
  ELSE IF "FINISH" \in sounds /\ total # 8 THEN {"MIRROR"}
  ELSE IF "CLAP" \in sounds THEN {"GATHERED"}
  ELSE {}

ConvertType(gap, near, dense, kiai, stair, sounds, total) ==
  LET spacing == SpacingType(gap, near, dense, kiai, stair)
  IN  spacing \cup SoundType(spacing, sounds, total)

HasSpecialColumn(g) == RandomStart(g.total) > 0 /\ {"CLAP", "FINISH"} \subseteq g.sounds

(* get_next_column of a GATHERED pattern, until the column is free.        *)
NextGathered(column, total, occupied) ==
  LET start == RandomStart(total)
      After(k) == start + ((column + k - start) % (total - start))
      steps == CHOOSE k \in 1 .. total :
                 /\ After(k) \notin occupied
                 /\ \A j \in 1 .. k - 1 : After(j) \in occupied
  IN  After(steps)

(* find_available_column with get_next_column.                             *)
NextFree(g, column, occupied) ==
  IF /\ "GATHERED" \in g.convert
     /\ column \in occupied
     /\ ~(Usable(g.total) \subseteq occupied)
  THEN {NextGathered(column, g.total, occupied)}
  ELSE FindAvailable(column, Usable(g.total), occupied)

(* Columns for n notes, each searched for from the one before.             *)
ColumnRows(g, n, taken) ==
  LET first == NextFree(g, GetColumn(g.x, g.total), taken)
  IN  {row \in [1 .. n -> Usable(g.total) \cup {NoColumn}] :
         \A k \in 1 .. n :
           row[k] \in IF k = 1 THEN first
                      ELSE NextFree(g, row[k - 1], taken \cup {row[j] : j \in 1 .. k - 1})}

(* RandomNotes that forgets to limit the count to the free columns.        *)
RandomNotesUnlimited(g, count) ==
  ColumnRows(g, count, IF "FORCE_NOT_STACK" \in g.convert THEN g.prev.columns ELSE {})

RandomNotes(g, count) ==
  LET apart == "FORCE_NOT_STACK" \in g.convert
      free  == Cardinality(Usable(g.total)) - Cardinality(g.prev.columns)
  IN  ColumnRows(g, IF apart THEN Greatest(Least(free, count), 0) ELSE count,
                 IF apart THEN g.prev.columns ELSE {})

(* get_random_note_count                                                   *)
CircleCounts(g, p2, p3, p4, p5) ==
  LET total == g.total
      q2 == CASE total = 2 -> 0
              [] total = 3 -> Least(p2, 100)
              [] total = 4 -> Least(p2, 230)
              [] OTHER     -> p2
      q3 == CASE total \in {2, 3} -> 0
              [] total = 4 -> Least(p3, 40)
              [] total = 5 -> Least(p3, 150)
              [] OTHER     -> p3
      q4 == CASE total \in 2 .. 4 -> 0
              [] total = 5 -> Least(p4, 30)
              [] OTHER     -> p4
      q5 == IF total \in 2 .. 5 THEN 0 ELSE p5
  IN  NoteCounts(IF "CLAP" \in g.sounds THEN 1000 ELSE q2, q3, q4, q5)

WithSpecial(g, columns) == IF HasSpecialColumn(g) THEN Append(columns, 0) ELSE columns

RandomPattern(g, p2, p3, p4, p5) ==
  UNION {{WithSpecial(g, columns) : columns \in RandomNotes(g, count)} :
           count \in CircleCounts(g, p2, p3, p4, p5)}

(* 1.0 - ((1.0 - p) * 2.0).max(least), clamped to 0.0 ..= 1.0.              *)
DoubledInverse(p, least) == Greatest(1000 - Greatest((1000 - p) * 2, least), 0)

(* get_random_note_count_mirrored: the counts, and whether the centre is   *)
(* ever added to one.                                                      *)
MirroredCounts(total, p2, p3) ==
  LET q2 == CASE total \in {2, 3} -> 0
              [] total = 4 -> DoubledInverse(p2, 800)
              [] total = 6 -> DoubledInverse(p2, 50)
              [] OTHER     -> p2
      q3 == CASE total \in 2 .. 5 -> 0
              [] total = 6 -> DoubledInverse(p3, 850)
              [] OTHER     -> p3
  IN  NoteCounts(q2, q3, 0, 0)

Centres(total, count) == IF total % 2 # 0 /\ count # 3 THEN BOOLEAN ELSE {FALSE}

(* generate_random_pattern_with_mirrored: every centre probability is above*)
(* zero wherever a stage has a centre column.                              *)
RandomPatternWithMirrored(g, p2, p3) ==
  LET total == g.total
      half  == RandomStart(total) .. total \div 2 - 1
      Mirror(column) == RandomStart(total) + total - column - 1
      Halves(count) ==
        {row \in [1 .. count -> half \cup {NoColumn}] :
           /\ row[1] \in half
           /\ \A k \in 2 .. count :
                row[k] \in FindAvailable(row[k - 1], half,
                                        UNION {{row[j], Mirror(row[j])} : j \in 1 .. k - 1})}
      Both(row) == row \o [k \in DOMAIN row |-> Mirror(row[k])]
  IN  IF "FORCE_NOT_STACK" \in g.convert
      THEN RandomPattern(g, 500 + p2 \div 2, p2, (p2 + p3) \div 2, p3)
      ELSE UNION {UNION {{WithSpecial(g, IF centre THEN Append(Both(row), total \div 2) ELSE Both(row)) :
                            row \in Halves(count)} :
                            centre \in Centres(total, count)} :
                            count \in MirroredCounts(total, p2, p3)}

(* The patterns of a circle that need no random count of notes. A pattern  *)
(* is the same in whatever order its columns are taken.                    *)
Reversed(g) ==
  LET start == RandomStart(g.total)
      kept  == SetToSeq(g.prev.columns \cap Usable(g.total))
  IN  [i \in DOMAIN kept |-> start + g.total - kept[i] - 1]

Cycles(g) ==
  LET last == LastColumn(g.prev, g.total)
  IN  /\ "CYCLE" \in g.convert /\ g.prev.single
      /\ g.total # 8 \/ last # 0
      /\ g.total % 2 = 0 \/ last # g.total \div 2

NextStairStuck(column, total) == IF column + 1 = total THEN column ELSE column + 1
NextStair(column, total) == IF column + 1 = total THEN RandomStart(total) ELSE column + 1
NextReverseStair(column, total) ==
  IF column - 1 = RandomStart(total) - 1 THEN total - 1 ELSE column - 1

MirroredCircle(g) ==
  CASE g.diff > 650          -> RandomPatternWithMirrored(g, 380, 120)
    [] g.diff \in 401 .. 650 -> RandomPatternWithMirrored(g, 170, 0)
    [] g.diff <= 400         -> RandomPatternWithMirrored(g, 0, 0)

RandomCircle(g) ==
  LET low == "LOW_PROBABILITY" \in g.convert
  IN  CASE g.diff > 650          -> IF low THEN RandomPattern(g, 780, 420, 0, 0)
                                          ELSE RandomPattern(g, 1000, 620, 0, 0)
        [] g.diff \in 401 .. 650 -> IF low THEN RandomPattern(g, 350, 80, 0, 0)
                                          ELSE RandomPattern(g, 520, 150, 0, 0)
        [] g.diff \in 201 .. 400 -> RandomPattern(g, IF low THEN 180 ELSE 450, 0, 0, 0)
        [] g.diff <= 200         -> RandomPattern(g, 0, 0, 0, 0)

(* generate_core                                                           *)
CirclePatterns(g) ==
  LET some  == g.prev.columns # {}
      total == g.total
      last  == LastColumn(g.prev, total)
  IN  IF total = 1 THEN {<<0>>}
      ELSE IF "REVERSE" \in g.convert /\ some THEN {Reversed(g)}
      ELSE IF Cycles(g) THEN {<<RandomStart(total) + total - last - 1>>}
      ELSE IF "FORCE_STACK" \in g.convert /\ some
        THEN {SetToSeq(g.prev.columns \cap Usable(total))}
      ELSE IF g.prev.single /\ "STAIR" \in g.convert THEN {<<NextStair(last, total)>>}
      ELSE IF g.prev.single /\ "REVERSE_STAIR" \in g.convert THEN {<<NextReverseStair(last, total)>>}
      ELSE IF "KEEP_SINGLE" \in g.convert THEN RandomNotes(g, 1)
      ELSE IF "MIRROR" \in g.convert THEN MirroredCircle(g)
      ELSE RandomCircle(g)

(* generate(): what follows a stair. The conditions ask for the type the   *)
(* pattern was made with, and look at its notes one after the other.       *)
StairAfter(g, columns, stair) ==
  CASE "STAIR" \in g.convert /\ g.total - 1 \in columns -> "REVERSE_STAIR"
    [] "REVERSE_STAIR" \in g.convert /\ RandomStart(g.total) \in columns -> "STAIR"
    [] OTHER -> stair

(*************************************************************************)
(* Sliders, spinners and hold notes, path_object.rs and end_time_object.rs. *)
(*                                                                       *)
(* A generator g is a record of its total columns, the x and the sounds of *)
(* the object and of its head, the conversion difficulty in hundredths, the *)
(* pattern before (prev), whether probabilities are low, the number of   *)
(* spans, the duration of one (segment) and of all (length). The operators *)
(* return the sets of sequences of notes the generator may choose, their *)
(* times counted from the start of the object.                           *)
(*************************************************************************)

(* PathObjectPatternGenerator::new: the duration of one span of a slider.  *)
SegmentDuration(length, spans) == length \div spans

(* find_available_column with a column that is excluded, or none.          *)
FindFree(g, column, occupied) == FindAvailable(column, Usable(g.total), occupied)

Note(column, from, to) == [column |-> column, from |-> from, to |-> to]
Holding(columns, to) == [i \in DOMAIN columns |-> Note(columns[i], 0, to)]

(* Columns for `count` holds, the first `apart` of them not on the previous*)
(* pattern. The search starts at one of `firsts`.                          *)
HoldColumns(g, firsts, count, apart) ==
  LET taken(k) == IF k <= apart THEN g.prev.columns ELSE {}
  IN  {row \in [1 .. count -> Usable(g.total) \cup {NoColumn}] :
         \A k \in 1 .. count : \E initial \in IF k = 1 THEN firsts ELSE {row[k - 1]} :
           row[k] \in FindFree(g, initial, taken(k) \cup {row[j] : j \in 1 .. k - 1})}

(* generate_random_hold_notes: subtracting a negative number of usable     *)
(* columns adds notes.                                                     *)
RandomHoldNotes(g, count) ==
  LET usable == Cardinality(Usable(g.total)) - Cardinality(g.prev.columns)
      apart  == Greatest(Least(usable, count), 0)
      all    == apart + Greatest(count - usable, 0)
  IN  {Holding(columns, g.length) : columns \in HoldColumns(g, Usable(g.total), all, apart)}

(* The first column of a pattern that need not stack.                      *)
FirstColumns(g, apart) ==
  LET column == GetColumn(g.x, g.total)
  IN  IF apart /\ Cardinality(g.prev.columns) < g.total
      THEN FindFree(g, column, g.prev.columns)
      ELSE {column}

(* generate_random_notes                                                   *)
RandomSliderNotes(g, apart, count) ==
  LET first == FirstColumns(g, apart)
      rows == {row \in [1 .. count -> Usable(g.total) \cup {NoColumn}] :
                 \A k \in 1 .. count :
                   row[k] \in IF k = 1 THEN first
                              ELSE FindFree(g, row[k - 1], {row[k - 1]})}
  IN  {[k \in 1 .. count |-> Note(row[k], (k - 1) * g.segment, (k - 1) * g.segment)] : row \in rows}

(* generate_stair                                                          *)
Stair(g, up) ==
  LET steps[k \in 0 .. g.spans] ==
        IF k = 0 THEN [column |-> GetColumn(g.x, g.total), up |-> up]
        ELSE LET column == steps[k - 1].column
                 rising == IF steps[k - 1].up THEN column < g.total - 1
                                              ELSE column <= RandomStart(g.total)
             IN  [column |-> IF rising THEN column + 1 ELSE column - 1, up |-> rising]
  IN  [i \in 1 .. g.spans + 1 |->
        Note(steps[i - 1].column, (i - 1) * g.segment, (i - 1) * g.segment)]

(* generate_random_multiple_notes: the second column of a row.             *)
Legacy(total) == IF total \in 4 .. 8 THEN 1 ELSE 0
SecondColumn(total, column, interval) ==
  LET next  == column + interval
      start == RandomStart(total)
  IN  start + IF next >= total - start THEN next - total - start + Legacy(total) ELSE next

RandomMultipleNotes(g) ==
  LET total == g.total
      firsts == {row \in [0 .. g.spans -> Usable(total)] : row[0] = GetColumn(g.x, total)}
      Single(row, k) == Note(row[k], k * g.segment, k * g.segment)
      Second(row, k, interval) ==
        [Single(row, k) EXCEPT !.column = SecondColumn(total, row[k], interval)]
      Both(row, i, interval) ==
        IF i % 2 = 1 THEN Single(row, i \div 2) ELSE Second(row, i \div 2 - 1, interval)
  IN  IF total > 2
      THEN {[i \in 1 .. 2 * g.spans + 2 |-> Both(row, i, interval)] :
              row \in firsts, interval \in 1 .. total - 1 - Legacy(total)}
      ELSE {[i \in 1 .. g.spans + 1 |-> Single(row, i - 1)] : row \in firsts}

(* generate_n_random_notes. has_flag asks for any of its flags.            *)
RandomCountOfHolds(g, p2, p3, p4) ==
  LET total == g.total
      double == ~g.low /\ (g.sounds \cup g.head) \cap {"CLAP", "FINISH"} # {}
      q2 == CASE total = 2 -> 0
              [] total = 3 -> Least(p2, 100)
              [] total = 4 -> Least(p2, 300)
              [] total = 5 -> Least(p2, 340)
              [] OTHER     -> p2
      q3 == CASE total \in {2, 3} -> 0
              [] total = 4 -> Least(p3, 40)
              [] total = 5 -> Least(p3, 100)
              [] OTHER     -> p3
      q4 == CASE total \in 2 .. 4 -> 0
              [] total = 5 -> Least(p4, 30)
              [] OTHER     -> p4
  IN  UNION {RandomHoldNotes(g, count) :
               count \in NoteCounts(IF double THEN 1000 ELSE q2, q3, q4, 0)}

(* generate_tiled_hold_notes                                               *)
TiledHoldNotes(g) ==
  LET count == Least(g.spans, g.total)
  IN  {[i \in 1 .. count |-> Note(row[i], (i - 1) * g.segment, g.segment * g.spans)] :
         row \in HoldColumns(g, {GetColumn(g.x, g.total)}, count, 0)}

(* generate_hold_and_normal_notes: rows of notes beside a hold. The column *)
(* a row ends with is the first one the next row tries.                    *)
BesideCounts(g) ==
  CASE g.diff > 650          -> NoteCounts(630, 0, 0, 0)
    [] g.diff \in 401 .. 650 -> NoteCounts(IF g.total < 6 THEN 120 ELSE 450, 0, 0, 0)
    [] g.diff \in 251 .. 400 -> NoteCounts(IF g.total < 6 THEN 0 ELSE 240, 0, 0, 0)
    [] g.diff <= 250         -> {0}

BesideRows(g, hold, count) ==
  LET ignoreHead == g.head \cap {"WHISTLE", "FINISH", "CLAP"} = {}
      Beside(next, row) == FindFree(g, next, {hold} \cup row)
      Two(next) == UNION {{<<a, b>> : b \in Beside(a, {a})} : a \in Beside(next, {})}
      Row(next) == IF count = 0 THEN {<<>>}
                   ELSE IF count = 1 THEN {<<a>> : a \in Beside(next, {})}
                   ELSE Two(next)
      rows[k \in 0 .. g.spans] ==
        LET start == k * g.segment
            before == IF k = 0 THEN {[notes |-> <<>>, next |-> next] : next \in Usable(g.total)}
                               ELSE rows[k - 1]
        IN  IF ignoreHead /\ start = 0 THEN before
            ELSE UNION {{[notes |-> beside.notes \o NotesAt(row, start),
                          next  |-> IF row = <<>> THEN beside.next ELSE Last(row)] :
                           row \in Row(beside.next)} : beside \in before}
  IN  {beside.notes : beside \in rows[g.spans]}

HoldAndNormalNotes(g) ==
  LET hold == GetColumn(g.x, g.total)
  IN  UNION {{<<Note(hold, 0, g.length)>> \o notes :
                notes \in BesideRows(g, hold, Least(count, g.total - 1))} :
                count \in BesideCounts(g)}

(* generate_: a slider with repeats, and one without.                      *)
RepeatingSlider(g) ==
  CASE g.segment <= 90 -> RandomHoldNotes(g, 1)
    [] g.segment \in 91 .. 120 -> RandomSliderNotes(g, TRUE, g.spans + 1)
    [] g.segment \in 121 .. 160 -> {Stair(g, up) : up \in BOOLEAN}
    [] g.segment \in 161 .. 200 /\ g.diff > 300 -> RandomMultipleNotes(g)
    [] OTHER ->
         IF g.length >= 4000 THEN RandomCountOfHolds(g, 230, 0, 0)
         ELSE IF g.segment > 400 /\ g.spans < Cardinality(Usable(g.total)) - 1
           THEN TiledHoldNotes(g)
           ELSE HoldAndNormalNotes(g)

PlainSlider(g) ==
  CASE g.segment <= 110 ->
         RandomSliderNotes(g, Cardinality(g.prev.columns) < g.total,
                           IF g.segment >= 80 THEN 2 ELSE 1)
    [] g.segment > 110 /\ g.diff > 650 ->
         IF g.low THEN RandomCountOfHolds(g, 780, 300, 0) ELSE RandomCountOfHolds(g, 850, 360, 30)
    [] g.segment > 110 /\ g.diff \in 401 .. 650 ->
         IF g.low THEN RandomCountOfHolds(g, 430, 80, 0) ELSE RandomCountOfHolds(g, 560, 180, 0)
    [] g.segment > 110 /\ g.diff \in 251 .. 400 ->
         IF g.low THEN RandomCountOfHolds(g, 300, 0, 0) ELSE RandomCountOfHolds(g, 370, 80, 0)
    [] g.segment > 110 /\ g.diff <= 250 -> RandomCountOfHolds(g, IF g.low THEN 170 ELSE 270, 0, 0)

SliderPatterns(g) ==
  IF g.total = 1 THEN {<<Note(0, 0, g.length)>>}
  ELSE IF g.spans > 1 THEN RepeatingSlider(g)
  ELSE PlainSlider(g)

(* generate(): later objects look at the notes that end with the slider.   *)
EndOfPattern(g, notes) ==
  {i \in DOMAIN notes : Len(notes) = 1 \/ notes[i].to = g.length}

(* EndTimeObjectPatternGenerator: a spinner or hold note of this duration. *)
EndTimePatterns(g) ==
  LET special  == g.total = 8 /\ "FINISH" \in g.sounds /\ g.length < 1000
      occupied == IF Cardinality(g.prev.columns) = g.total THEN {} ELSE g.prev.columns
      columns  == IF special THEN {0}
                  ELSE UNION {FindFree(g, column, occupied) : column \in Usable(g.total)}
  IN  {<<Note(column, 0, IF g.length >= 100 THEN g.length ELSE 0)>> : column \in columns}
=============================================================================
