---------------------------- MODULE CalibrationCheck ----------------------------
(***************************************************************************)
(* The calibration tool (4ce/tools/calibration.py): a register, given as   *)
(* text, is read line by line, each instrument is placed in time and its   *)
(* as-found error compared with its tolerance, and one disposition is      *)
(* given for the whole register.                                           *)
(*                                                                         *)
(* A line of the text is its kind: "head" is a heading with an instrument  *)
(* column and a date column, "row" any other table line with a tag,        *)
(* "short" a table line that ends before the instrument column,            *)
(* "untagged" one whose tag is empty, "sep" the line |---|---|, "rule" a   *)
(* separator that does not start with a pipe (---), "blank" and "text".    *)
(* The cells of a row do not steer the reading, so they are chosen when    *)
(* the row is read.  A date cell is the token found in it, a quantity its  *)
(* value and the kind of its unit; amounts are whole numbers.              *)
(*                                                                         *)
(* The specification's own names carry the tool's, so that one module can  *)
(* extend it together with another tool's.                                 *)
(***************************************************************************)
EXTENDS Integers, Sequences, FiniteSets

CONSTANTS Registers,              \* [lines: Seq(LineKinds), cells: DOMAIN Instruments]
          Instruments,            \* what the cells of a row may hold, by register
          When,                   \* the assessment date, an ordinal (as_of)
          DueSoonDays,            \* valves.due_soon_days
          GraceDays,              \* valves.grace_days
          DefaultIntervalMonths,  \* valves.default_interval_months
          DayFirst                \* valves.day_first

\* The kinds of lines.
LineKinds == {"head", "row", "short", "untagged", "sep", "rule", "blank", "text"}
Pipe(k) == k \in {"head", "row", "short", "untagged", "sep"}
IsSeparator(k) == k \in {"sep", "rule"}

ASSUME ValvesAssumption ==
    /\ When \in Nat \ {0}
    /\ DueSoonDays \in Int
    /\ GraceDays \in Int
    /\ DefaultIntervalMonths \in Int
    /\ DayFirst \in BOOLEAN

\* What a cell may hold: nothing, words that are not what the column asks for, a
\* date with the month in its place (ISO, or the month by name) or as a numeric
\* token, an interval, a quantity.  No number in a cell but an error's has a sign.
Empty == [is |-> "empty"]
Words == [is |-> "words"]
DateCells == {Empty, Words} \cup [is : {"named"}, y : Nat, m : Nat, d : Nat]
                            \cup [is : {"numeric"}, a : Nat, b : Nat, y : Nat]
IntervalCells == {Empty, Words}
                 \cup [is : {"interval"}, n : Nat, unit : {"year", "month", "week", "day"}]
QuantityCells == {Empty, Words} \cup [is : {"quantity"}, v : Int, unit : STRING]

\* The cells of one instrument; prose: described in a sentence, not a row.
InstrumentCells == [last : DateCells, due : DateCells, interval : IntervalCells,
                    found : QuantityCells, tolerance : QuantityCells, prose : BOOLEAN]

ASSUME RegistersAssumption ==
    /\ \A r \in Registers : r.lines \in Seq(LineKinds) /\ r.cells \in DOMAIN Instruments
    /\ \A c \in DOMAIN Instruments : Instruments[c] \subseteq InstrumentCells

VARIABLES lines, cells,   \* the register
          stage,          \* "scan", "rows", "close", "done", "raised"
          index,          \* the outer loop's line
          position,       \* the inner loop's line
          fromTable,      \* report.from_table
          skipped,        \* report.skipped, by line
          rows,           \* report.instruments: [line, inst]
          disposition     \* the answer's last line, "" before it is given

calibrationVars == <<lines, cells, stage, index, position, fromTable, skipped, rows, disposition>>
-----------------------------------------------------------------------------
(* Dates: <<year, month, day>>, ordered by their ordinal.                    *)

NoDate == <<>>
Leap(y) == (y % 4 = 0 /\ y % 100 # 0) \/ y % 400 = 0
MonthDays == <<31, 28, 31, 30, 31, 30, 31, 31, 30, 31, 30, 31>>
DaysIn(y, m) == IF m = 2 /\ Leap(y) THEN 29 ELSE MonthDays[m]
DaysBefore == <<0, 31, 59, 90, 120, 151, 181, 212, 243, 273, 304, 334>>
Ordinal(d) ==
    LET y == d[1] - 1
    IN  365 * y + (y \div 4) - (y \div 100) + (y \div 400)
        + DaysBefore[d[2]] + (IF d[2] > 2 /\ Leap(d[1]) THEN 1 ELSE 0) + d[3]

\* datetime.date: years from MINYEAR to MAXYEAR.
Years == 1 .. 9999
MakeDate(y, m, d) ==
    IF y \in Years /\ m \in 1 .. 12 /\ d \in 1 .. DaysIn(y, m) THEN <<y, m, d>> ELSE NoDate

\* An NN/NN/YYYY token: day-first when that is the convention and the second
\* number can be a month, or when the first cannot be one.
NumericDate(first, second, year) ==
    LET y == IF year < 100 THEN year + 2000 ELSE year
    IN  IF (DayFirst \/ first > 12) /\ second <= 12
        THEN MakeDate(y, second, first)
        ELSE MakeDate(y, first, second)

Named(y, m, d) == [is |-> "named", y |-> y, m |-> m, d |-> d]
Numeric(a, b, y) == [is |-> "numeric", a |-> a, b |-> b, y |-> y]
ParseDate(cell) ==
    CASE cell.is = "named"   -> MakeDate(cell.y, cell.m, cell.d)
      [] cell.is = "numeric" -> NumericDate(cell.a, cell.b, cell.y)
      [] OTHER               -> NoDate

\* An interval cell and the (months, days) it stands for.
Every(n, unit) == [is |-> "interval", n |-> n, unit |-> unit]
NoInterval == <<>>
ParseInterval(cell) ==
    IF cell.is # "interval" THEN NoInterval
    ELSE CASE cell.unit = "year" -> <<12 * cell.n, 0>>
           [] cell.unit = "week" -> <<0, 7 * cell.n>>
           [] cell.unit = "day"  -> <<0, cell.n>>
           [] OTHER              -> <<cell.n, 0>>

\* The same day so many months on, or the month's last day, then the days.
AddOffset(start, months, days) ==
    LET m == start[2] - 1 + months
        year == start[1] + m \div 12
        month == (m % 12) + 1
        day == IF start[3] <= DaysIn(year, month) THEN start[3] ELSE DaysIn(year, month)
    IN  Ordinal(<<year, month, day>>) + days

Quantity(v, unit) == [is |-> "quantity", v |-> v, unit |-> unit]
Readable(cell) == cell.is = "quantity"
Abs(n) == IF n < 0 THEN -n ELSE n
-----------------------------------------------------------------------------
(* One instrument.                                                           *)

Instrument(last, due, interval, found, tolerance, prose) ==
    [last |-> last, due |-> due, interval |-> interval, found |-> found,
     tolerance |-> tolerance, prose |-> prose]

\* A heading read as a row: its cells are words.
HeadingRow == Instrument(Words, Words, Words, Words, Words, FALSE)

\* The dates of a row that hold text and no date; a sentence keeps no such list.
UnreadableDates(i) ==
    {cell \in {i.last, i.due} : ~i.prose /\ cell # Empty /\ ParseDate(cell) = NoDate}

Interval(i) ==
    IF ParseInterval(i.interval) = NoInterval /\ ParseDate(i.due) = NoDate
       /\ DefaultIntervalMonths > 0
    THEN <<DefaultIntervalMonths, 0>>
    ELSE ParseInterval(i.interval)

NoDue == 0
ComputedDue(i) ==
    LET last == ParseDate(i.last)
    IN  IF last = NoDate \/ Interval(i) = NoInterval THEN NoDue
        ELSE AddOffset(last, Interval(i)[1], Interval(i)[2])

\* The due date lies past the last day of the calendar: date() or the addition
\* of the days raises.
LastDay == Ordinal(<<9999, 12, 31>>)
Beyond(i) == ComputedDue(i) > LastDay

StatedDue(i) == IF ParseDate(i.due) = NoDate THEN NoDue ELSE Ordinal(ParseDate(i.due))

\* Mutant: a stated due date is believed.
DueStatedFirst(i) == IF StatedDue(i) # NoDue THEN StatedDue(i) ELSE ComputedDue(i)

\* More than a day apart, the earlier of the two; else the stated one first.
Due(i) ==
    LET stated == StatedDue(i)
        computed == ComputedDue(i)
    IN  IF stated # NoDue /\ computed # NoDue /\ Abs(stated - computed) > 1
        THEN IF stated < computed THEN stated ELSE computed
        ELSE IF stated # NoDue THEN stated ELSE computed

AtLeastZero(n) == IF n < 0 THEN 0 ELSE n

Status(i) ==
    LET days == Due(i) - When
        last == ParseDate(i.last)
    IN  IF last # NoDate /\ Ordinal(last) > When    THEN "CAL AFTER READING"
        ELSE IF Due(i) = NoDue                      THEN "NO DATA"
        ELSE IF days < -AtLeastZero(GraceDays)      THEN "OVERDUE"
        ELSE IF days < 0                            THEN "PAST DUE (GRACE)"
        ELSE IF days <= AtLeastZero(DueSoonDays)    THEN "DUE SOON"
        ELSE "VALID"

ToleranceVerdict(i) ==
    IF \E cell \in {i.found, i.tolerance} : cell # Empty /\ ~Readable(cell) THEN "UNREADABLE"
    ELSE IF i.found = Empty                      THEN "NOT RECORDED"
    ELSE IF i.tolerance = Empty                  THEN "NO TOLERANCE"
    ELSE IF i.found.unit # i.tolerance.unit      THEN "NOT COMPARABLE"
    ELSE IF Abs(i.found.v) > Abs(i.tolerance.v)  THEN "OUT OF TOLERANCE"
    ELSE "IN TOLERANCE"

\* Mutant: what could not be read is reported first.
DispositionIncompleteFirst(rs, sk) ==
    IF \E r \in rs : UnreadableDates(r.inst) # {} THEN "CHECK INCOMPLETE"
    ELSE IF \E r \in rs : ToleranceVerdict(r.inst) = "OUT OF TOLERANCE"
         THEN "OUT OF TOLERANCE - RESULTS IN DOUBT"
    ELSE IF \E r \in rs : Status(r.inst) = "OVERDUE"
         THEN "OUT OF CALIBRATION - RESULTS IN DOUBT"
    ELSE "CHECK INCOMPLETE"

\* What keeps the check of an instrument from being complete.
Incomplete(i) ==
    \/ Status(i) \in {"NO DATA", "CAL AFTER READING"}
    \/ ToleranceVerdict(i) \in {"NO TOLERANCE", "NOT COMPARABLE", "UNREADABLE"}
    \/ UnreadableDates(i) # {}

\* The worst of what the rows and the reading of the register show.
Disposition(rs, sk) ==
    LET is == {r.inst : r \in rs}
    IN  IF \E i \in is : ToleranceVerdict(i) = "OUT OF TOLERANCE" THEN "OUT OF TOLERANCE - RESULTS IN DOUBT"
        ELSE IF \E i \in is : Status(i) = "OVERDUE"       THEN "OUT OF CALIBRATION - RESULTS IN DOUBT"
        ELSE IF (\E i \in is : Incomplete(i)) \/ sk # {}  THEN "CHECK INCOMPLETE"
        ELSE IF \E i \in is : Status(i) \in {"DUE SOON", "PAST DUE (GRACE)"} THEN "CALIBRATION DUE"
        ELSE "ALL CURRENT"
-----------------------------------------------------------------------------
(* Reading the register.                                                     *)

CalibrationInit ==
    /\ \E r \in Registers : lines = r.lines /\ cells = r.cells
    /\ stage = "scan"
    /\ index = 1
    /\ position = 0
    /\ fromTable = FALSE
    /\ skipped = {}
    /\ rows = {}
    /\ disposition = ""

AtTable == Pipe(lines[index]) /\ IsSeparator(lines[index + 1])

Scanning == stage = "scan" /\ index < Len(lines)

\* Not the heading of a table: passed over.
PassLine ==
    /\ Scanning /\ ~AtTable
    /\ index' = index + 1
    /\ UNCHANGED <<lines, cells, stage, position, fromTable, skipped, rows, disposition>>

\* A table without the columns it needs is reported by its heading.
SkipTable ==
    /\ Scanning /\ AtTable /\ lines[index] # "head"
    /\ fromTable' = TRUE
    /\ skipped' = skipped \cup {index}
    /\ index' = index + 1
    /\ UNCHANGED <<lines, cells, stage, position, rows, disposition>>

OpenTable ==
    /\ Scanning /\ AtTable /\ lines[index] = "head"
    /\ fromTable' = TRUE
    /\ stage' = "rows"
    /\ position' = index + 2
    /\ UNCHANGED <<lines, cells, index, skipped, rows, disposition>>

InTable == stage = "rows" /\ position <= Len(lines)

\* Mutant: a blank line ends the table.
EndsTableAtBlank ==
    \/ ~Pipe(lines[position])
    \/ position < Len(lines) /\ IsSeparator(lines[position + 1])

\* A line that is no table line, or the heading of the next table.
EndsTable ==
    /\ lines[position] # "blank"
    /\ \/ ~Pipe(lines[position])
       \/ position < Len(lines) /\ IsSeparator(lines[position + 1])

PassBlank ==
    /\ InTable /\ lines[position] = "blank" /\ ~EndsTable
    /\ position' = position + 1
    /\ UNCHANGED <<lines, cells, stage, index, fromTable, skipped, rows, disposition>>

\* Too few cells, or no tag: the separator of a table read as a row has none.
SkipRow ==
    /\ InTable /\ ~EndsTable
    /\ lines[position] \in {"short", "untagged", "sep"}
    /\ skipped' = skipped \cup {position}
    /\ position' = position + 1
    /\ UNCHANGED <<lines, cells, stage, index, fromTable, rows, disposition>>

ReadRow(i) ==
    /\ InTable /\ ~EndsTable
    /\ \/ lines[position] = "row"
       \/ lines[position] = "head" /\ i = HeadingRow
    /\ rows' = rows \cup {[line |-> position, inst |-> i]}
    /\ position' = position + 1
    /\ UNCHANGED <<lines, cells, stage, index, fromTable, skipped, disposition>>

\* Back to the outer loop, at the line that ended the table or past the text.
CloseTable ==
    /\ stage = "rows"
    /\ InTable => EndsTable
    /\ stage' = "scan"
    /\ index' = IF position > index THEN position ELSE index + 1
    /\ UNCHANGED <<lines, cells, position, fromTable, skipped, rows, disposition>>

EndScan ==
    /\ stage = "scan" /\ ~Scanning
    /\ stage' = "close"
    /\ UNCHANGED <<lines, cells, index, position, fromTable, skipped, rows, disposition>>

Closing == stage = "close" /\ disposition = ""

\* No table: the text may describe one instrument, if it states a date of it.
ReadProse(i) ==
    /\ Closing /\ ~fromTable /\ rows = {}
    /\ ParseDate(i.last) # NoDate \/ ParseDate(i.due) # NoDate
    /\ ~Beyond(i)
    /\ rows' = {[line |-> 0, inst |-> [i EXCEPT !.prose = TRUE]]}
    /\ disposition' = Disposition(rows', skipped)
    /\ stage' = "done"
    /\ UNCHANGED <<lines, cells, index, position, fromTable, skipped>>

\* No instrument read: nothing is assessed, and the answer says so.
NothingRead ==
    /\ Closing /\ rows = {}
    /\ disposition' = "NOTHING ASSESSED"
    /\ stage' = "done"
    /\ UNCHANGED <<lines, cells, index, position, fromTable, skipped, rows>>

Dispose ==
    /\ Closing /\ rows # {}
    /\ \A r \in rows : ~Beyond(r.inst)
    /\ disposition' = Disposition(rows, skipped)
    /\ stage' = "done"
    /\ UNCHANGED <<lines, cells, index, position, fromTable, skipped, rows>>

\* assess computes a due date no calendar holds: check_calibration raises and
\* gives no disposition, for a row of a table or for the sentence.
Raise(i) ==
    /\ Closing /\ Beyond(i)
    /\ \/ i \in {r.inst : r \in rows}
       \/ rows = {} /\ ~fromTable
    /\ stage' = "raised"
    /\ UNCHANGED <<lines, cells, index, position, fromTable, skipped, rows, disposition>>

CalibrationNext ==
    \/ PassLine \/ SkipTable \/ OpenTable \/ EndScan
    \/ PassBlank \/ SkipRow \/ CloseTable
    \/ \E i \in Instruments[cells] \cup {HeadingRow} : ReadRow(i)
    \/ \E i \in Instruments[cells] : ReadProse(i) \/ Raise(i)
    \/ NothingRead \/ Dispose

CalibrationSpec == CalibrationInit /\ [][CalibrationNext]_calibrationVars

-----------------------------------------------------------------------------
(* Properties.                                                               *)

\* Each step of the reading keeps its place in the text, and what was reported
\* and read are lines of it (line 0 is the sentence of parse_prose).
CalibrationTypeOK ==
    /\ stage \in {"scan", "rows", "close", "done", "raised"}
    /\ index \in 1 .. Len(lines) + 1
    /\ position \in 0 .. Len(lines) + 1
    /\ fromTable \in BOOLEAN
    /\ skipped \subseteq DOMAIN lines
    /\ {r.line : r \in rows} \subseteq 0 .. Len(lines)
    /\ disposition \in {"", "NOTHING ASSESSED", "ALL CURRENT", "CALIBRATION DUE", "CHECK INCOMPLETE",
                        "OUT OF CALIBRATION - RESULTS IN DOUBT", "OUT OF TOLERANCE - RESULTS IN DOUBT"}

\* The latest day of a month whose number is not above another day's.
LatestDay(length, day) ==
    LET days == (1 .. length) \cap (1 .. day)
    IN  CHOOSE d \in days : \A e \in days : e <= d

\* What an interval means, without a comparison of days: in the month so many
\* months on, the latest day whose number is not above the starting day's.
MonthsOn(start, months) ==
    LET target == 12 * start[1] + start[2] - 1 + months
        y == target \div 12
        m == (target % 12) + 1
    IN  Ordinal(<<y, m, LatestDay(DaysIn(y, m), start[3])>>)

\* The days a reading may not be taken after: the stated due date, and the last
\* calibration with its interval.
Limits(i) ==
    {d \in {StatedDue(i)} : d # NoDue}
    \cup (IF ParseDate(i.last) = NoDate \/ Interval(i) = NoInterval THEN {}
          ELSE {MonthsOn(ParseDate(i.last), Interval(i)[1]) + Interval(i)[2]})

Recorded(i) == i.found # Empty
WithinTolerance(i) ==
    /\ Readable(i.found) /\ Readable(i.tolerance)
    /\ i.found.unit = i.tolerance.unit
    /\ i.found.v \in -Abs(i.tolerance.v) .. Abs(i.tolerance.v)

\* A register is cleared when nothing in it was skipped, every date of every row
\* could be read, no calibration is later than the reading, every recorded error
\* is within its tolerance, and the reading was taken in time: for "ALL CURRENT"
\* by the due date and by the end of the interval, for "CALIBRATION DUE" (due
\* soon, or in grace) no later than a day and the grace after either; the check
\* and the disposition at calibration.py:257 and assess below it.
AllClearIsEarned ==
    disposition \in {"ALL CURRENT", "CALIBRATION DUE"} =>
        /\ skipped = {} /\ rows # {}
        /\ \A i \in {r.inst : r \in rows} :
              /\ UnreadableDates(i) = {}
              /\ ParseDate(i.last) # NoDate => Ordinal(ParseDate(i.last)) <= When
              /\ Recorded(i) => WithinTolerance(i)
              /\ Limits(i) # {}
              /\ \A d \in Limits(i) :
                    When <= IF disposition = "ALL CURRENT" THEN d
                            ELSE d + 1 + AtLeastZero(GraceDays)

\* One failed instrument puts the results in doubt, whatever else the register
\* holds or hides: an error outside its tolerance, or a reading taken past the
\* grace of either limit, is never reported as merely incomplete.
DoubtIsNamed ==
    (/\ stage = "done"
     /\ \E i \in {r.inst : r \in rows} :
           \/ /\ Readable(i.found) /\ Readable(i.tolerance)
              /\ i.found.unit = i.tolerance.unit
              /\ ~WithinTolerance(i)
           \/ /\ ParseDate(i.last) # NoDate => Ordinal(ParseDate(i.last)) <= When
              /\ \E d \in Limits(i) : When > d + 1 + AtLeastZero(GraceDays))
    => disposition \in {"OUT OF CALIBRATION - RESULTS IN DOUBT", "OUT OF TOLERANCE - RESULTS IN DOUBT"}

\* Below a register heading, through table lines and blank ones.
UnderHeading(n) ==
    \E h \in 1 .. n - 2 :
        /\ lines[h] = "head" /\ IsSeparator(lines[h + 1])
        /\ \A k \in h + 2 .. n - 1 :
              \/ lines[k] = "blank"
              \/ Pipe(lines[k]) /\ ~IsSeparator(lines[k + 1])

Answered(n) == n \in skipped \cup {r.line : r \in rows}

\* Every table line below a register heading is an instrument of the answer or
\* is reported as skipped, across blank lines, second tables, and lines too
\* short to hold a tag (parse_table_report).
RowsAreAnswered ==
    stage = "done" =>
        \A n \in DOMAIN lines :
            lines[n] \in {"row", "short", "untagged"} /\ UnderHeading(n) => Answered(n)
=============================================================================
