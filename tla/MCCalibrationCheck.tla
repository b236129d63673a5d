-------------------------- MODULE MCCalibrationCheck --------------------------
(* CalibrationCheck for TLC: every text of up to MaxLines lines and every two   *)
(* tables with up to two lines between them, with a sound and an overdue        *)
(* instrument; and one row, or a sentence, with every date cell and every       *)
(* tolerance cell, and two rows with a few of them.                             *)
EXTENDS CalibrationCheck

CONSTANT MaxLines

MCWhen == Ordinal(<<2025, 3, 1>>)

Sound == Instrument(Named(2024, 9, 30), Empty, Every(1, "year"), Empty, Empty, FALSE)
Overdue == Instrument(Named(2022, 9, 30), Empty, Every(1, "year"), Empty, Empty, FALSE)

Texts == UNION {[1 .. n -> LineKinds] : n \in 0 .. MaxLines}
Table == <<"head", "sep", "row">>
TwoTables == {Table \o t \o Table : t \in UNION {[1 .. n -> LineKinds] : n \in 0 .. 2}}

\* 29 February, month ends, a day-first and a month-first token, one that is no
\* date either way, and a calibration after the reading.
LastCells == {Empty, Words, Named(2024, 2, 29), Numeric(31, 8, 24), Numeric(1, 2, 2025), Numeric(31, 4, 2024),
              Named(2025, 3, 2)}
DueCells == {Empty, Words, Named(2025, 2, 27), Named(2025, 3, 1), Numeric(3, 14, 2025), Numeric(30, 2, 2025)}
Intervals == {Empty, Words, Every(1, "year"), Every(6, "month"), Every(4, "week"), Every(1, "day"),
              Every(8000, "year")}
FoundCells == {Empty, Words, Quantity(2, "bar"), Quantity(-3, "bar"), Quantity(2, "percent")}
ToleranceCells == {Empty, Words, Quantity(2, "bar"), Quantity(-2, "bar")}

Each == {Instrument(l, d, i, Empty, Empty, FALSE) : l \in LastCells, d \in DueCells, i \in Intervals}
        \cup {Instrument(l, d, Every(6, "month"), f, t, FALSE) :
                 l \in {Words, Numeric(31, 8, 24)}, d \in {Empty, Named(2025, 2, 27)},
                 f \in FoundCells, t \in ToleranceCells}
Few == {Instrument(l, d, i, f, Quantity(2, "bar"), FALSE) :
          l \in {Words, Numeric(31, 8, 24)}, d \in {Empty, Words, Named(2025, 2, 27)},
          i \in {Empty, Every(1, "year"), Every(6, "month")}, f \in {Empty, Quantity(-3, "bar")}}

MCInstruments == [two |-> {Sound, Overdue}, few |-> Few, each |-> Each]

MCRegisters ==
    {[lines |-> t, cells |-> "two"] : t \in Texts \cup TwoTables}
    \cup {[lines |-> Table, cells |-> "each"], [lines |-> <<"text">>, cells |-> "each"],
          [lines |-> Table \o <<"row">>, cells |-> "few"]}
=============================================================================
