----------------------------- MODULE ReportText -----------------------------
(***************************************************************************)
(* render_report (src/render.rs): the text of the court report, which the  *)
(* PDF and the DOCX carry.  A text is a sequence of tokens: a character    *)
(* that some reader treats specially, a newline, a number, or a run of     *)
(* other characters (a word).                                              *)
(***************************************************************************)
EXTENDS Views, Report, Calendar

CONSTANT Spelling   \* the words and characters of each name and locator

ASSUME SpellingAssumption == \A x \in Names \cup Locators : Spelling[x] \in Seq(STRING)

Word(s) == [t |-> s, n |-> 0]
Number(k) == [t |-> "number", n |-> k]

\* The characters outside ASCII that a case tells apart; the last stands for
\* any other.
NonAscii == {"em dash", "en dash", "left quotes", "right quotes", "left quote",
             "right quote", "e acute"}

Newline == Word("\n")
Space == Word(" ")
Bar == Word("|")
Backslash == Word("\\")
EmDash == Word("em dash")

Spell(x) == [i \in DOMAIN Spelling[x] |-> Word(Spelling[x][i])]

\* A loop that writes something for each element, one after the other.
ForEach(list, Piece(_)) == FlattenSeq([i \in DOMAIN list |-> Piece(list[i])])

\* The places of a list that pass a test, from the first to the last.
PlacesOf(list, Test(_)) ==
    FlattenSeq([i \in DOMAIN list |-> IF Test(i) THEN <<i>> ELSE <<>>])

\* str::replace
Replaced(text, c, by) ==
    IF \A i \in DOMAIN text : text[i].t # c THEN text
    ELSE ForEach(text, LAMBDA char : IF char.t = c THEN by ELSE <<char>>)

\* What writeln! adds.
Line(text) == Append(text, Newline)

\* The digits of format_epoch.
StampText(stamp) ==
    <<Number(stamp.date.year), Word("-"), Number(stamp.date.month), Word("-"),
      Number(stamp.date.day), Space, Number(stamp.time.hour), Word(":"),
      Number(stamp.time.min), Word(":"), Number(stamp.time.sec), Word(" UTC")>>

RenderValue(v) == IF IsText(v) THEN Spell(v.text) ELSE StampText(FormatEpoch(v.at))

\* A bar in a value is preceded by a backslash.
Cell(text) == Replaced(text, "|", <<Backslash, Bar>>)

TableRow(cells) ==
    <<Bar>> \o ForEach(cells, LAMBDA cell : <<Space>> \o cell \o <<Space, Bar>>)

RowText(row) ==
    TableRow(<< <<Word(row.attribute)>>, <<Word(row.consistency)>>,
                Cell(RenderValue(row.value)), <<Word(row.source)>>, Cell(Spell(row.locator))>>)

Heading(device) == <<Word("### Device: ")>> \o Spell(device)

\* The table of one device, between its heading and a blank line.
DeviceText(table) ==
    Line(Line(Heading(table.device)))
    \o Line(<<Word("| Attribute | Consistency | Value | Source | Locator |")>>)
    \o Line(<<Word("|---|---|---|---|---|")>>)
    \o ForEach(table.rows, LAMBDA row : Line(RowText(row)))
    \o Line(<<>>)

\* The Debug form of a string: quoted, with its quotes, backslashes and line
\* ends escaped.
DebugText(text) ==
    LET escaped == Replaced(Replaced(Replaced(text, "\\", <<Backslash, Backslash>>),
                                     "\"", <<Backslash, Word("\"")>>),
                            "\n", <<Backslash, Word("n")>>)
    IN  <<Word("\"")>> \o escaped \o <<Word("\"")>>

\* The note of a finding names its device, or the label and its serials.
Note(f) ==
    IF f.code = "USB-VOLUME-REFORMATTED"
    THEN <<Word("volume ")>> \o DebugText(Spell(f.label)) \o <<Space, Word("(")>>
         \o ForEach(AsSeq(f.serials), Spell)
         \o <<Word(")")>>
    ELSE <<Word("device ")>> \o Spell(f.device)

FindingText(f) ==
    Line(<<Word("- **["), Word(f.code), Word("]** "), EmDash, Space>> \o Note(f))

FindingsText(findings) ==
    IF findings = <<>>
    THEN Line(Line(<<Word("No cross-source conflicts or corroborations surfaced.")>>))
    ELSE ForEach(findings, FindingText) \o Line(<<>>)

Summary(devices, findings) ==
    <<Word("Reconstructed "), Number(devices), Space, Number(findings),
      Word(" finding(s). Findings are observations "), Word("("), Word("\""),
      Word("consistent with"), Word("\""), Word(")"), Word(", not conclusions.")>>

Methodology ==
    <<"- Values are graded by tamper-independent storage container",
      "- A conflict is reported as not consistent with, never as proven tampering",
      "- The findings are observations of the evidence">>

\* The findings are those of audit, in some order.
RenderReport(hs) ==
    LET findings == AsSeq(Audit(hs))
        tables == ReportTables(hs)
    IN  Line(Line(<<Word("# USB Device History "), EmDash, Word(" Forensic Report")>>))
        \o Line(Line(<<Word("## Executive Summary")>>))
        \o Line(Line(Summary(Len(tables), Len(findings))))
        \o Line(Line(<<Word("## Devices")>>))
        \o ForEach(tables, DeviceText)
        \o Line(Line(<<Word("## Findings")>>))
        \o FindingsText(findings)
        \o Line(Line(<<Word("## Methodology "), Word("&"), Word(" Limitations")>>))
        \o ForEach(Methodology, LAMBDA item : Line(<<Word(item)>>))

\* str::lines: a line ends at a newline, which the last line has too.
Lines(text) ==
    LET ends == PlacesOf(text, LAMBDA i : text[i].t = "\n")
    IN  [k \in DOMAIN ends |->
            SubSeq(text, IF k = 1 THEN 1 ELSE ends[k - 1] + 1, ends[k] - 1)]

-----------------------------------------------------------------------------
(***************************************************************************)
(* What a reader of the report takes its tables to say: a bar ends a cell  *)
(* unless a backslash is before it, and a date is one of the calendar.     *)
(***************************************************************************)
CellsRead(line) ==
    LET bars == PlacesOf(line, LAMBDA i : line[i] = Bar /\ (i = 1 \/ line[i - 1] # Backslash))
        Inside(k) == SubSeq(line, bars[k] + 2, bars[k + 1] - 2)
        Unescaped(cell) ==
            LET kept == PlacesOf(cell, LAMBDA i : ~ (cell[i] = Backslash /\ i < Len(cell) /\ cell[i + 1] = Bar))
            IN  [i \in DOMAIN kept |-> cell[kept[i]]]
    IN  [k \in 1..(Len(bars) - 1) |-> Unescaped(Inside(k))]

\* The rows under the heading of a device, up to the blank line.
RowsRead(lines, device) ==
    LET headings == {i \in DOMAIN lines : lines[i] = Heading(device)}
        first == Min(headings) + 4
        blank == Min({i \in first..Len(lines) : lines[i] = <<>>})
    IN  IF headings = {} THEN <<>>
        ELSE [k \in 1..(blank - first) |-> CellsRead(lines[first + k - 1])]

IsStamp(cell) == Len(cell) = 12 /\ \A i \in {1, 3, 5, 7, 9, 11} : cell[i].t = "number"

StampRead(cell) ==
    [date |-> [year |-> cell[1].n, month |-> cell[3].n, day |-> cell[5].n],
     time |-> [hour |-> cell[7].n, min |-> cell[9].n, sec |-> cell[11].n]]

Says(cells, c) ==
    /\ Len(cells) = 5
    /\ cells[1] = <<Word(c.attribute)>>
    /\ IF IsText(c.value) THEN cells[3] = Spell(c.value.text)
       ELSE IsStamp(cells[3]) /\ Denotes(StampRead(cells[3]), c.value.at)
    /\ cells[4] = <<Word(c.source)>>
    /\ cells[5] = Spell(c.locator)

\* Each claim is a row of the table of its device, as often as it was made.
TablesSay(lines, cs) ==
    \A c \in ToSet(cs) :
        LET rows == RowsRead(lines, c.device)
        IN  Cardinality({k \in DOMAIN rows : Says(rows[k], c)}) = CountIn(cs, c)

\* "Neutralize `|` so a value cannot break a Markdown table cell" (render.rs:98):
\* every claim is one row of its table.  A line end in a name still breaks it.
ValuesStayInCells ==
    pc = "done" => TablesSay(Lines(RenderReport(histories)), claims)
=============================================================================
