-------------------------------- MODULE Pdf --------------------------------
(***************************************************************************)
(* render_pdf (src/pdf.rs): numbered objects, a table of their offsets and *)
(* a trailer, written by hand.  The file is a sequence of tokens, and the  *)
(* offset of a token is the number of tokens before it.                    *)
(***************************************************************************)
EXTENDS ReportText

CONSTANT LinesPerPage

ASSUME PdfAssumption == LinesPerPage \in Nat \ {0}

\* Folding to the glyphs of the base font.
FoldedWord(s) ==
    CASE s \in {"em dash", "en dash"} -> "-"
      [] s \in {"left quotes", "right quotes"} -> "\""
      [] s \in {"left quote", "right quote"} -> "'"
      [] s = "e acute" -> "?"
      [] OTHER -> s

Folded(text) == [i \in DOMAIN text |-> [text[i] EXCEPT !.t = FoldedWord(@)]]

\* Mutant: the backslash is escaped last.
PdfEscapeLast(text) ==
    Replaced(Replaced(Replaced(Folded(text), "(", <<Backslash, Word("(")>>),
                      ")", <<Backslash, Word(")")>>),
             "\\", <<Backslash, Backslash>>)

\* pdf_escape: the backslash first, so that no escape is escaped again.
PdfEscape(text) ==
    Replaced(Replaced(Replaced(Folded(text), "\\", <<Backslash, Backslash>>),
                      "(", <<Backslash, Word("(")>>),
             ")", <<Backslash, Word(")")>>)

\* slice::chunks
Pages(lines) ==
    [p \in 1..((Len(lines) + LinesPerPage - 1) \div LinesPerPage) |->
        SubSeq(lines, (p - 1) * LinesPerPage + 1, Min({p * LinesPerPage, Len(lines)}))]

Shown(line) == <<Word("(")>> \o PdfEscape(line) \o <<Word(")"), Word("Tj")>>

\* The first line is placed by Td; each other advances with T*.
PageStream(page) ==
    FlattenSeq([row \in DOMAIN page |->
                   <<Word(IF row = 1 THEN "BT" ELSE "T*")>> \o Shown(page[row])])
    \o <<Word("ET")>>

ContentBody(page) ==
    LET stream == PageStream(page)
    IN  <<Word("/Length"), Number(Len(stream)), Word("stream")>> \o stream \o <<Word("endstream")>>

\* Objects 1 to 3, the contents from 4 on, then as many pages.
ContentBase == 4

PageBase(n) == ContentBase + n

Bodies(pages) ==
    LET n == Len(pages)
    IN  << <<Word("/Catalog"), Word("/Pages"), Number(2)>>,
           <<Word("/Kids")>> \o [i \in 1..n |-> Number(PageBase(n) + i - 1)]
               \o <<Word("/Count"), Number(n)>>,
           <<Word("/Font")>> >>
        \o [i \in 1..n |-> ContentBody(pages[i])]
        \o [i \in 1..n |-> <<Word("/Page"), Word("/Contents"), Number(ContentBase + i - 1)>>]

Object(idx, body) == <<Number(idx), Word("obj")>> \o body \o <<Word("endobj")>>

\* The file when so many objects are written, and where each object begins.
FileUpTo(bodies, count) ==
    <<Word("%PDF-1.4")>> \o FlattenSeq([idx \in 1..count |-> Object(idx, bodies[idx])])

Offset(bodies, idx) == Len(FileUpTo(bodies, idx - 1))

\* Of the lines of the report.
RenderPdf(lines) ==
    LET bodies == Bodies(Pages(lines))
        objects == FileUpTo(bodies, Len(bodies))
        count == Len(bodies) + 1
    IN  objects
        \o <<Word("xref"), Number(0), Number(count), Number(0)>>
        \o [k \in DOMAIN bodies |-> Number(Offset(bodies, k))]
        \o <<Word("trailer"), Word("/Size"), Number(count), Word("/Root"), Number(1),
             Word("startxref"), Number(Len(objects)), Word("%%EOF")>>

-----------------------------------------------------------------------------
(***************************************************************************)
(* What a reader of the format makes of a file: from the end to the table, *)
(* from the table to the root, the pages and their contents, and from a    *)
(* content stream the rows of text it shows.                               *)
(***************************************************************************)
AtOffset(file, offset) == IF offset \in 0..(Len(file) - 1) THEN file[offset + 1] ELSE Word("")

\* Where an object begins: the table has one entry an object, from 0 on.
OffsetOf(file, object) ==
    LET xref == file[Len(file) - 1].n
    IN  AtOffset(file, xref + 3 + object).n

IsObject(file, object) ==
    /\ AtOffset(file, OffsetOf(file, object)) = Number(object)
    /\ AtOffset(file, OffsetOf(file, object) + 1) = Word("obj")

\* The offset just after the first such word of an object.
After(file, object, key) ==
    LET from == OffsetOf(file, object) + 1
    IN  CHOOSE offset \in from..Len(file) :
            /\ file[offset].t = key
            /\ \A before \in from..(offset - 1) : file[before].t # key

ValueAfter(file, object, key) == AtOffset(file, After(file, object, key)).n

Kids(file) ==
    LET tree == ValueAfter(file, 1, "/Pages")
        from == After(file, tree, "/Kids")
    IN  [i \in 1..ValueAfter(file, tree, "/Count") |-> AtOffset(file, from + i - 1).n]

\* The stream of a page: as many tokens as its length says.
StreamOf(file, page) ==
    LET contents == ValueAfter(file, page, "/Contents")
        from == After(file, contents, "stream")
        length == ValueAfter(file, contents, "/Length")
    IN  IF IsObject(file, contents) /\ AtOffset(file, from + length) = Word("endstream")
        THEN SubSeq(file, from + 1, from + length) ELSE <<>>

\* The strings that a content stream shows, one a line.  In a string,
\* parentheses nest and a backslash takes the next character as it is.
RowsShown(stream) ==
    LET slashes == {i \in DOMAIN stream : stream[i].t = "\\"}
        RunOf(i) == Min({j \in 1..i : j..i \subseteq slashes})
        escaping == {i \in slashes : (i - RunOf(i)) % 2 = 0}
        opens == {i \in DOMAIN stream : stream[i].t = "(" /\ i - 1 \notin escaping}
        closes == {i \in DOMAIN stream : stream[i].t = ")" /\ i - 1 \notin escaping}
        Depth(i) == Cardinality({j \in opens : j < i}) - Cardinality({j \in closes : j < i})
        strings == PlacesOf(stream, LAMBDA i : i \in opens /\ Depth(i) = 0)
        End(i) == Min({j \in closes : j > i /\ Depth(j) = 1})
        IsShown(i) == /\ stream[End(i) + 1] = Word("Tj")
                      /\ stream[End(i) + 2] \in {Word("T*"), Word("ET")}
        Chars(i) == ForEach([c \in 1..(End(i) - i - 1) |-> i + c],
                            LAMBDA k : IF k \in escaping THEN <<>> ELSE <<stream[k]>>)
    IN  [row \in DOMAIN strings |->
            IF IsShown(strings[row]) THEN Chars(strings[row]) ELSE <<Word("not shown")>>]

(***************************************************************************)
(* "With a correct xref", "validated against an independent oracle (pypdf  *)
(* reads the pages back)" (pdf.rs:3-7): whatever the evidence contains,    *)
(* the offsets, object numbers, lengths and escapes of the file lead a     *)
(* reader to every line of the report, in order, folded to the glyphs of   *)
(* the font and to nothing else.                                           *)
(***************************************************************************)
PdfReadsBack ==
    pc = "done" =>
        LET lines == Lines(RenderReport(histories))
            file == RenderPdf(lines)
            kids == Kids(file)
        IN  /\ \A i \in DOMAIN kids : IsObject(file, kids[i])
            /\ ForEach(kids, LAMBDA page : RowsShown(StreamOf(file, page)))
                    = [i \in DOMAIN lines |-> Folded(lines[i])]
=============================================================================
