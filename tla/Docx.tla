-------------------------------- MODULE Docx --------------------------------
(***************************************************************************)
(* render_docx (src/docx.rs): the lines of the report as paragraphs of an  *)
(* XML part, and the parts in a stored ZIP written by hand.  A header      *)
(* field is one token, and sizes and offsets count tokens; in UTF-8 a      *)
(* character outside ASCII is three.                                       *)
(***************************************************************************)
EXTENDS ReportText

CONSTANT Crc32(_)   \* the checksum of a part

\* xml_escape: the ampersand first.
XmlEscape(text) ==
    LET Entity(name) == <<Word("&"), Word(name)>>
    IN  Replaced(Replaced(Replaced(Replaced(Replaced(text, "&", Entity("amp;")),
            "<", Entity("lt;")), ">", Entity("gt;")), "\"", Entity("quot;")), "'", Entity("apos;"))

\* The tags around the text of a paragraph, each as one token.
Paragraph(line) == <<Word("<w:p>")>> \o XmlEscape(line) \o <<Word("</w:p>")>>

\* A string is kept as UTF-8: a wide character is its lead byte and two more.
Utf8(text) ==
    IF \A i \in DOMAIN text : text[i].t \notin NonAscii THEN text
    ELSE ForEach(text, LAMBDA char :
            IF char.t \in NonAscii THEN <<char, Word("+1"), Word("+2")>> ELSE <<char>>)

Body(lines) ==
    <<Word("<w:document>")>>
    \o ForEach(lines, LAMBDA line : Utf8(Paragraph(line)))
    \o <<Word("</w:document>")>>

LocalHeader(part) ==
    <<Word("PK34"), Number(Crc32(part.data)), Number(Len(part.data)), Number(Len(part.data)),
      Number(Len(part.name))>> \o part.name

CentralRecord(part, offset) ==
    <<Word("PK12"), Number(Crc32(part.data)), Number(Len(part.data)), Number(Len(part.data)),
      Number(Len(part.name)), Number(offset)>> \o part.name

\* The loop of zip_stored: the archive when so many parts are written.
Entries(parts, count) ==
    ForEach(SubSeq(parts, 1, count), LAMBDA part : LocalHeader(part) \o part.data)

\* Mutant: the offset is that of the data, taken after the local header.
OffsetLate(parts, i) == Len(Entries(parts, i - 1) \o LocalHeader(parts[i]))

\* Taken before the local header is written.
EntryOffset(parts, i) == Len(Entries(parts, i - 1))

ZipStored(parts) ==
    LET out == Entries(parts, Len(parts))
        central == ForEach([i \in DOMAIN parts |-> i],
                           LAMBDA i : CentralRecord(parts[i], EntryOffset(parts, i)))
    IN  out \o central
        \o <<Word("PK56"), Number(Len(parts)), Number(Len(parts)), Number(Len(central)),
             Number(Len(out))>>

DocumentName == <<Word("word"), Word("/"), Word("document.xml")>>

\* Of the lines of the report.
RenderDocx(lines) ==
    ZipStored(<<[name |-> <<Word("[Content_Types].xml")>>, data |-> <<Word("<Types>")>>],
                [name |-> <<Word("_rels"), Word("/.rels")>>, data |-> <<Word("<Relationships>")>>],
                [name |-> DocumentName, data |-> Body(lines)]>>)

-----------------------------------------------------------------------------
(***************************************************************************)
(* What a reader of the format makes of a file: the end record leads to    *)
(* the directory, a record of it to the entry, and the text of the part is *)
(* that of its paragraphs.                                                 *)
(***************************************************************************)
EndRecord(file) == SubSeq(file, Len(file) - 4, Len(file))

\* Where the records of the directory begin; each says how long its name is.
RecordAt(file, k) ==
    LET end == EndRecord(file)
        at[i \in 1..k] ==
            IF i = 1 THEN end[5].n + 1
            ELSE LET before == at[i - 1] IN before + 6 + file[before + 4].n
    IN  at[k]

NameAt(file, at, from) == SubSeq(file, at + from, at + from + file[at + 4].n - 1)

\* A record agrees with the entry it points at, and with the data there.
RecordRight(file, at) ==
    LET local == file[at + 5].n + 1
        data == local + 5 + file[at + 4].n
        size == file[at + 3].n
    IN  /\ file[at] = Word("PK12") /\ file[local] = Word("PK34")
        /\ \A field \in 1..4 : file[local + field] = file[at + field]
        /\ NameAt(file, local, 5) = NameAt(file, at, 6)
        /\ file[at + 1].n = Crc32(SubSeq(file, data, data + size - 1))

DataAt(file, at) ==
    LET data == file[at + 5].n + 6 + file[at + 4].n
    IN  SubSeq(file, data, data + file[at + 3].n - 1)

\* The characters of a UTF-8 text.
Decoded(data) ==
    ForEach(data, LAMBDA token : IF token.t \in {"+1", "+2"} THEN <<>> ELSE <<token>>)

EntityRead(name) ==
    CASE name = Word("amp;") -> Word("&")
      [] name = Word("lt;") -> Word("<")
      [] name = Word("gt;") -> Word(">")
      [] name = Word("quot;") -> Word("\"")
      [] name = Word("apos;") -> Word("'")
      [] OTHER -> Word("malformed")

\* The text between two tags: an ampersand and a name are one character.
TextRead(text) ==
    LET shown == PlacesOf(text, LAMBDA i : i = 1 \/ text[i - 1].t # "&")
    IN  [k \in DOMAIN shown |->
            IF text[shown[k]].t = "&" /\ shown[k] < Len(text)
            THEN EntityRead(text[shown[k] + 1]) ELSE text[shown[k]]]

Paragraphs(text) ==
    LET opens == PlacesOf(text, LAMBDA i : text[i].t = "<w:p>")
        closes == PlacesOf(text, LAMBDA i : text[i].t = "</w:p>")
    IN  [k \in DOMAIN opens |-> TextRead(SubSeq(text, opens[k] + 1, closes[k] - 1))]

(***************************************************************************)
(* "Validated against an independent oracle (python-docx opens it and      *)
(* reads the paragraphs back)" (docx.rs:6-7) and "every reported value     *)
(* retains its source and locator" (render.rs:119): the directory of the   *)
(* archive leads to parts that are as long as it says and have its         *)
(* checksum, the paragraphs are the lines of the report, and from the      *)
(* tables in them a reader gets back every claim, with the instant it was  *)
(* about.                                                                  *)
(***************************************************************************)
DocxReadsBack ==
    pc = "done" =>
        LET lines == Lines(RenderReport(histories))
            file == RenderDocx(lines)
            records == [k \in 1..EndRecord(file)[2].n |-> RecordAt(file, k)]
            paragraphs == Paragraphs(Decoded(DataAt(file, records[3])))
        IN  /\ EndRecord(file)[1] = Word("PK56")
            /\ \A k \in DOMAIN records : RecordRight(file, records[k])
            /\ NameAt(file, records[3], 6) = DocumentName
            /\ paragraphs = lines
            /\ TablesSay(paragraphs, claims)
=============================================================================
