----------------------------- MODULE TableFile ------------------------------
(***************************************************************************)
(* The files of a table: how export writes them and how import reads them. *)
(* For JSON that is a buffer which is refilled when the decoder needs more *)
(* and doubled when a refill at its start shows that a document does not   *)
(* fit; for CSV a header and a rule for empty fields.  The module is these *)
(* algorithms as functions of the file, and what they should return.       *)
(*                                                                         *)
(* A JSON text is a sequence of characters, and a document is "{", some    *)
(* content, "}"; json.dumps and raw_decode are what writes and finds it.   *)
(* Positions count from 0, as in the code.                                 *)
(***************************************************************************)
LOCAL INSTANCE Integers
LOCAL INSTANCE SequencesExt

At(s, pos)   == s[pos + 1]
From(s, pos) == SubSeq(s, pos + 1, Len(s))
Lesser(m, n) == IF m < n THEN m ELSE n

-----------------------------------------------------------------------------
(* json_writer; line ends are white space like any other.                  *)
JsonWritten(docs, format) ==
    LET Lines(sep) == FlattenSeq([i \in 1 .. Len(docs) |-> IF i = 1 THEN docs[i] ELSE sep \o docs[i]])
    IN  IF format = "ndjson" THEN Lines(<<" ">>)
        ELSE <<"[">> \o (IF docs = <<>> THEN <<>> ELSE <<" ">> \o Lines(<<",", " ">>))
                     \o <<" ", "]", " ">>

(* json.decoder.WHITESPACE.match(s, pos).end()                             *)
SkipSpace(s, pos) ==
    LET n == SelectInSeq(From(s, pos), LAMBDA ch : ch # " ")
    IN  IF n = 0 THEN Len(s) ELSE pos + n - 1

(* The end of the document at pos; pos itself if raw_decode raises.        *)
DocEnd(s, pos) ==
    LET n == SelectInSeq(From(s, pos), LAMBDA ch : ch = "}")
    IN  IF At(s, pos) = "{" /\ n > 0 THEN pos + n ELSE pos

(* The attributes of a JsonSourceFile, and what it does next or how it     *)
(* ended.                                                                  *)
NewReader(size) ==
    [does |-> "setup", buf |-> <<>>, pos |-> 0, end |-> 0, size |-> size, fresh |-> TRUE,
     offset |-> 0, array |-> FALSE, found |-> FALSE, rows |-> <<>>]
Does(r, what) == [r EXCEPT !.does = what]

(* Mutant: _buffer_pos stays where it was.                                 *)
RefilledInPlace(r, chunk) ==
    [r EXCEPT !.buf = From(r.buf, r.pos) \o chunk,
              !.end = Len(r.buf) - r.pos + Len(chunk) - 1,
              !.offset = @ + Len(chunk), !.fresh = FALSE]

Refilled(r, chunk) ==
    [r EXCEPT !.buf = From(r.buf, r.pos) \o chunk, !.pos = 0,
              !.end = Len(r.buf) - r.pos + Len(chunk) - 1,
              !.offset = @ + Len(chunk), !.fresh = FALSE]

(* fill_buffer, then `next'.  StopIteration, raised at the end of the      *)
(* file, ends batches(); out of setup_file() it leaves the generator as a  *)
(* RuntimeError ("stopped").                                               *)
FillBuffer(r, file, max, next) ==
    LET doubles == ~r.fresh /\ r.pos = 0
        size    == IF doubles THEN Lesser(2 * r.size, max) ELSE r.size
        target  == size - r.end + r.pos
        chunk   == SubSeq(file, r.offset + 1, Lesser(r.offset + target, Len(file)))
        grown   == [r EXCEPT !.size = size]
    IN  IF doubles /\ r.size = max THEN Does(r, "too large")
        ELSE IF target < 1 THEN Does(r, "assertion")
        ELSE IF chunk = <<>> THEN Does(grown, IF next = "setup" THEN "stopped" ELSE "teardown")
        ELSE Does(Refilled(grown, chunk), next)

(* setup_file: one round of its loop, and the look at the first character  *)
(* of a buffer that begins with none of white space.                       *)
SetupFile(r, file, max) ==
    LET filled == FillBuffer(r, file, max, "setup")
        space  == SkipSpace(filled.buf, 0)
        first  == At(filled.buf, 0)
    IN  IF filled.does # "setup" THEN filled
        ELSE IF space > 0 THEN [filled EXCEPT !.pos = space]
        ELSE CASE first = "[" -> [filled EXCEPT !.array = TRUE, !.pos = 1, !.does = "read"]
               [] first = "{" -> Does(filled, "read")
               [] OTHER       -> Does(filled, "not recognized")

(* get_line: a row, or NeedMoreData at the position it had come to.        *)
GetLine(r) ==
    LET More(pos) == [r EXCEPT !.pos = pos, !.does = "fill"]
        p == SkipSpace(r.buf, r.pos)
        q == IF r.array /\ r.found /\ At(r.buf, p) = "," THEN p + 1 ELSE p
        s == SkipSpace(r.buf, q)
        e == DocEnd(r.buf, s)
    IN  IF p >= r.end THEN More(p)
        ELSE IF q >= r.end THEN More(q)
        ELSE IF s >= r.end \/ e = s THEN More(s)
        ELSE [r EXCEPT !.pos = e, !.found = TRUE, !.rows = Append(@, SubSeq(r.buf, s + 1, e))]

(* teardown: the end of the array, and nothing behind it.                  *)
Teardown(r) ==
    LET p == SkipSpace(r.buf, r.pos)
        unclosed == r.array /\ (p = Len(r.buf) \/ At(r.buf, p) # "]")
        q == SkipSpace(r.buf, IF r.array THEN p + 1 ELSE p)
    IN  Does(r, IF unclosed THEN "not closed" ELSE IF q < Len(r.buf) THEN "extra data" ELSE "done")

(* batches(), but for the cutting of the rows into batches, which Import   *)
(* models.                                                                 *)
BatchesStep(r, file, max) ==
    CASE r.does = "setup"    -> SetupFile(r, file, max)
      [] r.does = "read"     -> GetLine(r)
      [] r.does = "fill"     -> FillBuffer(r, file, max, "read")
      [] r.does = "teardown" -> Teardown(r)
      [] OTHER               -> r

(* JSON_READ_CHUNK_SIZE is `size', JSON_MAX_BUFFER_SIZE `max'.  A step     *)
(* reads a row or a chunk, asks for one or ends; two chunks are never      *)
(* asked for without a character between them.                             *)
JsonRead(file, size, max) ==
    LET run[n \in 0 .. 4 * Len(file) + 4] ==
            IF n = 0 THEN NewReader(size) ELSE BatchesStep(run[n - 1], file, max)
    IN  run[4 * Len(file) + 4]

-----------------------------------------------------------------------------
(* CSV.  A line is its cells and the delimiter between them; a row has a   *)
(* cell for each of its fields, "" for an empty string.                    *)

(* csv_writer                                                              *)
CsvWritten(rows, fields, delimiter) ==
    LET Line(cells) == [cells |-> cells, by |-> delimiter]
        Cell(row, f) == IF f \in DOMAIN row THEN row[f] ELSE ""
    IN  <<Line(fields)>> \o [i \in 1 .. Len(rows) |->
            Line([k \in 1 .. Len(fields) |-> Cell(rows[i], fields[k])])]

(* csv.reader, which is always given the default delimiter.                *)
Cells(line) == IF line.by = "," \/ Len(line.cells) = 1 THEN line.cells ELSE <<"joined">>

(* get_line: empty fields become no entry.                                 *)
CsvRow(columns, cells) ==
    LET row == [f \in ToSet(columns) |-> cells[CHOOSE i \in DOMAIN columns : columns[i] = f]]
    IN  [f \in {g \in DOMAIN row : row[g] # ""} |-> row[f]]

(* setup_file and get_line; <<>> for an option that was not given.         *)
CsvRead(lines, no_header, custom) ==
    LET body    == IF no_header THEN lines ELSE Tail(lines)
        columns == IF custom # <<>> THEN custom ELSE Cells(Head(lines))
        Good(i) == Len(Cells(body[i])) = Len(columns)
        n       == IF \A i \in DOMAIN body : Good(i) THEN Len(body) + 1
                   ELSE CHOOSE i \in DOMAIN body : ~Good(i) /\ \A j \in 1 .. i - 1 : Good(j)
    IN  CASE lines = <<>> /\ ~no_header  -> [does |-> "stopped", rows |-> <<>>]
          [] no_header /\ custom = <<>>  -> [does |-> "no names", rows |-> <<>>]
          [] OTHER -> [does |-> IF n > Len(body) THEN "done" ELSE "inconsistent",
                       rows |-> [i \in 1 .. n - 1 |-> CsvRow(columns, Cells(body[i]))]]

-----------------------------------------------------------------------------
(* Files of up to two documents: as export writes them, and as somebody    *)
(* else may, with or without spaces.                                       *)
Docs == {<<>>, <<<<"{", "}">>>>, <<<<"{", "a", "b", "a", "}">>>>}
        \cup {<<<<"{", "a", "}">>, d>> : d \in {<<"{", "}">>, <<"{", "b", "b", "}">>}}

Dense(text) == SelectSeq(text, LAMBDA ch : ch # " ")
JsonTexts(docs) ==
    LET written == {JsonWritten(docs, "json")}
                   \cup IF docs = <<>> THEN {} ELSE {JsonWritten(docs, "ndjson")}
    IN  {lead \o text : lead \in {<<>>, <<" ">>},
                        text \in written \cup {Dense(w) : w \in written}}
JsonSizes == {<<1, 2>>, <<1, 4>>, <<2, 7>>, <<3, 5>>, <<4, 16>>, <<7, 8>>, <<20, 40>>}

Longest(docs) == CHOOSE n \in 0 .. 5 : /\ \A i \in DOMAIN docs : Len(docs[i]) <= n
                                       /\ n = 0 \/ \E i \in DOMAIN docs : Len(docs[i]) = n

(* The documents that are whole in the first n characters of a text.       *)
WholeIn(docs, text, n) == SubSeq(docs, 1, Len(SelectSeq(SubSeq(text, 1, n), LAMBDA ch : ch = "}")))

(* Whatever the sizes of the buffer, and wherever the file was cut off: an *)
(* array that is read without complaint has given all its documents, since *)
(* it must be closed; other JSON has given those in front of the cut, and  *)
(* the rest is missing unnoticed if the cut is between two documents.      *)
JsonFaithful ==
    \A docs \in Docs, sz \in JsonSizes : \A text \in JsonTexts(docs) : \A n \in 1 .. Len(text) :
        LET r == JsonRead(SubSeq(text, 1, n), sz[1], sz[2]) IN
        /\ r.does \in {"done", "stopped", "too large", "not closed", "extra data"}
        /\ r.does = "done" => r.rows = IF r.array THEN docs ELSE WholeIn(docs, text, n)

(* What export has written is read, unless a document is as large as the   *)
(* largest buffer, or nearly so.                                           *)
JsonAccepted ==
    \A docs \in Docs, sz \in JsonSizes : \A format \in {"json", "ndjson"} :
        format = "json" \/ docs # <<>> =>
            LET r == JsonRead(JsonWritten(docs, format), sz[1], sz[2])
            IN  r.does = "done" \/ (r.does = "too large" /\ sz[2] <= Longest(docs) + 2)

CsvRows == UNION {[fs -> {"", "x"}] : fs \in SUBSET {"f", "g"}}
Filled(row, fields) ==
    [f \in {g \in ToSet(fields) \cap DOMAIN row : row[g] # ""} |-> row[f]]

(* A CSV file of which `whole' lines are left and, of the next line, k     *)
(* cells, the last of them cut down to `cell'.                             *)
CutLines(lines, whole, k, cell) ==
    SubSeq(lines, 1, whole)
    \o IF k = 0 THEN <<>>
       ELSE <<[lines[whole + 1] EXCEPT !.cells = Append(SubSeq(@, 1, k - 1), cell)]>>

(* A CSV file comes back as its rows, restricted to the exported fields    *)
(* and to those that hold something; with --no-header so does the header.  *)
(* Of a file that was cut off, the rows in front of the cut come back, and *)
(* that is an error only if the cut is in a row and leaves too few cells:  *)
(* at the end of a line, or in the header, it goes unnoticed, and in the   *)
(* last cell of a row it leaves a row with the rest of that cell missing.  *)
CsvFaithful ==
    \A fields \in {<<"f">>, <<"f", "g">>}, x \in CsvRows, y \in CsvRows :
        LET lines == CsvWritten(<<x, y>>, fields, ",")
            kept  == <<Filled(x, fields), Filled(y, fields)>>
        IN  /\ CsvRead(lines, FALSE, <<>>) = [does |-> "done", rows |-> kept]
            /\ CsvRead(lines, FALSE, fields) = CsvRead(lines, FALSE, <<>>)
            /\ CsvRead(Tail(lines), TRUE, fields) = CsvRead(lines, FALSE, <<>>)
            /\ CsvRead(lines, TRUE, <<>>).does = "no names"
            /\ CsvRead(<<>>, FALSE, <<>>).does = "stopped"
            /\ \A whole \in 0 .. 2, k \in 0 .. Len(fields), cell \in {"", "part"} :
                  whole + k > 0 =>
                  LET r    == CsvRead(CutLines(lines, whole, k, cell), FALSE, <<>>)
                      rows == IF whole = 0 THEN 0 ELSE whole - 1
                  IN  /\ r.does = IF whole = 0 \/ k \in {0, Len(fields)} THEN "done" ELSE "inconsistent"
                      /\ Len(r.rows) = IF whole > 0 /\ k = Len(fields) THEN rows + 1 ELSE rows
                      /\ \A i \in 1 .. rows : r.rows[i] = kept[i]
                      /\ \A i \in DOMAIN r.rows : \A f \in ToSet(fields) \ {Last(fields)} :
                            Filled(r.rows[i], <<f>>) = Filled(kept[i], <<f>>)

FilesFaithful == JsonFaithful /\ JsonAccepted /\ CsvFaithful
=============================================================================
