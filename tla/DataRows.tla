------------------------------ MODULE DataRows ------------------------------
(***************************************************************************)
(* The rows of a data-driven test, parsed from what the user pastes        *)
(* (apps/web/src/server/dataRows.ts).  A text is a sequence of characters; *)
(* the line break and the space are the only blanks.                       *)
(***************************************************************************)
EXTENDS Integers, SequencesExt

Quote == "quote"
Break == "break"
Blanks == {" ", Break}

Trim(text) ==
    LET solid == {i \in DOMAIN text : text[i] \notin Blanks}
    IN  IF solid = {} THEN << >>
        ELSE SubSeq(text, CHOOSE i \in solid : \A j \in solid : i <= j,
                          CHOOSE i \in solid : \A j \in solid : i >= j)

(* A quoted quote is taken for the end of the field. *)
ParseCsvLineUnescaped(line) ==
    LET read(s, c) ==
            CASE c = Quote -> [s EXCEPT !.quoted = ~ s.quoted]
              [] c = "," /\ ~ s.quoted -> [s EXCEPT !.out = Append(s.out, Trim(s.cur)), !.cur = << >>]
              [] OTHER -> [s EXCEPT !.cur = Append(s.cur, c)]
        end == FoldLeft(read, [out |-> << >>, cur |-> << >>, quoted |-> FALSE], line)
    IN  Append(end.out, Trim(end.cur))

(* parseCsvLine: inside quotes, two quotes are one and a comma is a comma. *)
ParseCsvLine(line) ==
    LET read(s, i) ==
            LET c == line[i] IN
            CASE s.skip -> [s EXCEPT !.skip = FALSE]
              [] s.quoted /\ c = Quote /\ i < Len(line) /\ line[i + 1] = Quote ->
                    [s EXCEPT !.cur = Append(s.cur, Quote), !.skip = TRUE]
              [] c = Quote -> [s EXCEPT !.quoted = ~ s.quoted]
              [] c = "," /\ ~ s.quoted -> [s EXCEPT !.out = Append(s.out, Trim(s.cur)), !.cur = << >>]
              [] OTHER -> [s EXCEPT !.cur = Append(s.cur, c)]
        end == FoldLeft(read, [out |-> << >>, cur |-> << >>, quoted |-> FALSE, skip |-> FALSE],
                        [i \in 1 .. Len(line) |-> i])
    IN  Append(end.out, Trim(end.cur))

(* split(/\r?\n/), without the blank lines. *)
Lines(text) ==
    LET read(ls, c) == IF c = Break THEN Append(ls, << >>)
                       ELSE [ls EXCEPT ![Len(ls)] = Append(ls[Len(ls)], c)]
    IN  SelectSeq(FoldLeft(read, << << >> >>, text), LAMBDA l : Trim(l) # << >>)

(* Of two columns with one name the last wins; a missing cell is empty. *)
RowOf(headers, cells) ==
    [h \in ToSet(headers) |->
        LET i == CHOOSE i \in DOMAIN headers : headers[i] = h /\ \A j \in DOMAIN headers : headers[j] = h => j <= i
        IN  IF i \in DOMAIN cells THEN cells[i] ELSE << >>]

(* parseDataRows on CSV: the first line names the columns. *)
ParseDataRows(text) ==
    LET lines   == Lines(Trim(text))
        headers == ParseCsvLine(lines[1])
    IN  IF Len(lines) < 2 THEN << >>
        ELSE [n \in 1 .. Len(lines) - 1 |-> RowOf(headers, ParseCsvLine(lines[n + 1]))]

-----------------------------------------------------------------------------
(* How a spreadsheet writes a table (RFC 4180): the reference the parser is
   held against. *)
Written(cell) ==
    LET escaped == FoldLeft(LAMBDA out, c : out \o (IF c = Quote THEN << Quote, Quote >> ELSE << c >>), << >>, cell)
    IN  IF cell = << >> \/ ToSet(cell) \cap {Quote, ",", " "} # {} THEN << Quote >> \o escaped \o << Quote >> ELSE cell

Joined(parts, separator) ==
    FoldLeft(LAMBDA out, p : IF out = << >> THEN p ELSE out \o << separator >> \o p, << >>, parts)

Exported(table) ==
    Joined([r \in DOMAIN table |-> Joined([c \in DOMAIN table[r] |-> Written(table[r][c])], ",")], Break)

(* What the table says, row by row. *)
Meant(table) ==
    [n \in 1 .. Len(table) - 1 |-> [h \in ToSet(table[1]) |->
        table[n + 1][CHOOSE i \in DOMAIN table[1] : table[1][i] = h]]]
=============================================================================
