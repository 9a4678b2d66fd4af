------------------------------ MODULE SalesCsv ------------------------------
(***************************************************************************)
(* The text that AnalyticsService.exportCsv writes, character by character *)
(* where it matters: a comma, a quote, a line feed and a carriage return   *)
(* stand for themselves, every other character is a letter.  The free      *)
(* texts of a line are the shipping name and the product's name; they grow *)
(* as customers and administrators type them.                              *)
(***************************************************************************)
EXTENDS Naturals, Sequences, SequencesExt

CONSTANTS
    MaxLines,       \* bound on the lines of the table
    MaxChars        \* bound on the characters typed

Comma == ","
Quote == "quote"
LF == "lf"
CR == "cr"
Letter == "letter"
BOM == "bom"
Chars == {Comma, Quote, LF, CR, Letter}

VARIABLES
    table,      \* sequence of lines: customer and product, each a text
    typed       \* number of characters typed

vars == <<table, typed>>

Init == table = <<>> /\ typed = 0

-----------------------------------------------------------------------------
(* csvEscape and exportCsv *)

NeedsQuotes(text) == \E i \in DOMAIN text : text[i] \in {Quote, Comma, LF}

\* Mutant of Doubled: quotes are left alone.
DoubledNot(text) == text
Doubled(text) == FlattenSeq([i \in DOMAIN text |->
                     IF text[i] = Quote THEN <<Quote, Quote>> ELSE <<text[i]>>])

CsvEscape(text) ==
    IF NeedsQuotes(text) THEN <<Quote>> \o Doubled(text) \o <<Quote>> ELSE text

JoinedBy(separator, parts) ==
    FlattenSeq([i \in DOMAIN parts |-> IF i = 1 THEN parts[i] ELSE separator \o parts[i]])

\* The other seven columns are identifiers, dates and numbers.
Columns(line) == <<<<Letter>>, line.customer, line.product, <<Letter>>>>
Header == JoinedBy(<<Comma>>, [i \in 1 .. 4 |-> <<Letter>>])
ExportedLine(line) == JoinedBy(<<Comma>>, [i \in 1 .. 4 |-> CsvEscape(Columns(line)[i])])
ExportCsv ==
    <<BOM>> \o JoinedBy(<<CR, LF>>, <<Header>> \o [k \in DOMAIN table |-> ExportedLine(table[k])])

-----------------------------------------------------------------------------
(* How a spreadsheet reads it (RFC 4180; a line also ends at a bare LF or  *)
(* a bare CR).                                                             *)

EndField(s) == [s EXCEPT !.row = Append(@, s.field), !.field = <<>>, !.at = "start"]
EndLine(s) == [EndField(s) EXCEPT !.rows = Append(@, Append(s.row, s.field)), !.row = <<>>]
Text(s, c) == [s EXCEPT !.field = Append(@, c), !.at = "text"]

\* A character outside quotes.
ReadPlain(s, c) ==
    CASE c = Comma -> EndField(s)
      [] c = LF -> EndLine(s)
      [] c = CR -> [EndLine(s) EXCEPT !.at = "return"]
      [] OTHER -> Text(s, c)

\* A line feed belongs to the carriage return before it.
ReadChar(s, c) ==
    CASE s.at \in {"start", "return"} /\ c = Quote -> [s EXCEPT !.at = "quoted"]
      [] s.at = "quoted" -> IF c = Quote THEN [s EXCEPT !.at = "closing"]
                            ELSE [s EXCEPT !.field = Append(@, c)]
      [] s.at = "closing" /\ c = Quote -> [s EXCEPT !.field = Append(@, Quote), !.at = "quoted"]
      [] s.at = "return" /\ c = LF -> [s EXCEPT !.at = "start"]
      [] OTHER -> ReadPlain(s, c)

\* read[k] is the reader after k characters, of which the first is the BOM.
ReadCsv(text) ==
    LET read[k \in 1 .. Len(text)] ==
            IF k = 1 THEN [rows |-> <<>>, row |-> <<>>, field |-> <<>>, at |-> "start"]
            ELSE ReadChar(read[k - 1], text[k])
    IN  EndLine(read[Len(text)]).rows

-----------------------------------------------------------------------------
AddLine ==
    /\ Len(table) < MaxLines
    /\ table' = Append(table, [customer |-> <<>>, product |-> <<>>])
    /\ UNCHANGED typed

Type(k, field, c) ==
    /\ typed < MaxChars
    /\ table' = [table EXCEPT ![k][field] = Append(@, c)]
    /\ typed' = typed + 1

Next ==
    \/ AddLine
    \/ \E k \in DOMAIN table, field \in {"customer", "product"}, c \in Chars : Type(k, field, c)

Spec == Init /\ [][Next]_vars

-----------------------------------------------------------------------------
(* Properties *)

TypeOK ==
    /\ table \in Seq([customer : Seq(Chars), product : Seq(Chars)])
    /\ Len(table) <= MaxLines /\ typed \in 0 .. MaxChars

\* A carriage return alone is no reason for quotes (the regular expression asks for a
\* line feed), and outside quotes it ends a line.
Portable(text) == (\E i \in DOMAIN text : text[i] = CR) => NeedsQuotes(text)

\* A spreadsheet reads from the export the cells that went into it: no comma, quote
\* or line feed of a name moves a cell or a line, nor does a carriage return beside
\* one of them (analytics.service.ts:8-11, 130-150).
CsvRoundTrip ==
    (\A k \in DOMAIN table : Portable(table[k].customer) /\ Portable(table[k].product)) =>
        ReadCsv(ExportCsv) =
            <<[i \in 1 .. 4 |-> <<Letter>>]>> \o [k \in DOMAIN table |-> Columns(table[k])]
=============================================================================
