----------------------------- MODULE ErrorReport -----------------------------
(***************************************************************************)
(* parser.c: parser_print_error for an error in the code, and what it uses *)
(* to find lines.  It prints the lines that the error's range touches, and *)
(* under each of them blanks and carets.                                   *)
(*                                                                         *)
(* Indices are C's: index i is the place before character i + 1, and       *)
(* newline p of the code stands at index p - 1.  The wording, the line     *)
(* numbers before the lines and the width of their column are left out.    *)
(***************************************************************************)
EXTENDS Integers, FiniteSets, SequencesExt

CONSTANT
  Codes   \* the codes there are; of their characters only newlines matter

Newline == "\n"

ASSUME ReportAssumption == \A c \in Codes : c \in Seq(STRING)

VARIABLES
  code,      \* parser->code
  error,     \* parser->error_info.code
  heading,   \* the location that is printed
  lineno,    \* the line to be printed next
  index,     \* where it begins
  report,    \* the lines printed
  at         \* "start", "lines" or "done"

vars == <<code, error, heading, lineno, index, report, at>>

Size == Len(code)
IsNewline(sym) == sym = Newline

\* memchr and memrchr for the newline: its number in the code, or 0.
Memchr(from, to) == SelectInSubSeq(code, from + 1, to, IsNewline)
Memrchr(to)      == SelectLastInSubSeq(code, 1, to, IsNewline)

\* The line and the column of an index.
GetLocation(i) ==
  LET end == IF i > Size THEN Size ELSE i
      location[ptr \in 0..end] ==
        LET newline == Memchr(ptr, end)
        IN  IF newline = 0
            THEN [lineno |-> 1, column |-> end - ptr + 1]
            ELSE [location[newline] EXCEPT !.lineno = @ + 1]
  IN  location[0]

\* (mutation) The last newline of the code is not seen from its end.
GetLineStartBefore(i) == IF i < Size THEN Memrchr(i + 1) ELSE Memrchr(Size - 1)

GetLineStart(i) == IF i < Size THEN Memrchr(i + 1) ELSE Memrchr(Size)

GetLineEnd(i) ==
  LET newline == Memchr(i, Size)
  IN  IF i >= Size \/ newline = 0 THEN Size ELSE newline - 1

GetLineRange(i) ==
  [start |-> IF i < Size THEN Memrchr(i + 1) ELSE Memrchr(Size),
   end   |-> IF i < Size /\ Memchr(i, Size) # 0 THEN Memchr(i, Size) - 1 ELSE Size]

\* The ranges that errors in the code have: they begin and end with a
\* character that is no newline, or end where the code ends.
Reportable(c, range) ==
  /\ range.end <= Len(c)
  /\ IF range.start = Len(c) THEN range.end = range.start
     ELSE range.start < range.end /\ c[range.start + 1] # Newline
  /\ IF range.end = Len(c) THEN TRUE ELSE c[range.end] # Newline

Init ==
  /\ code \in Codes
  /\ error \in {r \in [start : 0..Size, end : 0..Size] : Reportable(code, r)}
  /\ heading = [lineno |-> 0, column |-> 0]
  /\ lineno = 0 /\ index = 0 /\ report = <<>>
  /\ at = "start"

-----------------------------------------------------------------------------
EndLocation == GetLocation(error.end)

PrintHeading ==
  /\ at = "start"
  /\ heading' = GetLocation(error.start)
  /\ lineno' = heading'.lineno
  /\ index' = GetLineStart(error.start)
  /\ at' = "lines"
  /\ UNCHANGED <<code, error, report>>

StartColumn == IF lineno = heading.lineno THEN heading.column - 1 ELSE 0

\* (mutation) Columns are counted from 1.
EndColumnFromOne(lineEnd) ==
  IF lineno = EndLocation.lineno THEN EndLocation.column ELSE lineEnd

\* In a line that the error goes beyond, the index of its end takes the place
\* of its length.
EndColumn(lineEnd) ==
  IF lineno = EndLocation.lineno THEN EndLocation.column - 1 ELSE lineEnd

\* One caret where the error is empty, none if the columns are the wrong way
\* round.
Carets(lineEnd) ==
  CASE StartColumn = EndColumn(lineEnd) -> 1
    [] StartColumn < EndColumn(lineEnd) -> EndColumn(lineEnd) - StartColumn
    [] OTHER                            -> 0

PrintLine ==
  LET lineEnd == GetLineEnd(index)
  IN  /\ at = "lines" /\ lineno <= EndLocation.lineno
      /\ report' = Append(report,
           [lineno |-> lineno, from |-> index, to |-> lineEnd,
            blanks |-> StartColumn, carets |-> Carets(lineEnd)])
      /\ index' = lineEnd + 1
      /\ lineno' = lineno + 1
      /\ UNCHANGED <<code, error, heading, at>>

Finish ==
  /\ at = "lines" /\ lineno > EndLocation.lineno
  /\ at' = "done"
  /\ UNCHANGED <<code, error, heading, lineno, index, report>>

Terminated == at = "done" /\ UNCHANGED vars

Next == PrintHeading \/ PrintLine \/ Finish \/ Terminated

Spec == Init /\ [][Next]_vars

-----------------------------------------------------------------------------
(***************************************************************************)
(* Properties, with lines and columns counted instead of searched for      *)
(***************************************************************************)
LineOf(i) == 1 + Cardinality({p \in 1..i : code[p] = Newline})

\* The indices of the characters of a line, without its newline.
LineText(line) == {i \in 0..(Size - 1) : LineOf(i) = line /\ code[i + 1] # Newline}

First == LineOf(error.start)
ErrorText == error.start..(error.end - 1)

\* The location is that of the first wrong character, and the lines printed
\* are the lines of the code from that one to the one the error ends in, each
\* once and whole, and nothing from outside of the code.
PrintsTheLines ==
  /\ at # "start" =>
       heading = [lineno |-> First,
                  column |-> 1 + Cardinality({i \in LineText(First) : i < error.start})]
  /\ \A k \in DOMAIN report :
       /\ report[k].lineno = First + k - 1
       /\ report[k].from <= report[k].to
       /\ report[k].from..(report[k].to - 1) = LineText(report[k].lineno)
  /\ at = "done" => Len(report) = LineOf(error.end) - First + 1
  /\ at = "done" => GetLineRange(error.start) =
       [start |-> GetLineStart(error.start), end |-> GetLineEnd(error.start)]

\* The carets under the k-th line stand under these indices.
Marked(k) ==
  LET line == report[k]
  IN  {line.from + c : c \in line.blanks..(line.blanks + line.carets - 1)}

\* Of the characters printed exactly those of the error are marked, and in the
\* last line nothing else is: where the error has no character in it, the
\* place of its end.
MarksTheError ==
  \A k \in DOMAIN report :
    LET text == report[k].from..(report[k].to - 1)
    IN  /\ Marked(k) \cap text = ErrorText \cap text
        /\ report[k].lineno = LineOf(error.end) =>
             Marked(k) = IF ErrorText \cap text = {} THEN {error.end} ELSE ErrorText \cap text
=============================================================================
