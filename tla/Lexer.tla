-------------------------------- MODULE Lexer --------------------------------
(***************************************************************************)
(* parser.c: parse_token and parser_skip_ignoreable, character by          *)
(* character, called for one token after the other.                        *)
(*                                                                         *)
(* `index' counts the characters passed, as parser->index does: the next   *)
(* one is code[index + 1].  parser->token changes field by field.  The     *)
(* name of an identifier is not in the token: token.name points to the     *)
(* memory of parser->buffer, which the next identifier overwrites.  The    *)
(* block there grows as buffer_append makes it grow, by one doubling.  If  *)
(* that is not enough for a name, the name is written over the end of the  *)
(* block.  What a C program does from then on is undefined: the behaviour  *)
(* ends there, `at' an overrun, and nothing is said of what follows.       *)
(* Whether there is memory for a block is left open.                       *)
(***************************************************************************)
EXTENDS LongArith, Sequences

CONSTANTS
  BUFSIZ,   \* the size of the first block
  Letters,  \* the characters that IS_IDENT_HEAD accepts
  Blanks,   \* the white space there is besides the newline
  Others,   \* the characters that begin no token
  Codes     \* the codes there are

Newline == "\n"
NUL == "NUL"   \* the 0 byte that ends a C string

Digits == {"0", "1", "2", "3", "4", "5", "6", "7", "8", "9"}
DigitOf ==
  [sym \in Digits |->
     CASE sym = "0" -> 0 [] sym = "1" -> 1 [] sym = "2" -> 2 [] sym = "3" -> 3
       [] sym = "4" -> 4 [] sym = "5" -> 5 [] sym = "6" -> 6 [] sym = "7" -> 7
       [] sym = "8" -> 8 [] sym = "9" -> 9]

Punctuation == {"+", "-", "*", "/", "(", ")"}
TypeOfSym ==
  [sym \in Punctuation |->
     CASE sym = "+" -> "ADD" [] sym = "-" -> "SUB" [] sym = "*" -> "MUL"
       [] sym = "/" -> "DIV" [] OTHER -> sym]
TokenTypes == {"ADD", "SUB", "MUL", "DIV", "(", ")", "INT", "IDENT", "EOF"}

Spaces == Blanks \cup {Newline}
IdentTail == Letters \cup Digits
Characters == Spaces \cup IdentTail \cup Punctuation \cup Others \cup {"#"}

ASSUME LexerAssumption ==
  /\ LONG_MAX >= 9
  /\ BUFSIZ \in Nat \ {0}
  /\ Letters \cap (Spaces \cup Digits \cup Punctuation \cup {"#"}) = {}
  /\ Blanks \cap (Digits \cup Punctuation \cup {"#", Newline}) = {}
  /\ Others \cap (Spaces \cup IdentTail \cup Punctuation \cup {"#"}) = {}
  /\ NUL \notin Characters
  /\ Codes \subseteq Seq(Characters)

VARIABLES
  code,       \* parser->code
  index,      \* parser->index
  at,         \* where parse_token is, or "idle", or "overrun"
  state,      \* parser->state
  error,      \* parser->error and parser->error_info
  token,      \* parser->token; its value if it is a number
  value,      \* the local variable of that name
  memory,     \* the bytes at parser->buffer.data that have been written
  capacity,   \* parser->buffer.capacity
  delivered   \* history: the tokens so far

vars == <<code, index, at, state, error, token, value, memory, capacity, delivered>>

Init ==
  /\ code \in Codes
  /\ index = 0 /\ at = "idle" /\ value = 0
  /\ state = "PENDING"
  /\ error = [code |-> "NONE", start |-> 0, end |-> 0]
  /\ token = [type |-> "EOF", start |-> 0, end |-> 0, value |-> 0]
  /\ memory = <<>> /\ capacity = 0 /\ delivered = <<>>

-----------------------------------------------------------------------------
AtEnd == index = Len(code)
Sym == code[index + 1]

\* The next character is of the set.
Ahead(set) == ~AtEnd /\ Sym \in set

\* The loop that parse_token is in goes on with such a character, or ends.
Sees(place, set)   == at = place /\ Ahead(set)
Leaves(place, set) == at = place /\ ~Ahead(set)

Advance == index' = index + 1

\* parse_token returns true with the token of this type and range, or false.
Deliver(type, start, end, number) ==
  /\ token' = [type |-> type, start |-> start, end |-> end, value |-> number]
  /\ delivered' = Append(delivered, token')
  /\ state' = "READY" /\ at' = "idle"
  /\ UNCHANGED <<code, error, value>>

Fail(kind, start, end) ==
  /\ error' = [code |-> kind, start |-> start, end |-> end]
  /\ state' = "ERROR" /\ at' = "idle"
  /\ UNCHANGED <<code, index, value, delivered>>

\* A token begins here that has more than one character.
Begin(place) ==
  /\ token' = [token EXCEPT !.start = index]
  /\ value' = 0
  /\ at' = place
  /\ UNCHANGED <<code, index, state, error, memory, capacity, delivered>>

Go(place) ==
  /\ at' = place
  /\ UNCHANGED <<code, state, error, token, value, memory, capacity, delivered>>

-----------------------------------------------------------------------------
(***************************************************************************)
(* The caller: parser_peek_token, which reads a token when there is none,  *)
(* and parser_consume_token                                                *)
(***************************************************************************)
Call ==
  /\ at = "idle" /\ state = "PENDING"
  /\ Go("skip") /\ UNCHANGED index

Consume ==
  /\ at = "idle" /\ state = "READY" /\ token.type # "EOF"
  /\ state' = "PENDING"
  /\ UNCHANGED <<code, index, at, error, token, value, memory, capacity, delivered>>

(***************************************************************************)
(* parser_skip_ignoreable                                                  *)
(***************************************************************************)
SkipSpace  == Sees("skip", Spaces) /\ Advance /\ Go("skip")
EnterComment == Sees("skip", {"#"}) /\ Advance /\ Go("comment")
SkipCommentStays ==   \* (mutation)
  Sees("comment", Characters \ {Newline}) /\ UNCHANGED index /\ Go("comment")
SkipComment == Sees("comment", Characters \ {Newline}) /\ Advance /\ Go("comment")

\* (mutation) The character that ends a comment is passed, even at the end.
LeaveCommentBehind ==
  Leaves("comment", Characters \ {Newline}) /\ Go("skip") /\ Advance

LeaveComment ==
  Leaves("comment", Characters \ {Newline}) /\ Go("skip") /\ UNCHANGED index

(***************************************************************************)
(* parse_token                                                             *)
(***************************************************************************)
EndOfCode ==
  /\ at = "skip" /\ AtEnd
  /\ Deliver("EOF", Len(code), Len(code), 0)
  /\ UNCHANGED <<index, memory, capacity>>

Operator ==
  /\ Sees("skip", Punctuation)
  /\ Deliver(TypeOfSym[Sym], index, index + 1, 0)
  /\ Advance
  /\ UNCHANGED <<memory, capacity>>

BeginNumber == Sees("skip", Digits) /\ Begin("number")

FitsTens(digit) == value <= LONG_MAX \div 10   \* (mutation)
Fits(digit) == value <= (LONG_MAX - digit) \div 10

Digit ==
  /\ Sees("number", Digits)
  /\ Fits(DigitOf[Sym])
  /\ value' = Wrap(Wrap(value * 10) + DigitOf[Sym])
  /\ Advance
  /\ UNCHANGED <<code, at, state, error, token, memory, capacity, delivered>>

NumberTooLarge ==
  /\ Sees("number", Digits)
  /\ ~Fits(DigitOf[Sym])
  /\ Fail("VALUE_OUT_OF_RANGE", token.start, index)
  /\ UNCHANGED <<token, memory, capacity>>

\* (mutation) The range is that of an operator.
EndNumberShort ==
  /\ Leaves("number", Digits)
  /\ Deliver("INT", token.start, token.start + 1, value)
  /\ UNCHANGED <<index, memory, capacity>>

EndNumber ==
  /\ Leaves("number", Digits)
  /\ Deliver("INT", token.start, index, value)
  /\ UNCHANGED <<index, memory, capacity>>

BeginName == Sees("skip", Letters) /\ Begin("name")

NameCharacter == Sees("name", IdentTail) /\ Advance /\ Go("name")

\* (mutation) The buffer is not cleared.
WrittenBehind(bytes) == memory \o bytes

\* memcpy() to the start of the buffer: the bytes behind stay as they were.
Written(bytes) == bytes \o SubSeq(memory, Len(bytes) + 1, Len(memory))

\* (mutation) Also the first block is got by doubling.
OnlyDoubled(room, size) == IF size <= room THEN room ELSE 2 * room

\* The capacity from which buffer_append() writes up to this size.
Grown(room, size) ==
  IF size <= room THEN room ELSE IF room = 0 THEN BUFSIZ ELSE 2 * room

Name == SubSeq(code, token.start + 1, index)

\* The name is appended to the empty buffer, then the byte that ends it.
RoomForName == Grown(capacity, Len(Name))
RoomForNul  == Grown(RoomForName, Len(Name) + 1)
NameFits == Len(Name) <= RoomForName
NulFits  == Len(Name) + 1 <= RoomForNul

EndName ==
  /\ Leaves("name", IdentTail)
  /\ NameFits /\ NulFits
  /\ Deliver("IDENT", token.start, index, 0)
  /\ memory' = Written(Append(Name, NUL))
  /\ capacity' = RoomForNul
  /\ UNCHANGED index

\* One of the two is written over the end of its block.
Overrun ==
  /\ Leaves("name", IdentTail)
  /\ ~(NameFits /\ NulFits)
  /\ at' = "overrun"
  /\ UNCHANGED <<code, index, state, error, token, value, memory, capacity, delivered>>

\* There is no memory for a larger block, for the name or for the byte that
\* ends it.
NoMemory ==
  /\ Leaves("name", IdentTail)
  /\ \/ Len(Name) > capacity /\ UNCHANGED <<memory, capacity>>
     \/ /\ NameFits /\ Len(Name) + 1 > RoomForName
        /\ memory' = Written(Name) /\ capacity' = RoomForName
  /\ Fail("OUT_OF_MEMORY", token.start, index)
  /\ token' = [token EXCEPT !.end = index]

\* (mutation) The range is empty.
IllegalCharacterHere ==
  /\ Sees("skip", Others)
  /\ Fail("ILLEGAL_CHARACTER", index, index)
  /\ UNCHANGED <<token, memory, capacity>>

IllegalCharacter ==
  /\ Sees("skip", Others)
  /\ Fail("ILLEGAL_CHARACTER", index, index + 1)
  /\ UNCHANGED <<token, memory, capacity>>

Scan ==
  \/ SkipSpace \/ EnterComment \/ SkipComment \/ LeaveComment
  \/ EndOfCode \/ Operator
  \/ BeginNumber \/ Digit \/ NumberTooLarge \/ EndNumber
  \/ BeginName \/ NameCharacter \/ EndName \/ NoMemory \/ Overrun
  \/ IllegalCharacter

Ended == state = "ERROR" \/ (state = "READY" /\ token.type = "EOF") \/ at = "overrun"
Terminated == Ended /\ UNCHANGED vars

Next == Call \/ Consume \/ Scan \/ Terminated

Spec == Init /\ [][Next]_vars

\* The scanner runs until it has an answer; the caller need not ask again.
FairSpec == Spec /\ WF_vars(Scan)

-----------------------------------------------------------------------------
(***************************************************************************)
(* Properties                                                              *)
(***************************************************************************)
TokenRecord ==
  [type : TokenTypes, start : 0..Len(code), end : 0..Len(code), value : 0..LONG_MAX]

TypeOK ==
  /\ code \in Seq(Characters)
  /\ index \in 0..Len(code)
  /\ at \in {"idle", "skip", "comment", "number", "name", "overrun"}
  /\ state \in {"PENDING", "READY", "ERROR"}
  /\ error \in [code : {"NONE", "ILLEGAL_CHARACTER", "VALUE_OUT_OF_RANGE", "OUT_OF_MEMORY"},
                start : 0..Len(code), end : 0..Len(code)]
  /\ token \in TokenRecord
  /\ value \in 0..LONG_MAX
  /\ memory \in Seq(Characters \cup {NUL})
  /\ capacity \in Nat
  /\ delivered \in Seq(TokenRecord)

\* COMMENT := #.*$  A comment that begins in code[from + 1 .. to] is still
\* open behind it.
OpenComment(from, to) ==
  \E hash \in (from + 1)..to :
    code[hash] = "#" /\ \A i \in hash..to : code[i] # Newline

\* Nothing but white space and comments, the last of which has ended.
Ignorable(from, to) ==
  /\ from <= to
  /\ \A i \in (from + 1)..to : code[i] \in Spaces \/ OpenComment(from, i)
  /\ to < Len(code) => ~OpenComment(from, to)

\* A run of characters of the set that cannot be made longer.
LongestRun(set, from, to) ==
  /\ \A i \in (from + 1)..to : code[i] \in set
  /\ to < Len(code) => code[to + 1] \notin set

\* The rules INT and IDENT and the terminals of parser.h:14-21.
IsToken(type, from, to) ==
  CASE type = "INT"   -> from < to /\ LongestRun(Digits, from, to)
    [] type = "IDENT" -> from < to /\ code[from + 1] \in Letters /\ LongestRun(IdentTail, from, to)
    [] type = "EOF"   -> from = Len(code) /\ to = Len(code)
    [] OTHER          -> /\ to = from + 1 /\ to <= Len(code)
                         /\ code[to] \in Punctuation /\ TypeOfSym[code[to]] = type

\* Where the token before the one of this number ended.
EndBefore(k) == IF k = 1 THEN 0 ELSE delivered[k - 1].end

\* The tokens are the code: each is the longest there is where the one before
\* it, and white space and comments, end, and its range is where it stands.
\* A character is illegal only there.
ReadsTheCode ==
  /\ \A k \in DOMAIN delivered :
       /\ Ignorable(EndBefore(k), delivered[k].start)
       /\ IsToken(delivered[k].type, delivered[k].start, delivered[k].end)
  /\ error.code # "NONE" => Ignorable(EndBefore(Len(delivered) + 1), error.start)
  /\ error.code = "ILLEGAL_CHARACTER" =>
       error.end = error.start + 1 /\ code[error.end] \in Others
  /\ error.code = "OUT_OF_MEMORY" => IsToken("IDENT", error.start, error.end)

\* What the digits in code[from + 1 .. to] stand for.
Decimal(from, to) ==
  LET of[i \in from..to] == IF i = from THEN 0 ELSE of[i - 1] * 10 + DigitOf[code[i]]
  IN  of[to]

\* A number token has the value its digits have, and is refused at the first
\* digit with which it is no long any more.
NumbersAreExact ==
  /\ \A k \in DOMAIN delivered :
       delivered[k].type = "INT" =>
         delivered[k].value = Decimal(delivered[k].start, delivered[k].end)
  /\ error.code = "VALUE_OUT_OF_RANGE" =>
       /\ error.start < error.end
       /\ \A i \in (error.start + 1)..(error.end + 1) : code[i] \in Digits
       /\ Decimal(error.start, error.end) <= LONG_MAX
       /\ Decimal(error.start, error.end + 1) > LONG_MAX

\* strcmp(string, parser->buffer.data) == 0
InMemory(string) ==
  Len(string) < Len(memory) /\ SubSeq(memory, 1, Len(string) + 1) = Append(string, NUL)

\* As long as an identifier is the current token, until the next one is asked
\* for, token.name is its text (parse_atom reads it after consuming it).
NameIsCurrent ==
  (at = "idle" /\ state # "ERROR" /\ token.type = "IDENT") =>
    InMemory(SubSeq(code, token.start + 1, token.end))

\* What has been written lies in the block, whatever names there were, and only
\* a name that is longer than the first block can be written over the end.
ShortNamesFit == Len(memory) <= capacity /\ (at = "overrun" => Len(Name) > BUFSIZ)

\* The rule IDENT (parser.h:21) is about names of any length: each of them is a
\* token, if there is memory for it.
NamesHaveRoom == at # "overrun"

\* Every call of parse_token returns.
Answers == (at # "idle") ~> (at \in {"idle", "overrun"})
=============================================================================
