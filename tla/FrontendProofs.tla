--------------------------- MODULE FrontendProofs ---------------------------
(***************************************************************************)
(* The scanner and the parser together: each is the environment that the   *)
(* other one assumes, for every code and every list of arguments.          *)
(*                                                                         *)
(* The parser is shown to be a caller as in Lexer; so the invariant of     *)
(* LexerProofs holds here, and with it the scanner is shown to deliver     *)
(* tokens as in Parser.                                                    *)
(***************************************************************************)
EXTENDS Frontend, SequenceTheorems, TLAPS

\* Lexer once more, with what is proved of it.
Lex == INSTANCE LexerProofs WITH error <- lexError, state <- SeenByLexer

-----------------------------------------------------------------------------
(***************************************************************************)
(* The three instances of Lexer say the same                               *)
(***************************************************************************)
LEMMA SameSets ==
  /\ AsLexer!Newline = TheLexer!Newline /\ AsLexer!NUL = TheLexer!NUL
  /\ AsLexer!Digits = TheLexer!Digits /\ AsLexer!Punctuation = TheLexer!Punctuation
  /\ AsLexer!Spaces = TheLexer!Spaces /\ AsLexer!IdentTail = TheLexer!IdentTail
  /\ AsLexer!Characters = TheLexer!Characters
  /\ AsLexer!DigitOf = TheLexer!DigitOf /\ AsLexer!TypeOfSym = TheLexer!TypeOfSym
BY DEF AsLexer!Newline, TheLexer!Newline, AsLexer!NUL, TheLexer!NUL,
       AsLexer!Digits, TheLexer!Digits, AsLexer!Punctuation, TheLexer!Punctuation,
       AsLexer!Spaces, TheLexer!Spaces, AsLexer!IdentTail, TheLexer!IdentTail,
       AsLexer!Characters, TheLexer!Characters, AsLexer!DigitOf, TheLexer!DigitOf,
       AsLexer!TypeOfSym, TheLexer!TypeOfSym

LEMMA SetsAre ==
  /\ Lex!Newline = TheLexer!Newline /\ Lex!NUL = TheLexer!NUL
  /\ Lex!Digits = TheLexer!Digits /\ Lex!Punctuation = TheLexer!Punctuation
  /\ Lex!Spaces = TheLexer!Spaces /\ Lex!IdentTail = TheLexer!IdentTail
  /\ Lex!Characters = TheLexer!Characters /\ Lex!TokenTypes = TheLexer!TokenTypes
BY DEF Lex!Newline, TheLexer!Newline, Lex!NUL, TheLexer!NUL,
       Lex!Digits, TheLexer!Digits, Lex!Punctuation, TheLexer!Punctuation,
       Lex!Spaces, TheLexer!Spaces, Lex!IdentTail, TheLexer!IdentTail,
       Lex!Characters, TheLexer!Characters, Lex!TokenTypes, TheLexer!TokenTypes

\* While the scanner is at work, it changes the state as Lexer says.
LEMMA SameScan ==
  ASSUME SeenByLexer = state, SeenByLexer' = state', TheLexer!Scan
  PROVE  AsLexer!Scan
<1> USE SameSets
    DEF AsLexer!Sees, TheLexer!Sees, AsLexer!Leaves, TheLexer!Leaves, AsLexer!Ahead, TheLexer!Ahead,
        AsLexer!AtEnd, TheLexer!AtEnd, AsLexer!Sym, TheLexer!Sym, AsLexer!Go, TheLexer!Go,
        AsLexer!Advance, TheLexer!Advance, AsLexer!Begin, TheLexer!Begin,
        AsLexer!Fail, TheLexer!Fail, AsLexer!Deliver, TheLexer!Deliver
<1>1. /\ TheLexer!SkipSpace => AsLexer!SkipSpace
      /\ TheLexer!EnterComment => AsLexer!EnterComment
  BY DEF TheLexer!SkipSpace, AsLexer!SkipSpace, TheLexer!EnterComment, AsLexer!EnterComment
<1>2. /\ TheLexer!SkipComment => AsLexer!SkipComment
      /\ TheLexer!LeaveComment => AsLexer!LeaveComment
  BY DEF TheLexer!SkipComment, AsLexer!SkipComment, TheLexer!LeaveComment, AsLexer!LeaveComment
<1>3. /\ TheLexer!EndOfCode => AsLexer!EndOfCode
      /\ TheLexer!Operator => AsLexer!Operator
  BY DEF TheLexer!EndOfCode, AsLexer!EndOfCode, TheLexer!Operator, AsLexer!Operator
<1>4. /\ TheLexer!BeginNumber => AsLexer!BeginNumber
      /\ TheLexer!BeginName => AsLexer!BeginName
  BY DEF TheLexer!BeginNumber, AsLexer!BeginNumber, TheLexer!BeginName, AsLexer!BeginName
<1>5. /\ TheLexer!Digit => AsLexer!Digit
      /\ TheLexer!NumberTooLarge => AsLexer!NumberTooLarge
  BY DEF TheLexer!Digit, AsLexer!Digit, TheLexer!NumberTooLarge, AsLexer!NumberTooLarge,
         TheLexer!Fits, AsLexer!Fits, TheLexer!Wrap, AsLexer!Wrap,
         TheLexer!LONG_MIN, AsLexer!LONG_MIN
<1>6. /\ TheLexer!EndNumber => AsLexer!EndNumber
      /\ TheLexer!NameCharacter => AsLexer!NameCharacter
  BY DEF TheLexer!EndNumber, AsLexer!EndNumber, TheLexer!NameCharacter, AsLexer!NameCharacter
<1>7. /\ TheLexer!EndName => AsLexer!EndName
      /\ TheLexer!NoMemory => AsLexer!NoMemory
      /\ TheLexer!Overrun => AsLexer!Overrun
  BY DEF TheLexer!EndName, AsLexer!EndName, TheLexer!NoMemory, AsLexer!NoMemory,
         TheLexer!Overrun, AsLexer!Overrun, TheLexer!NameFits, AsLexer!NameFits,
         TheLexer!NulFits, AsLexer!NulFits, TheLexer!RoomForName, AsLexer!RoomForName,
         TheLexer!RoomForNul, AsLexer!RoomForNul, TheLexer!Grown, AsLexer!Grown,
         TheLexer!Written, AsLexer!Written, TheLexer!Name, AsLexer!Name
<1>8. TheLexer!IllegalCharacter => AsLexer!IllegalCharacter
  BY DEF TheLexer!IllegalCharacter, AsLexer!IllegalCharacter
<1>. QED
  BY <1>1, <1>2, <1>3, <1>4, <1>5, <1>6, <1>7, <1>8 DEF TheLexer!Scan, AsLexer!Scan

LEMMA SameSpec == AsLexer!Spec => Lex!Spec
<1>1. AsLexer!Init => Lex!Init
  BY DEF AsLexer!Init, Lex!Init
<1>2. [AsLexer!Next]_(AsLexer!vars) => [Lex!Next]_(Lex!vars)
  BY Zenon
  DEF AsLexer!Next, Lex!Next, AsLexer!vars, Lex!vars,
      AsLexer!Scan, Lex!Scan, AsLexer!Call, Lex!Call, AsLexer!Consume, Lex!Consume,
      AsLexer!Terminated, Lex!Terminated, AsLexer!Ended, Lex!Ended,
      AsLexer!Sees, Lex!Sees, AsLexer!Leaves, Lex!Leaves, AsLexer!Ahead, Lex!Ahead,
      AsLexer!AtEnd, Lex!AtEnd, AsLexer!Sym, Lex!Sym, AsLexer!Go, Lex!Go,
      AsLexer!Advance, Lex!Advance, AsLexer!Begin, Lex!Begin,
      AsLexer!Fail, Lex!Fail, AsLexer!Deliver, Lex!Deliver,
      AsLexer!SkipSpace, Lex!SkipSpace, AsLexer!EnterComment, Lex!EnterComment,
      AsLexer!SkipComment, Lex!SkipComment, AsLexer!LeaveComment, Lex!LeaveComment,
      AsLexer!EndOfCode, Lex!EndOfCode, AsLexer!Operator, Lex!Operator,
      AsLexer!BeginNumber, Lex!BeginNumber, AsLexer!Digit, Lex!Digit,
      AsLexer!Fits, Lex!Fits, AsLexer!Wrap, Lex!Wrap, AsLexer!LONG_MIN, Lex!LONG_MIN,
      AsLexer!NumberTooLarge, Lex!NumberTooLarge, AsLexer!EndNumber, Lex!EndNumber,
      AsLexer!BeginName, Lex!BeginName, AsLexer!NameCharacter, Lex!NameCharacter,
      AsLexer!EndName, Lex!EndName, AsLexer!NoMemory, Lex!NoMemory, AsLexer!Overrun, Lex!Overrun,
      AsLexer!NameFits, Lex!NameFits, AsLexer!NulFits, Lex!NulFits,
      AsLexer!RoomForName, Lex!RoomForName, AsLexer!RoomForNul, Lex!RoomForNul,
      AsLexer!Grown, Lex!Grown,
      AsLexer!IllegalCharacter, Lex!IllegalCharacter,
      AsLexer!Written, Lex!Written, AsLexer!Name, Lex!Name,
      AsLexer!Newline, Lex!Newline, AsLexer!NUL, Lex!NUL, AsLexer!Digits, Lex!Digits,
      AsLexer!Punctuation, Lex!Punctuation, AsLexer!Spaces, Lex!Spaces,
      AsLexer!IdentTail, Lex!IdentTail, AsLexer!Characters, Lex!Characters,
      AsLexer!DigitOf, Lex!DigitOf, AsLexer!TypeOfSym, Lex!TypeOfSym
<1>. QED
  BY <1>1, <1>2, PTL DEF AsLexer!Spec, Lex!Spec

LEMMA LexerIsFit == Lex!LexerAssumption
BY CharacterAssumption, SetsAre DEF Lex!LexerAssumption

\* What is proved of Lexer holds of every scanner that behaves as it says.
LEMMA LexerInvariant == AsLexer!Spec => []Lex!IInv
BY SameSpec, Lex!Invariant, LexerIsFit, LongAssumption, PTL

-----------------------------------------------------------------------------
(***************************************************************************)
(* The parser is such a caller                                             *)
(***************************************************************************)
Last  == delivered[Len(delivered)]
AtEof == delivered # <<>> /\ Last.type = "EOF"

Caller ==
  /\ code \in Codes
  /\ state \in {"PENDING", "READY", "DONE", "ERROR"}
  /\ \E S : delivered \in Seq(S)
  /\ at # "idle" => state = "PENDING" /\ TheParser!Peeks
  /\ at = "idle" /\ delivered # <<>> /\ lexError.code = "NONE" => token = Last
  /\ lexError.code # "NONE" => state = "ERROR"
  /\ state = "PENDING" => ~AtEof
  /\ state = "READY" => delivered # <<>>
  /\ state = "DONE" => AtEof

\* What a step of the scanner comes to.
Scans == at' # "idle" /\ UNCHANGED <<state, lexError, delivered>>

Delivers ==
  /\ at' = "idle" /\ state' = "READY" /\ lexError' = lexError
  /\ delivered' = Append(delivered, token')
  /\ token'.type \notin {"INT", "IDENT"} => token'.value = 0

Refuses ==
  /\ at' = "idle" /\ state' = "ERROR" /\ delivered' = delivered
  /\ lexError'.code \in {"ILLEGAL_CHARACTER", "VALUE_OUT_OF_RANGE", "OUT_OF_MEMORY"}

LEMMA ScanIs ==
  ASSUME TheLexer!Scan
  PROVE  at # "idle" /\ code' = code /\ (Scans \/ Delivers \/ Refuses)
<1> USE DEF TheLexer!Sees, TheLexer!Leaves
<1>1. CASE \/ TheLexer!SkipSpace \/ TheLexer!EnterComment \/ TheLexer!SkipComment
           \/ TheLexer!LeaveComment \/ TheLexer!NameCharacter \/ TheLexer!Overrun
  BY <1>1 DEF TheLexer!SkipSpace, TheLexer!EnterComment, TheLexer!SkipComment,
              TheLexer!LeaveComment, TheLexer!NameCharacter, TheLexer!Overrun, TheLexer!Go, Scans
<1>2. CASE TheLexer!BeginNumber \/ TheLexer!BeginName \/ TheLexer!Digit
  BY <1>2 DEF TheLexer!BeginNumber, TheLexer!BeginName, TheLexer!Begin, TheLexer!Digit, Scans
<1>3. CASE \/ TheLexer!EndOfCode \/ TheLexer!EndNumber \/ TheLexer!EndName
  BY <1>3 DEF TheLexer!EndOfCode, TheLexer!EndNumber, TheLexer!EndName, TheLexer!Deliver, Delivers
<1>4. CASE TheLexer!Operator
  BY <1>4 DEF TheLexer!Operator, TheLexer!Deliver, Delivers
<1>5. CASE TheLexer!NumberTooLarge \/ TheLexer!NoMemory \/ TheLexer!IllegalCharacter
  BY <1>5 DEF TheLexer!NumberTooLarge, TheLexer!NoMemory, TheLexer!IllegalCharacter,
              TheLexer!Fail, Refuses
<1>. QED
  BY <1>1, <1>2, <1>3, <1>4, <1>5 DEF TheLexer!Scan

\* The token the parser has is the one that was delivered last.
LEMMA TokenIs ==
  ASSUME Caller, delivered # <<>>
  PROVE  TheParser!token.type = Last.type
<1>1. PICK S : delivered \in Seq(S)
  BY DEF Caller
<1>2. Len(delivered) \in Nat /\ DOMAIN delivered = 1..Len(delivered) /\ Len(delivered) >= 1
  BY <1>1
<1>3. DOMAIN Read = 1..Len(delivered)
  BY <1>2 DEF Read
<1>4. Len(Read) = Len(delivered)
  BY <1>2, <1>3
<1>. QED
  BY <1>2, <1>4 DEF TheParser!token, Read, Last

\* What a step of the parser does to the state.
LEMMA DescendIs ==
  ASSUME TheParser!Descend, state \in {"PENDING", "READY", "DONE", "ERROR"}
  PROVE  /\ state \notin {"DONE", "ERROR"}
         /\ \/ state' = state
            \/ state' = "PENDING" /\ state = "READY" /\ TheParser!token.type # "EOF"
            \/ state' = "DONE" /\ state = "READY" /\ TheParser!token.type = "EOF"
            \/ state' = "ERROR"
<1> USE DEF TheParser!Running, TheParser!Returned, TheParser!Stopped, TheParser!Sees
<1>1. CASE \/ TheParser!StartParsing \/ TheParser!Positive \/ TheParser!NegativeInt
           \/ TheParser!Negation \/ TheParser!AppendRoot
  BY <1>1 DEF TheParser!StartParsing, TheParser!Positive, TheParser!NegativeInt,
              TheParser!Negation, TheParser!ReturnSigned, TheParser!AppendRoot
<1>2. CASE \/ TheParser!Sign \/ TheParser!AtomInt \/ TheParser!AtomVar \/ TheParser!OpenParen
  BY <1>2 DEF TheParser!Sign, TheParser!AtomInt, TheParser!AtomVar, TheParser!OpenParen,
              TheParser!ReturnAtom, TheParser!Consume
<1>3. CASE \/ TheParser!BadArg \/ TheParser!UndefinedVariable \/ TheParser!IllegalAtom
           \/ TheParser!NegativeIntRefused \/ TheParser!DivisionByZero
           \/ TheParser!ExpectedCloseParen \/ TheParser!TrailingToken \/ TheParser!AppendFails
  BY <1>3 DEF TheParser!BadArg, TheParser!UndefinedVariable, TheParser!IllegalAtom,
              TheParser!NegativeIntRefused, TheParser!DivisionByZero,
              TheParser!ExpectedCloseParen, TheParser!TrailingToken, TheParser!AppendFails,
              TheParser!Appends, TheParser!Fail
<1>4. CASE \E level \in DOMAIN TheParser!Operators : TheParser!Operator(level)
  <2>1. PICK level \in {"sum", "product"} : TheParser!Operator(level)
    BY <1>4 DEF TheParser!Operators
  <2>2. "EOF" \notin TheParser!Operators[level]
    BY DEF TheParser!Operators
  <2>. QED
    BY <2>1, <2>2 DEF TheParser!Operator, TheParser!Consume
<1>5. CASE \E level \in DOMAIN TheParser!Operators :
             TheParser!NoOperator(level) \/ TheParser!RightOperand(level)
  BY <1>5 DEF TheParser!NoOperator, TheParser!RightOperand
<1>6. CASE TheParser!CloseParen
  <2>1. state \notin {"DONE", "ERROR"} /\ TheParser!token.type # "EOF" /\ state' = "PENDING"
    BY <1>6 DEF TheParser!CloseParen, TheParser!Consume
  <2>. QED
    BY <2>1
<1>7. CASE TheParser!Finish
  BY <1>7 DEF TheParser!Finish
<1>. QED
  BY <1>1, <1>2, <1>3, <1>4, <1>5, <1>6, <1>7 DEF TheParser!Descend

LEMMA InitIsCaller == Init => Caller /\ AsLexer!Init
<1>1. SUFFICES ASSUME Init
               PROVE  Caller /\ AsLexer!Init
  OBVIOUS
<1>2. /\ TheLexer!Init /\ state = "PENDING" /\ at = "idle" /\ delivered = <<>>
      /\ lexError.code = "NONE"
  BY <1>1 DEF Init, TheLexer!Init
<1>3. <<>> \in Seq({}) /\ ~AtEof
  BY <1>2 DEF AtEof
<1>4. SeenByLexer = state
  BY <1>2 DEF SeenByLexer
<1>. QED
  BY <1>2, <1>3, <1>4 DEF Caller, TheLexer!Init, AsLexer!Init

LEMMA CallIsCaller == Caller /\ CallLexer => Caller' /\ AsLexer!Call
<1>1. SUFFICES ASSUME Caller, CallLexer
               PROVE  Caller' /\ AsLexer!Call
  OBVIOUS
<1>2. /\ TheParser!Peeks /\ TheLexer!Call /\ state = "PENDING" /\ at' = "skip"
      /\ UNCHANGED <<code, frames, result, state, lexError, token, delivered>>
  BY <1>1 DEF CallLexer, TheLexer!Call, TheLexer!Go, parserVars
<1>3. TheParser!Peeks'
  BY <1>2 DEF TheParser!Peeks, TheParser!Running, TheParser!Returned, TheParser!Stopped, TheParser!Top
<1>4. SeenByLexer = state /\ SeenByLexer' = state'
  BY <1>2 DEF SeenByLexer
<1>5. AsLexer!Call
  BY <1>2, <1>4 DEF TheLexer!Call, AsLexer!Call, TheLexer!Go, AsLexer!Go
<1>6. Caller'
  BY <1>1, <1>2, <1>3 DEF Caller, AtEof, Last
<1>. QED
  BY <1>5, <1>6

LEMMA ScanIsCaller == Caller /\ ScanOn => Caller' /\ AsLexer!Scan
<1>1. SUFFICES ASSUME Caller, ScanOn
               PROVE  Caller' /\ AsLexer!Scan
  OBVIOUS
<1>2. TheLexer!Scan /\ UNCHANGED <<code, frames, result>>
  BY <1>1, ScanIs DEF ScanOn, parserVars
<1>3. /\ at # "idle" /\ state = "PENDING" /\ TheParser!Peeks /\ lexError.code = "NONE"
      /\ Scans \/ Delivers \/ Refuses
  BY <1>1, <1>2, ScanIs DEF Caller
<1>4. PICK S : delivered \in Seq(S)
  BY <1>1 DEF Caller
<1>5. SeenByLexer = state /\ SeenByLexer' = state'
  BY <1>3 DEF SeenByLexer, Scans, Delivers, Refuses
<1>6. AsLexer!Scan
  BY <1>2, <1>5, SameScan
<1>7. CASE Scans
  <2>1. TheParser!Peeks'
    BY <1>2, <1>3, <1>7
    DEF Scans, TheParser!Peeks, TheParser!Running, TheParser!Returned, TheParser!Stopped, TheParser!Top
  <2>2. AtEof' <=> AtEof
    BY <1>7 DEF Scans, AtEof, Last
  <2>. QED
    BY <1>1, <1>2, <1>3, <1>6, <1>7, <2>1, <2>2 DEF Caller, Scans
<1>8. CASE Delivers
  <2>1. PICK new : new = token'
    OBVIOUS
  <2>2. delivered' = Append(delivered, new)
    BY <1>8, <2>1 DEF Delivers
  <2>3. /\ delivered' \in Seq(S \cup {new}) /\ delivered' # <<>>
        /\ delivered'[Len(delivered')] = new
    BY <1>4, <2>2
  <2>. QED
    BY <1>1, <1>2, <1>3, <1>6, <1>8, <2>1, <2>3 DEF Caller, Delivers, Last
<1>9. CASE Refuses
  BY <1>1, <1>2, <1>6, <1>9 DEF Caller, Refuses
<1>. QED
  BY <1>3, <1>7, <1>8, <1>9

LEMMA ParseIsCaller ==
  Caller /\ ParseOn => Caller' /\ (AsLexer!Consume \/ UNCHANGED AsLexer!vars)
<1>1. SUFFICES ASSUME Caller, ParseOn
               PROVE  Caller' /\ (AsLexer!Consume \/ UNCHANGED AsLexer!vars)
  OBVIOUS
<1>2. /\ at = "idle" /\ TheParser!Descend
      /\ UNCHANGED <<code, index, at, lexError, token, value, memory, capacity, delivered>>
  BY <1>1 DEF ParseOn, lexerVars
<1>3. /\ state \in {"PENDING", "READY"}
      /\ \/ state' = state
         \/ state' = "PENDING" /\ state = "READY" /\ TheParser!token.type # "EOF"
         \/ state' = "DONE" /\ state = "READY" /\ TheParser!token.type = "EOF"
         \/ state' = "ERROR"
  BY <1>1, <1>2, DescendIs DEF Caller
<1>4. lexError.code = "NONE" /\ (AtEof' <=> AtEof)
  BY <1>1, <1>2, <1>3 DEF Caller, AtEof, Last
<1>5. /\ state = "READY" => delivered # <<>> /\ token = Last /\ TheParser!token.type = Last.type
      /\ state = "PENDING" => ~AtEof
  BY <1>1, <1>2, <1>4, TokenIs DEF Caller
<1>6. Caller'
  BY <1>1, <1>2, <1>3, <1>4, <1>5 DEF Caller, AtEof, Last
<1>7. /\ SeenByLexer = state
      /\ SeenByLexer' = IF state' \in {"PENDING", "READY"} THEN state'
                        ELSE IF AtEof THEN "READY" ELSE "PENDING"
  BY <1>2, <1>3, <1>4 DEF SeenByLexer, AtEof, Last
<1>8. CASE SeenByLexer' = SeenByLexer
  BY <1>2, <1>6, <1>8 DEF AsLexer!vars
<1>9. CASE SeenByLexer' # SeenByLexer
  <2>1. SeenByLexer = "READY" /\ SeenByLexer' = "PENDING" /\ token.type # "EOF"
    BY <1>3, <1>5, <1>7, <1>9 DEF AtEof
  <2>. QED
    BY <1>2, <1>6, <2>1 DEF AsLexer!Consume
<1>. QED
  BY <1>8, <1>9

LEMMA NextIsCaller ==
  Caller /\ [Next]_vars => Caller' /\ [AsLexer!Next]_(AsLexer!vars)
<1>1. SUFFICES ASSUME Caller, [Next]_vars
               PROVE  Caller' /\ [AsLexer!Next]_(AsLexer!vars)
  OBVIOUS
<1>2. CASE UNCHANGED vars
  <2>1. UNCHANGED <<frames, result, state>> /\ UNCHANGED lexerVars
    BY <1>2 DEF vars, parserVars
  <2>2. Caller' /\ SeenByLexer' = SeenByLexer
    BY <1>1, <2>1
    DEF Caller, lexerVars, AtEof, Last, SeenByLexer,
        TheParser!Peeks, TheParser!Running, TheParser!Returned, TheParser!Stopped, TheParser!Top
  <2>. QED
    BY <2>1, <2>2 DEF AsLexer!vars, lexerVars
<1>3. AsLexer!Call \/ AsLexer!Scan \/ AsLexer!Consume => AsLexer!Next
  BY DEF AsLexer!Next
<1>. QED
  BY <1>1, <1>2, <1>3, CallIsCaller, ScanIsCaller, ParseIsCaller DEF Next, Terminated

LEMMA CallerHolds == Spec => []Caller
BY InitIsCaller, NextIsCaller, PTL DEF Spec

\* The parser consumes only tokens that it has been given, asks for the next
\* one only when it has none, and never asks behind the end of the code:
\* parser_peek_token and parser_consume_token as they are used from
\* parse_slice down.  So what is proved of Lexer holds in the parser.
THEOREM CallsTheLexer == Spec => ImplementsLexer
<1>1. Init => Caller /\ AsLexer!Init
  BY InitIsCaller
<1>2. Caller /\ [Next]_vars => Caller' /\ [AsLexer!Next]_(AsLexer!vars)
  BY NextIsCaller
<1>. QED
  BY <1>1, <1>2, PTL DEF Spec, ImplementsLexer, AsLexer!Spec
-----------------------------------------------------------------------------
(***************************************************************************)
(* The scanner is such an environment: the names                           *)
(***************************************************************************)

\* The C string s, which the byte nul ends, lies at the start of the buffer.
Holds(bytes, s, nul) ==
  Len(s) < Len(bytes) /\ SubSeq(bytes, 1, Len(s) + 1) = Append(s, nul)

LEMMA StringInBuffer ==
  ASSUME NEW nul, NEW C, NEW M, NEW s \in Seq(C), NEW bytes \in Seq(M), Holds(bytes, s, nul)
  PROVE  (\A i \in 1..Len(s) : bytes[i] = s[i]) /\ bytes[Len(s) + 1] = nul
<1>. USE DEF Holds
<1>1. \A i \in 1..(Len(s) + 1) : SubSeq(bytes, 1, Len(s) + 1)[i] = bytes[i]
  OBVIOUS
<1>2. \A i \in 1..Len(s) : Append(s, nul)[i] = s[i] /\ s[i] \in C
  OBVIOUS
<1>3. Append(s, nul)[Len(s) + 1] = nul /\ Len(s) \in Nat
  OBVIOUS
<1>4. Len(s) + 1 \in 1..(Len(s) + 1) /\ \A i \in 1..Len(s) : i \in 1..(Len(s) + 1)
  BY <1>3
<1>. QED
  BY <1>1, <1>2, <1>3, <1>4

\* A C string begins with the characters up to its end and ends at the first 0
\* byte: strcmp tells two of them apart.
LEMMA StringsDiffer ==
  ASSUME NEW Chars, NEW nul, nul \notin Chars, NEW M,
         NEW s \in Seq(Chars), NEW t \in Seq(Chars), NEW bytes \in Seq(M),
         Holds(bytes, s, nul), Holds(bytes, t, nul)
  PROVE  s = t
<1>1. /\ \A i \in 1..Len(s) : bytes[i] = s[i]
      /\ \A i \in 1..Len(s) : s[i] \in Chars
      /\ bytes[Len(s) + 1] = nul
  <2>1. \A i \in 1..Len(s) : bytes[i] = s[i]
    BY StringInBuffer
  <2>2. bytes[Len(s) + 1] = nul
    BY StringInBuffer
  <2>. QED
    BY <2>1, <2>2
<1>2. /\ \A i \in 1..Len(t) : bytes[i] = t[i]
      /\ \A i \in 1..Len(t) : t[i] \in Chars
      /\ bytes[Len(t) + 1] = nul
  <2>1. \A i \in 1..Len(t) : bytes[i] = t[i]
    BY StringInBuffer
  <2>2. bytes[Len(t) + 1] = nul
    BY StringInBuffer
  <2>. QED
    BY <2>1, <2>2
<1>3. Len(s) \in Nat /\ Len(t) \in Nat
  OBVIOUS
<1>4. ~(Len(s) < Len(t))
  <2>1. Len(s) < Len(t) => Len(s) + 1 \in 1..Len(t)
    BY <1>3
  <2>. QED
    BY <1>1, <1>2, <2>1
<1>5. ~(Len(t) < Len(s))
  <2>1. Len(t) < Len(s) => Len(t) + 1 \in 1..Len(s)
    BY <1>3
  <2>. QED
    BY <1>1, <1>2, <2>1
<1>6. Len(s) = Len(t)
  BY <1>3, <1>4, <1>5
<1>. QED
  BY <1>1, <1>2, <1>6

\* The tokens with the names that they have in the code.
InCode(k) ==
  [type  |-> delivered[k].type,
   value |-> IF delivered[k].type # "IDENT" THEN delivered[k].value ELSE NameInCode(k)]
ReadInCode == [k \in DOMAIN delivered |-> InCode(k)]

TextOf(k) == SubSeq(code, delivered[k].start + 1, delivered[k].end)

LEMMA Delivered ==
  ASSUME Lex!IInv
  PROVE  /\ code \in Seq(TheLexer!Characters) /\ memory \in Seq(TheLexer!Characters \cup {TheLexer!NUL})
         /\ Len(delivered) \in Nat /\ DOMAIN delivered = 1..Len(delivered)
         /\ index \in 0..Len(code) /\ Len(code) \in Nat
         /\ \A k \in DOMAIN delivered :
              /\ delivered[k].type \in TheLexer!TokenTypes
              /\ delivered[k].start \in 0..Len(code) /\ delivered[k].end \in 0..Len(code)
              /\ delivered[k].value \in 0..LONG_MAX
              /\ TextOf(k) \in Seq(TheLexer!Characters)
<1>1. /\ code \in Seq(TheLexer!Characters)
      /\ memory \in Seq(TheLexer!Characters \cup {TheLexer!NUL})
      /\ delivered \in Seq(Lex!TokenRecord) /\ index \in 0..Len(code)
  BY SetsAre DEF Lex!IInv, Lex!TypeOK
<1>2. Len(delivered) \in Nat /\ DOMAIN delivered = 1..Len(delivered) /\ Len(code) \in Nat
  BY <1>1
<1>3. ASSUME NEW k \in DOMAIN delivered
      PROVE  /\ delivered[k].type \in TheLexer!TokenTypes
             /\ delivered[k].start \in 0..Len(code) /\ delivered[k].end \in 0..Len(code)
             /\ delivered[k].value \in 0..LONG_MAX
  <2>1. delivered[k] \in Lex!TokenRecord
    BY <1>1, <1>2
  <2>. QED
    BY <2>1, SetsAre DEF Lex!TokenRecord
<1>4. ASSUME NEW k \in DOMAIN delivered
      PROVE  TextOf(k) \in Seq(TheLexer!Characters)
  <2>1. PICK C : C = TheLexer!Characters
    OBVIOUS
  <2>2. PICK from, to : from = delivered[k].start + 1 /\ to = delivered[k].end
    OBVIOUS
  <2>3. from \in Int /\ to \in Int /\ \A i \in from..to : code[i] \in C
    BY <1>1, <1>2, <1>3, <2>1, <2>2
  <2>. QED
    BY <1>1, <2>1, <2>2, <2>3, SubSeqProperties DEF TextOf
<1>. QED
  BY <1>1, <1>2, <1>3, <1>4

\* Whatever the buffer holds, the parser sees the names that are in the code.
LEMMA ReadIs == ASSUME Caller, Lex!IInv PROVE Read = ReadInCode
<1>1. SUFFICES ASSUME NEW k \in DOMAIN delivered, delivered[k].type = "IDENT", IsCurrent(k)
               PROVE  NameInMemory = NameInCode(k)
  BY DEF Read, ReadInCode, InCode
<1>2. /\ at = "idle" /\ state # "ERROR" /\ lexError.code = "NONE"
      /\ k = Len(delivered) /\ delivered # <<>> /\ token = delivered[k]
  BY <1>1, Delivered DEF IsCurrent, Caller, Last
<1>3. SeenByLexer # "ERROR"
  BY <1>2 DEF SeenByLexer
<1>4. Lex!InMemory(TextOf(k))
  BY <1>1, <1>2, <1>3 DEF Lex!IInv, Lex!NameIsCurrent, TextOf
<1>5. PICK text : text = TextOf(k)
  OBVIOUS
<1>6. /\ text \in Seq(TheLexer!Characters)
      /\ Len(text) < Len(memory) /\ SubSeq(memory, 1, Len(text) + 1) = Append(text, TheLexer!NUL)
  BY <1>4, <1>5, Delivered, SetsAre DEF Lex!InMemory
<1>7. ASSUME NEW name \in DOMAIN Spelling
      PROVE  TheLexer!InMemory(Spelling[name]) <=> Spelling[name] = text
  <2>1. Spelling[name] \in Seq(TheLexer!Characters) /\ TheLexer!NUL \notin TheLexer!Characters
    BY CharacterAssumption
  <2>2. memory \in Seq(TheLexer!Characters \cup {TheLexer!NUL})
    BY Delivered
  <2>3. ASSUME TheLexer!InMemory(Spelling[name])
        PROVE  Spelling[name] = text
    <3>1. Holds(memory, text, TheLexer!NUL) /\ Holds(memory, Spelling[name], TheLexer!NUL)
      BY <1>6, <2>3 DEF TheLexer!InMemory, Holds
    <3>. QED
      BY <1>6, <2>1, <2>2, <3>1, StringsDiffer, Zenon
  <2>4. TheLexer!InMemory(text)
    BY <1>6 DEF TheLexer!InMemory
  <2>. QED
    BY <2>3, <2>4
<1>. QED
  BY <1>5, <1>7 DEF NameInMemory, NameInCode, NameSpelled, TextOf

-----------------------------------------------------------------------------
(***************************************************************************)
(* The scanner is such an environment: the tokens                          *)
(***************************************************************************)

\* Each token but the end takes a character at least.
Counted ==
  /\ ~AtEof => Len(delivered) <= index
  /\ at \in {"number", "name"} => Len(delivered) <= token.start

\* Where the scanner fails there is a character that no token has taken yet.
LEMMA RefusesInside ==
  ASSUME Caller, Lex!IInv, Lex!IInv', Counted, TheLexer!Scan, Refuses
  PROVE  Len(delivered) < Len(code)
<1>1. /\ ~AtEof /\ index \in 0..Len(code) /\ Len(code) \in Nat /\ Len(delivered) \in Nat
      /\ Len(delivered) <= index
  BY ScanIs, Delivered DEF Caller, Counted
<1>2. CASE TheLexer!NumberTooLarge \/ TheLexer!IllegalCharacter
  <2>1. index # Len(code)
    BY <1>2 DEF TheLexer!NumberTooLarge, TheLexer!IllegalCharacter,
                TheLexer!Sees, TheLexer!Ahead, TheLexer!AtEnd
  <2>. QED
    BY <1>1, <2>1
<1>3. CASE TheLexer!NoMemory
  <2>1. /\ at = "name" /\ Len(delivered) <= token.start
        /\ lexError' = [code |-> "OUT_OF_MEMORY", start |-> token.start, end |-> index]
    BY <1>3 DEF TheLexer!NoMemory, TheLexer!Leaves, TheLexer!Fail, Counted
  <2>2. token.start < index /\ token.start \in Nat
    <3>1. Lex!IsToken("IDENT", lexError.start, lexError.end)'
      BY <2>1 DEF Lex!IInv, Lex!ErrorsRead
    <3>2. lexError.start' < lexError.end'
      BY <3>1 DEF Lex!IsToken
    <3>3. token \in Lex!TokenRecord
      BY DEF Lex!IInv, Lex!TypeOK
    <3>. QED
      BY <2>1, <3>2, <3>3 DEF Lex!TokenRecord
  <2>. QED
    BY <1>1, <2>1, <2>2
<1>4. CASE TheLexer!Scan /\ ~(TheLexer!NumberTooLarge \/ TheLexer!IllegalCharacter \/ TheLexer!NoMemory)
  <2>1. at' # "idle" \/ state' = "READY"
    BY <1>4
    DEF TheLexer!Scan, TheLexer!SkipSpace, TheLexer!EnterComment, TheLexer!SkipComment,
        TheLexer!LeaveComment, TheLexer!NameCharacter, TheLexer!Overrun,
        TheLexer!Go, TheLexer!Sees, TheLexer!Leaves,
        TheLexer!BeginNumber, TheLexer!BeginName, TheLexer!Begin, TheLexer!Digit,
        TheLexer!EndOfCode, TheLexer!EndNumber, TheLexer!EndName, TheLexer!Operator, TheLexer!Deliver
  <2>. QED
    BY <2>1 DEF Refuses
<1>. QED
  BY <1>2, <1>3, <1>4

\* What a token that is delivered is.
LEMMA DeliveredIs ==
  ASSUME Caller, Lex!IInv, Lex!IInv', Counted, TheLexer!Scan, Delivers
  PROVE  /\ token'.type # "EOF" => Len(delivered) + 1 <= index'
         /\ token'.type \in TheLexer!TokenTypes /\ token'.value \in 0..LONG_MAX
         /\ DOMAIN delivered' = 1..(Len(delivered) + 1)
         /\ \A k \in DOMAIN delivered : delivered'[k] = delivered[k]
         /\ Len(delivered') = Len(delivered) + 1 /\ Last' = token'
<1>1. /\ ~AtEof /\ index \in 0..Len(code) /\ Len(code) \in Nat /\ Len(delivered) \in Nat
      /\ Len(delivered) <= index
  BY ScanIs, Delivered DEF Caller, Counted
<1>2. /\ Len(delivered') = Len(delivered) + 1 /\ Last' = token'
      /\ DOMAIN delivered' = 1..(Len(delivered) + 1)
      /\ \A k \in DOMAIN delivered : delivered'[k] = delivered[k]
  <2>1. PICK S : delivered \in Seq(S)
    BY DEF Caller
  <2>2. PICK new : new = token'
    OBVIOUS
  <2>3. delivered' = Append(delivered, new)
    BY <2>2 DEF Delivers
  <2>4. /\ Len(delivered') = Len(delivered) + 1 /\ delivered'[Len(delivered) + 1] = new
        /\ DOMAIN delivered' = 1..(Len(delivered) + 1)
        /\ \A k \in DOMAIN delivered : delivered'[k] = delivered[k]
    BY <2>1, <2>3
  <2>. QED
    BY <2>2, <2>4 DEF Last
<1>3. token'.type \in TheLexer!TokenTypes /\ token'.value \in 0..LONG_MAX
  <2>1. token' \in Lex!TokenRecord'
    BY DEF Lex!IInv, Lex!TypeOK
  <2>. QED
    BY <2>1, SetsAre DEF Lex!TokenRecord
<1>4. ASSUME token'.type # "EOF"
      PROVE  Len(delivered) + 1 <= index'
  <2>1. CASE TheLexer!Operator
    BY <1>1, <2>1 DEF TheLexer!Operator, TheLexer!Advance
  <2>2. CASE TheLexer!EndNumber \/ TheLexer!EndName
    <3>1. /\ at \in {"number", "name"} /\ token'.type \in {"INT", "IDENT"}
          /\ token'.start = token.start /\ token'.end = index /\ index' = index
      BY <2>2 DEF TheLexer!EndNumber, TheLexer!EndName, TheLexer!Leaves, TheLexer!Deliver
    <3>2. token'.start < token'.end
      <4>1. Len(delivered) + 1 \in DOMAIN delivered' /\ delivered'[Len(delivered) + 1] = token'
        BY <1>1, <1>2 DEF Last
      <4>2. PICK k : k = Len(delivered) + 1
        OBVIOUS
      <4>3. Lex!IsToken(delivered[k].type, delivered[k].start, delivered[k].end)'
        BY <4>1, <4>2 DEF Lex!IInv, Lex!TokensRead
      <4>. QED
        BY <3>1, <4>1, <4>2, <4>3 DEF Lex!IsToken
    <3>3. Len(delivered) <= token.start /\ token.start \in Nat
      <4>1. token \in Lex!TokenRecord
        BY DEF Lex!IInv, Lex!TypeOK
      <4>. QED
        BY <3>1, <4>1 DEF Counted, Lex!TokenRecord
    <3>. QED
      BY <1>1, <3>1, <3>2, <3>3
  <2>3. CASE TheLexer!Scan /\ ~(TheLexer!Operator \/ TheLexer!EndNumber \/ TheLexer!EndName)
    <3>1. at' # "idle" \/ state' = "ERROR" \/ token'.type = "EOF"
      BY <2>3
      DEF TheLexer!Scan, TheLexer!SkipSpace, TheLexer!EnterComment, TheLexer!SkipComment,
          TheLexer!LeaveComment, TheLexer!NameCharacter, TheLexer!Overrun,
          TheLexer!Go, TheLexer!Sees, TheLexer!Leaves,
          TheLexer!BeginNumber, TheLexer!BeginName, TheLexer!Begin, TheLexer!Digit,
          TheLexer!EndOfCode, TheLexer!Deliver, TheLexer!Fail,
          TheLexer!NumberTooLarge, TheLexer!NoMemory, TheLexer!IllegalCharacter
    <3>. QED
      BY <1>4, <3>1 DEF Delivers
  <2>. QED
    BY <2>1, <2>2, <2>3
<1>. QED
  BY <1>2, <1>3, <1>4

LEMMA NextIsCounted ==
  Caller /\ Lex!IInv /\ Lex!IInv' /\ Counted /\ [Next]_vars => Counted'
<1>1. SUFFICES ASSUME Caller, Lex!IInv, Lex!IInv', Counted, [Next]_vars
               PROVE  Counted'
  OBVIOUS
<1>2. index \in 0..Len(code) /\ Len(code) \in Nat /\ Len(delivered) \in Nat
  BY <1>1, Delivered
<1>3. CASE ParseOn \/ UNCHANGED vars
  BY <1>1, <1>3 DEF ParseOn, vars, lexerVars, Counted, AtEof, Last
<1>4. CASE CallLexer
  BY <1>1, <1>4 DEF CallLexer, TheLexer!Call, TheLexer!Go, Counted, AtEof, Last
<1>5. CASE ScanOn
  <2>1. TheLexer!Scan /\ ~AtEof /\ Len(delivered) <= index
    BY <1>1, <1>5, ScanIs DEF ScanOn, Caller, Counted
  <2>2. CASE Delivers
    BY <1>1, <2>1, <2>2, DeliveredIs DEF Counted, AtEof, Delivers
  <2>3. CASE Refuses
    <3>1. index' \in Nat /\ index' >= index
      BY <1>2, <2>1, <2>3
      DEF TheLexer!Scan, Refuses, TheLexer!SkipSpace, TheLexer!EnterComment, TheLexer!SkipComment,
          TheLexer!LeaveComment, TheLexer!NameCharacter, TheLexer!Overrun,
          TheLexer!Go, TheLexer!Sees, TheLexer!Leaves,
          TheLexer!BeginNumber, TheLexer!BeginName, TheLexer!Begin, TheLexer!Digit,
          TheLexer!EndOfCode, TheLexer!EndNumber, TheLexer!EndName, TheLexer!Operator,
          TheLexer!Deliver, TheLexer!Fail, TheLexer!NumberTooLarge, TheLexer!NoMemory,
          TheLexer!IllegalCharacter
    <3>. QED
      BY <1>2, <2>1, <2>3, <3>1 DEF Refuses, Counted, AtEof, Last
  <2>4. CASE Scans
    <3>1. CASE TheLexer!BeginNumber \/ TheLexer!BeginName
      <4>1. token' = [token EXCEPT !.start = index] /\ index' = index /\ delivered' = delivered
        BY <3>1 DEF TheLexer!BeginNumber, TheLexer!BeginName, TheLexer!Begin
      <4>2. token'.start = index
        <5>1. token \in Lex!TokenRecord
          BY <1>1 DEF Lex!IInv, Lex!TypeOK
        <5>. QED
          BY <4>1, <5>1 DEF Lex!TokenRecord
      <4>. QED
        BY <2>1, <4>1, <4>2 DEF Counted
    <3>2. CASE TheLexer!Scan /\ ~(TheLexer!BeginNumber \/ TheLexer!BeginName)
      <4>1. /\ index' \in {index, index + 1} /\ token' = token /\ delivered' = delivered
            /\ at' \in {"number", "name"} => at' = at
        BY <2>4, <3>2
        DEF TheLexer!Scan, Scans, TheLexer!SkipSpace, TheLexer!EnterComment, TheLexer!SkipComment,
            TheLexer!LeaveComment, TheLexer!NameCharacter, TheLexer!Overrun,
            TheLexer!Go, TheLexer!Sees,
            TheLexer!Leaves, TheLexer!Advance, TheLexer!Digit, TheLexer!EndOfCode,
            TheLexer!EndNumber, TheLexer!EndName, TheLexer!Operator, TheLexer!Deliver,
            TheLexer!Fail, TheLexer!NumberTooLarge, TheLexer!NoMemory, TheLexer!IllegalCharacter
      <4>. QED
        BY <1>1, <1>2, <2>1, <4>1 DEF Counted
    <3>. QED
      BY <2>1, <3>1, <3>2
  <2>. QED
    BY <2>1, <2>2, <2>3, <2>4, ScanIs
<1>. QED
  BY <1>1, <1>3, <1>4, <1>5 DEF Next, Terminated

-----------------------------------------------------------------------------
(***************************************************************************)
(* The scanner is such an environment: the steps                           *)
(***************************************************************************)

\* What the scanner takes for a name, is_identifier accepts as one.
LEMMA NameIsIdentifier ==
  ASSUME Lex!IInv, NEW k \in DOMAIN delivered, delivered[k].type = "IDENT"
  PROVE  NameInCode(k) \in Identifiers
<1>1. PICK from, to : from = delivered[k].start /\ to = delivered[k].end
  OBVIOUS
<1>2. from \in 0..Len(code) /\ to \in 0..Len(code) /\ Len(code) \in Nat
  BY <1>1, Delivered
<1>3. /\ from < to /\ code[from + 1] \in Letters
      /\ \A i \in (from + 1)..to : code[i] \in TheLexer!IdentTail
  BY <1>1, SetsAre DEF Lex!IInv, Lex!TokensRead, Lex!IsToken, Lex!LongestRun
<1>4. /\ Len(TextOf(k)) = to - from
      /\ \A i \in 1..(to - from) : TextOf(k)[i] = code[from + i]
  <2>1. code \in Seq(TheLexer!Characters)
    BY Delivered
  <2>. QED
    BY <1>1, <1>2, <1>3, <2>1 DEF TextOf
<1>5. IsIdentifier(TextOf(k))
  <2>1. TextOf(k)[1] \in Letters /\ TextOf(k) # <<>>
    BY <1>2, <1>3, <1>4
  <2>2. ASSUME NEW i \in 2..Len(TextOf(k))
        PROVE  TextOf(k)[i] \in TheLexer!IdentTail
    BY <1>2, <1>3, <1>4
  <2>. QED
    BY <2>1, <2>2 DEF IsIdentifier
<1>6. PICK found : found = {name \in DOMAIN Spelling : Spelling[name] = TextOf(k)}
  OBVIOUS
<1>7. NameInCode(k) = TheName(found)
  BY <1>6 DEF NameInCode, NameSpelled, TextOf
<1>8. CASE found = {}
  BY <1>7, <1>8 DEF TheName, Identifiers
<1>9. CASE found # {}
  <2>1. TheName(found) \in found
    BY <1>9 DEF TheName
  <2>. QED
    BY <1>5, <1>6, <1>7, <2>1 DEF Identifiers
<1>. QED
  BY <1>8, <1>9

NamesAreIdentifiers ==
  \A k \in DOMAIN delivered : delivered[k].type = "IDENT" => NameInCode(k) \in Identifiers
LEMMA NamesInCode == Lex!IInv => NamesAreIdentifiers
  BY NameIsIdentifier DEF NamesAreIdentifiers

LEMMA ReadLength == ASSUME Lex!IInv PROVE Len(Read) = Len(delivered)
<1>1. Len(delivered) \in Nat /\ DOMAIN delivered = 1..Len(delivered)
  BY Delivered
<1>2. DOMAIN Read = 1..Len(delivered)
  BY <1>1 DEF Read
<1>. QED
  BY <1>1, <1>2

LEMMA ReadIsInCode == Caller /\ Lex!IInv => Read = ReadInCode
  BY ReadIs

\* The code's tokens do not change as long as no other one is delivered.
LEMMA ReadStays ==
  ASSUME Caller /\ Lex!IInv, (Caller /\ Lex!IInv)', code' = code, delivered' = delivered
  PROVE  Read' = Read
<1>1. (Caller /\ Lex!IInv => Read = ReadInCode)'
  BY ReadIsInCode, PTL
<1>2. ReadInCode' = ReadInCode
  BY DEF ReadInCode, InCode, NameInCode
<1>. QED
  BY <1>1, <1>2, ReadIsInCode

\* The tokens with one more.
LEMMA ReadGrows ==
  ASSUME Caller /\ Lex!IInv, (Caller /\ Lex!IInv)', Counted, TheLexer!Scan, Delivers
  PROVE  \E next \in TheParser!Tokens \cup {TheParser!Eof} :
           /\ Len(Read) = MaxTokens => next = TheParser!Eof
           /\ Read' = Append(Read, next)
<1>1. (Caller /\ Lex!IInv => Read = ReadInCode)' /\ Read = ReadInCode
  BY ReadIsInCode, PTL
<1>2. code' = code
  BY ScanIs
<1>3. PICK n : n = Len(delivered) /\ n \in Nat /\ DOMAIN delivered = 1..n
  BY Delivered
<1>4. /\ DOMAIN delivered' = 1..(n + 1)
      /\ \A k \in 1..n : delivered'[k] = delivered[k]
      /\ token'.type \in TheLexer!TokenTypes /\ token'.value \in 0..LONG_MAX
      /\ token'.type # "EOF" => n + 1 <= index'
      /\ Len(delivered') = n + 1 /\ delivered'[n + 1] = token'
  BY <1>3, DeliveredIs DEF Last
<1>5. PICK next : next = ReadInCode'[n + 1]
  OBVIOUS
<1>6. /\ next = [type |-> token'.type,
                 value |-> IF token'.type # "IDENT" THEN token'.value ELSE NameInCode(n + 1)']
      /\ ReadInCode' = [k \in 1..(n + 1) |-> IF k = n + 1 THEN next ELSE ReadInCode[k]]
  <2>1. ASSUME NEW k \in 1..n
        PROVE  ReadInCode'[k] = ReadInCode[k]
    BY <1>2, <1>3, <1>4 DEF ReadInCode, InCode, NameInCode
  <2>2. next = InCode(n + 1)'
    BY <1>3, <1>4, <1>5 DEF ReadInCode
  <2>3. DOMAIN ReadInCode' = 1..(n + 1)
    BY <1>4 DEF ReadInCode
  <2>4. ReadInCode' = [k \in 1..(n + 1) |-> ReadInCode'[k]]
    BY <2>3 DEF ReadInCode
  <2>5. InCode(n + 1)' = [type |-> token'.type,
                          value |-> IF token'.type # "IDENT" THEN token'.value
                                    ELSE NameInCode(n + 1)']
    BY <1>4 DEF InCode
  <2>6. ASSUME NEW k \in 1..(n + 1)
        PROVE  ReadInCode'[k] = IF k = n + 1 THEN next ELSE ReadInCode[k]
    BY <1>3, <1>5, <2>1
  <2>. QED
    BY <2>2, <2>4, <2>5, <2>6
<1>7. Read' = Append(Read, next)
  <2>1. DOMAIN ReadInCode = 1..n /\ Len(ReadInCode) = n
    BY <1>3 DEF ReadInCode
  <2>2. ReadInCode' = Append(ReadInCode, next)
    BY <1>3, <1>6, <2>1
  <2>. QED
    BY <1>1, <2>2
<1>8. next \in TheParser!Tokens \cup {TheParser!Eof}
  <2>1. CASE token'.type \notin {"INT", "IDENT"}
    <3>1. next = TheParser!Token(token'.type)
      <4>1. token'.value = 0 /\ token'.type # "IDENT"
        BY <2>1 DEF Delivers
      <4>. QED
        BY <1>6, <4>1 DEF TheParser!Token
    <3>2. token'.type \in TheParser!BinaryTypes \cup {"(", ")", "EOF"}
      BY <1>4, <2>1
      DEF TheLexer!TokenTypes, TheParser!BinaryTypes, TheParser!AddSub, TheParser!MulDiv
    <3>. QED
      BY <3>1, <3>2, Zenon DEF TheParser!Tokens, TheParser!Eof
  <2>2. CASE token'.type = "INT"
    BY <1>4, <1>6, <2>2 DEF TheParser!Tokens
  <2>3. CASE token'.type = "IDENT"
    <3>2. (Lex!IInv => NamesAreIdentifiers)'
      BY NamesInCode, PTL
    <3>3. NameInCode(n + 1)' \in Identifiers
      BY <1>3, <1>4, <2>3, <3>2 DEF NamesAreIdentifiers
    <3>. QED
      BY <1>6, <2>3, <3>3 DEF TheParser!Tokens
  <2>. QED
    BY <2>1, <2>2, <2>3
<1>9. ASSUME Len(Read) = MaxTokens
      PROVE  next = TheParser!Eof
  <2>1. n = MaxTokens
    BY <1>3, <1>9, ReadLength
  <2>2. index' <= Len(code) /\ index' \in Nat /\ Len(code) \in Nat
    BY <1>2 DEF Lex!IInv, Lex!TypeOK
  <2>3. Len(code) <= MaxTokens /\ MaxTokens \in Nat
    BY FrontendAssumption DEF Caller
  <2>4. token'.type = "EOF"
    BY <1>3, <1>4, <2>1, <2>2, <2>3
  <2>. QED
    BY <1>6, <2>4 DEF Delivers, TheParser!Eof, TheParser!Token
<1>. QED
  BY <1>7, <1>8, <1>9

LEMMA CallLexerIsSilent ==
  ASSUME Caller /\ Lex!IInv, (Caller /\ Lex!IInv)', CallLexer
  PROVE  UNCHANGED TheParser!vars
<1>1. UNCHANGED <<code, delivered, state, error, parserVars>>
  BY DEF CallLexer, TheLexer!Call, TheLexer!Go
<1>2. Read' = Read
  BY <1>1, ReadStays
<1>. QED
  BY <1>1, <1>2 DEF TheParser!vars, parserVars

LEMMA ScanOnPeeks ==
  ASSUME Caller /\ Lex!IInv, (Caller /\ Lex!IInv)', Counted, ScanOn
  PROVE  TheParser!Peek \/ TheParser!PeekFails \/ UNCHANGED TheParser!vars
<1>1. /\ TheLexer!Scan /\ UNCHANGED <<args, nodes, frames, result>> /\ code' = code
      /\ TheParser!Peeks /\ state = "PENDING"
      /\ Scans \/ Delivers \/ Refuses
      /\ error' = IF state' = "ERROR"
                  THEN [code |-> lexError'.code, from |-> Len(delivered) + 1, to |-> Len(delivered) + 1]
                  ELSE error
  BY ScanIs DEF ScanOn, parserVars, Caller
<1>2. CASE Scans
  <2>1. Read' = Read
    BY <1>1, <1>2, ReadStays DEF Scans
  <2>. QED
    BY <1>1, <1>2, <2>1 DEF Scans, TheParser!vars
<1>3. CASE Delivers
  <2>1. \E next \in TheParser!Tokens \cup {TheParser!Eof} :
          /\ Len(Read) = MaxTokens => next = TheParser!Eof
          /\ Read' = Append(Read, next)
    BY <1>1, <1>3, ReadGrows
  <2>2. state' = "READY" /\ error' = error
    BY <1>1, <1>3 DEF Delivers
  <2>. QED
    BY <1>1, <2>1, <2>2, Zenon DEF TheParser!Peek
<1>4. CASE Refuses
  <2>1. Read' = Read
    BY <1>1, <1>4, ReadStays DEF Refuses
  <2>2. Len(Read) = Len(delivered) /\ Len(Read) < MaxTokens
    <3>1. Len(delivered) < Len(code)
      BY <1>1, <1>4, RefusesInside
    <3>2. Len(code) <= MaxTokens /\ MaxTokens \in Nat
      BY FrontendAssumption DEF Caller
    <3>. QED
      BY <3>1, <3>2, Delivered, ReadLength
  <2>3. PICK kind \in {"ILLEGAL_CHARACTER", "VALUE_OUT_OF_RANGE", "OUT_OF_MEMORY"} :
          kind = lexError'.code
    BY <1>4 DEF Refuses
  <2>4. TheParser!Fail(kind, Len(Read) + 1, Len(Read) + 1)
    BY <1>1, <1>4, <2>1, <2>2, <2>3 DEF TheParser!Fail, Refuses
  <2>. QED
    BY <1>1, <2>2, <2>4 DEF TheParser!PeekFails
<1>. QED
  BY <1>1, <1>2, <1>3, <1>4

\* parse_token, behind parser_peek_token, gives the parser such tokens as
\* Parser lets its environment give: whatever is proved of Parser holds of the
\* parser with its scanner, the names that it reads in the buffer included.
THEOREM DeliversTheTokens == Spec => ImplementsParser
<1>1. Init => TheParser!Init /\ Counted
  <2>1. SUFFICES ASSUME Init
                 PROVE  TheParser!Init /\ Counted
    OBVIOUS
  <2>2. TheParser!Init
    BY <2>1 DEF Init
  <2>3. delivered = <<>> /\ index = 0 /\ at = "idle"
    BY <2>1 DEF Init, TheLexer!Init
  <2>. QED
    BY <2>2, <2>3 DEF Counted
<1>2. Spec => []Lex!IInv
  BY CallsTheLexer, LexerInvariant DEF ImplementsLexer
<1>3. /\ Caller /\ Lex!IInv /\ Counted /\ [Next]_vars /\ (Caller /\ Lex!IInv)'
      => Counted' /\ [TheParser!Next]_(TheParser!vars)
  <2>1. SUFFICES ASSUME Caller /\ Lex!IInv, (Caller /\ Lex!IInv)', Counted, [Next]_vars
                 PROVE  Counted' /\ [TheParser!Next]_(TheParser!vars)
    OBVIOUS
  <2>2. Counted'
    BY <2>1, NextIsCounted
  <2>3. CASE CallLexer
    BY <2>1, <2>2, <2>3, CallLexerIsSilent
  <2>4. CASE ScanOn
    BY <2>1, <2>2, <2>4, ScanOnPeeks DEF TheParser!Next
  <2>5. CASE ParseOn
    BY <2>2, <2>5 DEF ParseOn, TheParser!Next
  <2>6. CASE UNCHANGED vars
    <3>1. UNCHANGED <<code, delivered, args, state, error, nodes, frames, result>>
      BY <2>6 DEF vars, lexerVars, parserVars
    <3>2. Read' = Read
      BY <2>1, <3>1, ReadStays
    <3>. QED
      BY <2>2, <3>1, <3>2 DEF TheParser!vars
  <2>. QED
    BY <2>1, <2>3, <2>4, <2>5, <2>6 DEF Next, Terminated
<1>. QED
  BY <1>1, <1>2, <1>3, CallerHolds, PTL DEF Spec, ImplementsParser, TheParser!Spec

-----------------------------------------------------------------------------
(***************************************************************************)
(* Errors have ranges that can be reported                                 *)
(***************************************************************************)

\* Parser once more, with what is proved of it.
Par == INSTANCE ParserProofs WITH
  read <- Read, Numbers <- 0..LONG_MAX, Environments <- {[name \in Identifiers |-> 0]}

LEMMA ParserIsFit == Par!ParserAssumption /\ Par!GrammarAssumption
<1>1. Par!NodeRecord = TheParser!NodeRecord
  BY DEF Par!NodeRecord, TheParser!NodeRecord, Par!NodeTypes, TheParser!NodeTypes,
         Par!BinaryTypes, TheParser!BinaryTypes, Par!AddSub, TheParser!AddSub,
         Par!MulDiv, TheParser!MulDiv
<1>2. 0 \in Par!Long
  BY LongAssumption DEF Par!Long, Par!LONG_MIN
<1>. QED
  BY <1>1, <1>2, FrontendAssumption, ArgumentAssumption
     DEF Par!ParserAssumption, Par!GrammarAssumption

LEMMA SameDescend == TheParser!Descend => Par!Descend
<1> USE DEF TheParser!Running, Par!Running, TheParser!Returned, Par!Returned, TheParser!Sees,
            Par!Sees, TheParser!Stopped, Par!Stopped, TheParser!Top, Par!Top, TheParser!Callers,
            Par!Callers, TheParser!Consume, Par!Consume, TheParser!Fail, Par!Fail, TheParser!token,
            Par!token, TheParser!Result, Par!Result, TheParser!Call, Par!Call, TheParser!CallSigned,
            Par!CallSigned, TheParser!CallProduct, Par!CallProduct, TheParser!CallSum, Par!CallSum
<1>1. /\ TheParser!BadArg => Par!BadArg
      /\ TheParser!StartParsing => Par!StartParsing
  BY DEF TheParser!BadArg, Par!BadArg, TheParser!StartParsing, Par!StartParsing, TheParser!IsBadArg,
         Par!IsBadArg, TheParser!Duplicates, Par!Duplicates
<1>2. /\ TheParser!Sign => Par!Sign
      /\ TheParser!AtomInt => Par!AtomInt
      /\ TheParser!AtomVar => Par!AtomVar
  BY DEF TheParser!Sign, Par!Sign, TheParser!AtomInt, Par!AtomInt, TheParser!AtomVar, Par!AtomVar,
         TheParser!ReturnAtom, Par!ReturnAtom, TheParser!IntNode, Par!IntNode, TheParser!VarNode,
         Par!VarNode
<1>3. /\ TheParser!UndefinedVariable => Par!UndefinedVariable
      /\ TheParser!OpenParen => Par!OpenParen
      /\ TheParser!IllegalAtom => Par!IllegalAtom
  BY DEF TheParser!UndefinedVariable, Par!UndefinedVariable, TheParser!OpenParen, Par!OpenParen,
         TheParser!IllegalAtom, Par!IllegalAtom
<1>4. /\ TheParser!Positive => Par!Positive
      /\ TheParser!NegativeInt => Par!NegativeInt
      /\ TheParser!NegativeIntRefused => Par!NegativeIntRefused
      /\ TheParser!Negation => Par!Negation
  BY DEF TheParser!Positive, Par!Positive, TheParser!NegativeInt, Par!NegativeInt,
         TheParser!NegativeIntRefused, Par!NegativeIntRefused, TheParser!Negation, Par!Negation,
         TheParser!ReturnSigned, Par!ReturnSigned, TheParser!IntNode, Par!IntNode,
         TheParser!InvNode, Par!InvNode
<1>5. /\ TheParser!DivisionByZero => Par!DivisionByZero
      /\ TheParser!CloseParen => Par!CloseParen
      /\ TheParser!ExpectedCloseParen => Par!ExpectedCloseParen
  BY DEF TheParser!DivisionByZero, Par!DivisionByZero, TheParser!CloseParen, Par!CloseParen,
         TheParser!ExpectedCloseParen, Par!ExpectedCloseParen, TheParser!DividesByZero,
         Par!DividesByZero
<1>6. /\ TheParser!AppendRoot => Par!AppendRoot
      /\ TheParser!Finish => Par!Finish
      /\ TheParser!TrailingToken => Par!TrailingToken
  BY DEF TheParser!AppendRoot, Par!AppendRoot, TheParser!Finish, Par!Finish,
         TheParser!TrailingToken, Par!TrailingToken
<1>7. TheParser!AppendFails => Par!AppendFails
  BY DEF TheParser!AppendFails, Par!AppendFails, TheParser!Appends, Par!Appends,
         TheParser!DividesByZero, Par!DividesByZero, TheParser!Operators, Par!Operators,
         TheParser!RightOf, Par!RightOf
<1>8. ASSUME NEW level
      PROVE  /\ TheParser!Operator(level) => Par!Operator(level)
             /\ TheParser!NoOperator(level) => Par!NoOperator(level)
             /\ TheParser!RightOperand(level) => Par!RightOperand(level)
  BY DEF TheParser!Operator, Par!Operator, TheParser!NoOperator, Par!NoOperator,
         TheParser!RightOperand, Par!RightOperand, TheParser!Operators, Par!Operators,
         TheParser!RightOf, Par!RightOf, TheParser!CallOperand, Par!CallOperand,
         TheParser!DividesByZero, Par!DividesByZero, TheParser!BinaryNode, Par!BinaryNode
<1>9. DOMAIN TheParser!Operators = DOMAIN Par!Operators
  BY DEF TheParser!Operators, Par!Operators
<1>. QED
  BY <1>1, <1>2, <1>3, <1>4, <1>5, <1>6, <1>7, <1>8, <1>9 DEF TheParser!Descend, Par!Descend

LEMMA SameParser == TheParser!Spec => Par!Spec
<1>1. TheParser!Init => Par!Init
  BY DEF TheParser!Init, Par!Init, TheParser!Call, Par!Call
<1>2. TheParser!Peek => Par!Peek
  BY DEF TheParser!Peek, Par!Peek, TheParser!Peeks, Par!Peeks, TheParser!Running, Par!Running,
         TheParser!Returned, Par!Returned, TheParser!Stopped, Par!Stopped, TheParser!Top, Par!Top,
         TheParser!Tokens, Par!Tokens, TheParser!Token, Par!Token, TheParser!Eof, Par!Eof,
         TheParser!BinaryTypes, Par!BinaryTypes, TheParser!AddSub, Par!AddSub, TheParser!MulDiv,
         Par!MulDiv
<1>3. TheParser!PeekFails => Par!PeekFails
  BY DEF TheParser!PeekFails, Par!PeekFails, TheParser!Peeks, Par!Peeks, TheParser!Running,
         Par!Running, TheParser!Returned, Par!Returned, TheParser!Stopped, Par!Stopped,
         TheParser!Top, Par!Top, TheParser!Fail, Par!Fail
<1>4. TheParser!Terminated => Par!Terminated
  BY DEF TheParser!Terminated, Par!Terminated, TheParser!Stopped, Par!Stopped, TheParser!vars,
         Par!vars
<1>5. TheParser!vars = Par!vars
  BY DEF TheParser!vars, Par!vars
<1>6. [TheParser!Next]_(TheParser!vars) => [Par!Next]_(Par!vars)
  BY <1>2, <1>3, <1>4, <1>5, SameDescend DEF TheParser!Next, Par!Next, TheParser!vars, Par!vars
<1>. QED
  BY <1>1, <1>6, PTL DEF TheParser!Spec, Par!Spec

LEMMA ParserInvariant == Spec => [](Par!IInv /\ Par!Located)
BY DeliversTheTokens, SameParser, Par!RangesHold, ParserIsFit, LongAssumption, PTL
   DEF ImplementsParser

\* What is proved of Parser holds of the parser with its scanner: when
\* parse_string returns an AST, it is a tree such as optimize() and
\* bytecode_compile() are given, whatever the text was.
THEOREM CodeParsesToATree == Spec => []TheParser!ParsesToATree
<1>1. Par!ParsesToATree <=> TheParser!ParsesToATree
  BY DEF Par!ParsesToATree, TheParser!ParsesToATree, Par!ParsedShape, TheParser!ParsedShape,
         Par!ChildBeforeParent, TheParser!ChildBeforeParent, Par!OneParent, TheParser!OneParent,
         Par!Children, TheParser!Children, Par!BinaryTypes, TheParser!BinaryTypes,
         Par!AddSub, TheParser!AddSub, Par!MulDiv, TheParser!MulDiv
<1>. QED
  BY <1>1, DeliversTheTokens, SameParser, Par!ParsesTree, ParserIsFit, LongAssumption, PTL
     DEF ImplementsParser

\* What the parser itself finds wrong lies in the tokens it has been given.
ErrorInTokens ==
  (state = "ERROR" /\ lexError.code = "NONE" /\ error.code \notin ArgErrors) =>
    error.from \in 1..Len(delivered) /\ error.to \in error.from..Len(delivered)

LEMMA NextInTokens ==
  Caller /\ Lex!IInv /\ Par!IInv /\ Par!Located /\ ErrorInTokens /\ [Next]_vars => ErrorInTokens'
<1>1. SUFFICES ASSUME Caller, Lex!IInv, Par!IInv, Par!Located, ErrorInTokens, [Next]_vars
               PROVE  ErrorInTokens'
  OBVIOUS
<1>2. CASE ParseOn
  <2>1. Par!Descend /\ UNCHANGED <<delivered, lexError>>
    BY <1>2, SameDescend DEF ParseOn, lexerVars
  <2>2. CASE state' # "ERROR"
    BY <2>2 DEF ErrorInTokens
  <2>3. CASE Par!FailsInside
    <3>1. PICK kind, from, to :
            Par!Fail(kind, from, to) /\ (kind \in Par!ArgErrors \/ Par!InRead(from, to))
      BY <2>3 DEF Par!FailsInside
    <3>2. error'.code = kind /\ error'.from = from /\ error'.to = to
      BY <3>1 DEF Par!Fail
    <3>3. CASE kind \in Par!ArgErrors
      BY <3>2, <3>3 DEF ErrorInTokens, ArgErrors, Par!ArgErrors
    <3>4. CASE Par!InRead(from, to)
      BY <1>1, <2>1, <3>2, <3>4, ReadLength DEF ErrorInTokens, Par!InRead
    <3>. QED
      BY <3>1, <3>3, <3>4
  <2>. QED
    BY <1>1, <2>1, <2>2, <2>3, Par!DescendLocates, ParserIsFit, LongAssumption
<1>3. CASE CallLexer
  BY <1>3 DEF CallLexer, TheLexer!Call, TheLexer!Go, ErrorInTokens
<1>4. CASE ScanOn
  <2>1. state' = "ERROR" => lexError'.code # "NONE"
    BY <1>1, <1>4, ScanIs DEF ScanOn, Caller, Scans, Delivers, Refuses
  <2>. QED
    BY <2>1 DEF ErrorInTokens
<1>5. CASE UNCHANGED vars
  BY <1>1, <1>5 DEF vars, lexerVars, ErrorInTokens
<1>. QED
  BY <1>1, <1>2, <1>3, <1>4, <1>5 DEF Next, Terminated

\* A report can start from something solid, or from tokens in their order.
LEMMA SolidIsReportable ==
  ASSUME Len(code) \in Nat, NEW start \in 0..Len(code), NEW end \in 0..Len(code), Lex!Solid(start, end)
  PROVE  Report!Reportable(code, [start |-> start, end |-> end])
BY DEF Lex!Solid, Report!Reportable, Report!Newline, Lex!Newline

LEMMA TokensAreReportable ==
  ASSUME Lex!IInv, NEW k \in DOMAIN delivered, NEW l \in DOMAIN delivered, k <= l
  PROVE  /\ delivered[k].start \in 0..Len(code) /\ delivered[l].end \in 0..Len(code)
         /\ Report!Reportable(code, [start |-> delivered[k].start, end |-> delivered[l].end])
<1> DEFINE start == delivered[k].start
           end == delivered[l].end
           first == delivered[k].end
<1>1. /\ start \in 0..Len(code) /\ first \in 0..Len(code) /\ end \in 0..Len(code)
      /\ Len(code) \in Nat
      /\ \/ start = Len(code) /\ first = Len(code)
         \/ Lex!Solid(start, first)
      /\ end = Len(code) \/ code[end] # Lex!Newline
  <2>1. /\ start \in 0..Len(code) /\ first \in 0..Len(code) /\ Len(code) \in Nat
        /\ IF delivered[k].type = "EOF" THEN start = Len(code) /\ first = Len(code)
           ELSE Lex!Solid(start, first)
    BY Lex!TokensAreSolid, LexerIsFit, LongAssumption
  <2>2. /\ end \in 0..Len(code)
        /\ IF delivered[l].type = "EOF" THEN end = Len(code)
           ELSE Lex!Solid(delivered[l].start, end)
    BY Lex!TokensAreSolid, LexerIsFit, LongAssumption
  <2>. QED
    BY <2>1, <2>2 DEF Lex!Solid
<1>2. first <= end
  BY Lex!TokensInOrder, LexerIsFit, LongAssumption
<1> HIDE DEF start, end, first
<1>3. Report!Reportable(code, [start |-> start, end |-> end])
  BY <1>1, <1>2 DEF Lex!Solid, Report!Reportable, Report!Newline, Lex!Newline
<1>. QED
  BY <1>1, <1>3 DEF start, end

\* Whatever goes wrong in the code, in the scanner or in the parser, the range
\* that is stored in parser->error_info lies in the code, in order, and begins
\* and ends with something that can be marked: parser_print_error, which
\* checks nothing (parser.c:682-714), may start from it.
THEOREM ErrorsHaveRanges == Spec => []ErrorsAreReportable
<1>1. Init => ErrorInTokens
  BY DEF Init, TheLexer!Init, ErrorInTokens
<1>2. Spec => [](Caller /\ Lex!IInv /\ Par!IInv /\ Par!Located)
  BY CallerHolds, CallsTheLexer, LexerInvariant, ParserInvariant, PTL DEF ImplementsLexer
<1>3. Spec => []Lex!NumbersAreExact
  BY CallsTheLexer, SameSpec, Lex!NumbersHaveTheirValue, LexerIsFit, LongAssumption, PTL
     DEF ImplementsLexer
<1>4. /\ Caller /\ Lex!IInv /\ Lex!NumbersAreExact /\ Par!IInv /\ Par!Located /\ ErrorInTokens
      => ErrorsAreReportable
  <2>1. SUFFICES ASSUME Caller, Lex!IInv, Lex!NumbersAreExact, ErrorInTokens,
                        state = "ERROR", error.code \notin ArgErrors
                 PROVE  Report!Init
    BY DEF ErrorsAreReportable
  <2>2. code \in Codes /\ Len(code) \in Nat
    BY <2>1, Delivered DEF Caller
  <2>3. \E start, end \in 0..Len(code) :
          /\ ErrorRange = [start |-> start, end |-> end]
          /\ Report!Reportable(code, [start |-> start, end |-> end])
    <3>1. CASE lexError.code # "NONE"
      <4>1. /\ lexError.start \in 0..Len(code) /\ lexError.end \in 0..Len(code)
            /\ Lex!Solid(lexError.start, lexError.end)
        BY <2>1, <3>1, Lex!ErrorsAreSolid, LexerIsFit, LongAssumption
      <4>. QED
        BY <2>2, <3>1, <4>1, SolidIsReportable DEF ErrorRange
    <3>2. CASE lexError.code = "NONE"
      <4>1. error.from \in 1..Len(delivered) /\ error.to \in error.from..Len(delivered)
        BY <2>1, <3>2 DEF ErrorInTokens
      <4>2. error.from \in DOMAIN delivered /\ error.to \in DOMAIN delivered
        BY <2>1, <4>1, Delivered
      <4>. QED
        BY <2>1, <3>2, <4>1, <4>2, TokensAreReportable DEF ErrorRange
    <3>. QED
      BY <3>1, <3>2
  <2>4. ErrorRange \in {r \in [start : 0..Len(code), end : 0..Len(code)] : Report!Reportable(code, r)}
    BY <2>3
  <2>. QED
    BY <2>2, <2>4 DEF Report!Init, Report!Size
<1>. QED
  BY <1>1, <1>2, <1>3, <1>4, NextInTokens, PTL DEF Spec
=============================================================================
