----------------------------- MODULE LexerProofs -----------------------------
(***************************************************************************)
(* The tokens are the code, whatever the code and its character set, and   *)
(* whatever the width of long.                                             *)
(***************************************************************************)
EXTENDS Lexer, SequenceTheorems, TLAPS

\* What AstProofs says of recursion.
Recursion == INSTANCE AstProofs

-----------------------------------------------------------------------------
(***************************************************************************)
(* Types.  The value of a number never wraps around.                       *)
(***************************************************************************)

\* A long that is not negative is itself.
LEMMA WrapSmall == \A n \in 0..LONG_MAX : Wrap(n) = n
<1> TAKE n \in 0..LONG_MAX
<1> DEFINE m == n - LONG_MIN  w == 2 * (LONG_MAX + 1)
<1>1. m \in Nat /\ w \in Nat /\ m < w /\ w > 0
  BY LongAssumption, SMT DEF LONG_MIN
<1>2. m % w = m
  <2> HIDE DEF m, w
  <2> QED BY <1>1, SMT
<1>3. Wrap(n) = LONG_MIN + m
  BY <1>2 DEF Wrap
<1> QED BY <1>3, LongAssumption, SMT DEF LONG_MIN

\* The check before a digit is added lets exactly the longs pass.
LEMMA FitsIsExact ==
  ASSUME value \in 0..LONG_MAX, NEW digit \in 0..9
  PROVE  Fits(digit) <=> value * 10 + digit <= LONG_MAX
  BY LongAssumption, LexerAssumption, SMT DEF Fits

LEMMA DigitValue == \A sym \in Digits : DigitOf[sym] \in 0..9
  BY SMT DEF Digits, DigitOf

LEMMA SymIsCharacter ==
  ASSUME TypeOK, ~AtEnd
  PROVE  Sym \in Characters /\ index + 1 \in 1..Len(code) /\ index < Len(code)
  BY SMT DEF TypeOK, AtEnd, Sym

LEMMA RecordUpdates ==
  ASSUME NEW r \in TokenRecord, NEW i \in 0..Len(code)
  PROVE  /\ [r EXCEPT !.start = i] \in TokenRecord
         /\ [r EXCEPT !.start = i].start = i
         /\ [r EXCEPT !.end = i] \in TokenRecord
  BY DEF TokenRecord

\* A step that delivers a token keeps the types.
LEMMA DeliverTypes ==
  ASSUME TypeOK, NEW type \in TokenTypes, NEW start \in 0..Len(code), NEW end \in 0..Len(code),
         NEW number \in 0..LONG_MAX, Deliver(type, start, end, number),
         index' \in 0..Len(code), memory' \in Seq(Characters \cup {NUL}), capacity' \in Nat
  PROVE  TypeOK'
<1>1. token' \in TokenRecord
  BY SMT DEF Deliver, TokenRecord
<1>2. delivered' \in Seq(TokenRecord)
  BY <1>1, SMT DEF Deliver, TypeOK
<1>3. code' = code /\ TokenRecord' = TokenRecord
  BY DEF Deliver, TokenRecord
<1> QED BY <1>1, <1>2, <1>3, SMT DEF TypeOK, Deliver

\* What a name leaves in the buffer.
LEMMA WrittenTypes ==
  ASSUME TypeOK, NEW bytes \in Seq(Characters \cup {NUL})
  PROVE  /\ Written(bytes) \in Seq(Characters \cup {NUL})
         /\ Len(bytes) <= Len(Written(bytes))
         /\ \A i \in 1..Len(bytes) : Written(bytes)[i] = bytes[i]
         /\ Len(Written(bytes)) = Len(bytes) \/ Len(Written(bytes)) = Len(memory)
<1> DEFINE S == Characters \cup {NUL}
           rest == SubSeq(memory, Len(bytes) + 1, Len(memory))
<1>1. rest \in Seq(S)
  <2>1. \A i \in (Len(bytes) + 1)..Len(memory) : memory[i] \in S
    BY SMT DEF TypeOK
  <2>2. Len(bytes) + 1 \in Int /\ Len(memory) \in Int
    BY SMT DEF TypeOK
  <2> HIDE DEF S
  <2> QED BY <2>1, <2>2, SubSeqProperties
<1>6. Len(rest) = IF Len(bytes) + 1 <= Len(memory) THEN Len(memory) - (Len(bytes) + 1) + 1 ELSE 0
  <2>1. \A i \in (Len(bytes) + 1)..Len(memory) : memory[i] \in S
    BY SMT DEF TypeOK
  <2>2. Len(bytes) + 1 \in Int /\ Len(memory) \in Int
    BY SMT DEF TypeOK
  <2> HIDE DEF S
  <2> QED BY <2>1, <2>2, SubSeqProperties
<1>7. Len(memory) \in Nat
  BY SMT DEF TypeOK
<1>2. Written(bytes) = bytes \o rest
  BY DEF Written
<1> HIDE DEF rest, S
<1>3. bytes \in Seq(S)
  BY DEF S
<1>4. /\ bytes \o rest \in Seq(S)
      /\ Len(bytes \o rest) = Len(bytes) + Len(rest)
      /\ \A i \in 1..(Len(bytes) + Len(rest)) :
           (bytes \o rest)[i] = IF i <= Len(bytes) THEN bytes[i] ELSE rest[i - Len(bytes)]
  BY <1>1, <1>3, ConcatProperties
<1>5. Len(rest) \in Nat /\ Len(bytes) \in Nat
  BY <1>1, <1>3
<1>8. Len(bytes) + Len(rest) = Len(bytes) \/ Len(bytes) + Len(rest) = Len(memory)
  BY <1>5, <1>6, <1>7, SMT
<1> QED BY <1>2, <1>4, <1>5, <1>8, SMT DEF S

\* A block that grows has the size of the first one at least.
LEMMA Grows ==
  ASSUME NEW room \in Nat, NEW size \in Nat
  PROVE  Grown(room, size) \in Nat /\ room <= Grown(room, size)
  BY LexerAssumption, SMT DEF Grown

LEMMA StepTypes == TypeOK /\ [Next]_vars => TypeOK'
<1> SUFFICES ASSUME TypeOK, [Next]_vars PROVE TypeOK'
  OBVIOUS
<1> USE LexerAssumption, LongAssumption
<1>0. code' = code => TokenRecord' = TokenRecord
  BY DEF TokenRecord
<1>1. CASE Call \/ Consume
  BY <1>0, <1>1, SMT DEF Call, Consume, Go, TypeOK
<1>2. CASE SkipSpace \/ EnterComment \/ SkipComment \/ LeaveComment \/ NameCharacter
  <2>1. index' \in 0..Len(code)
    BY <1>2, SMT DEF SkipSpace, EnterComment, SkipComment, LeaveComment, NameCharacter,
       Sees, Ahead, Advance, AtEnd, TypeOK
  <2>2. \/ Go("skip") \/ Go("comment") \/ Go("name")
    BY <1>2 DEF SkipSpace, EnterComment, SkipComment, LeaveComment, NameCharacter
  <2> QED BY <1>0, <2>1, <2>2, SMT DEF Go, TypeOK
<1>3. CASE BeginNumber \/ BeginName
  <2>1. token' = [token EXCEPT !.start = index]
    BY <1>3 DEF BeginNumber, BeginName, Begin
  <2>2. token' \in TokenRecord
    BY <2>1, RecordUpdates DEF TypeOK
  <2>3. Begin("number") \/ Begin("name")
    BY <1>3 DEF BeginNumber, BeginName
  <2> QED BY <1>0, <2>2, <2>3, SMT DEF Begin, TypeOK
<1>4. CASE EndOfCode
  BY <1>4, DeliverTypes, SMT DEF EndOfCode, TypeOK, TokenTypes
<1>5. CASE Operator
  <2>1. Sym \in Punctuation /\ ~AtEnd
    BY <1>5 DEF Operator, Sees, Ahead
  <2>2. TypeOfSym[Sym] \in TokenTypes
    BY <2>1 DEF Punctuation, TypeOfSym, TokenTypes
  <2>3. index + 1 \in 0..Len(code) /\ index \in 0..Len(code)
    BY <2>1, SymIsCharacter, SMT DEF TypeOK
  <2> QED BY <1>5, <2>2, <2>3, DeliverTypes, SMT DEF Operator, Advance, TypeOK
<1>6. CASE Digit
  <2>1. Sym \in Digits /\ ~AtEnd /\ Fits(DigitOf[Sym])
    BY <1>6 DEF Digit, Sees, Ahead
  <2>2. DigitOf[Sym] \in 0..9 /\ value \in 0..LONG_MAX
    BY <2>1, DigitValue DEF TypeOK
  <2>3. value * 10 + DigitOf[Sym] <= LONG_MAX
    BY <2>1, <2>2, FitsIsExact
  <2>4. value * 10 \in 0..LONG_MAX /\ value * 10 + DigitOf[Sym] \in 0..LONG_MAX
    BY <2>2, <2>3, SMT
  <2>5. value' \in 0..LONG_MAX
    BY <1>6, <2>4, WrapSmall DEF Digit
  <2>6. index' \in 0..Len(code)
    BY <1>6, <2>1, SymIsCharacter, SMT DEF Digit, Advance, TypeOK
  <2> QED BY <1>0, <1>6, <2>5, <2>6, SMT DEF Digit, TypeOK
<1>7. CASE NumberTooLarge
  <2>1. token.start \in 0..Len(code)
    BY SMT DEF TypeOK, TokenRecord
  <2> QED BY <1>0, <1>7, <2>1, SMT DEF NumberTooLarge, Fail, TypeOK
<1>8. CASE EndNumber
  <2>1. token.start \in 0..Len(code) /\ value \in 0..LONG_MAX /\ index \in 0..Len(code)
    BY SMT DEF TypeOK, TokenRecord
  <2> QED BY <1>8, <2>1, DeliverTypes, SMT DEF EndNumber, TypeOK, TokenTypes
<1>9. Name \in Seq(Characters)
  <2>1. \A i \in (token.start + 1)..index : code[i] \in Characters
    BY SMT DEF TypeOK, TokenRecord
  <2>2. token.start + 1 \in Int /\ index \in Int
    BY SMT DEF TypeOK, TokenRecord
  <2> QED BY <2>1, <2>2, SubSeqProperties DEF Name
<1>10. /\ Append(Name, NUL) \in Seq(Characters \cup {NUL})
       /\ Name \in Seq(Characters \cup {NUL})
  BY <1>9, SMT
<1>15. RoomForName \in Nat /\ RoomForNul \in Nat
  <2>1. Len(Name) \in Nat /\ Len(Name) + 1 \in Nat /\ capacity \in Nat
    BY <1>9, SMT DEF TypeOK
  <2>2. RoomForName \in Nat
    BY <2>1, Grows DEF RoomForName
  <2> QED BY <2>1, <2>2, Grows DEF RoomForNul
<1>11. CASE EndName
  <2>1. memory' \in Seq(Characters \cup {NUL})
    BY <1>10, <1>11, WrittenTypes DEF EndName, TypeOK
  <2>2. token.start \in 0..Len(code) /\ index \in 0..Len(code)
    BY SMT DEF TypeOK, TokenRecord
  <2> QED BY <1>11, <1>15, <2>1, <2>2, DeliverTypes, SMT DEF EndName, TypeOK, TokenTypes
<1>12. CASE NoMemory
  <2>1. memory' \in Seq(Characters \cup {NUL})
    BY <1>10, <1>12, WrittenTypes DEF NoMemory, TypeOK
  <2>2. token' \in TokenRecord
    BY <1>12, RecordUpdates DEF NoMemory, TypeOK
  <2>3. token.start \in 0..Len(code) /\ index \in 0..Len(code)
    BY SMT DEF TypeOK, TokenRecord
  <2>4. capacity' \in Nat
    BY <1>12, <1>15 DEF NoMemory, TypeOK
  <2> QED BY <1>0, <1>12, <2>1, <2>2, <2>3, <2>4, SMT DEF NoMemory, Fail, TypeOK
<1>13. CASE IllegalCharacter
  <2>1. index + 1 \in 0..Len(code) /\ index \in 0..Len(code)
    BY <1>13, SymIsCharacter, SMT DEF IllegalCharacter, Sees, Ahead, TypeOK
  <2> QED BY <1>0, <1>13, <2>1, SMT DEF IllegalCharacter, Fail, TypeOK
<1>14. CASE Overrun \/ Terminated \/ UNCHANGED vars
  BY <1>0, <1>14, SMT DEF Overrun, Terminated, vars, TypeOK
<1> QED BY <1>1, <1>2, <1>3, <1>4, <1>5, <1>6, <1>7, <1>8, <1>11, <1>12, <1>13, <1>14
        DEF Next, Scan

\* Every index stays within the code and every number within the long, whose
\* arithmetic never wraps around: parse_token, for every width of long.
THEOREM LexerTypes == Spec => []TypeOK
<1>1. Init => TypeOK
  BY LexerAssumption, LongAssumption, SMT DEF Init, TypeOK, TokenRecord, TokenTypes
<1> QED BY <1>1, StepTypes, PTL DEF Spec

-----------------------------------------------------------------------------
(***************************************************************************)
(* The inductive invariant.  Between two tokens, and inside of one, it     *)
(* says what has been passed since the last token delivered ended.         *)
(***************************************************************************)

\* Where the token delivered last ended.
LastEnd == EndBefore(Len(delivered) + 1)

\* White space and comments, the last of which may still be open.
Skipped(from, to) ==
  \A i \in (from + 1)..to : code[i] \in Spaces \/ OpenComment(from, i)

\* The token in hand begins where white space and comments end, and up to here
\* consists of such characters, of which there is one at least.
Within(head, set) ==
  /\ token.start <= index /\ token.start < Len(code)
  /\ Ignorable(LastEnd, token.start)
  /\ code[token.start + 1] \in head
  /\ \A i \in (token.start + 1)..index : code[i] \in set

WhereItIs ==
  /\ LastEnd \in 0..index
  /\ (at = "idle" /\ state # "ERROR") => LastEnd = index
  /\ at = "skip" => Skipped(LastEnd, index)
                     /\ (OpenComment(LastEnd, index) => ~Ahead(Characters \ {Newline}))
  /\ at = "comment" => Skipped(LastEnd, index) /\ OpenComment(LastEnd, index)
  /\ at = "number" => Within(Digits, Digits)
  /\ at = "name" => Within(Letters, IdentTail)

TokensRead ==
  \A k \in DOMAIN delivered :
    /\ Ignorable(EndBefore(k), delivered[k].start)
    /\ IsToken(delivered[k].type, delivered[k].start, delivered[k].end)

ErrorsRead ==
  /\ (at # "idle" \/ state # "ERROR") => error.code = "NONE"
  /\ error.code # "NONE" => Ignorable(LastEnd, error.start)
  /\ error.code = "ILLEGAL_CHARACTER" =>
       error.end = error.start + 1 /\ code[error.end] \in Others
  /\ error.code = "OUT_OF_MEMORY" => IsToken("IDENT", error.start, error.end)

IInv == TypeOK /\ WhereItIs /\ TokensRead /\ ErrorsRead /\ NameIsCurrent

-----------------------------------------------------------------------------
(***************************************************************************)
(* Steps that deliver nothing                                              *)
(***************************************************************************)

\* The properties of ranges depend on the code alone.
LEMMA SameCode ==
  ASSUME code' = code, NEW from, NEW to
  PROVE  /\ Ignorable(from, to)' = Ignorable(from, to)
         /\ OpenComment(from, to)' = OpenComment(from, to)
         /\ Skipped(from, to)' = Skipped(from, to)
         /\ \A type : IsToken(type, from, to)' = IsToken(type, from, to)
  BY DEF Ignorable, OpenComment, Skipped, IsToken, LongestRun

LEMMA SameTokens ==
  ASSUME TokensRead, code' = code, delivered' = delivered
  PROVE  TokensRead' /\ LastEnd' = LastEnd
  BY DEF TokensRead, LastEnd, EndBefore, Ignorable, OpenComment, IsToken, LongestRun

\* What has been skipped, with one character more.
LEMMA SkipOneMore ==
  ASSUME TypeOK, WhereItIs, ~AtEnd, Skipped(LastEnd, index),
         Sym \in Spaces \/ OpenComment(LastEnd, index + 1)
  PROVE  Skipped(LastEnd, index + 1)
<1> SUFFICES ASSUME NEW i \in (LastEnd + 1)..(index + 1)
             PROVE  code[i] \in Spaces \/ OpenComment(LastEnd, i)
  BY DEF Skipped
<1>1. LastEnd \in Nat /\ index \in Nat
  BY SMT DEF TypeOK, WhereItIs
<1>2. CASE i = index + 1
  BY <1>2 DEF Sym
<1>3. CASE i # index + 1
  <2>1. i \in (LastEnd + 1)..index
    BY <1>1, <1>3, SMT
  <2> QED BY <2>1 DEF Skipped
<1> QED BY <1>2, <1>3

\* A comment is open behind a character exactly if it begins there, or has
\* been open before and does not end there.
LEMMA CommentGoesOn ==
  ASSUME TypeOK, WhereItIs, ~AtEnd
  PROVE  OpenComment(LastEnd, index + 1) <=>
           Sym # Newline /\ (Sym = "#" \/ OpenComment(LastEnd, index))
<1>1. LastEnd \in 0..index /\ index \in Nat
  BY SMT DEF TypeOK, WhereItIs
<1>2. ASSUME OpenComment(LastEnd, index + 1)
      PROVE  Sym # Newline /\ (Sym = "#" \/ OpenComment(LastEnd, index))
  <2>1. PICK hash \in (LastEnd + 1)..(index + 1) :
          code[hash] = "#" /\ \A i \in hash..(index + 1) : code[i] # Newline
    BY <1>2 DEF OpenComment
  <2>2. Sym # Newline
    BY <1>1, <2>1, SMT DEF Sym
  <2>3. CASE hash = index + 1
    BY <2>1, <2>2, <2>3 DEF Sym
  <2>4. CASE hash # index + 1
    <3>1. hash \in (LastEnd + 1)..index
      BY <1>1, <2>4, SMT
    <3>2. \A i \in hash..index : code[i] # Newline
      BY <1>1, <2>1, <3>1, SMT
    <3> QED BY <2>1, <2>2, <3>1, <3>2 DEF OpenComment
  <2> QED BY <2>3, <2>4
<1>3. ASSUME Sym # Newline, Sym = "#" PROVE OpenComment(LastEnd, index + 1)
  <2>1. index + 1 \in (LastEnd + 1)..(index + 1)
    BY <1>1, SMT
  <2>2. \A i \in (index + 1)..(index + 1) : code[i] # Newline
    BY <1>1, <1>3, SMT DEF Sym
  <2> QED BY <1>3, <2>1, <2>2 DEF OpenComment, Sym
<1>4. ASSUME Sym # Newline, OpenComment(LastEnd, index)
      PROVE  OpenComment(LastEnd, index + 1)
  <2>1. PICK hash \in (LastEnd + 1)..index :
          code[hash] = "#" /\ \A i \in hash..index : code[i] # Newline
    BY <1>4 DEF OpenComment
  <2>2. hash \in (LastEnd + 1)..(index + 1)
    BY <1>1, <2>1, SMT
  <2>3. \A i \in hash..(index + 1) : code[i] # Newline
    BY <1>1, <1>4, <2>1, SMT DEF Sym
  <2> QED BY <2>1, <2>2, <2>3 DEF OpenComment
<1> QED BY <1>2, <1>3, <1>4

\* A token can begin where the skipping has come to such a character.
LEMMA TokenBegins ==
  ASSUME TypeOK, WhereItIs, at = "skip",
         AtEnd \/ Sym \in Characters \ {Newline}
  PROVE  Ignorable(LastEnd, index)
<1>1. Skipped(LastEnd, index) /\ (~AtEnd => ~OpenComment(LastEnd, index))
  BY DEF WhereItIs, Ahead
<1>2. index < Len(code) => ~AtEnd
  BY SMT DEF TypeOK, AtEnd
<1>3. LastEnd <= index
  BY SMT DEF TypeOK, WhereItIs
<1> QED BY <1>1, <1>2, <1>3 DEF Ignorable, Skipped

-----------------------------------------------------------------------------
(***************************************************************************)
(* Every step keeps the invariant                                          *)
(***************************************************************************)
StepOK == WhereItIs' /\ TokensRead' /\ ErrorsRead' /\ NameIsCurrent'

\* While nothing is delivered and nothing fails, only WhereItIs is at stake.
LEMMA StillReading ==
  ASSUME IInv, at' # "idle", WhereItIs', error.code = "NONE",
         UNCHANGED <<code, error, delivered>>
  PROVE  StepOK
<1>1. TokensRead'
  BY SameTokens DEF IInv
<1>2. ErrorsRead'
  BY DEF ErrorsRead
<1>3. NameIsCurrent'
  BY DEF NameIsCurrent
<1> QED BY <1>1, <1>2, <1>3 DEF StepOK

LEMMA OnCall == ASSUME IInv, Call PROVE StepOK
<1>1. /\ at = "idle" /\ state = "PENDING" /\ at' = "skip" /\ index' = index
      /\ UNCHANGED <<code, error, delivered>>
  BY DEF Call, Go
<1>2. LastEnd = index /\ LastEnd' = LastEnd /\ index \in Nat
  BY <1>1, SameTokens, SMT DEF IInv, TypeOK, WhereItIs
<1>3. Skipped(index, index) /\ ~OpenComment(index, index)
  BY <1>2, SMT DEF Skipped, OpenComment
<1>4. Skipped(LastEnd, index)' /\ ~OpenComment(LastEnd, index)'
  BY <1>1, <1>2, <1>3 DEF Skipped, OpenComment
<1>5. WhereItIs'
  BY <1>1, <1>2, <1>4, SMT DEF IInv, WhereItIs
<1>6. error.code = "NONE"
  BY <1>1 DEF IInv, ErrorsRead
<1> QED BY <1>1, <1>5, <1>6, StillReading

LEMMA OnConsume == ASSUME IInv, Consume PROVE StepOK
<1>1. /\ at = "idle" /\ at' = "idle" /\ state = "READY" /\ state' = "PENDING"
      /\ UNCHANGED <<code, index, error, token, memory, capacity, delivered>>
  BY DEF Consume
<1>2. TokensRead' /\ LastEnd' = LastEnd
  BY <1>1, SameTokens DEF IInv
<1>3. WhereItIs'
  BY <1>1, <1>2 DEF IInv, WhereItIs
<1>4. ErrorsRead'
  BY <1>1 DEF IInv, ErrorsRead
<1>5. NameIsCurrent'
  BY <1>1 DEF IInv, NameIsCurrent, InMemory
<1> QED BY <1>2, <1>3, <1>4, <1>5 DEF StepOK

\* The steps through white space and comments.
LEMMA OnSkip ==
  ASSUME IInv, SkipSpace \/ EnterComment \/ SkipComment
  PROVE  StepOK
<1> USE DEF IInv
<1>1. /\ at \in {"skip", "comment"} /\ ~AtEnd /\ index' = index + 1
      /\ UNCHANGED <<code, error, delivered>>
  BY DEF SkipSpace, EnterComment, SkipComment, Sees, Ahead, Advance, Go
<1>2. LastEnd' = LastEnd /\ index \in Nat /\ LastEnd \in 0..index /\ error.code = "NONE"
  BY <1>1, SameTokens, SMT DEF TypeOK, WhereItIs, ErrorsRead
<1>3. LastEnd' \in 0..index' /\ at' \in {"skip", "comment"}
  BY <1>1, <1>2, SMT DEF SkipSpace, EnterComment, SkipComment, Go
<1>4. Skipped(LastEnd, index)
  BY <1>1 DEF WhereItIs
<1>5. Newline \notin {"#"} /\ \A sym \in Spaces : sym # "#"
  BY LexerAssumption DEF Spaces, Newline
<1>6. CASE SkipSpace
  <2>1. Sym \in Spaces /\ at = "skip" /\ at' = "skip"
    BY <1>6 DEF SkipSpace, Sees, Ahead, Go
  <2>2. Skipped(LastEnd, index + 1)
    BY <1>1, <1>4, <2>1, SkipOneMore
  <2>3. ~OpenComment(LastEnd, index + 1)
    <3>1. SUFFICES ASSUME Sym # Newline, OpenComment(LastEnd, index) PROVE FALSE
      BY <1>1, <1>5, <2>1, CommentGoesOn
    <3>2. Sym \in Characters
      BY <2>1 DEF Characters
    <3> QED BY <1>1, <2>1, <3>1, <3>2 DEF WhereItIs, Ahead
  <2>4. WhereItIs'
    BY <1>1, <1>2, <1>3, <2>1, <2>2, <2>3 DEF WhereItIs, Skipped, OpenComment
  <2> QED BY <1>1, <1>2, <2>1, <2>4, StillReading
<1>7. CASE EnterComment \/ SkipComment
  <2>1. at' = "comment" /\ Sym # Newline /\ (Sym = "#" \/ OpenComment(LastEnd, index))
    BY <1>5, <1>7 DEF EnterComment, SkipComment, Sees, Ahead, Go, WhereItIs
  <2>2. OpenComment(LastEnd, index + 1)
    BY <1>1, <2>1, CommentGoesOn
  <2>3. Skipped(LastEnd, index + 1)
    BY <1>1, <1>4, <2>2, SkipOneMore
  <2>4. WhereItIs'
    BY <1>1, <1>2, <1>3, <2>1, <2>2, <2>3 DEF WhereItIs, Skipped, OpenComment
  <2> QED BY <1>1, <1>2, <2>1, <2>4, StillReading
<1> QED BY <1>6, <1>7

LEMMA OnLeaveComment == ASSUME IInv, LeaveComment PROVE StepOK
<1> USE DEF IInv
<1>1. /\ at = "comment" /\ at' = "skip" /\ ~Ahead(Characters \ {Newline})
      /\ UNCHANGED <<code, index, error, delivered>>
  BY DEF LeaveComment, Leaves, Go
<1>2. LastEnd' = LastEnd /\ error.code = "NONE"
  BY <1>1, SameTokens DEF ErrorsRead
<1>3. WhereItIs'
  BY <1>1, <1>2 DEF WhereItIs, Skipped, OpenComment, Ahead, AtEnd, Sym
<1> QED BY <1>1, <1>2, <1>3, StillReading

LEMMA CharacterSets ==
  /\ Digits \cup Letters \cup Punctuation \cup Others \subseteq Characters \ {Newline}
  /\ Digits \cap Letters = {}
  BY LexerAssumption
  DEF Characters, IdentTail, Digits, Punctuation, Newline, Spaces

LEMMA OnBegin == ASSUME IInv, BeginNumber \/ BeginName PROVE StepOK
<1> USE DEF IInv
<1>1. /\ at = "skip" /\ ~AtEnd
      /\ \/ Sym \in Digits /\ at' = "number"
         \/ Sym \in Letters /\ at' = "name"
      /\ token' = [token EXCEPT !.start = index]
      /\ UNCHANGED <<code, index, error, delivered>>
  BY DEF BeginNumber, BeginName, Begin, Sees, Ahead
<1>2. LastEnd' = LastEnd /\ error.code = "NONE" /\ index \in Nat /\ index < Len(code)
  BY <1>1, SameTokens, SMT DEF ErrorsRead, TypeOK, AtEnd
<1>3. token'.start = index
  BY <1>1, RecordUpdates DEF TypeOK
<1>4. Ignorable(LastEnd, index)
  BY <1>1, CharacterSets, TokenBegins
<1>5. Ignorable(LastEnd, token.start)'
  BY <1>1, <1>2, <1>3, <1>4 DEF Ignorable, OpenComment
<1>6. \A i \in (index + 1)..index : FALSE
  BY <1>2, SMT
<1>7. /\ token'.start <= index' /\ token'.start < Len(code')
      /\ code'[token'.start + 1] = Sym
      /\ \A i \in (token'.start + 1)..index' : FALSE
  BY <1>1, <1>2, <1>3, <1>6, SMT DEF Sym
<1>8. CASE Sym \in Digits /\ at' = "number"
  <2>1. Within(Digits, Digits)'
    BY <1>5, <1>7, <1>8 DEF Within
  <2> QED BY <1>1, <1>2, <1>8, <2>1, StillReading DEF WhereItIs
<1>9. CASE Sym \in Letters /\ at' = "name"
  <2>1. Within(Letters, IdentTail)'
    BY <1>5, <1>7, <1>9 DEF Within
  <2> QED BY <1>1, <1>2, <1>9, <2>1, StillReading DEF WhereItIs
<1> QED BY <1>1, <1>8, <1>9

\* One more character of a token.
LEMMA WithinGoesOn ==
  ASSUME TypeOK, TokensRead, NEW head, NEW set,
         Within(head, set), Sym \in set, ~AtEnd,
         index' = index + 1, UNCHANGED <<code, token, delivered>>
  PROVE  Within(head, set)'
<1>1. LastEnd' = LastEnd
  BY SameTokens
<1>2. index \in Nat /\ token.start \in Nat
  BY SMT DEF TypeOK, TokenRecord
<1>3. Ignorable(LastEnd, token.start)'
  BY <1>1 DEF Within, Ignorable, OpenComment
<1>4. \A i \in (token.start + 1)..(index + 1) : code[i] \in set
  BY <1>2, SMT DEF Within, Sym
<1> QED BY <1>2, <1>3, <1>4, SMT DEF Within

LEMMA OnCharacter == ASSUME IInv, Digit \/ NameCharacter PROVE StepOK
<1> USE DEF IInv
<1>1. /\ ~AtEnd /\ index' = index + 1 /\ at' = at
      /\ \/ at = "number" /\ Sym \in Digits
         \/ at = "name" /\ Sym \in IdentTail
      /\ UNCHANGED <<code, error, token, delivered>>
  BY DEF Digit, NameCharacter, Sees, Ahead, Advance, Go
<1>2. /\ LastEnd' = LastEnd /\ error.code = "NONE"
      /\ index \in Nat /\ LastEnd \in 0..index
  BY <1>1, SameTokens, SMT DEF ErrorsRead, TypeOK, WhereItIs
<1>3. LastEnd' \in 0..index'
  BY <1>1, <1>2, SMT
<1>4. CASE at = "number" /\ Sym \in Digits
  <2>1. Within(Digits, Digits)'
    BY <1>1, <1>4, WithinGoesOn DEF WhereItIs
  <2> QED BY <1>1, <1>2, <1>3, <1>4, <2>1, StillReading DEF WhereItIs
<1>5. CASE at = "name" /\ Sym \in IdentTail
  <2>1. Within(Letters, IdentTail)'
    BY <1>1, <1>5, WithinGoesOn DEF WhereItIs, IdentTail
  <2> QED BY <1>1, <1>2, <1>3, <1>5, <2>1, StillReading DEF WhereItIs
<1> QED BY <1>1, <1>4, <1>5

\* A token is delivered.
LEMMA OnDeliver ==
  ASSUME IInv, at # "idle",
         NEW type, NEW start, NEW end \in 0..Len(code), NEW number,
         Deliver(type, start, end, number), index' = end,
         Ignorable(LastEnd, start), IsToken(type, start, end),
         NameIsCurrent'
  PROVE  StepOK
<1> USE DEF IInv
<1> DEFINE n == Len(delivered)
           t == [type |-> type, start |-> start, end |-> end, value |-> number]
<1>1. /\ delivered' = Append(delivered, t) /\ code' = code /\ error' = error
      /\ at' = "idle" /\ state' = "READY"
  BY DEF Deliver
<1>2. delivered \in Seq(TokenRecord) /\ n \in Nat
  BY DEF TypeOK
<1>3. /\ Len(delivered') = n + 1 /\ delivered'[n + 1] = t
      /\ \A k \in 1..n : delivered'[k] = delivered[k]
  <2> HIDE DEF t
  <2> QED BY <1>1, <1>2, SMT
<1>4. LastEnd' = end
  <2>1. n + 2 # 1 /\ (n + 2) - 1 = n + 1
    BY <1>2, SMT
  <2>2. LastEnd' = delivered'[n + 1].end
    BY <1>2, <1>3, <2>1, SMT DEF LastEnd, EndBefore
  <2> QED BY <1>3, <2>2
<1>5. \A k \in 1..(n + 1) : EndBefore(k)' = EndBefore(k)
  <2> TAKE k \in 1..(n + 1)
  <2>1. k = 1 \/ k - 1 \in 1..n
    BY <1>2, SMT
  <2> QED BY <1>3, <2>1 DEF EndBefore
<1>6. TokensRead'
  <2> SUFFICES ASSUME NEW k \in 1..(n + 1)
               PROVE  /\ Ignorable(EndBefore(k), delivered[k].start)'
                      /\ IsToken(delivered[k].type, delivered[k].start, delivered[k].end)'
    <3>1. DOMAIN delivered' = 1..(n + 1)
      BY <1>1, <1>2, SMT
    <3> QED BY <3>1 DEF TokensRead
  <2>1. CASE k \in 1..n
    <3>1. /\ Ignorable(EndBefore(k), delivered[k].start)
          /\ IsToken(delivered[k].type, delivered[k].start, delivered[k].end)
      BY <1>2, <2>1 DEF TokensRead
    <3>2. delivered'[k] = delivered[k] /\ EndBefore(k)' = EndBefore(k)
      BY <1>3, <1>5, <2>1
    <3> QED BY <1>1, <3>1, <3>2 DEF Ignorable, OpenComment, IsToken, LongestRun
  <2>2. CASE k = n + 1
    <3>1. delivered'[k] = t /\ EndBefore(k)' = LastEnd
      BY <1>3, <1>5, <2>2 DEF LastEnd
    <3>2. delivered'[k].type = type /\ delivered'[k].start = start /\ delivered'[k].end = end
      BY <3>1
    <3> HIDE DEF t
    <3> QED BY <1>1, <3>1, <3>2 DEF Ignorable, OpenComment, IsToken, LongestRun
  <2> QED BY <1>2, <2>1, <2>2, SMT
<1>7. WhereItIs'
  BY <1>1, <1>4, SMT DEF WhereItIs
<1>8. error.code = "NONE"
  BY DEF ErrorsRead
<1>9. ErrorsRead'
  BY <1>1, <1>8 DEF ErrorsRead
<1> QED BY <1>6, <1>7, <1>9 DEF StepOK

\* parse_token fails.
LEMMA OnFail ==
  ASSUME IInv,
         NEW kind \in {"ILLEGAL_CHARACTER", "VALUE_OUT_OF_RANGE", "OUT_OF_MEMORY"},
         NEW start, NEW end, Fail(kind, start, end), Ignorable(LastEnd, start),
         kind = "ILLEGAL_CHARACTER" => end = start + 1 /\ code[end] \in Others,
         kind = "OUT_OF_MEMORY" => IsToken("IDENT", start, end)
  PROVE  StepOK
<1> USE DEF IInv
<1>1. /\ error'.code = kind /\ error'.start = start /\ error'.end = end
      /\ at' = "idle" /\ state' = "ERROR"
      /\ UNCHANGED <<code, index, delivered>>
  BY DEF Fail
<1>2. TokensRead' /\ LastEnd' = LastEnd
  BY <1>1, SameTokens
<1>3. WhereItIs'
  BY <1>1, <1>2 DEF WhereItIs
<1>4. ErrorsRead'
  BY <1>1, <1>2 DEF ErrorsRead, Ignorable, OpenComment, IsToken, LongestRun
<1>5. NameIsCurrent'
  BY <1>1 DEF NameIsCurrent
<1> QED BY <1>2, <1>3, <1>4, <1>5 DEF StepOK

\* A token of several characters ends.
LEMMA WithinEnds ==
  ASSUME TypeOK, NEW head, NEW set, head \subseteq set,
         Within(head, set), ~Ahead(set)
  PROVE  /\ Ignorable(LastEnd, token.start) /\ token.start < index
         /\ code[token.start + 1] \in head
         /\ LongestRun(set, token.start, index)
<1>1. /\ index \in Nat /\ index <= Len(code) /\ Len(code) \in Nat /\ token.start \in Nat
  BY SMT DEF TypeOK, TokenRecord
<1>2. index < Len(code) => code[index + 1] \notin set
  BY <1>1, SMT DEF Ahead, AtEnd, Sym
<1>3. token.start # index
  BY <1>1, <1>2 DEF Within
<1> QED BY <1>1, <1>2, <1>3, SMT DEF Within, LongestRun

LEMMA OnEndOfCode == ASSUME IInv, EndOfCode PROVE StepOK
<1>1. at = "skip" /\ AtEnd /\ index' = index /\ Deliver("EOF", Len(code), Len(code), 0)
  BY DEF EndOfCode
<1>2. Ignorable(LastEnd, Len(code)) /\ index' = Len(code)
  BY <1>1, TokenBegins DEF IInv, AtEnd
<1>3. IsToken("EOF", Len(code), Len(code)) /\ Len(code) \in 0..Len(code)
  BY DEF IsToken, IInv, TypeOK
<1>4. NameIsCurrent'
  BY <1>1 DEF NameIsCurrent, Deliver
<1> QED BY <1>1, <1>2, <1>3, <1>4, OnDeliver

LEMMA OnOperator == ASSUME IInv, Operator PROVE StepOK
<1>1. /\ at = "skip" /\ ~AtEnd /\ Sym \in Punctuation /\ index' = index + 1
      /\ Deliver(TypeOfSym[Sym], index, index + 1, 0)
  BY DEF Operator, Sees, Ahead, Advance
<1>2. Ignorable(LastEnd, index)
  BY <1>1, CharacterSets, TokenBegins DEF IInv
<1>3. index + 1 \in 0..Len(code) /\ index \in Nat
  BY <1>1, SymIsCharacter, SMT DEF IInv, TypeOK
<1>4. TypeOfSym[Sym] \in {"ADD", "SUB", "MUL", "DIV", "(", ")"}
  BY <1>1 DEF Punctuation, TypeOfSym
<1>5. IsToken(TypeOfSym[Sym], index, index + 1)
  BY <1>1, <1>3, <1>4, SMT DEF IsToken, Sym
<1>6. NameIsCurrent'
  BY <1>1, <1>4 DEF NameIsCurrent, Deliver
<1> QED BY <1>1, <1>2, <1>3, <1>5, <1>6, OnDeliver

LEMMA OnEndNumber == ASSUME IInv, EndNumber PROVE StepOK
<1>1. /\ at = "number" /\ ~Ahead(Digits) /\ index' = index
      /\ Deliver("INT", token.start, index, value)
  BY DEF EndNumber, Leaves
<1>2. Within(Digits, Digits)
  BY <1>1 DEF IInv, WhereItIs
<1>3. Ignorable(LastEnd, token.start) /\ IsToken("INT", token.start, index)
  BY <1>1, <1>2, WithinEnds DEF IInv, IsToken
<1>4. NameIsCurrent' /\ index \in 0..Len(code)
  BY <1>1 DEF NameIsCurrent, Deliver, IInv, TypeOK
<1> QED BY <1>1, <1>3, <1>4, OnDeliver

LEMMA OnNumberTooLarge == ASSUME IInv, NumberTooLarge PROVE StepOK
<1>1. at = "number" /\ Fail("VALUE_OUT_OF_RANGE", token.start, index)
  BY DEF NumberTooLarge, Sees
<1>2. Ignorable(LastEnd, token.start)
  BY <1>1 DEF IInv, WhereItIs, Within
<1> QED BY <1>1, <1>2, OnFail

LEMMA OnIllegalCharacter == ASSUME IInv, IllegalCharacter PROVE StepOK
<1>1. /\ at = "skip" /\ ~AtEnd /\ Sym \in Others
      /\ Fail("ILLEGAL_CHARACTER", index, index + 1)
  BY DEF IllegalCharacter, Sees, Ahead
<1>2. Ignorable(LastEnd, index)
  BY <1>1, CharacterSets, TokenBegins DEF IInv
<1> QED BY <1>1, <1>2, OnFail DEF Sym

LEMMA NameIsRead ==
  ASSUME IInv, at = "name", ~Ahead(IdentTail)
  PROVE  Ignorable(LastEnd, token.start) /\ IsToken("IDENT", token.start, index)
<1>1. Within(Letters, IdentTail) /\ Letters \subseteq IdentTail
  BY DEF IInv, WhereItIs, IdentTail
<1> QED BY <1>1, WithinEnds DEF IInv, IsToken

LEMMA OnNoMemory == ASSUME IInv, NoMemory PROVE StepOK
<1>1. at = "name" /\ ~Ahead(IdentTail) /\ Fail("OUT_OF_MEMORY", token.start, index)
  BY DEF NoMemory, Leaves
<1> QED BY <1>1, NameIsRead, OnFail

\* Nothing is delivered and nothing fails when the buffer is overrun.
LEMMA OnOverrun == ASSUME IInv, Overrun PROVE StepOK
<1>1. /\ at = "name" /\ at' = "overrun"
      /\ UNCHANGED <<code, index, error, delivered>>
  BY DEF Overrun, Leaves
<1>2. LastEnd' = LastEnd /\ error.code = "NONE"
  BY <1>1, SameTokens DEF IInv, ErrorsRead
<1>3. WhereItIs'
  BY <1>1, <1>2 DEF IInv, WhereItIs
<1> QED BY <1>1, <1>2, <1>3, StillReading

\* The buffer holds the name and the byte that ends it.
LEMMA OnEndName == ASSUME IInv, EndName PROVE StepOK
<1> USE DEF IInv
<1> DEFINE S == Characters \cup {NUL}
           bytes == Append(Name, NUL)
<1>1. /\ at = "name" /\ ~Ahead(IdentTail) /\ index' = index
      /\ memory' = Written(bytes)
      /\ Deliver("IDENT", token.start, index, 0)
  BY DEF EndName, Leaves
<1>2. code' = code /\ token'.start = token.start /\ token'.end = index
  BY <1>1 DEF Deliver
<1>3. Name \in Seq(S)
  <2>1. \A i \in (token.start + 1)..index : code[i] \in S
    BY SMT DEF TypeOK, TokenRecord
  <2>2. token.start + 1 \in Int /\ index \in Int
    BY SMT DEF TypeOK, TokenRecord
  <2> HIDE DEF S
  <2> QED BY <2>1, <2>2, SubSeqProperties DEF Name
<1>4. NUL \in S
  OBVIOUS
<1>5. bytes \in Seq(S) /\ Len(bytes) = Len(Name) + 1 /\ Len(Name) \in Nat
  <2> HIDE DEF S
  <2> QED BY <1>3, <1>4, SMT
<1>6. /\ memory' \in Seq(S)
      /\ Len(bytes) <= Len(memory')
      /\ \A i \in 1..Len(bytes) : memory'[i] = bytes[i]
  BY <1>1, <1>5, WrittenTypes
<1>7. SubSeq(memory', 1, Len(Name) + 1) = bytes
  <2> DEFINE sub == SubSeq(memory', 1, Len(bytes))
  <2> HIDE DEF S, bytes
  <2>1. \A i \in 1..Len(bytes) : memory'[i] \in S
    BY <1>5, <1>6, SMT
  <2>2. Len(bytes) \in Int /\ 1 \in Int /\ Len(bytes) >= 1
    BY <1>5, SMT
  <2>3. /\ sub \in Seq(S)
        /\ Len(sub) = IF 1 <= Len(bytes) THEN Len(bytes) - 1 + 1 ELSE 0
        /\ \A i \in 1..(Len(bytes) - 1 + 1) : sub[i] = memory'[1 + i - 1]
    BY <2>1, <2>2, SubSeqProperties
  <2> HIDE DEF sub
  <2>4. Len(sub) = Len(bytes) /\ \A i \in 1..Len(sub) : sub[i] = bytes[i]
    BY <1>6, <2>2, <2>3, SMT
  <2>5. sub = bytes
    BY <1>5, <2>3, <2>4, SeqEqual
  <2> QED BY <1>5, <2>5 DEF sub
<1>8. Len(Name) < Len(memory')
  BY <1>5, <1>6, SMT
<1>9. InMemory(SubSeq(code, token.start + 1, token.end))'
  <2>1. SubSeq(code', token'.start + 1, token'.end) = Name
    BY <1>2 DEF Name
  <2> HIDE DEF S
  <2> QED BY <1>7, <1>8, <2>1 DEF InMemory
<1>10. NameIsCurrent' /\ index \in 0..Len(code)
  BY <1>9 DEF NameIsCurrent, TypeOK
<1> QED BY <1>1, <1>10, NameIsRead, OnDeliver

LEMMA InitIInv == Init => IInv
<1> SUFFICES ASSUME Init PROVE IInv
  OBVIOUS
<1>1. TypeOK
  BY LexerAssumption, LongAssumption, SMT DEF Init, TypeOK, TokenRecord, TokenTypes
<1>2. Len(delivered) = 0 /\ DOMAIN delivered = {} /\ index = 0
  BY SMT DEF Init
<1>3. LastEnd = 0
  BY <1>2, SMT DEF LastEnd, EndBefore
<1> QED
  BY <1>1, <1>2, <1>3, SMT
  DEF Init, IInv, WhereItIs, TokensRead, ErrorsRead, NameIsCurrent

LEMMA StepIInv == IInv /\ [Next]_vars => IInv'
<1> SUFFICES ASSUME IInv, [Next]_vars PROVE IInv'
  OBVIOUS
<1>1. TypeOK'
  BY StepTypes DEF IInv
<1>2. CASE UNCHANGED vars
  <2>1. UNCHANGED <<code, index, at, state, error, token, value, memory, capacity, delivered>>
    BY <1>2 DEF vars
  <2>2. TokensRead' /\ LastEnd' = LastEnd
    BY <2>1, SameTokens DEF IInv
  <2>3. Within(Digits, Digits)' = Within(Digits, Digits)
    BY <2>1, <2>2 DEF Within, Ignorable, OpenComment
  <2>4. Within(Letters, IdentTail)' = Within(Letters, IdentTail)
    BY <2>1, <2>2 DEF Within, Ignorable, OpenComment
  <2>5. WhereItIs'
    BY <2>1, <2>2, <2>3, <2>4 DEF IInv, WhereItIs, Skipped, OpenComment, Ahead, AtEnd, Sym
  <2>6. ErrorsRead'
    BY <2>1, <2>2 DEF IInv, ErrorsRead, Ignorable, OpenComment, IsToken, LongestRun
  <2>7. NameIsCurrent'
    BY <2>1 DEF IInv, NameIsCurrent, InMemory
  <2> QED BY <1>1, <2>2, <2>5, <2>6, <2>7 DEF IInv
<1>3. CASE Next
  <2>1. CASE Terminated
    BY <1>2, <2>1 DEF Terminated
  <2>2. CASE ~Terminated
    BY <1>1, <1>3, <2>2, OnCall, OnConsume, OnSkip, OnLeaveComment, OnEndOfCode, OnOperator,
       OnBegin, OnCharacter, OnNumberTooLarge, OnEndNumber, OnEndName, OnNoMemory, OnOverrun,
       OnIllegalCharacter
    DEF Next, Scan, StepOK, IInv
  <2> QED BY <2>1, <2>2
<1> QED BY <1>2, <1>3

THEOREM Invariant == Spec => []IInv
  BY InitIInv, StepIInv, PTL DEF Spec

\* The tokens are the code, in order and whole, and the errors of the scanner
\* stand where a token would have to begin: parse_token, for every code.
THEOREM TokensAreTheCode == Spec => []ReadsTheCode
<1>1. IInv => ReadsTheCode
  BY DEF IInv, TokensRead, ErrorsRead, ReadsTheCode, LastEnd
<1> QED BY <1>1, Invariant, PTL

\* token.name is the text of the identifier as long as it may be read, however
\* long the name before it was: parse_token writes over parser->buffer.  A name
\* for which the block is too small becomes no token (Overrun).
THEOREM NamesAreCurrent == Spec => []NameIsCurrent
<1>1. IInv => NameIsCurrent
  BY DEF IInv
<1> QED BY <1>1, Invariant, PTL

-----------------------------------------------------------------------------
(***************************************************************************)
(* The block of the buffer                                                 *)
(***************************************************************************)
BlockHolds == Len(memory) <= capacity /\ (capacity = 0 \/ capacity >= BUFSIZ)
BlockInv == BlockHolds /\ ShortNamesFit

\* A name that is not longer than the first block has room, and the byte that
\* ends it.
LEMMA ShortNameFits ==
  ASSUME TypeOK, BlockHolds, Len(Name) \in Nat, Len(Name) <= BUFSIZ
  PROVE  NameFits /\ NulFits
<1> DEFINE n == Len(Name)
           room == RoomForName
<1>1. n \in Nat /\ n <= BUFSIZ /\ capacity \in Nat /\ BUFSIZ \in Nat /\ BUFSIZ >= 1
  BY LexerAssumption, SMT DEF TypeOK
<1>2. capacity = 0 \/ capacity >= BUFSIZ
  BY DEF BlockHolds
<1>3. room = IF n <= capacity THEN capacity ELSE IF capacity = 0 THEN BUFSIZ ELSE 2 * capacity
  BY DEF RoomForName, Grown
<1>4. RoomForNul = IF n + 1 <= room THEN room ELSE IF room = 0 THEN BUFSIZ ELSE 2 * room
  BY DEF RoomForNul, Grown
<1> HIDE DEF n, room
<1>5. room \in Nat /\ n <= room
  BY <1>1, <1>2, <1>3, SMT
<1>6. n + 1 <= RoomForNul
  BY <1>1, <1>4, <1>5, SMT
<1> QED BY <1>5, <1>6 DEF NameFits, NulFits, n, room

\* What is written where there is room lies in the block then.
LEMMA WriteStaysInBlock ==
  ASSUME TypeOK, BlockHolds, NEW bytes \in Seq(Characters \cup {NUL}),
         memory' = Written(bytes), capacity' \in Nat, capacity <= capacity',
         Len(bytes) <= capacity', capacity' >= BUFSIZ
  PROVE  BlockHolds'
<1>1. Len(memory') = Len(bytes) \/ Len(memory') = Len(memory)
  BY WrittenTypes
<1>2. Len(memory) \in Nat /\ capacity \in Nat /\ Len(memory) <= capacity
  BY SMT DEF TypeOK, BlockHolds
<1>3. Len(memory) <= capacity'
  BY <1>2, SMT
<1> QED BY <1>1, <1>3 DEF BlockHolds

LEMMA RoomGrows ==
  ASSUME TypeOK, BlockHolds, Len(Name) \in Nat
  PROVE  /\ RoomForName \in Nat /\ capacity <= RoomForName
         /\ RoomForNul \in Nat /\ capacity <= RoomForNul
         /\ RoomForName = 0 \/ RoomForName >= BUFSIZ
         /\ Len(Name) + 1 <= RoomForNul => RoomForNul >= BUFSIZ
<1> DEFINE n == Len(Name)
           room == RoomForName
<1>1. n \in Nat /\ capacity \in Nat /\ BUFSIZ \in Nat /\ BUFSIZ >= 1
  BY LexerAssumption, SMT DEF TypeOK
<1>2. capacity = 0 \/ capacity >= BUFSIZ
  BY DEF BlockHolds
<1>3. room = IF n <= capacity THEN capacity ELSE IF capacity = 0 THEN BUFSIZ ELSE 2 * capacity
  BY DEF RoomForName, Grown
<1>4. RoomForNul = IF n + 1 <= room THEN room ELSE IF room = 0 THEN BUFSIZ ELSE 2 * room
  BY DEF RoomForNul, Grown
<1> HIDE DEF n, room
<1>5. room \in Nat /\ capacity <= room /\ (room = 0 \/ room >= BUFSIZ)
  BY <1>1, <1>2, <1>3, SMT
<1>6. /\ RoomForNul \in Nat /\ room <= RoomForNul
      /\ n + 1 <= RoomForNul => RoomForNul >= BUFSIZ
  BY <1>1, <1>4, <1>5, SMT
<1>7. capacity <= RoomForNul
  BY <1>1, <1>5, <1>6, SMT
<1> QED BY <1>5, <1>6, <1>7 DEF n, room

\* The name that has been read is a string, and so is it with the byte that
\* ends it.
LEMMA NameIsString ==
  ASSUME TypeOK
  PROVE  /\ Name \in Seq(Characters \cup {NUL}) /\ Len(Name) \in Nat
         /\ Append(Name, NUL) \in Seq(Characters \cup {NUL})
         /\ Len(Append(Name, NUL)) = Len(Name) + 1
<1> DEFINE S == Characters \cup {NUL}
<1>1. NUL \in S
  OBVIOUS
<1>2. \A i \in (token.start + 1)..index : code[i] \in S
  BY SMT DEF TypeOK, TokenRecord
<1>3. token.start + 1 \in Int /\ index \in Int
  BY SMT DEF TypeOK, TokenRecord
<1> HIDE DEF S
<1>4. Name \in Seq(S)
  BY <1>2, <1>3, SubSeqProperties DEF Name
<1> QED BY <1>1, <1>4, SMT DEF S

LEMMA StepBlockInv == ASSUME TypeOK, BlockInv, [Next]_vars PROVE BlockInv'
<1>0. BlockHolds
  BY DEF BlockInv
<1>1. ASSUME at' # "overrun", BlockHolds' PROVE BlockInv'
  BY <1>1 DEF BlockInv, ShortNamesFit, BlockHolds
<1>2. ASSUME at' # "overrun", UNCHANGED <<memory, capacity>> PROVE BlockInv'
  BY <1>0, <1>1, <1>2 DEF BlockHolds
<1>3. CASE Call \/ Consume \/ SkipSpace \/ EnterComment \/ SkipComment \/ LeaveComment
  BY <1>2, <1>3 DEF Call, Consume, SkipSpace, EnterComment, SkipComment, LeaveComment, Go
<1>4. CASE BeginNumber \/ BeginName \/ NameCharacter \/ Digit
  BY <1>2, <1>4 DEF BeginNumber, BeginName, NameCharacter, Digit, Begin, Go, Sees
<1>5. CASE EndOfCode \/ Operator \/ EndNumber
  BY <1>2, <1>5 DEF EndOfCode, Operator, EndNumber, Deliver
<1>6. CASE NumberTooLarge \/ IllegalCharacter
  BY <1>2, <1>6 DEF NumberTooLarge, IllegalCharacter, Fail
<1>7. CASE EndName
  <2>1. /\ at' # "overrun" /\ NulFits /\ capacity' = RoomForNul
        /\ memory' = Written(Append(Name, NUL))
    BY <1>7 DEF EndName, Deliver
  <2>2. Len(Append(Name, NUL)) <= capacity'
    BY <2>1, NameIsString DEF NulFits
  <2>3. capacity' \in Nat /\ capacity <= capacity' /\ capacity' >= BUFSIZ
    BY <1>0, <2>1, NameIsString, RoomGrows DEF NulFits
  <2> QED BY <1>0, <1>1, <2>1, <2>2, <2>3, NameIsString, WriteStaysInBlock
<1>8. CASE NoMemory
  <2>1. at' # "overrun"
    BY <1>8 DEF NoMemory, Fail
  <2>2. CASE UNCHANGED <<memory, capacity>>
    BY <1>2, <2>1, <2>2
  <2>3. CASE NameFits /\ memory' = Written(Name) /\ capacity' = RoomForName
    <3>1. capacity' \in Nat /\ capacity <= capacity' /\ (capacity' = 0 \/ capacity' >= BUFSIZ)
      BY <1>0, <2>3, NameIsString, RoomGrows
    <3>2. Len(Name) <= capacity'
      BY <2>3 DEF NameFits
    <3>3. Len(memory') = Len(Name) \/ Len(memory') = Len(memory)
      BY <2>3, NameIsString, WrittenTypes
    <3>4. Len(memory) <= capacity'
      <4>1. Len(memory) \in Nat /\ capacity \in Nat /\ Len(memory) <= capacity
        BY <1>0, SMT DEF TypeOK, BlockHolds
      <4> QED BY <3>1, <4>1, SMT
    <3>5. BlockHolds'
      BY <3>1, <3>2, <3>3, <3>4 DEF BlockHolds
    <3> QED BY <1>1, <2>1, <3>5
  <2> QED BY <1>8, <2>2, <2>3 DEF NoMemory
<1>9. CASE Overrun
  <2>1. ~(NameFits /\ NulFits) /\ UNCHANGED <<code, index, token, memory, capacity>>
    BY <1>9 DEF Overrun
  <2>2. Len(Name) > BUFSIZ
    <3>1. ~(Len(Name) <= BUFSIZ)
      BY <1>0, <2>1, NameIsString, ShortNameFits
    <3>2. Len(Name) \in Nat /\ BUFSIZ \in Nat
      BY NameIsString, LexerAssumption
    <3> QED BY <3>1, <3>2, SMT
  <2>3. Name' = Name
    BY <2>1 DEF Name
  <2> QED BY <1>0, <2>1, <2>2, <2>3 DEF BlockInv, BlockHolds, ShortNamesFit
<1>10. CASE Terminated \/ UNCHANGED vars
  <2>1. UNCHANGED <<code, index, at, token, memory, capacity>>
    BY <1>10 DEF Terminated, vars
  <2>2. Name' = Name
    BY <2>1 DEF Name
  <2> QED BY <2>1, <2>2 DEF BlockInv, BlockHolds, ShortNamesFit
<1> QED BY <1>3, <1>4, <1>5, <1>6, <1>7, <1>8, <1>9, <1>10 DEF Next, Scan

\* All that is written into parser->buffer lies in its block, and a name that
\* runs over the end is longer than BUFSIZ: the block that is there, or one
\* doubling, is enough for every other, whatever names came before.
THEOREM ShortNamesHaveRoom == Spec => []ShortNamesFit
<1>1. Init => BlockInv
  BY LexerAssumption, SMT DEF Init, BlockInv, BlockHolds, ShortNamesFit
<1>2. TypeOK /\ BlockInv /\ [Next]_vars => BlockInv'
  BY StepBlockInv
<1>3. BlockInv => ShortNamesFit
  BY DEF BlockInv
<1> QED BY <1>1, <1>2, <1>3, LexerTypes, PTL DEF Spec

-----------------------------------------------------------------------------
(***************************************************************************)
(* Numbers                                                                 *)
(***************************************************************************)
AllDigits(from, to) == \A i \in (from + 1)..to : code[i] \in Digits

\* A function that has the equations of Decimal.
IsDecimal(of, from, to) ==
  \A i \in from..to : of[i] = IF i = from THEN 0 ELSE of[i - 1] * 10 + DigitOf[code[i]]

\* There is no more than one, however far it goes.
LEMMA SameDecimals ==
  ASSUME NEW from \in Nat, NEW to \in Nat, NEW least \in Nat, least <= to,
         NEW f, IsDecimal(f, from, least), NEW g, IsDecimal(g, from, to)
  PROVE  \A i \in from..least : f[i] = g[i]
<1> DEFINE S == {i \in from..least : f[i] # g[i]}
<1>1. SUFFICES ASSUME S # {}
               PROVE  FALSE
  OBVIOUS
<1>2. S \subseteq Nat
  OBVIOUS
<1>3. PICK i \in S : \A m \in S : i <= m
  BY <1>1, <1>2, LongAssumption, Recursion!LeastNumber
<1>4. i \in from..to /\ i \in from..least
  OBVIOUS
<1>5. i # from => f[i - 1] = g[i - 1]
  <2>1. i # from => i - 1 \in from..least /\ ~(i <= i - 1)
    BY <1>4
  <2>. QED
    BY <1>3, <2>1
<1>. QED
  BY <1>3, <1>4, <1>5 DEF IsDecimal

\* Decimal is the last value of such a function.
LEMMA DecimalFunction ==
  ASSUME NEW from \in Nat, NEW to \in Nat, from <= to, AllDigits(from, to)
  PROVE  \E of \in [from..to -> Int] : IsDecimal(of, from, to) /\ Decimal(from, to) = of[to]
<1> DEFINE D == from..to
           next == [x \in D \X Int |-> IF x[1] = from THEN 0 ELSE x[2] * 10 + DigitOf[code[x[1]]]]
<1>1. \A i \in D : i # from => DigitOf[code[i]] \in Int
  <2>1. \A i \in D : i # from => i \in (from + 1)..to
    OBVIOUS
  <2>. QED
    BY <2>1, DigitValue DEF AllDigits
<1>2. next \in [D \X Int -> Int]
  <2>1. SUFFICES ASSUME NEW x \in D \X Int
                 PROVE  (IF x[1] = from THEN 0 ELSE x[2] * 10 + DigitOf[code[x[1]]]) \in Int
    OBVIOUS
  <2>2. x[1] \in D /\ x[2] \in Int
    OBVIOUS
  <2>. QED
    BY <1>1, <2>2
<1> HIDE DEF next
<1>3. PICK f \in [from..to -> Int] : Recursion!Recurs(f, from, to, 0, next)
  <2>1. 0 \in Int /\ next \in [(from..to) \X Int -> Int]
    BY <1>2
  <2>. QED
    BY <2>1, LongAssumption, Recursion!Recurrence, ZenonT(30)
<1>4. ASSUME NEW i \in D, i # from
      PROVE  next[<<i, f[i - 1]>>] = f[i - 1] * 10 + DigitOf[code[i]]
  <2>1. f[i - 1] \in Int
    BY <1>4
  <2>. QED
    BY <1>4, <2>1 DEF next
<1>5. f = [i \in D |-> IF i = from THEN 0 ELSE f[i - 1] * 10 + DigitOf[code[i]]]
  BY <1>3, <1>4 DEF Recursion!Recurs
<1> DEFINE of == CHOOSE g : g = [i \in D |-> IF i = from THEN 0 ELSE g[i - 1] * 10 + DigitOf[code[i]]]
<1>6. of = [i \in D |-> IF i = from THEN 0 ELSE of[i - 1] * 10 + DigitOf[code[i]]]
  BY <1>5
<1>7. Decimal(from, to) = of[to]
  BY DEF Decimal
<1> HIDE DEF of
<1>8. IsDecimal(of, from, to)
  BY <1>6 DEF IsDecimal
<1>9. IsDecimal(f, from, to)
  BY <1>5 DEF IsDecimal
<1>10. \A i \in D : of[i] = f[i]
  BY <1>8, <1>9, SameDecimals
<1>11. of \in [D -> Int]
  BY <1>3, <1>6, <1>10
<1>. QED
  BY <1>7, <1>8, <1>11

LEMMA DecimalIs ==
  ASSUME NEW from \in Nat, NEW to \in Nat, from <= to, AllDigits(from, to)
  PROVE  /\ Decimal(from, from) = 0 /\ Decimal(from, to) \in Int
         /\ AllDigits(from, to + 1) =>
              Decimal(from, to + 1) = Decimal(from, to) * 10 + DigitOf[code[to + 1]]
<1>1. PICK f \in [from..to -> Int] : IsDecimal(f, from, to) /\ Decimal(from, to) = f[to]
  BY DecimalFunction
<1>2. Decimal(from, to) \in Int
  BY <1>1
<1>3. Decimal(from, from) = 0
  <2>1. (from + 1)..from = {} /\ from <= from
    OBVIOUS
  <2>2. AllDigits(from, from)
    BY <2>1 DEF AllDigits
  <2>3. PICK g \in [from..from -> Int] : IsDecimal(g, from, from) /\ Decimal(from, from) = g[from]
    BY <2>1, <2>2, DecimalFunction, ZenonT(30)
  <2>. QED
    BY <2>3 DEF IsDecimal
<1>4. ASSUME AllDigits(from, to + 1)
      PROVE  Decimal(from, to + 1) = Decimal(from, to) * 10 + DigitOf[code[to + 1]]
  <2>1. PICK g \in [from..(to + 1) -> Int] :
          IsDecimal(g, from, to + 1) /\ Decimal(from, to + 1) = g[to + 1]
    <3>1. to + 1 \in Nat /\ from <= to + 1
      OBVIOUS
    <3>. QED
      BY <1>4, <3>1, DecimalFunction, ZenonT(30)
  <2>2. \A i \in from..to : f[i] = g[i]
    <3>1. to + 1 \in Nat /\ to <= to + 1 /\ IsDecimal(f, from, to)
      BY <1>1
    <3>. QED
      BY <2>1, <3>1, SameDecimals, SMTT(30)
  <2>3. to \in from..to /\ to + 1 \in from..(to + 1) /\ to + 1 # from
    OBVIOUS
  <2>4. g[to + 1] = g[to] * 10 + DigitOf[code[to + 1]]
    BY <2>1, <2>3 DEF IsDecimal
  <2>. QED
    BY <1>1, <2>1, <2>2, <2>3, <2>4
<1>. QED
  BY <1>2, <1>3, <1>4

LEMMA SameNumbers ==
  ASSUME code' = code
  PROVE  \A from, to : Decimal(from, to)' = Decimal(from, to)
BY DEF Decimal

\* What parse_token has read of a number is its value; the two parts of
\* NumbersAreExact.
ValueIsExact == at = "number" => value = Decimal(token.start, index)

TokensAreExact ==
  \A k \in DOMAIN delivered :
    delivered[k].type = "INT" =>
      delivered[k].value = Decimal(delivered[k].start, delivered[k].end)

ErrorIsExact ==
  error.code = "VALUE_OUT_OF_RANGE" =>
    /\ error.start < error.end
    /\ \A i \in (error.start + 1)..(error.end + 1) : code[i] \in Digits
    /\ Decimal(error.start, error.end) <= LONG_MAX
    /\ Decimal(error.start, error.end + 1) > LONG_MAX

Exact == ValueIsExact /\ TokensAreExact /\ ErrorIsExact

LEMMA TokensStayExact ==
  ASSUME TokensAreExact, code' = code, delivered' = delivered
  PROVE  TokensAreExact'
BY SameNumbers DEF TokensAreExact

LEMMA ErrorStaysExact ==
  ASSUME ErrorIsExact, code' = code, error' = error
  PROVE  ErrorIsExact'
BY SameNumbers DEF ErrorIsExact

LEMMA DeliverExact ==
  ASSUME TypeOK, Exact, NEW type, NEW start, NEW end, NEW number,
         Deliver(type, start, end, number),
         type = "INT" => number = Decimal(start, end)
  PROVE  Exact'
<1> DEFINE t == [type |-> type, start |-> start, end |-> end, value |-> number]
<1>1. /\ delivered' = Append(delivered, t) /\ code' = code /\ error' = error /\ at' = "idle"
  BY DEF Deliver
<1>2. /\ t.type = type /\ t.start = start /\ t.end = end /\ t.value = number
  OBVIOUS
<1> HIDE DEF t
<1>3. delivered \in Seq(TokenRecord)
  BY DEF TypeOK
<1>4. \A k \in DOMAIN delivered' :
        (k \in DOMAIN delivered /\ delivered'[k] = delivered[k]) \/ delivered'[k] = t
  BY <1>1, <1>3
<1>5. TokensAreExact'
  BY <1>1, <1>2, <1>4, SameNumbers DEF Exact, TokensAreExact
<1>6. ErrorIsExact'
  BY <1>1, ErrorStaysExact DEF Exact
<1>. QED
  BY <1>1, <1>5, <1>6 DEF Exact, ValueIsExact

LEMMA FailExact ==
  ASSUME Exact, NEW kind, NEW start, NEW end, Fail(kind, start, end),
         kind = "VALUE_OUT_OF_RANGE" =>
           /\ start < end
           /\ \A i \in (start + 1)..(end + 1) : code[i] \in Digits
           /\ Decimal(start, end) <= LONG_MAX
           /\ Decimal(start, end + 1) > LONG_MAX
  PROVE  Exact'
<1>1. /\ error'.code = kind /\ error'.start = start /\ error'.end = end
      /\ at' = "idle" /\ code' = code /\ delivered' = delivered
  BY DEF Fail
<1>2. TokensAreExact'
  BY <1>1, TokensStayExact DEF Exact
<1>3. ErrorIsExact'
  BY <1>1, SameNumbers DEF ErrorIsExact
<1>. QED
  BY <1>1, <1>2, <1>3 DEF Exact, ValueIsExact

\* The value so far is that of the digits so far.
LEMMA NumberSoFar ==
  ASSUME IInv, at = "number"
  PROVE  /\ token.start \in Nat /\ index \in Nat /\ token.start <= index
         /\ AllDigits(token.start, index)
  BY SMT DEF IInv, TypeOK, TokenRecord, WhereItIs, Within, AllDigits

LEMMA NextDigit ==
  ASSUME IInv, at = "number", Ahead(Digits), ValueIsExact
  PROVE  /\ AllDigits(token.start, index + 1)
         /\ DigitOf[Sym] \in 0..9 /\ value \in 0..LONG_MAX
         /\ Decimal(token.start, index + 1) = value * 10 + DigitOf[Sym]
         /\ Decimal(token.start, index) = value
<1>1. AllDigits(token.start, index + 1)
  BY NumberSoFar, SMT DEF AllDigits, Ahead, Sym
<1>2. DigitOf[Sym] \in 0..9 /\ value \in 0..LONG_MAX
  BY DigitValue DEF Ahead, IInv, TypeOK
<1>3. Decimal(token.start, index) = value
  BY DEF ValueIsExact
<1>4. Decimal(token.start, index + 1) = Decimal(token.start, index) * 10 + DigitOf[code[index + 1]]
  BY <1>1, NumberSoFar, DecimalIs
<1>. QED
  BY <1>1, <1>2, <1>3, <1>4 DEF Sym

LEMMA BeginExact == ASSUME IInv, Exact, BeginNumber PROVE Exact'
<1>1. /\ token' = [token EXCEPT !.start = index] /\ value' = 0 /\ at' = "number"
      /\ UNCHANGED <<code, index, error, delivered>>
  BY DEF BeginNumber, Begin
<1>2. token'.start = index /\ index \in Nat
  BY <1>1, RecordUpdates DEF IInv, TypeOK
<1>3. Decimal(index, index) = 0
  <2>1. (index + 1)..index = {} /\ index <= index
    BY <1>2
  <2>2. AllDigits(index, index)
    BY <2>1 DEF AllDigits
  <2>. QED
    BY <1>2, <2>1, <2>2, DecimalIs
<1>4. ValueIsExact'
  BY <1>1, <1>2, <1>3, SameNumbers DEF ValueIsExact
<1>. QED
  BY <1>1, <1>4, TokensStayExact, ErrorStaysExact DEF Exact

LEMMA DigitExact == ASSUME IInv, Exact, Digit PROVE Exact'
<1>1. /\ at = "number" /\ at' = "number" /\ Ahead(Digits) /\ Fits(DigitOf[Sym])
      /\ value' = Wrap(Wrap(value * 10) + DigitOf[Sym]) /\ index' = index + 1
      /\ UNCHANGED <<code, error, token, delivered>>
  BY DEF Digit, Sees, Advance
<1>2. /\ DigitOf[Sym] \in 0..9 /\ value \in 0..LONG_MAX
      /\ Decimal(token.start, index + 1) = value * 10 + DigitOf[Sym]
  BY <1>1, NextDigit DEF Exact
<1>3. value * 10 + DigitOf[Sym] <= LONG_MAX
  <2>1. DigitOf[Sym] \in 0..9 /\ value \in 0..LONG_MAX
    BY <1>2
  <2>. QED
    BY <1>1, <2>1, FitsIsExact
<1>4. value * 10 \in 0..LONG_MAX /\ value * 10 + DigitOf[Sym] \in 0..LONG_MAX
  <2>1. DigitOf[Sym] \in 0..9 /\ value \in 0..LONG_MAX
    BY <1>2
  <2>. QED
    BY <1>3, <2>1, LongAssumption, SMT
<1>5. value' = Decimal(token.start, index + 1)
  BY <1>1, <1>2, <1>4, WrapSmall
<1>6. ValueIsExact'
  BY <1>1, <1>5, SameNumbers DEF ValueIsExact
<1>. QED
  BY <1>1, <1>6, TokensStayExact, ErrorStaysExact DEF Exact

LEMMA TooLargeExact == ASSUME IInv, Exact, NumberTooLarge PROVE Exact'
<1>1. /\ at = "number" /\ Ahead(Digits) /\ ~Fits(DigitOf[Sym])
      /\ Fail("VALUE_OUT_OF_RANGE", token.start, index)
  BY DEF NumberTooLarge, Sees
<1>2. /\ AllDigits(token.start, index + 1)
      /\ DigitOf[Sym] \in 0..9 /\ value \in 0..LONG_MAX
      /\ Decimal(token.start, index + 1) = value * 10 + DigitOf[Sym]
      /\ Decimal(token.start, index) = value
  BY <1>1, NextDigit DEF Exact
<1>3. ~(value * 10 + DigitOf[Sym] <= LONG_MAX)
  <2>1. DigitOf[Sym] \in 0..9 /\ value \in 0..LONG_MAX
    BY <1>2
  <2>. QED
    BY <1>1, <2>1, FitsIsExact
<1>4. value <= LONG_MAX /\ value * 10 + DigitOf[Sym] > LONG_MAX
  BY <1>2, <1>3, LongAssumption
<1>5. token.start < index
  <2>1. token.start = index => value = 0
    <3>1. Decimal(token.start, token.start) = 0
      BY <1>1, NumberSoFar, DecimalIs
    <3>. QED
      BY <1>2, <3>1
  <2>2. DigitOf[Sym] <= LONG_MAX
    BY <1>2, LexerAssumption, LongAssumption
  <2>3. token.start # index
    <3>1. DigitOf[Sym] \in Nat
      BY <1>2
    <3>. QED
      BY <1>4, <2>1, <2>2, <3>1, LongAssumption
  <2>. QED
    BY <1>1, <2>3, NumberSoFar
<1>. QED
  BY <1>1, <1>2, <1>4, <1>5, FailExact DEF AllDigits

LEMMA StepExact == ASSUME IInv, Exact, [Next]_vars PROVE Exact'
<1>1. CASE UNCHANGED vars \/ Terminated
  <2>1. UNCHANGED <<code, index, at, error, token, value, delivered>>
    BY <1>1 DEF vars, Terminated
  <2>2. ValueIsExact'
    BY <2>1, SameNumbers DEF Exact, ValueIsExact
  <2>. QED
    BY <2>1, <2>2, TokensStayExact, ErrorStaysExact DEF Exact
<1>2. CASE Call \/ Consume \/ SkipSpace \/ EnterComment \/ SkipComment \/ LeaveComment
        \/ NameCharacter \/ BeginName \/ Overrun
  <2>1. at' # "number" /\ UNCHANGED <<code, error, delivered>>
    BY <1>2 DEF Call, Consume, SkipSpace, EnterComment, SkipComment, LeaveComment,
       NameCharacter, BeginName, Begin, Go, Overrun
  <2>. QED
    BY <2>1, TokensStayExact, ErrorStaysExact DEF Exact, ValueIsExact
<1>3. CASE EndOfCode \/ EndName
  BY <1>3, DeliverExact DEF EndOfCode, EndName, IInv
<1>4. CASE Operator
  <2>1. TypeOfSym[Sym] # "INT"
    BY <1>4 DEF Operator, Sees, Ahead, Punctuation, TypeOfSym
  <2>. QED
    BY <1>4, <2>1, DeliverExact DEF Operator, IInv
<1>5. CASE EndNumber
  BY <1>5, DeliverExact DEF EndNumber, Leaves, IInv, Exact, ValueIsExact
<1>6. CASE NoMemory \/ IllegalCharacter
  BY <1>6, FailExact DEF NoMemory, IllegalCharacter
<1>. QED
  BY <1>1, <1>2, <1>3, <1>4, <1>5, <1>6, BeginExact, DigitExact, TooLargeExact DEF Next, Scan

\* The value of a number token is that of its digits, for every width of long,
\* and a number is refused exactly at the digit with which it is no long any
\* more (parser.c:148-169).
THEOREM NumbersHaveTheirValue == Spec => []NumbersAreExact
<1>1. Init => Exact
  BY DEF Init, Exact, ValueIsExact, TokensAreExact, ErrorIsExact
<1>2. IInv /\ Exact /\ [Next]_vars => Exact'
  BY StepExact
<1>3. Exact => NumbersAreExact
  BY DEF Exact, TokensAreExact, ErrorIsExact, NumbersAreExact
<1>. QED
  BY <1>1, <1>2, <1>3, Invariant, PTL DEF Spec

-----------------------------------------------------------------------------
(***************************************************************************)
(* The ranges of tokens and errors, from which the report of an error can  *)
(* start                                                                   *)
(***************************************************************************)

\* Something that begins and ends with characters other than newlines.
Solid(start, end) ==
  /\ start < end /\ end <= Len(code)
  /\ code[start + 1] # Newline /\ code[end] # Newline

LEMMA TokenIsSolid ==
  ASSUME NEW type, NEW start \in 0..Len(code), NEW end \in 0..Len(code), Len(code) \in Nat,
         IsToken(type, start, end)
  PROVE  IF type = "EOF" THEN start = Len(code) /\ end = Len(code) ELSE Solid(start, end)
<1>1. CASE type = "EOF"
  BY <1>1 DEF IsToken
<1>2. CASE type \in {"INT", "IDENT"}
  <2>1. start < end /\ \A k \in (start + 1)..end : code[k] \in IdentTail
    BY <1>2 DEF IsToken, LongestRun, IdentTail
  <2>2. start + 1 \in (start + 1)..end /\ end \in (start + 1)..end
    BY <2>1
  <2>3. Newline \notin IdentTail
    BY CharacterSets DEF IdentTail
  <2>. QED
    BY <1>2, <2>1, <2>2, <2>3 DEF Solid
<1>3. CASE type \notin {"INT", "IDENT", "EOF"}
  <2>1. end = start + 1 /\ code[end] \in Punctuation
    BY <1>3 DEF IsToken
  <2>2. Newline \notin Punctuation
    BY CharacterSets
  <2>. QED
    BY <1>3, <2>1, <2>2 DEF Solid
<1>. QED
  BY <1>1, <1>2, <1>3

LEMMA TokensAreSolid ==
  ASSUME IInv, NEW k \in DOMAIN delivered
  PROVE  /\ delivered[k].start \in 0..Len(code) /\ delivered[k].end \in 0..Len(code)
         /\ Len(code) \in Nat
         /\ IF delivered[k].type = "EOF"
            THEN delivered[k].start = Len(code) /\ delivered[k].end = Len(code)
            ELSE Solid(delivered[k].start, delivered[k].end)
<1>1. Len(code) \in Nat /\ delivered[k] \in TokenRecord
  BY DEF IInv, TypeOK
<1>2. delivered[k].start \in 0..Len(code) /\ delivered[k].end \in 0..Len(code)
  BY <1>1 DEF TokenRecord
<1>3. IsToken(delivered[k].type, delivered[k].start, delivered[k].end)
  BY DEF IInv, TokensRead
<1>. QED
  BY <1>1, <1>2, <1>3, TokenIsSolid

\* Tokens follow each other.
LEMMA TokensInOrder ==
  ASSUME IInv, NEW k \in DOMAIN delivered, NEW l \in DOMAIN delivered, k <= l
  PROVE  delivered[k].end <= delivered[l].end
<1> DEFINE S == {m \in DOMAIN delivered : k <= m /\ delivered[m].end < delivered[k].end}
<1>1. DOMAIN delivered = 1..Len(delivered) /\ Len(delivered) \in Nat
  BY DEF IInv, TypeOK
<1>2. \A m \in DOMAIN delivered :
        delivered[m].start \in Nat /\ delivered[m].end \in Nat /\ delivered[m].start <= delivered[m].end
  <2>1. TAKE m \in DOMAIN delivered
  <2>. QED
    BY TokensAreSolid DEF Solid
<1>3. ASSUME S # {}
      PROVE  FALSE
  <2>1. S \subseteq Nat
    BY <1>1
  <2>2. PICK m \in S : \A other \in S : m <= other
    BY <1>3, <2>1, LongAssumption, Recursion!LeastNumber
  <2>3. m # k /\ m \in 1..Len(delivered) /\ k \in 1..Len(delivered) /\ k <= m
    BY <1>1, <1>2, <2>2
  <2>4. m - 1 \in DOMAIN delivered /\ k <= m - 1 /\ ~(m <= m - 1)
    BY <1>1, <2>3
  <2>5. delivered[k].end <= delivered[m - 1].end
    BY <1>2, <2>2, <2>4
  <2>6. EndBefore(m) <= delivered[m].start
    BY <2>2 DEF IInv, TokensRead, Ignorable
  <2>7. EndBefore(m) = delivered[m - 1].end
    BY <2>3 DEF EndBefore
  <2>. QED
    BY <1>2, <2>2, <2>4, <2>5, <2>6, <2>7
<1>4. l \notin S
  BY <1>3
<1>. QED
  BY <1>2, <1>4

LEMMA ErrorsAreSolid ==
  ASSUME IInv, NumbersAreExact, error.code # "NONE"
  PROVE  /\ error.start \in 0..Len(code) /\ error.end \in 0..Len(code) /\ Len(code) \in Nat
         /\ Solid(error.start, error.end)
<1>1. /\ error.start \in 0..Len(code) /\ error.end \in 0..Len(code) /\ Len(code) \in Nat
      /\ error.code \in {"ILLEGAL_CHARACTER", "VALUE_OUT_OF_RANGE", "OUT_OF_MEMORY"}
  BY DEF IInv, TypeOK
<1>2. CASE error.code = "ILLEGAL_CHARACTER"
  <2>1. error.end = error.start + 1 /\ code[error.end] \in Others
    BY <1>2 DEF IInv, ErrorsRead
  <2>. QED
    BY <1>1, <2>1, CharacterSets DEF Solid
<1>3. CASE error.code = "OUT_OF_MEMORY"
  <2>1. IsToken("IDENT", error.start, error.end)
    BY <1>3 DEF IInv, ErrorsRead
  <2>. QED
    BY <1>1, <2>1, TokenIsSolid
<1>4. CASE error.code = "VALUE_OUT_OF_RANGE"
  <2>1. error.start < error.end /\ \A i \in (error.start + 1)..(error.end + 1) : code[i] \in Digits
    BY <1>4 DEF NumbersAreExact
  <2>2. error.start + 1 \in (error.start + 1)..(error.end + 1)
        /\ error.end \in (error.start + 1)..(error.end + 1)
    BY <1>1, <2>1
  <2>3. Newline \notin Digits
    BY CharacterSets
  <2>. QED
    BY <1>1, <2>1, <2>2, <2>3 DEF Solid
<1>. QED
  BY <1>1, <1>2, <1>3, <1>4
=============================================================================
