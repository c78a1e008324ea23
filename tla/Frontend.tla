------------------------------- MODULE Frontend ------------------------------
(***************************************************************************)
(* parse_string: the parser with its lexer, from the characters to the AST *)
(* or the error.                                                           *)
(*                                                                         *)
(* Parser takes any token from its environment; here parser_peek_token     *)
(* runs parse_token over the code.  The parser's tokens are those of the   *)
(* lexer, but the name of the current one is what it has to be in C: the   *)
(* string that lies in the buffer when the parser looks.  `error' is the   *)
(* error in the parser's terms, with its range in tokens; `lexError' is    *)
(* what parse_token itself stores.                                         *)
(***************************************************************************)
EXTENDS LongArith, Sequences

CONSTANTS
  BUFSIZ, Letters, Blanks, Others, Codes,  \* as in Lexer
  Spelling,    \* the characters of each name that an argument may have
  Unknown,     \* any other name
  ArgLists,    \* the lists of names that parse_string is called with
  MaxTokens,   \* bound: no code has more tokens before its end
  Nothing

ASSUME FrontendAssumption ==
  /\ Unknown \notin DOMAIN Spelling
  /\ \A name, other \in DOMAIN Spelling : Spelling[name] = Spelling[other] => name = other
  /\ MaxTokens \in Nat /\ \A c \in Codes : Len(c) <= MaxTokens

VARIABLES
  code, index, at, lexError, token, value, memory, capacity, delivered,  \* Lexer
  args, error, nodes, frames, result,  \* Parser
  state                                \* both

lexerVars  == <<code, index, at, lexError, token, value, memory, capacity, delivered>>
parserVars == <<args, nodes, frames, result>>
vars == <<lexerVars, parserVars, error, state>>

TheLexer == INSTANCE Lexer WITH error <- lexError

IsIdentifier(string) ==
  /\ string # <<>> /\ string[1] \in Letters
  /\ \A i \in 2..Len(string) : string[i] \in TheLexer!IdentTail

\* The characters and the codes are as in Lexer, and no name has the byte in
\* it that ends a C string.
ASSUME CharacterAssumption ==
  /\ LONG_MAX >= 9 /\ BUFSIZ \in Nat \ {0}
  /\ Letters \cap (TheLexer!Spaces \cup TheLexer!Digits \cup TheLexer!Punctuation \cup {"#"}) = {}
  /\ Blanks \cap (TheLexer!Digits \cup TheLexer!Punctuation \cup {"#", TheLexer!Newline}) = {}
  /\ Others \cap (TheLexer!Spaces \cup TheLexer!IdentTail \cup TheLexer!Punctuation \cup {"#"}) = {}
  /\ TheLexer!NUL \notin TheLexer!Characters
  /\ Codes \subseteq Seq(TheLexer!Characters)
  /\ \A name \in DOMAIN Spelling : Spelling[name] \in Seq(TheLexer!Characters)

Names == DOMAIN Spelling \cup {Unknown}
Identifiers == {name \in DOMAIN Spelling : IsIdentifier(Spelling[name])} \cup {Unknown}

\* One name can be found at most, as names are spelled differently.
TheName(found) == IF found = {} THEN Unknown ELSE CHOOSE name \in found : TRUE

\* The name in the code, and the one that token.name points to now.
NameSpelled(text) == TheName({name \in DOMAIN Spelling : Spelling[name] = text})
NameInCode(k) == NameSpelled(SubSeq(code, delivered[k].start + 1, delivered[k].end))
NameInMemory == TheName({name \in DOMAIN Spelling : TheLexer!InMemory(Spelling[name])})

\* The name of the current token is looked up in memory; the parser has done
\* with those of earlier ones.
IsCurrent(k) == k = Len(delivered) /\ at = "idle" /\ state # "ERROR"
Read ==
  [k \in DOMAIN delivered |->
     [type  |-> delivered[k].type,
      value |-> IF delivered[k].type # "IDENT" THEN delivered[k].value
                ELSE IF IsCurrent(k) THEN NameInMemory ELSE NameInCode(k)]]

TheParser == INSTANCE Parser WITH read <- Read, Numbers <- 0..LONG_MAX

\* The arguments are as in Parser.
ASSUME ArgumentAssumption ==
  /\ ArgLists \subseteq Seq(Names)
  /\ Nothing \notin [node : TheParser!NodeRecord, from : Nat, to : Nat]

Init == TheLexer!Init /\ TheParser!Init

-----------------------------------------------------------------------------
\* (mutation) The next token is read as soon as the last one is consumed.
CallLexerEarly == TheLexer!Call /\ UNCHANGED <<parserVars, error>>

\* parser_peek_token has no token and calls parse_token.
CallLexer ==
  /\ TheParser!Peeks
  /\ TheLexer!Call
  /\ UNCHANGED <<parserVars, error>>

\* parse_token goes on.  If it fails, so do all the calls above it.  If it has
\* written over the end of the buffer, the behaviour ends there.
ScanOn ==
  /\ TheLexer!Scan
  /\ error' = IF state' = "ERROR"
              THEN [code |-> lexError'.code, from |-> Len(delivered) + 1, to |-> Len(delivered) + 1]
              ELSE error
  /\ UNCHANGED parserVars

ParseOn ==
  /\ at = "idle"
  /\ UNCHANGED lexerVars
  /\ TheParser!Descend

Terminated == (TheParser!Stopped \/ at = "overrun") /\ UNCHANGED vars

Next == CallLexer \/ ScanOn \/ ParseOn \/ Terminated

Spec == Init /\ [][Next]_vars

-----------------------------------------------------------------------------
(***************************************************************************)
(* Properties                                                              *)
(***************************************************************************)

\* parser->error_info.code, in characters.
ErrorRange ==
  IF lexError.code # "NONE" THEN [start |-> lexError.start, end |-> lexError.end]
  ELSE [start |-> delivered[error.from].start, end |-> delivered[error.to].end]

Report == INSTANCE ErrorReport WITH
  error <- ErrorRange, heading <- [lineno |-> 0, column |-> 0],
  lineno <- 0, index <- 0, report <- <<>>, at <- "start"

\* The lexer is an environment such as Parser assumes, so that everything that
\* is checked and proved of Parser holds of the code as it is written.  That
\* fails if the buffer's string changes while the parser still needs it.
ImplementsParser == TheParser!Spec

\* What the scanner sees of the parser's state: when the parser is done or has
\* found an error, it asks for no more tokens.
SeenByLexer ==
  IF state \notin {"DONE", "ERROR"} \/ lexError.code # "NONE" THEN state
  ELSE IF delivered # <<>> /\ delivered[Len(delivered)].type = "EOF" THEN "READY"
  ELSE "PENDING"

\* The parser is a caller such as Lexer assumes, so that what is checked and
\* proved of Lexer holds here.  That fails if the parser consumes what it has
\* not been given, or goes on behind the end of the code.
AsLexer == INSTANCE Lexer WITH error <- lexError, state <- SeenByLexer
ImplementsLexer == AsLexer!Spec

\* Every error in the code has a range from which parser_print_error can
\* start: see Reportable.
ArgErrors == {"ILLEGAL_ARG_NAME", "DUPLICATED_ARG_NAME"}
ErrorsAreReportable ==
  (state = "ERROR" /\ error.code \notin ArgErrors) => Report!Init
=============================================================================
