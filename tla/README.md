# parser_example in TLA+

A verification development for `parser_example`, a small C program that parses an
integer expression over named arguments, optimizes its syntax tree, compiles it
to the code of a stack machine and runs tree and code. Paths below are those of
the repository with the prefix `src/`: `src/src/parser.c` is its parser.

## 1. The system

`main()` takes the argument names and values and an expression and works in a
straight line. There is one thread and there are no callbacks; what the
components share is the node array and, between compiler and machine, the code.

    source text --parse_token--> tokens --parse_slice--> AST --optimize--> AST
                                                                |
       ast_eval (before and after optimize) <-------------------+
                                                                |
       bytecode_print, bytecode_eval <--code-- bytecode_compile-+

| component | state | operations | what is hard | what makes it correct |
|---|---|---|---|---|
| Lexer (`parser.c:39-55`, `119-227`) | index in the code, the token, a buffer for its name | `parse_token`, `parser_skip_ignoreable` | a name lives in a buffer that the next name overwrites, and that may be too small for it; the overflow check of digits; five loops that may meet the end of the code | every number that fits is accepted and no other; tokens and ranges are the code; the name read is the name of the token |
| Parser (`parser.c:233-615`) | `state` (PENDING, READY, DONE, ERROR), the token, the node array, the error, and the C stack | `parse_slice`, `parse_expr`, `parse_add_sub`, `parse_mul_div`, `parse_signed`, `parse_atom`, `parse_paren`, peek, consume, append | who consumes which token; `left_index` is kept in a stack frame while other nodes are appended; failure at every append; signs applied to constants; a divisor is 0 only after folding | the AST is a tree and means what the grammar says; errors are found at the first bad token and located where they are |
| AST (`ast.c`, `ast.h`) | node array, root last | `ast_append_node`, `ast_eval`, `ast_destroy`, printing | nodes refer to each other by index; size arithmetic of the growing array | the array holds its nodes; indices are in range |
| Optimizer (`optimizer.c`) | the node array, rewritten in place, and the C stack | `optimize` → `node_optimize_recursive` → `node_optimize` | a rewriting changes a node and a child through pointers taken before; after it the rebuilt child must be optimized again; rewritings might undo each other | stays a tree, computes the same, leaves nothing to rewrite, ends |
| Bytecode (`bytecode.c`) | code buffer, stack size; in the machine code pointer and stack | `bytecode_compile`, `bytecode_print`, `bytecode_eval` | stack size worked out from the tree; opcodes and operands are told apart only by walking; memory can run out between the two | no overrun, the result of the AST, the listing is what is run, failure is recognisable |
| Buffer (`buffer.c`) | bytes, used, capacity | `buffer_append`, `buffer_append_byte`, `buffer_clear`, `buffer_destroy` | `size_t` wraps; one doubling must be enough, and is not for a piece longer than `BUFSIZ` | what was appended lies in the memory |
| Error report (`parser.c:57-117`, `666-731`) | none | `get_location`, `get_line_start`, `get_line_end`, `get_line_range`, `parser_print_error` | newline and end of input; errors over several lines; nothing is checked before it is subtracted | the lines of the error are printed, each once, and what is wrong is marked |
| Driver (`main.c`) | exit status, the resources of all others | `main` | one step of several failing; each component trusts what the one before it returns | every component is given what it assumes; the results agree; status and release of memory on every path |
| Tests (`tests/`) | | | | read as statements about the program |

The hazards of the code are listed line by line in `PROJECT.json`. Nothing is
stored and nothing runs concurrently: no crash recovery, no interleaving. What
this code risks is long sequences of legal calls, values read too early or too
late, failure in the middle, and numbers at their limits.

## 2. The modules

| module | models | remarks |
|---|---|---|
| `LongArith` | `long`: wrapping +, -, \*, negation; truncating /, which traps on a zero divisor and on LONG_MIN / -1 | width is a constant |
| `Ast` | `struct Ast`, `node_eval`, `node_print` | an AST is a sequence of records; position *i* is array index *i-1*; `ParsedShape` is what the parser returns |
| `Forest` | abstract specification: building a tree by appending nodes | implemented by `Parser` |
| `Parser` | the recursive descent, over any tokens | see below |
| `Lexer` | `parse_token`, `parser_skip_ignoreable`, `parser_peek_token`, `parser_consume_token`, by characters | see below |
| `Frontend` | `parse_string`: `Lexer` and `Parser` composed | implements `Parser` |
| `ErrorReport` | finding the lines of an error, printing them and marking it | starts from any range that an error can have; `Frontend` shows that errors have such ranges |
| `Driver` | `main()`: `Parser`, `Optimizer` and `Bytecode` composed on one node array | instances with their own variables |
| `Language` | tokens, and the grammar of `parser.h:14-24` as the set of values a token sequence can mean | says nothing of a call stack |
| `Grammar` | compares `Parser` with `Language` | `Driver` does the same for the whole program |
| `Optimizer` | `optimizer.c` | one step is one pass through the loop of `node_optimize` |
| `Bytecode` | compiling, listing, running | one step per instruction written, listed or executed |
| `Storage` | the two growing arrays and `size_t` | |
| `SmallAsts` | sets of trees for the instances | |
| `MC*` | instances for TLC | |
| `AstProofs` | theorems about recursive functions, the arithmetic, `Ast` and `Language` | used by all the others but `ErrorReportProofs` |
| `OptimizerProofs`, `BytecodeProofs`, `ParserProofs`, `LexerProofs`, `ErrorReportProofs` | theorems about the components | `ParserProofs` has those about `Forest` too |
| `FrontendProofs` | theorems about the composition of lexer and parser | instantiates `LexerProofs` and `ParserProofs` |
| `DriverProofs` | theorems about `main()` and, at its end, about `Storage` | instantiates `ParserProofs`, `OptimizerProofs` and `BytecodeProofs` |

**Parser.** `frames` is the C call stack. A frame records which function it is
and how far it has got (`"sum"` and `"sum right"` are `parse_add_sub` in its loop
and in the call for the right operand; `"product"` the same of `parse_mul_div`;
`"signed"` is `parse_signed` with `parse_atom`; `"paren"` is `parse_paren`;
`"arguments"`, `"expr"`, `"end"` are `parse_slice` and `parse_expr`) and the local variables that
survive a call: `left_index`, the operator, the sign, the kept source range.
`result` is the node on its way to the caller through a pointer. A step runs from
one use of a token or one return to the next. Failing ends the parse at once,
because every caller returns false at once. The lexer is the environment:
`Peek` delivers any token, `PeekFails` any of its errors. Source ranges are
counted in tokens instead of bytes. `Parser` and `Driver`, which take tokens from their environment, are about runs in which
the lexer returns: where it overruns its buffer, `Frontend` ends, and so does what they say of the program.

**Lexer.** One step passes one character, or decides what begins or ends at one.
`at` is the place in `parse_token`: in the loop that skips white space, in a comment, in
a number, in a name, or not in it. `token` changes field by field, as in C. `memory` is what
lies at `parser->buffer.data`: a name is written over the one before, and only the 0 byte
behind it ends it. `capacity` is the size of the block there, which each of the two appends (the name,
the 0 byte) makes larger by one doubling at most, as `buffer_append` does (`Grown`). `EndName` is the case in
which that is enough. If it is not, `memcpy` writes the name over the end of the block (`Overrun`): from there on the
behaviour of a C program is undefined, so `at` becomes `"overrun"`, the behaviour ends, and nothing is said of what would follow.
`delivered` is a history of the tokens. The characters are in
classes (`Letters`, `Blanks`, `Others`); digits and operators stand for themselves.

**Frontend.** The variables of `Lexer` and `Parser`, with `state` in common.
`CallLexer` is `parser_peek_token` when there is no token, `ScanOn` the steps of
`parse_token`, `ParseOn` those of the parser. The refinement mapping `Read` is
where the two differ: the parser's identifier is not what the lexer saw in the
code but the string that lies in `memory` at the time, because this is what
`parse_atom` compares with the arguments. `ImplementsParser` says that the result is
a behaviour of `Parser`: the whole descent with its lexer is one of
those with any lexer, and everything checked and proved of `Parser` carries over. `ImplementsLexer`
says the same of the other side: the parser is one of the callers that `Lexer` allows. Here the mapping
is `SeenByLexer`: to the scanner a parser that is done, or has failed, only asks for nothing more.

**ErrorReport.** The range of an error is chosen among the ranges that satisfy `Reportable`: it
lies within the code, in order, starts and ends with a character that is no newline,
or is empty at the end. That is the assumption of this module and the guarantee of
`Frontend` (`ErrorsAreReportable`), so that the two together cover every error in the code.

**Driver.** `phase` is the place in `main()`. `ParseOn`, `OptimizeOn` and
`MachineOn` take the steps of the instances `TheParser`, `TheOptimizer` and `TheMachine`;
the others are `main()`'s own statements between them. `held` is the memory that is
allocated, `values` the three results. `collapsed` is a history variable: the double
negation has been rewritten, after which nothing is said of the results that follow. The environment's values
are read one by one: each name occurs once, so that reading them when they are needed is the same as
choosing them beforehand.

**Optimizer.** `stack` is the C stack of the recursive walk and of the nested
`node_optimize` calls. `Rule(n)` is the if-else chain of `node_optimize`: which branch is
taken; each branch is an action that writes one node or two and says how the
pass ends: `Return`, `Continue` or `Redo(child)`.

**Bytecode.** The code is a sequence of words. `phase` follows `main()`:
compile, print, evaluate. Every write may run out of memory, also between an
opcode and its operand; allocating the machine's stack may fail.

**Storage.** The state is used and capacity of both arrays, and the size of the
block `array->nodes` points to; `appended` and `longest`, the largest size there was in one call, are history variables. Sizes
are not bounded by `BUFSIZ`. The arithmetic is
modulo `SIZE_MAX + 1`. The specification is called `StorageSpec`, so that a module can extend `Storage` beside another
component's.

An operator whose comment starts with *(mutation)*, or carries it at its line end,
is not part of a model: it is a plausible wrong version of the definition
that follows it, kept to show that a property notices.

## 3. The runs

Most runs use 3-bit `long`s (`LONG_MAX = 3`) where values matter: small enough
to enumerate, and every sum of two constants can wrap. The lexer needs at least
9 for a digit to be a `long`, as in C.

| run | what it checks | bounds and why they are enough |
|---|---|---|
| `optimizer` | `TypeOK`, `TreeShaped`, `SubtreesStayOptimized`, `ResultIsOptimized`, `NoDivisionByZero`, `ValuePreserved`, `Terminates` | all trees of up to three leaves with the constants 0, 1, 2, two variables and negations; four leaves within sums and within products. A rule looks at a node, its children and theirs, so three leaves fire every rule, and four let a rebuilt child meet a second rule with a constant on each side |
| `bytecode` | `TypeOK`, `StackSafe`, `OnInstruction`, `RunsTheAst`, `FailureIsMarked`, `ListsTheAst`, `Terminates` | trees of up to three leaves and right-nested ones of four or more, each also with its nodes in reverse order as the optimizer leaves them; operands that look like opcodes |
| `parser` | `TypeOK`, `TokenInHand`, `ParsesToATree`, `MeansTheCode`, `SyntaxErrorsAtFirstBadToken`, `ErrorsAreLocated`, `BuildsAForest`, `Terminates` | every sequence of up to seven tokens: three operands with both operators between, two with signs, nested parentheses; three argument lists, among them a duplicated name and one that is no identifier; every loop of the parser, and every failure, through several rounds |
| `lexer` | `TypeOK`, `ReadsTheCode`, `NumbersAreExact`, `NameIsCurrent`, `ShortNamesFit`, `Answers` | every code of up to five characters out of eight, one of each class and a second letter: two tokens with a comment, a newline or a space between, a long name before a short one; every number of up to four digits around `LONG_MAX = 127`, whose last digit is neither 0 nor 9; every pair of operators. `BUFSIZ = 2`, so that a name may fit in the first block, in one of twice the size that an earlier name has left or gets, or in neither |
| `frontend` | `ErrorsAreReportable`, `ImplementsParser`, `ImplementsLexer` | every code of up to four characters out of twelve and of up to five out of six; `LONG_MAX = 15`, so that two digits may or may not fit; two names of which one begins like the other, and names that no argument has; `BUFSIZ = 3`, which some names overrun |
| `report` | `PrintsTheLines`, `MarksTheError` | every code of up to eight characters, newlines or not, and every range in it, so errors over one line, two and three, with empty lines between, and at the end behind a newline |
| `driver` | `InterfacesFit`, `PrintsWhatItComputes`, `ComputesTheMeaning`, `ResultsAgree`, `StatusTellsTheOutcome` | every sequence of up to five tokens, among them `-(-x)` and `x/-1`; two arguments with values at both ends of `long`, 0, and a number that is no `long`; every failure on the way |
| `storage` | `BufferHoldsAll`, `NodesFit` | a `size_t` of five bits; both arrays grow until a guard stops them; pieces of up to twice `BUFSIZ = 7` and one byte more |
| `double_negation`, `constant_overflow`, `negative_limit`, `long_name` | one property each, violated | see section 5 |

What `MeansTheCode` says: the value of the AST under several environments is the
one value that the grammar derives for the tokens. `SyntaxErrorsAtFirstBadToken`:
what was read before the offending token begins a sentence of the grammar and
with that token it does not. `ValuePreserved` compares the value of the whole tree
before and after every single rewriting, for inputs on which the original
program computes something; the double negation is excepted, being wrong.

`ReadsTheCode`: each token is the longest that stands where the one
before it, white space and comments end; an illegal character is one that
begins no token there. `NumbersAreExact` compares with the decimal value computed without
overflow. `PrintsWhatItComputes`: the printed tree, read as code of the same
grammar, means what the tree computes, before and after optimizing. `ComputesTheMeaning`: what `ast_eval` returns is what
the grammar says of the code. `ResultsAgree`: the optimized tree and the machine come to the same as `ast_eval`,
unless a double negation has been rewritten.
`StatusTellsTheOutcome`: status 0 says that all results that there are agree, 1 that something went
wrong, and memory is left allocated only where `calloc` fails.

**Bounds.** `MaxTokens` caps the length of the code in `Peek`, nothing else is
capped: `Inputs`, `ArgLists`, `Numbers` and `MaxAppend` choose inputs.

**The buffer.** A single doubling makes room for what is appended only up to `BUFSIZ` bytes. The bytecode appends 8 bytes at
once, and C has a `BUFSIZ` of at least 256; the lexer appends a whole name, of any length. So there are three properties.
`BufferHoldsAll` (run `storage`): `used` never wraps around, and unless a piece was longer than `BUFSIZ`, nothing
lies outside of the memory; this is what the bytecode relies on. `ShortNamesFit` (run `lexer`): what the lexer has
written lies in the block, and only a name longer than `BUFSIZ` can run over the end, whatever names came
before it. `NamesHaveRoom` (run `long_name`): no name does; TLC finds one (section 5).

**Fairness.** `Terminates` assumes `WF_vars(Next)`: the program is one thread that
runs whenever it can. No step waits for anything outside it; the lexer's text
is finite, and this is the bound on `Peek`. `Answers` (every call of `parse_token` returns, or overruns the buffer)
needs less: `WF_vars(Scan)`, fairness of the scanner alone, since its caller may
stop asking.

**Deadlock** is checked: the end of each program is a stuttering action `Terminated`.
`Storage` never ends.

## 4. What is proved

TLAPS checks these for all values of the constants that satisfy the named
assumptions: `LongAssumption` (`LONG_MAX` is at least 1), `ParserAssumption`,
`GrammarAssumption` (there are values for the identifiers, and they are `long`s), `StorageAssumption`, `DriverAssumption` (argument names are names, numerals are no negative `long`s, the value
that stands for no result is no number), `LexerAssumption`, `ReportAssumption` (code is a string), `FrontendAssumption`, `ArgumentAssumption` (argument lists are
lists of names) and `CharacterAssumption` (names are
spelled differently and without a 0 byte), and the two called `InputsAssumption`, which say what
`main()` hands on: the optimizer gets an AST of the shape that the parser returns, the
compiler a well-formed, acyclic one, which is all that the optimizer leaves of that shape
(nodes that are not used any more stay in the array). `InterfacesAlwaysFit` proves in `Driver`, where the
components are put together, that these are met; `ParsedIsAcyclic` proves that the
shape of a parsed AST implies the other.

*Storage.* `BufferIsSafe` (`BufferHoldsAll`) and `NodesAreSafe` (`NodesFit`), for
every `SIZE_MAX`, `BUFSIZ` and node size, and appends of any size (at the end of `DriverProofs`). `BufferHoldsAll` is not
inductive alone: as long as no piece was longer than `BUFSIZ`, doubling makes enough room, but only because a capacity other than 0
is at least `BUFSIZ`. That `used` is the sum of the sizes holds for longer pieces, too. For the nodes the strengthening says that the capacity in
bytes can be represented and that the guard `capacity <= SIZE_MAX / 2 / size`
keeps it so after doubling.

*Forest.* `IsForest`: appending nodes after their children, no child claimed
twice, keeps `ForestShaped`. `OneRootIsTree`: with one unclaimed node, the last, that
is `ParsedShape`.

*Parser.* One inductive invariant, `IInv`, carries four theorems:
`KeepsTypes` (`TypeOK`), `ParenHasToken` (`TokenInHand`), `ImplementsForest`
(`BuildsAForest`) and `ParsesTree` (`ParsesToATree`). They hold for code of any length and any
argument list. None of the four properties is inductive. What is added:

  - `IsStack`: each call on the stack is one that the call below it makes
    (`Calling`). This gives that `"expr"`, or another call of `parse_slice`, is at
    the bottom and nowhere else, and that a node that comes back to `parse_paren`
    comes from the loop of `parse_add_sub`;
  - `DifferentLefts` and `Held(result) \cap OpenLefts(frames) = {}`: the left operands that
    wait on the stack are different, and no child of the node on its way
    is among them, so that a new binary node claims two unclaimed nodes;
  - `PastALoop`: a node that has left a loop has a token in hand;
  - `IsPlain` of the nodes in the array and of the one on its way: what is negated is
    no constant and no divisor is the constant 0;
  - no constant is LONG_MIN, so the negation in `parse_signed` does not overflow.

The steps are of two kinds. `MoveStep`: nothing is appended, and the unclaimed nodes
stay the same; a stuttering step of `Forest`. `AppendStep`: the node on its way is
appended; a step of `Forest`. One lemma per action (`OnSign`, `OnOperator`, ...)
shows that it is one or the other; the error exits are `FailStep`. `ParsesTree`
rests on the theorems about `Forest` through the parser's refinement mapping.

The fifth, `ComputesTheGrammar` (`MeansTheCode`), says that the descent computes what the grammar
means. In the middle of a parse there is no sentence yet to compare with. So the invariant `Sound` speaks
of every code that continues what is consumed so far (`Continues`), and says how the calls divide it
(`Stands`): the call in frame *k* has begun at token `starts[k]`; what it has left behind on the
stack, a left operand with its operator, signs, an open parenthesis, means what the nodes
stored for it compute (`FrameMeans`); and if the node on its way with the rest is such a part, so is the whole of what
its caller waits for. Each action has a lemma (`SignMeans`, `OperatorMeans`, ...) that divides the same code once more. When
a node is returned, its tokens mean exactly what it computes under every environment (`TopMeans`), and at the end
that is the code. `MeansTheCode` also says that the code means nothing else: this is not a fact about the parser but about the
grammar, see `MeaningIsUnique` below. Nodes that are appended later do not change what the ones before compute
(`ValuesGrow`).

Two more are about errors. `SyntaxErrorsAreFirst` (`SyntaxErrorsAtFirstBadToken`): where the parser reports an illegal
token or a missing parenthesis, what has been consumed begins a sentence, and together with the token in hand it does not
(at the end of the code: it is none yet).
`ErrorsStandWhereTheyAre` (`ErrorsAreLocated`): the range in `error_info` is the code that is wrong. There are two
halves.

  - *What has been consumed begins a sentence.* `Sound` holds of every code that continues it, so also of its completion (a
    number if an operand is due, then the missing parentheses), which the property names. `ClosesUp` carries
    the part that is due, the number or the part that has just been finished, from the top of the stack through the calls below and
    the parentheses to the whole code. That these are as many as there are open parentheses on the stack is
    counting: the number of open ones is a height, which rises by one behind `(` and falls by one
    behind `)` (`IsHeight`, `OpenIsHeight`), and `StartsAre` gives it where each call began.
  - *No sentence goes on with the token.* This is a fact about the language. `PartsAreWellFormed` (in `AstProofs`): in every part
    of a code each two neighbours may follow each other (`Follows`), and no parenthesis is closed that is not
    open. `NoSentenceGoesOn` applies it to the token consumed last and the one in hand. To know which tokens these are, the
    invariant `Settled` adds what `Sound` does not say: an operator of a call that has returned is no longer in hand
    (`PastOperators`), a divisor begins right behind its operator, and behind a constant there are only closing
    parentheses (`DivisorIs`). The last is why the range of a divisor 0, which leaves out the parentheses that close
    behind it, means 0 under all arguments once they are added.

When an error is set nothing changes any more, so what held then holds for good (`ErrorsHold`).

*Lexer.* `LexerTypes` (`TypeOK`), `TokensAreTheCode` (`ReadsTheCode`),
`NamesAreCurrent` (`NameIsCurrent`), `ShortNamesHaveRoom` (`ShortNamesFit`) and `NumbersHaveTheirValue` (`NumbersAreExact`), for code of any length over any character
set in which the classes are disjoint, every `BUFSIZ` from 1 on and every `LONG_MAX` from 9 on. `TypeOK` is inductive by
itself once `FitsIsExact` shows that the check before a digit is added lets exactly
the `long`s pass; so neither the product nor the sum wraps. For the next two the
invariant `IInv` says what lies between the last token and the index (`WhereItIs`):

  - while skipping, white space and comments (`Skipped`), and a comment is open only where
    the next character ends it. This is what makes it right to look for a token after a
    comment without having passed its newline;
  - inside of a number or a name, characters of that kind from the token's start on
    (`Within`), the first of them seen already, so that the token is not empty;
  - between calls, the index is where the last token ended.

`CommentGoesOn` and `SkipOneMore` say what one more character does; `OnDeliver` and
`OnFail` reduce every token and every error to two facts, that what comes before it can be
ignored and that it is a token. `OnEndName` is where the buffer comes in: the name
and the byte behind it are written over whatever was there. A name for which the block is too small becomes no token
(`Overrun`), so these theorems are about the tokens up to there.

`ShortNamesHaveRoom` has an invariant of its own, `BlockInv`: what is written lies in the block, and a block, once there is one, has
at least `BUFSIZ` bytes. Hence a name no longer than that and its 0 byte have room (`ShortNameFits`), and what is written
where there is room lies in the block, also after longer names and failures (`WriteStaysInBlock`).

`NumbersHaveTheirValue` has an invariant of its own, `Exact`: between calls every number that was
delivered, and inside of one the digits read so far, have the value of their numeral;
and where the scanner gave up on a number, the numeral up to there is still a `long` and with the next digit it is more than `LONG_MAX`. The value of
a numeral, `Decimal`, is a recursive function over the length; `Recurrence` (in `AstProofs`) gives its equations,
`SameDecimals` says that it depends on the digits only. One more digit either fits, and
`FitsIsExact` and `WrapSmall` turn the wrapped product and sum into those of the integers, or the
numeral has become too large.

*Frontend.* `CallsTheLexer` (`ImplementsLexer`) and `DeliversTheTokens` (`ImplementsParser`), for code of any length,
any argument lists and names: the two refinements that make the theorems about `Lexer` and `Parser` theorems
about `parse_string`. Neither follows from the steps alone; three invariants are needed:

  - `Caller`: the scanner runs only while the parser peeks, the token that the parser has is the one
    delivered last, and nothing is asked for behind `EOF`;
  - the invariant of `LexerProofs`, which the first refinement carries over, so that `NameIsCurrent` and
    `ReadsTheCode` hold here. From them comes that the name in memory is the name in the
    code (`ReadIs`) and an identifier (`NameIsIdentifier`): what the parser reads through the buffer is what
    the lexer saw, as long as the token is the current one, and `ReadGrows` says that older tokens
    never change;
  - `Counted`: there are at most as many tokens as characters, so the bound in `Peek` costs nothing.

Two theorems more are about errors and results of the whole. `CodeParsesToATree`: what `ParsesTree` says of any tokens,
said of any text. `ErrorsHaveRanges` (`ErrorsAreReportable`) has its argument in both halves:

  - of the parser, `RangesHold` (`Located`, in `ParserProofs`): every call in progress has kept the start of a token
    that is read or about to be read, and these starts do not decrease from one call to the next; the node on its
    way begins where its caller's range begins or behind it, and ends before the token in hand. So each error exit
    stores a range of tokens in order; `parse_paren` needs `PastALoop` for this, to have a token in hand;
  - of the lexer, `TokensInOrder` and `ErrorsAreSolid` (in `LexerProofs`, from `ReadsTheCode`): tokens follow each other, and
    tokens and errors begin and end with a character that is no newline (`Solid`), or are empty at the end of the code.

A range from the start of one token to the end of a later one is then `Reportable`.

*Error report.* `LinesArePrinted` (`PrintsTheLines`) and `ErrorsAreMarked` (`MarksTheError`), for code of
any length and every range that is `Reportable`. All the functions that look for lines are put in terms of the
newlines between two indices (`Breaks`): `memchr` and `memrchr` find the first and the last of them, their number counts the
lines (`LinesGrow`, `LineBreaks`), and the loop of `get_location` comes to their number and to the last
of them (`RoundIs`, `LocationIs`). The properties are not inductive: the invariant adds that, as long as there is a line to
print, the printer stands where a line with this number begins (`StartsLine`), and a line begins at one index
only (`OneBegin`). `NextLineIsRight` is the case by case argument about the carets; that the end of a line is an index
where a length is meant (section 5) does no harm to the characters themselves. With `ErrorsHaveRanges` this covers every
error that the code can lead to.

*Recursion and Ast.* A definition such as `NodeEval` tells the provers nothing until it is
known that a function with these equations exists. The lemma `RecursiveFunction` shows it for
all definitions over a structure in which nothing rests on itself (`WellFounded`),
by joining the solutions on parts of the structure; `Recurrence` is the case of an interval of
integers. Two facts follow from it:
`NodeEvalIs`, every node of an acyclic AST has a value and this is the one `node_eval` computes from
its children; and the lemma `SubtreeIsInside`, the recursively defined `Subtree` stays in any set of nodes that
holds the children of its members. Induction over an AST is then: among the nodes for which
something is wrong there is one of which the children are right (`Acyclic`).

*Language.* `DenotationsAre`: the parts of a code have exactly the meanings that the rules of the grammar give them. It rests on
`RecursiveFunction`, since each rule speaks of shorter parts, or of as long ones further down in the
grammar. `MeaningIsUnique`: no code has two meanings under one environment, for code of any length; the grammar is
unambiguous. The argument is that of two parts with the same start the longer one goes on with
an operator that the shorter one could not take (`PrefixGoesOn`), so that a chain is split at one place only
(`OneWay`). `PrintedMeansTheAst`: the text that `node_print` writes for an AST means, as a code, what `ast_eval`
computes, whatever the shape of the AST: the parentheses that it sets are enough. `PartsAreWellFormed` says which tokens can
stand next to each other in a part and that its parentheses match; the parser's errors rest on it.

*Bytecode.* `TypesHold` (`TypeOK`), `StackIsSafe` (`StackSafe`), `WalksStayOnInstructions` (`OnInstruction`),
`RunsMatchTheAst` (`RunsTheAst`), `FailuresAreMarked` (`FailureIsMarked`) and `ListingIsTheAst`
(`ListsTheAst`), for every
acyclic AST of any size: the machine computes what `ast_eval` computes, traps only where it does,
and never leaves its stack, and what is listed is the whole tree in postfix order. None is inductive, because what the machine does depends on
what the compiler has written long before. The invariant annotates the code: a *marking* tells
for each place at which an instruction begins of which nodes the values will be on the
stack there (`IsMarking`). Each instruction is that of a node whose operands are the last
of these, and no place has more of them than `stackSize`. The compiler's steps extend the
marking; its C stack says how it will go on (`CallsOK`: each call waits for the value of a node
at the depth it was told, above what the calls below it have left). The walks of
the printer and of the machine step from one marked place to the next; the values on the stack are those
of the nodes in the mark (`Holds`). `Fatal` takes care of division: a node with
an instruction cannot trap unless the whole program does.

For the listing a second invariant, `Lists`, is carried along the same marking: when the printer stands on a
marked place, it has listed the subtrees of the nodes in the mark, one after the other (`IsListing`). The
instruction of a node closes the lists of its operands to its own (`EntryCloses`), and at the
RET only the root is left.

*Optimizer.* `TypesHold` (`TypeOK`), `StaysATree` (`TreeShaped`), `SubtreesAreOptimized`
(`SubtreesStayOptimized`), `ResultsAreOptimized` (`ResultIsOptimized`), `NeverDividesByZero`
(`NoDivisionByZero`) and `KeepsTheValue` (`ValuePreserved`), for every parsed AST. The invariant has
three parts:

  - `Shape`: the array is acyclic; there is a set `T` of nodes with the root in which no node is a
    child twice (`IsTree`); the calls stand on a path down from the root (`OnPath`). `TreeShaped`
    is not inductive without the path: a rewriting would be seen by a call elsewhere;
  - `StaysOptimized`: the children that a call is done with are optimized, that is, they lie in a
    set closed under children in which no branch applies (`Optimized`). A rewriting does
    not disturb those sets, because in a tree they lie beside the path;
  - `TrapIsOverflow`: a trap happens at LONG_MIN / -1.

The branches come in few kinds, and a lemma for each kind says what it keeps: `CopyKeeps`, `ConstantKeeps`,
`MergeKeeps` and `MoveKeeps` show that what is handed to the rewritten nodes stood below them, each node
once (`Spares`, `Rearranges`); `ReturnKeeps`, `StayKeeps` and `CallKeeps` show that
the pass may end as it does: a branch that returns leaves a node to which no branch applies, and
one that calls itself for a child has only that child to optimize.

`KeepsTheValue` is an action property, shown of each branch from the same invariant. The rewritten node
computes what it computed before whenever that was no trap (`Agrees`): for this there are the laws of
wrapping arithmetic, which hold for every `LONG_MAX` (`SumOnTheRight`, `SumOnTheLeft`, `ProductsMove`,
`NeutralOperands`, `FixedResults`). The nodes below keep their values (`UntouchedKeepValues`), and the ones above
fail as before or agree (`OthersFailOrAgree`), by induction over the AST. A branch that
rebuilds a child changes what that child computes; only because the array is a tree is
it used by no other node (`RewriteAgrees`). The branch for a double negation is excepted, as
in the property; section 5 says what it does.

*Driver.* `InterfacesAlwaysFit` (`InterfacesFit`), `ResultsAlwaysAgree` (`ResultsAgree`) and `StatusIsTheOutcome`
(`StatusTellsTheOutcome`), for every command line, environment and code of any length: what is proved of
the components holds of them in `main()`. `DriverProofs` instantiates the components a second time, with the
theorems about them and with everything the one before can hand on as their `Inputs`; `SameParser`, `SameOptimize` and `SameMachine` show
that a step of the ones is a step of the others. Each phase of `main()` has its part of the invariant `IInv`:

  - while parsing, the parser's own invariant, and that nothing else has begun (`Waiting`): the optimizer and the
    machine can then be started in their initial states;
  - when parsing has ended without an error, the nodes are those that `ParsesTree` speaks of (`TreeIsParsed`), which is what
    the optimizer's initial states are made of;
  - while optimizing, the optimizer's invariant, and that the AST still has the value `ast_eval` gave for it. For each
    step that is `NodeStepAgrees`, from `KeepsTheValue`; and a step that traps would have to be at a node of which the
    value is needed, so that `ast_eval` had trapped before (`TrapsLikeTheProgram`);
  - afterwards, that the AST is acyclic and optimized (`TreeIsCompiled`, `OptimizedAtEnd`), which is where the compiler starts, then the
    invariant of the compiler and the machine, until `MachineLeaves` says what the answer is;
  - at the end (`Outcome`, `Ends`), that `status` is a function of the results alone (`StatusOf`): an error that the
    first comparison finds is not forgotten by the second.

Two theorems more carry the meaning of the code through the program. `TheMeaningIsComputed` (`ComputesTheMeaning`): the first
result that `main()` prints is what the grammar says that the code means for the values on the command line; by
`ResultsAgree` so are the others, where they are compared. `ThePrintIsTheTree` (`PrintsWhatItComputes`): the trees that it
prints, before and after optimizing, are code again and mean what they compute. The first carries the parser's `Sound` until the tree is
evaluated (`Understood`), the second rests on `PrintedMeansTheAst` and on the names of the arguments being different
identifiers (`NamesFit`), which the parser has seen to.

The properties are read off each of these parts. `ResultsAgree` needs that the phases before have kept it, since a
result is set in one phase and compared in another.

*Only model-checked:* liveness, `Terminates` of the optimizer, the bytecode and the parser and `Answers` of the lexer, which is out of the prover's
reach. Every other property of a run that passes is the subject of a theorem. TLC and the proofs do not cover the same
ground: the theorems are about the definitions as written, and only a run shows that what they speak of happens.

## 5. Where code and words disagree

  - `optimizer.c:546`: a double negation is replaced by its child, which is a
    negation, so `-(-x)` is optimized to `-x`. `tests/test.h:128` asserts and
    `main.c:82` checks that the optimized result is the original one
    (run `double_negation`).
  - `optimizer.c:317`: folding LONG_MIN / -1 raises SIGFPE in the optimizer; the
    comment at `optimizer.c:45-47` relies on overflow being defined on x86
    (run `constant_overflow`).
  - `parser.c:488`: `-9223372036854775807` is refused as "value out of range"
    (`parser.c:657`), although it is a `long` (run `negative_limit`).
  - `parser.c:197`: the rule for `IDENT` (`parser.h:21`) has names of any length, but `buffer_append` does not
    look whether `BUFSIZ` bytes, or one doubling, are enough (`buffer.c:37-39`), so that a longer name is written over the end
    of the block (`buffer.c:51`; run `long_name`).

Not disagreements, since no word of the repository says otherwise, but worth knowing:

  - `parser.c:714`: in a line that is not the last one of its error, the end of
    the carets is the *index* of the line's end, not its length; from the second line of the
    code on there are more carets than characters. `MarksTheError` therefore asks for no more than
    the characters themselves in such lines.
  - `main.c:47`: a number that is no `long` is taken as the nearest one; `errno` is not looked at.
  - `main.c:90`: if there is no memory for the code, the exit status is 0 (unless the optimized
    result was wrong), and `main.c:34` returns without `parser_destroy`.
  - `bytecode.c:158`: LONG_MAX is the answer when there is no memory for the
    stack. When it is also the value of the code, the failure goes unnoticed; otherwise it is
    reported as a different result.

## 6. What is not modelled

  - Source ranges of nodes in the array: nothing reads them.
  - The wording of messages and the layout of lists; the error report for the names of
    arguments, which prints the name.
  - `buffer_create`: nothing calls it.
  - What the program does after it has written a long name over the end of its buffer, which C leaves undefined.
  - That each caller in the parser returns at once when a call fails is built into `Parser` (`Fail` ends the parse), and no
    property would notice a caller that goes on.
  - Characters outside of ASCII, which `isspace` is handed as negative numbers.
  - Recursion depth: neither the parser nor the optimizer limits the C stack.
  - The test programs in `tests/`.

## 7. Plan

Done in this order, the most important behaviour first: `Ast` and `LongArith`;
`Optimizer`; `Bytecode`; `Parser` with `Forest` and `Grammar`; `Storage`; proofs of
`Storage`, `Forest` and `Parser`; `Lexer`, `ErrorReport`, `Frontend` and `Driver`; proofs of
`Lexer`, `Bytecode`, `Optimizer`, of the two refinements of `Frontend` and of the ranges of its errors, of
`ErrorReport`, and of `Driver`; of the meaning of codes, `Language`, and that parser and program compute it; of where the parser finds errors. Every
component of section 1 but the tests is modelled, the buffer without `buffer_create` (section 6).
