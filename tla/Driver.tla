-------------------------------- MODULE Driver -------------------------------
(***************************************************************************)
(* main.c: main(), which composes the parser, the optimizer, the compiler  *)
(* and the machine, and compares what the program comes to before and      *)
(* after optimizing and on the machine.                                    *)
(*                                                                         *)
(* The components are the modules Parser, Optimizer and Bytecode, each     *)
(* with variables of its own; they share the node array.  main() runs one  *)
(* of them at a time.  What is printed is left out but for the tree.       *)
(***************************************************************************)
EXTENDS Ast, FiniteSets

CONSTANTS
  ArgNames,    \* the names of the arguments on the command line
  EnvNumbers,  \* the numbers that environment variables hold, longs or not
  Names, Identifiers, Numbers, MaxTokens, Nothing   \* as in Parser

ASSUME DriverAssumption ==
  /\ ArgNames \in Seq(Names)
  /\ EnvNumbers \subseteq Int
  /\ MaxTokens \in Nat
  /\ Numbers \subseteq 0..LONG_MAX
  /\ Nothing \notin [node : NodeRecord, from : Nat, to : Nat]
  /\ Nothing \notin Int \cup {TRAP}

VARIABLES
  \* main()
  phase,      \* how far it has got
  args,       \* the array args, as far as it is filled in
  status,     \* the exit status
  values,     \* value_ast, value_opt and value_bc; Nothing before
  held,       \* whose memory has been allocated and not been freed
  collapsed,  \* history: a double negation has been rewritten
  \* the parser
  names, state, error, read, nodes, calls, node,
  \* the optimizer
  rewriting, trapped,
  \* compiler and machine
  machine, compiling, code, stackSize, pc, listing, cells, answer

mainVars      == <<phase, args, status, values, held, collapsed>>
parserVars    == <<names, state, error, read, calls, node>>
optimizerVars == <<rewriting, trapped>>
machineVars   == <<machine, compiling, code, stackSize, pc, listing, cells, answer>>
vars == <<mainVars, parserVars, nodes, optimizerVars, machineVars>>

ArgCount == Len(ArgNames)

TheParser == INSTANCE Grammar WITH
  args <- names, frames <- calls, result <- node,
  ArgLists <- {ArgNames}, Environments <- {[name \in Identifiers |-> 0]}

TheOptimizer == INSTANCE Optimizer WITH
  stack <- rewriting, Inputs <- {}, ArgValues <- {}

TheMachine == INSTANCE Bytecode WITH
  ast <- nodes, phase <- machine, frames <- compiling, stack <- cells, result <- answer,
  Inputs <- {}, ArgValues <- {}

Init ==
  /\ phase = "main" /\ status = 0 /\ args = <<>> /\ held = {} /\ collapsed = FALSE
  /\ values = [ast |-> Nothing, opt |-> Nothing, bc |-> Nothing]
  /\ TheParser!Init
  /\ rewriting = <<>> /\ trapped = FALSE
  /\ machine = "start" /\ compiling = <<>> /\ code = <<>> /\ stackSize = 0
  /\ pc = 0 /\ listing = <<>> /\ cells = <<>> /\ answer = 0

-----------------------------------------------------------------------------
\* goto error
FailWith ==
  /\ status' = 1 /\ phase' = "cleanup"
  /\ UNCHANGED <<args, values, held, collapsed>>

OthersRest == UNCHANGED <<parserVars, nodes, optimizerVars, machineVars>>

\* SIGFPE
Killed == phase' = "killed" /\ UNCHANGED status

(***************************************************************************)
(* Parsing                                                                 *)
(***************************************************************************)

\* There is no code on the command line.
Usage ==
  /\ phase = "main"
  /\ status' = 1 /\ phase' = "exited"
  /\ UNCHANGED <<args, values, held, collapsed>> /\ OthersRest

CallParser ==
  /\ phase = "main"
  /\ phase' = "parse" /\ held' = {"parser"}
  /\ UNCHANGED <<args, status, values, collapsed>> /\ OthersRest

ParseOn ==
  /\ phase = "parse"
  /\ TheParser!Peek \/ TheParser!PeekFails \/ TheParser!Descend
  /\ UNCHANGED <<mainVars, optimizerVars, machineVars>>

Parsed == phase = "parse" /\ TheParser!Stopped

ParseFailed == Parsed /\ error.code # "NONE" /\ FailWith /\ OthersRest

(***************************************************************************)
(* The values of the arguments                                             *)
(***************************************************************************)
AllocateArgs ==
  /\ Parsed /\ error.code = "NONE"
  /\ phase' = "arguments" /\ held' = held \cup {"args"}
  /\ UNCHANGED <<args, status, values, collapsed>> /\ OthersRest

\* calloc() fails: main() returns, without cleaning up.
NoArgs ==
  /\ Parsed /\ error.code = "NONE"
  /\ status' = 1 /\ phase' = "exited"
  /\ UNCHANGED <<args, values, held, collapsed>> /\ OthersRest

\* The environment variable of the next argument is read.
Reading == phase = "arguments" /\ Len(args) < ArgCount

\* (mutation) Numbers are taken as they are.
StrtolUnlimited(number) == number

\* strtol() takes the nearest long for a number that is none; nobody asks for
\* errno.
Strtol(number) ==
  CASE number > LONG_MAX -> LONG_MAX
    [] number < LONG_MIN -> LONG_MIN
    [] OTHER             -> number

ReadArg ==
  /\ Reading
  /\ \E number \in EnvNumbers : args' = Append(args, Strtol(number))
  /\ UNCHANGED <<phase, status, values, held, collapsed>> /\ OthersRest

\* It is not set, or its text is no number.
NoNumber == Reading /\ FailWith /\ OthersRest

(***************************************************************************)
(* Evaluating and optimizing the tree                                      *)
(***************************************************************************)
EvalAst ==
  /\ phase = "arguments" /\ Len(args) = ArgCount
  /\ values' = [values EXCEPT !.ast = AstEval(nodes, args)]
  /\ IF values'.ast = TRAP
     THEN Killed /\ UNCHANGED rewriting
     ELSE /\ phase' = "optimize"
          /\ rewriting' = <<TheOptimizer!Frame("walk", Root(nodes))>>
          /\ UNCHANGED status
  /\ UNCHANGED <<args, held, collapsed, parserVars, nodes, trapped, machineVars>>

OptimizeOn ==
  /\ phase = "optimize"
  /\ \E n \in DOMAIN nodes :
       /\ TheOptimizer!Walk(n) \/ TheOptimizer!WalkRight(n) \/ TheOptimizer!Optimize(n)
       /\ collapsed' = (collapsed \/ TheOptimizer!CollapseDoubleInv(n))
  /\ phase' = IF trapped' THEN "killed" ELSE phase
  /\ UNCHANGED <<args, status, values, held, parserVars, machineVars>>

\* (mutation) The result of one comparison replaces that of the one before.
StatusOfLast(other) == status' = IF values.ast = other THEN 0 ELSE 1

\* The exit status after comparing value_ast with another value.
Compare(other) == status' = IF values.ast = other THEN status ELSE 1

EvalOptimized ==
  /\ phase = "optimize" /\ rewriting = <<>>
  /\ values' = [values EXCEPT !.opt = AstEval(nodes, args)]
  /\ IF values'.opt = TRAP
     THEN Killed /\ UNCHANGED held
     ELSE Compare(values'.opt) /\ phase' = "bytecode" /\ held' = held \cup {"bytecode"}
  /\ UNCHANGED <<args, collapsed>> /\ OthersRest

(***************************************************************************)
(* Compiling and running                                                   *)
(***************************************************************************)
MachineOn ==
  /\ phase = "bytecode" /\ ~TheMachine!Ended
  /\ TheMachine!Next
  /\ phase' = IF machine' = "trapped" THEN "killed" ELSE phase
  /\ UNCHANGED <<args, status, values, held, collapsed, parserVars, optimizerVars>>

\* bytecode_destroy
DestroyBytecode ==
  /\ held' = held \ {"bytecode"} /\ phase' = "cleanup"
  /\ UNCHANGED <<args, collapsed>> /\ OthersRest

\* The message is all there is: the status stays what it was.
NotCompiled ==
  /\ phase = "bytecode" /\ machine = "failed"
  /\ DestroyBytecode
  /\ UNCHANGED <<status, values>>

CompareBytecode ==
  /\ phase = "bytecode" /\ machine \in {"done", "no stack"}
  /\ values' = [values EXCEPT !.bc = answer]
  /\ Compare(answer)
  /\ DestroyBytecode

\* parser_destroy, free(args)
Cleanup ==
  /\ phase = "cleanup"
  /\ held' = held \ {"parser", "args"} /\ phase' = "exited"
  /\ UNCHANGED <<args, status, values, collapsed>> /\ OthersRest

-----------------------------------------------------------------------------
Ended == phase \in {"exited", "killed"}
Terminated == Ended /\ UNCHANGED vars

Next ==
  \/ Usage \/ CallParser \/ ParseOn \/ ParseFailed
  \/ AllocateArgs \/ NoArgs \/ ReadArg \/ NoNumber
  \/ EvalAst \/ OptimizeOn \/ EvalOptimized
  \/ MachineOn \/ NotCompiled \/ CompareBytecode
  \/ Cleanup
  \/ Terminated

Spec == Init /\ [][Next]_vars

-----------------------------------------------------------------------------
(***************************************************************************)
(* Properties                                                              *)
(***************************************************************************)
AllRead == phase = "arguments" /\ Len(args) = ArgCount
Optimized == phase = "optimize" /\ rewriting = <<>>

\* What each component is given is what it assumes: a parsed tree and a long
\* for each argument go into optimize() and ast_eval(), an AST that is not
\* empty and has no cycles into bytecode_compile().  So what is checked and
\* proved of the components holds of the program.
InterfacesFit ==
  /\ AllRead => ParsedShape(nodes) /\ args \in [1..ArgCount -> Long]
  /\ phase \in {"arguments", "optimize", "bytecode"} =>
       nodes \in Seq(NodeRecord) \ {<<>>} /\ IsAst(nodes, ArgCount)
  /\ (phase = "bytecode" /\ machine = "start") =>
       Acyclic(nodes) /\ TheOptimizer!ResultIsOptimized

\* The values of the names in the code.
Valuation ==
  [name \in Identifiers |->
     IF \E i \in 1..ArgCount : ArgNames[i] = name
     THEN args[CHOOSE i \in 1..ArgCount : ArgNames[i] = name] ELSE 0]

\* The trees that are printed as "Parsed AST" and "Optimized AST" are code in
\* the program's own language, and mean what the tree computes.
PrintsWhatItComputes ==
  (AllRead \/ Optimized) =>
    TheParser!Meanings(Printed(nodes, ArgNames), Valuation) = {AstEval(nodes, args)}

\* What the tree of the code comes to is what the code means.
ComputesTheMeaning ==
  values.ast # Nothing => {values.ast} = TheParser!Meanings(TheParser!Code, Valuation)

\* All three interpreters come to the same, and the process is killed only by
\* a division that the code itself makes, in the first of them.  The branch
\* that collapses a double negation is not covered; a machine that gets no
\* memory for its stack answers LONG_MAX.
ResultsAgree ==
  ~collapsed =>
    /\ values.opt \in {Nothing, values.ast}
    /\ values.bc \in {Nothing, values.opt} \/ (machine = "no stack" /\ values.bc = LONG_MAX)
    /\ phase = "killed" => values.ast = TRAP /\ values.opt = Nothing

\* Exit status 0 says that the code was read and evaluated, and that all the
\* results that there are agree; only the one of the machine may be missing.
\* Status 1 says that there was something wrong, and all memory is freed
\* unless calloc() failed.
StatusTellsTheOutcome ==
  phase = "exited" =>
    /\ status = 0 =>
         /\ error.code = "NONE" /\ Len(args) = ArgCount
         /\ values.ast = values.opt
         /\ IF values.bc = Nothing THEN machine = "failed" ELSE values.bc = values.ast
    /\ (status = 1 /\ values.ast # Nothing) =>
         values.ast # values.opt \/ values.bc \notin {Nothing, values.ast}
    /\ held # {} =>
         status = 1 /\ state = "DONE" /\ args = <<>> /\ values.ast = Nothing
=============================================================================
