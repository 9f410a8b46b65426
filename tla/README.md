# Verification of satsusl

satsusl is a small statically checked scripting language. `libsatsu` lexes,
parses, checks and interprets programs, `csatsu` runs one from the command line,
`gsatsu` is a graphical front end that runs programs in a thread of their own.
This directory holds TLA+ models of its code, the TLC runs that check them on
small instances and TLAPS proofs about them.

## Inventory

| Part | Code | State it keeps | Operations | What makes it correct |
|---|---|---|---|---|
| interpreter | `libsatsu/src/ls_exec.c` | `ls_exec_t` (environments, scope counters, modules, `fndepth`), the C stack, the heap strings | `ls_exec`, one handler per node type | scopes and environments are closed exactly as they were opened on every way out; each string is released once; values have the types their readers assume |
| symbol table | `ls_sema.c` 517-590 | `ls_symtab_t`, an array sorted by scope | find, push, pop a scope, destroy | a pop removes one scope and nothing else |
| system functions | `ls_exec.c` 203-609 | none, except `__out` and `__rc` of the caller | print, cprint, readln, creadln, shell | arguments and results are owned once; a failed check yields a default |
| semantic analysis | `ls_sema.c` | the same tables, `ls_sema_t` | one handler per node type | an accepted program takes no undefined step that its types and names could have ruled out |
| modules, imports | `ls_sema.c` 162-459 | `ls_module_t` | `ls_resolveimports`, `ls_pushmodule`, `ls_globalsymtab` | each file once; names of all modules in one table |
| parser | `ls_parse.c` | `ls_ast_t`, an array of nodes with arrays of children | descent for statements, precedence climbing for expressions | the shape `NodeOk` states; one tree of the whole text; precedence of operators; every error is an error |
| lexer | `ls_lex.c` | `ls_lex_t`, parallel arrays of tokens | one scan of the text | longest match, positions; nothing skipped, nothing refused |
| allocation batches | `ls_util.c` 71-141 | one block that holds several arrays | `ls_allocbatch`, `ls_reallocbatch` | growing keeps every array, and apart from the others |
| files, errors | `ls_util.c` | none | read a file, print an error | |
| csatsu | `csatsu/src` | the results of the stages | `main` | each exit destroys what exists, once |
| gsatsu panel | `gsatsu/src/p_panel.c` | the output lines, the input line, `cputbuf`, `running`, a mutex | user interface thread: draw, send, clear, execute; program thread: `p_cput`, `p_cget` | no line or character lost or torn between the threads |
| gsatsu rendering | `gsatsu/src` | SDL objects | | no state of its own |
| ztgl | `gsatsu/dep` | vendored | | |
| standard library, examples | `std`, `examples` | programs in the language | | |

**How they interact.** A front end calls the stages one after the other:
`ls_lex`, `ls_parse`, `ls_createmodule`, `ls_resolveimports` (which lexes and parses
the imported files), `ls_sema`, `ls_exec`. Each reads the structures the one before
it has built; only `ls_exec` has state that lives through calls and callbacks.
`ls_exec` shares the symbol tables' code with `ls_sema`, resolves every name again
at run time, and relies on semantic analysis for everything it does not test
(`ls_exec.c:288`). System functions are callbacks on `ls_exec_t`; in gsatsu two of
them are functions of the panel, called in the program's thread.

**What is hard.** (1) Ways out: `return`, `break` and `continue` travel as return
codes through handlers of scopes, loops and functions, each of which has to undo
its own part. (2) Ownership: strings are plain heap blocks handed over through out
parameters that some handlers write and others do not. (3) Agreement of two
traversals: `ls_sema` decides in the order of the text what `ls_exec` resolves again
in the order of execution. (4) The two threads of the panel. (5) Boundaries: growth
of the arrays, 16 bit counters, fixed buffers. Nothing is persisted, there are no
messages and no timeouts. `PROJECT.json` lists the hazards line by line.

## Plan

All of it is done; item 10 says what could follow.

1. `SatsuExec`: the interpreter, its runs, and the proof that its stacks stay in step.
2. `SatsuSema`: the checker as a function over the same trees, composed with `SatsuExec`
   in `SatsuChecked`.
3. `SatsuPanel` and `SatsuMailbox`: the two threads of the panel, what they promise, the
   proof that they keep it; liveness.
4. `SatsuBatch`: `ls_reallocbatch` as moves inside one memory, with a theorem for every
   number and size of arrays.
5. `SatsuParse`: the descent, precedence climbing against a reference grammar
   (`SatsuGrammar`), and the children of a node with their 16 bit capacity.
6. `SatsuLex`: the scan of the text against a definition of lexemes.
7. `SatsuModules` and `SatsuMain`: the table of modules as a batch of six arrays, the
   loop over imports, the stages of both front ends and their exits.
8. Theorems about the control of the interpreter (`SatsuControlProofs`), the table of modules
   and the exits (`SatsuMainProofs`), the trees of the parser (`SatsuParseProofs`), the output
   of the panel and the lexemes of the lexer.
9. `SatsuTyping`, what an accepted program fulfils as a relation that a proof can use, and
   from it the types, names and strings of a run (`SatsuSoundProofs`, `SatsuMemoryProofs`).
10. Left: what needs induction over texts or trees, see the end of "Proofs".

## Modules

* `SatsuProgram`: what checker and interpreter share: node types and the shape of a
  tree, primitive types, symbol tables. No state.
* `SatsuExec`: the interpreter, a state machine (extends `SatsuProgram`).
* `SatsuSema`: semantic analysis, a function of a program (extends `SatsuProgram`).
* `SatsuTyping`: what semantic analysis makes sure of, as a relation between a program and
  a typing of its nodes, without an order and without recursion (extends `SatsuProgram`).
* `SatsuAgreement`: the interpreter next to the decisions of semantic analysis, with the
  properties that relate the two (extends `SatsuExec` and `SatsuTyping`).
* `SatsuChecked`: the same on the programs that `SatsuSema` accepts, with what it decides
  (extends `SatsuAgreement` and `SatsuSema`).
* `SatsuTrees`: notation for syntax trees, used to write programs.
* `MCSatsuExec`, `MCSatsuChecked`: the programs the runs execute.
* `SatsuExecProofs`: theorems about `SatsuExec`: types, and the stacks; `SatsuControlProofs`
  (extends it): scopes, calls and the ways out; `SatsuSoundProofs` (extends that and
  `SatsuAgreement`): types and names; `SatsuMemoryProofs` (extends that): strings, and that
  that the only undefined steps are left to the sizes of numbers.
* `SatsuPanel`: the two threads of gsatsu's panel, a state machine of its own.
* `SatsuMailbox`: what the panel promises a program that reads lines.
* `MCSatsuPanel`: the lines users type in the runs.
* `SatsuPanelProofs`: theorems about `SatsuPanel`.
* `SatsuTokens`: the types of tokens, shared by the lexer and the parser.
* `SatsuLex`: the lexer, a state machine; `MCSatsuLex` has its texts, `SatsuLexProofs`
  its theorems.
* `SatsuParse`: the parser, a state machine (extends `SatsuProgram`, for the shape of a
  tree); `SatsuParseProofs` has its theorems.
* `SatsuGrammar`: what the list of operators in `examples/operators.ssu` says of an
  expression, by recursion over the text and without powers (extends `SatsuParse`);
  `MCSatsuParse` has the texts of the runs.
* `SatsuBatch`: allocation batches, a state machine.
* `SatsuModules`: the table of modules and its imports (extends `SatsuBatch`, whose
  block is the table's memory).
* `SatsuMain`: the stages as both front ends go through them (extends `SatsuModules`);
  `MCSatsuMain` has the small file system of its run, `SatsuMainProofs` the theorems about
  the batch, the table, the imports and the exits.

### SatsuExec

The handlers of `ls_exec.c` call each other recursively. The model makes the C stack
explicit: `cstk` holds one frame per active handler and each step runs the innermost
handler from one recursive call to the next.

| Model | Code |
|---|---|
| `prog` | `e->m`: modules with their arrays of nodes; `tok` and `sym` stand for the token a node points to |
| `globals` | `globalst` of `ls_exec` |
| `fns` | `localsts`, `scopes`, `mods` of `ls_exec_t`, up to `fndepth` |
| `cstk[i].fn, mod, scope, node` | the variables a handler initialises on entry |
| `cstk[i].at` | the child whose handler it is waiting for; one more than the number of children while a function body runs |
| `cstk[i].vals` | its local values: operands, arguments, the `v` of a loop |
| `ret` | the action and the out parameter of the handler that has just returned; `Unwritten` when it wrote none |
| `live` | allocated strings |
| `fault` | the first step that C leaves undefined, or that traps |
| `phase`, `walk` | the loops of `ls_globalsymtab` and `ls_exec` before the entry function |

Each `ls_exec*` function is one action, with a disjunct for each stretch between two
calls. Handlers that evaluate their operands in order share `EvalOperand` and
`Collect`; what they do with the operands is their own action.

A value is its tag, the heap block if it is a string, and `member`, the member of the union
it was written through; every reader takes the member that the tag names. Numbers and
booleans have no more than that, so a condition may go either way, and so may `popen`. What
a string or a number is equal to is never asked. `CastType` gives the type each branch of
`ls_exececast` gives. `ls_execeadd` stores the sum of two reals through `.int_` under the tag
of a real (`ls_exec.c:1408`): this is `RealSum`, the one value whose member is not that of
its tag. What reads it goes on with a number that nobody wrote, and what it computes is
written properly again; `real_sum` shows a variable that holds one. A block that is freed may be allocated again, so a stale pointer
can meet a newer string, as in C.

An out parameter matters: `ls_execassign` and declarations do not write theirs, so the
caller sees whatever it put there. Most callers initialise it to `{0}` (`Slot`);
`ls_execfor` hands the increment the value it has just destroyed.

### SatsuSema

`ls_sema` is sequential and has no callbacks, so it is a function, not a machine. Its
argument and result is a checker, the record of `ls_sema_t` (`m`, `st`, `mod`,
`rettype`, `loopdepth`, `scope`) with three fields more: `out` says whether the
analysis goes on (`ok`), has returned an error (`rejected`) or has read a child a node
does not have (`undefined`); `uses` and `types` keep what the code only decides in
passing, the declaration each name was found at and the type each expression was
given. One operator per handler takes a checker and a node to a checker, in the order
of the code: `SemaLocalDecl` looks for a redefinition before it checks the value,
`SemaFor` opens scope and loop before the initialiser, `SemaCtree` gives each branch a
scope. Expressions whose handler checks all operands and then their types share
`SemaOperands`; the requirement of each is an operator of its own (`AddOk`,
`TernaryOk`, ...). `TypeOf` is `ls_typeof`. `SemaEcall` follows the code in taking the
second child of whatever declaration it finds for a list of arguments.

### SatsuTyping, SatsuAgreement and SatsuChecked

`sema` is what was decided when the program started, and never changes. The properties of
`SatsuAgreement` compare each step of the interpreter with it. In `SatsuChecked` it is
`Sema(prog)`, and `CheckedInit` admits the accepted programs only, as `main` and `p_exec` do.

`SatsuTyping` says the same of a program without `ls_sema`'s walk. A typing gives each node
a type, the type its function returns, the locals that are declared whenever the node is
reached (`known`) and the declarations of these and of all others that may be in the table
by then (`names`: a declaration that is the whole body of a loop is in the table when the
loop is over and did run, and known to nobody). Each test of a handler of `ls_sema` is a
condition on a node and its children; the table of symbols, which the code fills and
empties as it walks, becomes a relation between the nodes (`Enters`, `Follows`).
`AcceptedTyped` builds the typing from `sema` and says that it fulfils these conditions.

### SatsuPanel

One record per thread says where it is (`at`), which characters it still has to give to
`p_cput` (`msg`), where it goes when they are out (`from`), and the index and the array
`p_cput` and `p_pushoutput` work with (`i`, `src`). Every access to shared memory is a
step of its own, so the two threads interleave inside of `p_cput`, `p_pushoutput`,
`p_cget` and `Send input`. The program's thread is any sequence of `PrintChar`, `Readln`
and an end (`Finish`, `Stop`); what `SatsuExec` executes is one such sequence.

| Model | Code |
|---|---|
| `mutex` | `cgetmutex`: the thread that holds it |
| `cputbuf`, `cputlen` | the unfinished line; the array has one place more than `O_MAXIOLINE` |
| `cgetbuf`, `cgetlen`, `cgetidx` | the line that was sent and the place p_cget has reached |
| `inputline`, `outputlines`, `running` | the same |
| `line` | `buf` of `ls_syscreadln` |
| `Cput` ... `Bump` | `p_cput` and `p_pushoutput`, in either thread |
| `Lock`, `Peek`, `Flush...`, `Take`, `Give` | `p_cget` and the loop of `ls_syscreadln` |
| `ClickTool`, `Inspect`, `Execute`, `Create` | the buttons that are active while nothing runs |
| `ClickSend`, `SendLock` ... `SendDone` | `Send input` |
| `con` | history: the terminal as the calls of `p_cput` would leave it, one after the other |

`p_cput` is not synchronised, so what the compiler makes of it matters: `cputlen` is read
once for the test, the terminator and the store, as the `-O3` of `build.sh` does;
after a full line has been pushed the model allows both a new read and the 0
the compiler knows. Stores are not reordered. A write outside of `cputbuf` is a fault
and the model stops.

`Patient` is an assumption about the user: a line is sent only while the program waits
for one and has none. It is what separates the two pass runs; without it the output may
be garbled (`panel_prompt`) while the input still is right (`panel_impatient`).

`pthread_create` may fail. `p_exec` sets `running` before and does not reset it, so the
panel then stays inactive for ever: a state of the model in which only `Rest` and sends
nobody reads are left.

`SatsuMailbox` is one box. The panel's `Pending` and `Taken` map to its variables: a line
is in the box from the moment `cgetbuf` is copied, although its length and index follow
two steps later, and a character is taken when `p_cget` has chosen it.

### SatsuLex

`in` says which function scans, `at` is the index of the main loop and `end` that of the
function. Each turn of a loop is a step. The order of the tests in `ls_lex` matters only
where one lexeme begins another, so `Operator` tries the pairs before the single
characters and `Other` tries comments before both. The text has no terminator: at its
last character the tests for two characters read what lies behind it (`Behind`), and a
token may be completed by it. `ReadTokStr` is `ls_readtokstr`, which decodes a literal
later and finds its end by other means. White space, letters and digits are sets of
characters; `isspace` and the like, and the conversion of numbers, are outside.

### SatsuParse

One frame of `stk` per active function; `at` is the place it goes on at, `ret` what the
function that has just returned gave back. `Call` and the three kinds of expression
(`Expr`, `Item`, `Operand`) differ in who passes over the terminator. The call of a
system function, which `ls_parseexpr` has in line, has a frame of its own here.

| Model | Code |
|---|---|
| `toks`, `cur` | `lex->types`, `p->cur`; positions count from 1 |
| `nodes[n].kids, cap` | `children`, `childcap`; `cap` is modulo 65536 |
| `term`, `bp`, `type` of a frame | `term`, `minbp`, and `type` or `ltype` of the functions for expressions |
| `lost` | history: an expression in parentheses has failed and its error was overwritten |
| `overread` | history: `lex->toks[ntoks]` was read |
| `out = "overflow"` | `ls_parentnode` has written outside of `children`; the model stops |

Two things the code does not do as its author will have meant it. The test for a full
array of children (`ls_parse.c:208`) is the wrong way round, so the capacity is 2^n after
n children, and 0 after the sixteenth: a block of sixteen statements is written outside
of its array. And `ls_parseexpr` overwrites the error of an expression in parentheses
with that of the next token; the text may then be accepted with an operand that was
never set (`NoNode`). Properties of accepted trees leave such texts out (`Accepted`),
`OverreadRejected` and `Terminates` do not.

`SatsuGrammar` gives the tree of an expression from the list of operators: split at the
loosest operator outside of parentheses, at the last one or the first one as the list
says. It shares nothing with precedence climbing.

### SatsuBatch

`mem` is the block, in units of any size; `ptr` holds the pointers as places in it. Each
turn of the loops of `ls_allocbatch` and `ls_reallocbatch` is a step, because the arrays
are moved inside of the block while others still are at their old places. `was` keeps the
block before it grew. Between two calls the owner may write anything (`Write`).

### SatsuModules and SatsuMain

A text, a token list, a tree, a name, a message is a block with an owner; `Touch` says which
blocks a step looks at, releases and makes, and `fault` is set when one of the first two
is not allocated. The table of modules is a batch: a row is written into `mem` word by
word (`Stored`), every later use reads it from there (`Read`), and a row that was moved
wrongly is `Garbled`. Import paths are lookups in directories; any stage may fail.
`csatsu`'s `main` and gsatsu's tools differ in when they read the directories, in the file
`csatsu` never closes and in the module gsatsu moves to the heap for its thread
(`Given`, `Closed`, `Heaped`).

## Runs

| Run | Programs | Shows |
|---|---|---|
| `exec` | five programs, and four without an entry function | stacks, ownership, order of scopes, types, `ReturnUnwinds` |
| `checked` | 234 programs: those that the model of `ls_sema` accepts out of three families | names, types, union members, jumps are as the analysis decided; no string, symbol or operand is used wrongly |
| `call_variable` | `new int x = 1; x();` | `CalledIsFunction` is violated: an accepted program calls a variable |
| `real_sum` | `new real r = 1.0 + 1.0;` | `RealsAreReal` is violated: the sum is written as an integer and read as a real |
| `bare_for_body` | `for (...; true; g = g) g + g;` | `NoFault` is violated: a double release |
| `panel` | a patient user | output is complete, no overflow, the mutex is given back, lines arrive |
| `panel_impatient` | a user who sends at any time | the mutex excludes, input is a mailbox |
| `panel_prompt` | the same | `PromptVisible` is violated: a character of the prompt is lost |
| `lex` | 37 thousand texts | the lexer is right about every one of them, and ends |
| `parse` | 6 thousand texts: chains of operators, mixtures, cut off and edited programs | accepted texts become one tree of the right shapes and groups, all others an error |
| `parse_operators` | each operator once | `OperatorsAsListed` is violated: `&&` gives the node of `^^` |
| `main` | a file, its imports, both front ends, a failure anywhere | every block is released once, the table survives its growth, every import is there once |

The properties:

* `TypeOK` (of `exec`): includes that no scope counter becomes negative and that no unwritten
  out parameter ends in a table.
* `StackDiscipline`: frames, environments, modules and scope counters agree at every
  step. A way out that forgets to close a scope breaks it.
* `ScopesSorted`: what `ls_popsymscope` needs to remove a scope entirely.
* `CallReachesDeclaration`: a call runs the function it names, in its module.
* `OwnedOnce`: the live blocks are exactly those that a symbol, a handler or the
  value in transit holds, each in one place: no leak, no alias, no dangling value.
* `NoFault`: no string is read or released after its release, no symbol is missing and no
  handler gets an operand of a type it is not made for. Two steps are let through, which only
  the size of a number decides: a division by the integer 0 (`trap`), and a real with more
  digits than the 64 characters `ls_exececast` writes them to (`overflow`, `ls_exec.c:1223`).
* `AcceptedTyped`: what `ls_sema` accepts is well-typed in the sense of `SatsuTyping`, and it has
  decided what the typing says; this is what the theorems about types, names and strings
  assume. The last part (`StringsUsed`) is not the work of `ls_sema`: it says of the
  candidate programs that no body of a function or loop drops a string.
* `SymbolsTyped`, `ReturnsDeclaredType`: a value has the declared type, and was written through
  the member that its readers take. The exception is `RealSum`, and `AsWritten` names it.
* `RealsAreReal`: the same without the exception. It does not hold.
* `NamesAgree`: whenever the interpreter looks a name up, in the tables of the moment,
  it finds the declaration the analysis found in the order of the text.
* `ValuesTyped`: every value an expression gives back has the type `ls_typeof` gave the
  expression, and is written as that type, as in `SymbolsTyped`.
* `NoShadowing`: in no environment, nor between one and the globals, do two
  declarations share a name. (A declaration that is the whole body of a loop is executed
  again without its scope being closed, and leaves several symbols; they are of one
  declaration, and no expression can name them.)
* `BreakInLoop`: a break or continue in flight has a loop of its own function to reach.
* `ReturnUnwinds`: a `return` passes through every handler up to the function with its
  value unchanged and runs nothing on the way.

* `OutputComplete`: rows and unfinished line are what all that was put comes to.
* `NoOverflow`: no write of the panel is outside of `cputbuf`.
* `MutexHeld`: the mutex is held exactly between lock and unlock.
* `MailboxSpec`: the panel implements `SatsuMailbox`.
* `PromptVisible`: what was printed is on the terminal when the program waits for a line. It
  does not hold; `OutputComplete` does because its user is patient.
* `MutexFreed`, `LineArrives`: liveness. `LineArrives` is about lines that are not empty: an
  empty one is never delivered, as `p_cget` takes its length for no input (`p_panel.c:308`). `FairSpec` asks that each thread goes on when it
  can (weak fairness of `Exe` and of `Ui`, which the operating system gives) and nothing
  of the user: the clicks are not in `Ui`. That a thread gets the mutex while the other
  takes it again and again would need strong fairness, which pthread does not promise;
  no property asks for it.

* `TokensOrdered`, `TokensAreLongest`, `NothingSkipped`, `RejectedForNothing`: the tokens
  are the longest lexemes of the text, in order; what is between them is space or comment;
  and where the lexer gives up no lexeme begins. Together they say what the lexer does.
* `StringsReadWhole`: `ls_readtokstr` and the scan agree on every string literal.
* `NodesOk`, `TreeOfText`: an accepted text gives one tree, of the shapes the later stages
  read without a test, in which every token with a meaning of its own stands once.
  `NodesOk` is what the runs and proofs of `SatsuExec` assume of their programs.
* `AcceptedNests`: a text that was cut off is not accepted.
* `GroupedAsListed`: precedence climbing groups as the list of operators says.
* `ChildrenFit`: children are written in bounds, as long as there are no more than fifteen.
* `OverreadRejected`: what is read behind the last token never makes a text acceptable.
* `ArraysKept`, `ArraysApart`: a batch that grows loses no word, and its arrays never overlap.
* `BatchSpec`: the table of modules uses its batch as an owner may.
* `TableTrue`, `ImportsPresent`: the table holds what was pushed, and when imports are
  resolved the modules are the file that is run and what this file imports, each once.
  What the imported files import is not followed (`ls_sema.c:195`).
* `NothingMisused`, `AllReleased` (of `SatsuMain`): whatever fails, no block is used after
  its release or released twice, and none is left (but the file `csatsu` does not close).
* `Terminates`, `Ends`: parser and lexer come to an end. They are sequential calls, so
  their `FairSpec` asks that one that can go on does (weak fairness of `Step`).

The types of lexer, parser and panel are proved and not run again.

Each property of a run that passes has a mutant of the code (an operator marked "Mutant" in the module) that
violates it.

**The families of `checked`.** `ExpressionPrograms`: every operator, cast, access, call
and system call over a string, an integer and a boolean variable, in every combination
of their types, as a statement and as the value of a declaration of each type.
`ControlPrograms`: a jump, a declaration or an assignment under every two levels of
branch, block and loop. `ScopePrograms`: three statements in every order out of those
that declare, use or hide a name, and a name that is also a global, a function or a
parameter. Loop and function bodies that are bare string expressions are left out: the
run `bare_for_body` shows what happens to the former, and the value of the latter is
overwritten by `ls_execfuncdecl` and leaks. Most programs
of the families are ill-typed and rejected, and each mutant of `SatsuSema` lets some of
them through.

**Bounds.** `Programs` is finite; programs are the inputs. Those of `exec`
together use every node type and every handler's every way out: nested loops of both
kinds left by all three jumps, calls across modules, recursion, functions that fall
off their end, all system functions. `Blocks` (8) bounds the strings alive at once,
`MaxDepth` (4) the depth of calls and `MaxSyms` (6) the symbols of an environment.
Recursion in `Calls` reaches `MaxDepth`, and at a bound the machine may stop
(`AtBound`). Scopes nest three deep and environments hold up to four symbols, which
is enough for a pop that stops early or late to be seen.

In the runs of the panel a row has two characters and the terminal two or three rows: a
full line, a line that is longer than a row, a flushed prompt and a row that is shifted
more than once happen. `MaxRuns`, `MaxPuts`, `MaxReads` and `MaxSends` bound how often
the user and the program act; two runs, two lines and three characters are enough for
input and output that outlive a run, and in `panel_impatient` for a line that is sent
when the one before it is half read.

The texts of `lex` are all of up to four characters out of ten, and all of up to five or
six out of the few characters that matter to words, to numbers, to strings and to
comments, and all of up to three that make operators; `MaxIdent` and `MaxString` are small, so
that both limits are passed. Those of `parse` hold every chain of three operators out
of one of each level (two of some), every three out of fifteen pieces of expressions,
a program with every declaration and statement, cut off at every place and with every token
left out or replaced, and lists of fifteen and sixteen. In `main` the table
grows three times, a name is found in two directories, two names lead to one file, a file
imports itself, and a name leads nowhere.

**Deadlock** is checked: `Stopped` is the only step of a program that is over, has
faulted or is at a bound; everywhere else some handler can go on. The lexer, the parser and the stages only
stop (`Stopped`) when they have given their result. `Rest` is the only step
of a panel in which nothing runs or that has faulted. For the interpreter no fairness is
assumed: the properties are safety properties, and a program of the language may loop
forever.

## Proofs

Thirty-six theorems in eight modules hold for every value of the constants. All but
four of them state a property that a run checks; the runs were the first test of every
invariant below.

### The interpreter

`SatsuExecProofs` proves, for every set of parsed programs and every bound,

* `TypeCorrect == Spec => []TypeOK`,
* `StackDisciplined == Spec => []StackDiscipline`.

The assumption is `ProgramsAssumption`: the programs are arrays of nodes as `ls_parse`
builds them (`NodeOk`: children exist, their number is that of the node type, and their
types are those the parser calls for). Nothing is assumed of semantic analysis, and
`TreesWellFormed` below shows that `NodeOk` is what the parser gives.

Neither property is inductive. `IInv` adds `Placed` (the modules and nodes that
declarations, environments and frames name exist) and `Suspended`: a handler below
the top is waiting for a call; the arguments a call has evaluated have parameters to
go to; an environment below the last one keeps the scope of the handler that called
out of it; the frames are ordered by environment. The last two are what make the
scope right when a call returns: the caller's environment was not changed meanwhile.

The proof has two central lemmas, `CallKeeps` (a handler calls another, in its own
environment or in a new one) and `LeaveKeeps` (a handler returns, having restored the
scope it found). Every action is then shown to be a call or a return of one of these
forms, or to change only values: one lemma per action. `LeastNat`, `FindSymIndex`,
`FindSymSame` and `KeptIndex` say what the `CHOOSE` expressions for `ls_findsym` and
`ls_popsymscope` return.

`SatsuControlProofs` goes on from `IInv`, again for every set of parsed programs:

* `TablesSorted == Spec => []ScopesSorted`. A table changes in four ways only
  (`Restored`, `Declared`, `Popped`, or a new environment), and each keeps the order:
  what is declared gets the scope of the moment, which is at least every other.
* `CallsReachDeclaration == Spec => []CallReachesDeclaration`.
* `ReturnsUnwind == Spec => ReturnUnwinds`, an action property.
* `JumpsStayInLoops == Spec => []BreakInLoop`, for programs whose breaks and continues
  stand in loops (`JumpsInLoops`). That this hypothesis is what `ls_sema` ensures cannot be
  proved, because its model is recursive; `MCSatsuChecked` states it as the assumption
  `AcceptedJumpsInLoops`, which TLC evaluates for every program of the run `checked`.

Their invariant is `CInv == IInv /\ DeclaredAs /\ Linked /\ Given`. `DeclaredAs`: a global
function's symbol and its node have one name, so the node that a call goes to is of the
declaration it found. `Linked`: the frames are a path in the trees: each frame's node is
the child (or the called function) at which the frame below it waits. `Given`: an
action on its way comes from a node that can give it, a return only from what may
hold one; without this a handler that ignores the action of an expression could
swallow a return. `JumpsStayInLoops` adds `LoopBelow`: whatever node of a loop's body is
running has a loop under it in its own environment.

**Types and names.** `SatsuSoundProofs` assumes in addition that every program has a typing,
`\A p \in Programs : \E t : WellTyped(p, t)`, and proves

* `ValuesOfTheirTypes`, that `Spec => []SymbolsTyped`: what a symbol holds has its declared type,
  and was written through the member of that type, if it is not a sum of reals;
* `CallsGiveDeclaredType`, that `Spec => []ReturnsDeclaredType`;
* `NamesStandApart`, that `Spec => []NoShadowing`;
* `NamesAsDecided == AgreedSpec => []NamesAgree`;
* `ValuesAsDecided == AgreedSpec => []ValuesTyped`.

`AgreedSpec` starts with a program that has a typing, and decisions (`sema`) that agree with
it. `AcceptedTyped` is the link to the code: whatever `SatsuSema` accepts has such a typing, so
`CheckedSpec` implies `AgreedSpec`. That is checked and not proved, because `SatsuSema` is
recursive; what is proved is everything from there on. The hypothesis is not idle: the
program of `call_variable` is accepted and has no typing, and there the
interpreter does go wrong.

The invariant for a typing `t` is `TInv(t) == CInv /\ ScopesSorted /\ WellTyped(prog, t) /\
TypesInv(t)`, and `TypesInv` relates the order of the text, which the typing has kept, to the
order of execution:

* `FramesShown`: for each active handler, what its environment shows at the handler's scope
  are declarations of the typing's `names` for the node it is at, and all of the `known`. This
  has to be true of suspended handlers too, whose inner scopes are not closed yet;
  `ScopesNest` says that scopes do not decrease from one frame of an environment to the next.
* `OperandsHeld`: what a handler keeps in `vals` has the types of the children it came from.
* `Returned`: what is on its way to a handler has the type of the child that gives it, or is a
  `return` of the type of the function, or is not written where the type is void. A
  handler that returns without writing its out parameter is distinguished here.
* `GlobalsFound`, `GlobalValues`, `LocalsTyped`: the tables have the declarations of the
  program, and values of their types; a global that is not initialised yet holds none.

Scopes are the hard part. A child runs in the scope of its parent or in one more, each with
its own way of getting back, so there are lemmas for the four ways a table changes
(`Alike`: two tables show the same up to a scope) and one lemma for each action.
`NoShadowing` adds `NamesOnce`: two symbols of one name in a table have one declaration.
`NamesAgree` follows from `FramesShown` and `GlobalsFound` at the step that looks a name up
(`FoundAs`), as the search starts at the last scope and the name is known there.

**Strings.** `SatsuMemoryProofs` assumes `StringsUsed` too: no body of a function leaves a
string, and no body of a `for` does whose increment writes no value. It proves

* `NothingUndefined`, that `Spec => []NoFault`: no string is released twice or read after its
  release, no function is entered with arguments it has not, no name is missing, no
  handler gets an operand it is not made for. What is left of undefined steps is in the
  definition of `NoFault`: division by the integer 0 and the buffer of `ls_exececast`. The
  sum of two reals is none of these steps: reading an integer's bits as a real gives some
  number, and `ValuesOfTheirTypes` says where that happens;
* `StringsOwnedOnce`, that `Spec => []OwnedOnce`.

`ls_sema` does not look at `StringsUsed`, and `bare_for_body` shows the double release of
an accepted program without it. `OwnedOnce` is a bijection between the live blocks and the
places strings are held at, and this is how it is carried on: a place is one in an
environment, in the table of globals, in a handler's `vals`, or `ret`; `OneOwner` says that no
two places have one block and that the blocks are those alive. Each step takes strings
from a few places, puts strings at a few, and allocates and frees some; `Exchange` and its
variants say for which of these steps `OneOwner` is kept, and a lemma for each action says which step
it is. `FramesTidy` and `StringLeft` tell what each handler may hold when it starts, waits or
leaves, for example that the slot of a loop holds no string when the next turn writes it.
The invariant is `MInv(t, leaving)`, with `TInv(t)`, these three, `NoFault` and `NoLocalsYet`;
`NoFault` is inductive only together with all the others, as almost every step that may fault
reads a value whose type or owner they know.

### The parser

`SatsuParseProofs` proves `ParserTyped == Spec => []TypeOK`,
`ChildrenInside == Spec => []ChildrenFit` and
`OverreadIsError == Spec => []OverreadRejected`, for every set of token sequences. The
invariant `ParseInv` adds: `NodesDoubled` (the capacity of a node is 2^n modulo 65536 where
n is the number of its children, as long as n is at most fifteen); `FramesOk` and
`OthersWait` (every function but the innermost waits for a call, and has its node unless
it is one that gets it later); `TokenKnown` (where an operator or a prefix is looked up in
the table, the token is one that is there); and `Overrun`: once a token behind the last was
read, `cur` is at or behind the end, so whichever function drops the error meets the end
of the text again and fails.

It also proves `TreesWellFormed == Spec => []NodesOk`: in the tree of every accepted
text each node has the children, by number and by type, that the later stages index
without a test. `NodesOk` itself says nothing while the tree is being built. The invariant
is `TreeInv`: unless an operand was lost or an error is on its way, `Tree` holds of the
nodes and the active functions:

* a node is finished, or it is in the hands of exactly one active function (`Owns`),
  and has as many children as that function's place says (`Has`): this is the part that
  makes an early return with a half-built node impossible;
* the children a node has are of types it may have (`KidsFit`);
* what a function gives back is of a type its caller adds (`Yields`, `Accepts`), which is
  why a call of `ls_parsestmt` may be added to a block and one of `ls_parsetype` may not;
* an operator has its left operand by the time it takes it (`HasOperand`).

When a text is accepted no function is active, so every node is finished. The hypothesis
about a lost operand belongs to the code: an error in parentheses is dropped
(`OverreadRejected` says what is left of it).

The third theorem about trees is `TextsInTrees == Spec => []TreeOfText`: the nodes of an
accepted text are one tree, and every token with a meaning of its own is the token of
exactly one node. It says that no handler forgets to add a node it has made, adds one
twice, or passes over a token without looking. Nothing of it can be read off a single
state of the middle of a parse, so `TextInv` follows the text as it is read, again unless an
operand was lost or an error is on its way:

* `Woven`: the nodes that are nobody's child are exactly the loose ones (`Loose`), namely those
  that the active functions build, and the one that is given back or held as a left
  operand; every other node is the child of one node, once;
* `Counted`: of the tokens read so far each meaningful one is the token of a node, but the
  one that is `Due`, for which the innermost function is about to make its node; no two nodes
  have one token, other than the first one, which nodes have until they are marked
  (`Unmarked`);
* `CalledFor`, `Behind`: an expression called for ends right before what its caller passes
  over. That is where a token could be lost: the parenthesis behind an operand is passed
  over without a look at it, and in a list whatever does not close it is taken for a comma;
* `NotStale`: an expression that keeps the type of an older token at the end of the text
  does not take it for a terminator.

That the index of a child is at most the number of nodes, which `TreeOfText` needs for its
count, comes from the children of a node being different nodes. The assumption is
`TextsAssumption`: a text is not empty, and `NULL` is its first token and no other, as
`ls_lex` leaves it (`ls_lex.c:89` is the only place that adds one).

### The lexer

`SatsuLexProofs` proves, for every text, every alphabet and whatever lies behind the text,

* `LexerTyped == Spec => []TypeOK` and `LexerOrdered == Spec => []TokensOrdered`,
* `NothingIsSkipped == Spec => []NothingSkipped`,
* `TokensLongest == Spec => []TokensAreLongest`,
* `RejectsRightly == Spec => []RejectedForNothing`,

from `LexAssumption` (sets of characters are disjoint, limits are numbers). The order of
tokens is inductive with `Behindhand`, the last token ends at or before `at`, and
`Underway`: what the active function has already seen between `at` and `end`, so that a
token it adds is not empty and inside of the text. For the other three the invariant is
`LexemeInv == LexInv /\ Reading /\ Passed /\ TokensAreLongest /\ RejectedForNothing`:
`Reading` says of what is between `at` and `end` that it begins a lexeme of the kind the
function reads, `Passed` that every position before `at` is white space, in a comment or in
a token. The scan of a string keeps one flag for escapes, while a lexeme counts
the backslashes before a quote; the two agree by the parity of that number.

### The panel

`SatsuPanelProofs` proves, for every size of the buffers, every set of lines and every bound,

* `MutexRight == Spec => []MutexHeld`,
* `PanelIsMailbox == Spec => MailboxSpec`,
* `PanelTyped == Spec => []TypeOK`,

for both kinds of user, and for a patient one, who sends only while the program waits,

* `WritesInside == Spec => []NoOverflow`,
* `TerminalComplete == Spec => []OutputComplete`.

(`panel_prompt` shows that the patience is needed.)

The assumption is `PanelAssumption`: lines are sequences of characters other than newline
and NUL. `MutexHeld` becomes inductive with `Placed` (a thread returns from `p_cput` to
where it was called) and `OneProgram` (no thread of a program exists while the panel says
that none runs or starts one: otherwise `pthread_create` would put a second program in the
place of the first). The refinement needs `InputOK` besides: outside of `Send input`,
length and index describe one line and a place in it; inside, they may disagree, and the
mutex keeps `p_cget` away (`TakeMaps`). `RestOfLine` says what is left of a line after a
character. Every other step is shown to leave the box alone (`AsideKeeps`).

For the output, `ScreenInv` adds `OneWriter` (at most one thread is in `p_cput`, which the
code does not lock: a patient user leaves the program waiting while his line is echoed),
`Sent`, `Shapes`, and `Screen`: at each place of `p_cput` and of the flush, what rows, buffer
and the rest of the text come to is what has been put so far, `con`. For this
`con` receives each character when the buffer does.

### Allocation batches, modules and exits

`SatsuMainProofs` proves `BatchKeeps == BatchSpec => []ArraysKept` and
`BatchApart == BatchSpec => []ArraysApart`, for any number of arrays, any sizes and any
alignment. Sums of products are out of reach of the arithmetic of the provers, so the
argument is about neighbours: the offset of each array is at least that of the one before
it and its size, before and after; the new offset of each is at least its old one. Hence a
move, last array first, writes behind every array still to be moved, and in front of every
array already moved. The invariant says, array by array, whether its words are at the
old or at the new place.

It proves as well, for every file system, every list of imports and directories, any
number of modules, both front ends and a failure at any stage,

* `TableIsBatch == Spec => BatchSpec`: the stages implement the abstract batch. Hence
  `TableArrays`: `BatchKeeps` and `BatchApart` hold of the six arrays of the table;
* `RowsHold == Spec => []TableTrue`,
* `BlocksUsedRightly == Spec => []NothingMisused` and `ExitsRelease == Spec => []AllReleased`,
* `ImportsComplete == Spec => []ImportsPresent`.

The invariant is `MainInv`, a conjunction of `BatchInv` and six parts, which need each other:
`Control` says which stage may be at work while the batch is in which phase; `Capacity` that
the capacity of the table is the number of elements of the batch, so that extending the
one is the batch's `Grow`; `Counted` that every file read has a row, or is about to get it;
`RowsKept` carries the rows through the moves of `ls_reallocbatch` by what was there before
(`was`); `Live` names the allocated blocks at every place; `Resolving` relates imports, files
and directories while `ls_resolveimports` runs. The assumptions are `HostsAssumption`,
`PathsAssumption`, `TableAssumption` (six arrays) and `FilesAssumption`: names lead to files, a file's
inode is positive, and two files have two inodes. The last is true of one file system
only; `ls_util.c:67` does not look at the device.

### What is only model-checked

* Liveness: `MutexFreed`, `LineArrives`, `Terminates`, `Ends`. The prover has no fairness.
* What is about recursive operators: `SatsuSema` and `SatsuGrammar` walk trees and texts by
  recursion, so `AcceptedTyped` (what `ls_sema` accepts is well-typed) and `GroupedAsListed` stay
  with TLC. Everything the interpreter does with a well-typed program is proved.
* `AcceptedNests` is a fold over the text and would need induction over it;
  `StringsReadWhole` relates two scans whose results are both recursive functions of the string.

## Not modelled

* The conversion of digits (`strtoll`, `strtod`), floating point, and the characters of
  values at run time: no property here asks what a number or a string is equal to. So the
  steps that C leaves undefined for some numbers only are in the model as far as they
  reach something else (`trap`, `overflow`), and not otherwise: overflow of 64 bit
  arithmetic, and a real cast to an integer it does not fit.
* The text and position of messages, and the printing of tokens, trees and files.
* Failed allocation: the callers do not test for it. `popen` and files succeed or fail.
* Drawing, text fields and embedded resources of gsatsu; `ztgl.h` is vendored.
* `ls_globalsymtab` and `ls_exec` leak the table of globals on their early returns
  (`ls_sema.c:440`, `ls_exec.c:310`); the models have the exits, and no property asks for more.
* Inode numbers without devices, and names that leave no room for a terminator
  (`ls_util.c:67`, `ls_sema.c:205`).
