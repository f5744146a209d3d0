# eppic: a TLA+ development

eppic is an interpreter for a C-like language (`src/libeppic`), built to be
embedded in a debugger; `src/applications/crash/eppic.c` is the extension that
embeds it in the crash utility. This directory holds TLA+ modules that model
its control and state, TLC configurations that check them on small instances,
and theorems about them checked by TLAPS.

## 1. The system

One process, one thread, and signals. Scripts are C files loaded at run time.
The host (crash) loads files and runs their functions as commands; scripts call
each other and may load and unload files themselves. The interpreter is
recursive C over syntax trees, and its non-local control is `setjmp`/`longjmp`.

| Component | Source | State | Operations |
|---|---|---|---|
| Execution control | eppic_alloc.c 357-441, eppic_stat.c, eppic_func.c 359-407, 883-1031, 1154-1210, eppic_node.c, eppic_builtin.c 33-58, eppic_util.c 728-745 | `jmps[]`/`njmps`, the C stack, installed signal handlers, `curp` | push, pop and take a jump; call, block, loop, switch, initializer; break, continue, return; exit, error, signal |
| Scopes and variables | eppic_var.c | `svs[]`/`svlev`, `globs`, `vlev`, automatic lists | add and drop levels, look up, declare, initialize |
| Loader | eppic_func.c 158-327, 553-701, 704-744, 1033-1135; eppic_var.c 530-640; eppic_api.c 1285-1350 | `fall` (files, their functions), `globs`, `parsing`/`parjmp` | load, reload, depend, unload, look up a function |
| Crash commands | applications/crash/eppic.c 951-1048 | `command_table[]` | callback for each function loaded or unloaded |
| Dynamic arrays | eppic_var.c 66-100, 351-400, 1000-1182 | element lists with reference counts | index, assign, copy, free, for-in |
| Memory | eppic_alloc.c 1-355 | the list of blocks, debug flags | allocate, free, show |
| Input | eppic_input.c | `inlist[MAXIN]`, conditional blocks | push a file or a macro, read, end of buffer, `#if` |
| Macros | eppic_define.c, eppicpp.y | macro list | define, undefine, expand, tag and flush per file |
| Type specifiers | eppic_type.c 51-172, 584-933, eppic.y | the type being read | add a specifier, a star, a declarator |
| Type cache | eppic_api.c 28-622 | `slist`, `nlist`, `nextidx` | look up by name and by index, declare, fill, tag and flush per file |
| Operators, numbers | eppic_op.c, eppic_num.c, mkbaseop.c, eppic_type.c 937-1165 | values | arithmetic, conversion, assignment |
| Members, bit fields | eppic_member.c | none | read and write a member in the target's memory |
| Switch | eppic_case.c | none | choose the first case to run |
| Builtins, DSO | eppic_builtin.c, eppic_func.c 409-541 | `bfuncs` | install, remove, call; load a shared object |
| Strings, printing, grammar, API setters | eppic_str.c, eppic_print.c, eppic.y, eppic.l, eppic_api.c | output buffers | formatting, scanning |

How they meet:

* A load runs the parser over the input stack, which expands macros and declares
  types, variables and functions. When it succeeds the loader adds the file's
  globals, frees the version it replaces, and calls the host back for each
  function of the old and of the new version; then it runs `__init()`.
* The host's callback asks the loader which functions exist and runs two of them
  for their help text.
* A command enters `eppic_runcmd`, which installs signal handlers and a `J_EXIT`
  context; every call, loop, switch and initializer below it pushes a context of
  its own. A jump pops contexts by type and restores the scope level its context
  recorded.
* Errors meet two exits: `eppic_parseback` while a file is parsed, `eppic_dojmp`
  to the nearest `J_EXIT` otherwise.

What is hard here: the jump stack, the scope stack, the handlers and the C stack
are separate and only stay together if every path pops what it pushed; signals
arrive between any two of those steps; a load that fails half way must restore
the old version; callbacks see the loader's lists in the middle of a change;
files change on disk while they are loaded.

What makes each component correct:

* control: a jump lands in a live frame of the function and construct it is meant
  for, with that frame's scopes and the host's handlers back in place;
* scopes: no list in use was freed, none is dropped while in use, a lookup stays
  in its function;
* loader: loads are all or nothing, names have one definition, nothing that runs
  is freed, what depend takes for current is current;
* commands: the host offers its own commands and exactly those of the loaded files;
* arrays: a list lives exactly while something refers to it, and a pointer taken
  before a call is good after it;
* input, macros: a load leaves nothing of its file behind when it fails, and the
  stacks as they were;
* declarations, operators, cases: the types and the results of C;
* type cache: a name means what C makes of it where it stands, whatever was looked
  up, declared or loaded before, and keeps that meaning.

## 2. The modules

| Module | What it is |
|---|---|
| `EppicControl` | execution control, with the scope stack |
| `StructuredControl` | what it promises: contexts nest and restore their scopes |
| `EppicControlProofs` | theorems about `EppicControl`: types, the jump stack, where jumps land, whose handlers are installed |
| `EppicControlScopes` | theorems: the scope levels, and that `EppicControl` implements `StructuredControl` |
| `MCEppicControl` | fault sets for its runs |
| `EppicFiles` | the loader, with the files on disk |
| `CrashCommands` | the host's command table, as operators |
| `FileRegistry` | what loading promises: a map from paths to texts, and the load under way |
| `EppicFilesProofs` | theorems about `EppicFiles`: types, single definitions, what loads and unloads keep, and that they implement `FileRegistry` |
| `EppicFilesCommands` | theorem: the command table follows the files |
| `MCEppicFiles` | texts and fault sets for its runs |
| `EppicMacro` | the input stack, macros and conditional blocks of a load |
| `EppicMacroProofs` | theorems about `EppicMacro`: types, the marks, what a load leaves |
| `MCEppicMacro` | texts for its runs, and a C preprocessor to compare with |
| `EppicArray` | arrays, the values that hold them, calls and for-in loops |
| `MCEppicArray` | index paths, and the view that forgets identities |
| `EppicDecl` | declarations: specifiers, stars, typedefs, printed names |
| `EppicDeclProofs` | theorems about `EppicDecl`: types, reports, the types of variables |
| `MCEppicDecl` | the word sizes |
| `CInt` | the integers of C, for machine and script |
| `EppicValue` | values and the operations on one or two of them |
| `EppicExpr` | expressions over variables, with what C computes beside them |
| `MCEppicExpr` | numbers, types, switches and strings for its runs |
| `EppicTypes` | the cache of structs and typedefs |
| `EppicTypesProofs` | theorems about `EppicTypes`, with any faults |
| `EppicTypesMeaning` | what a type was read as, without faults |
| `MCEppicTypes` | an image for its run |

Definitions keep the source's names. An operator called a "faulty variant", or
standing just before the definition it varies, is that definition as a plausible
bug would have it; nothing uses it, and it is there to show that the property it
breaks can fail.

### EppicControl

`ctl` is the C stack, reduced to activations that own a `setjmp` buffer or
remember a scope level: `cmd` (eppic_runcmd), `enter` and `call` (eppic_execmcfunc
before and after its parameters are pushed), `statics` and `block` (a block before
and after its automatic list is pushed), `loop`, `switch`, `body` (one iteration),
`eval` (eppic_exenode). A frame holds the locals that outlive a call: `lev` of a
block, `osa` (the saved handlers) of a guard, `ocurp` of a function. `jmps` and
`svs` are the two global arrays; `jmps[1]` is the entry eppic_open pushes, with its
null env. Slots of `svs` above `svlev` keep their old value, as in the C array, and
`live` says whether the list in a slot still exists. `handler` says whose handlers
are installed, `curp` whose path string is current. `bare` is an eppic_exenode that
holds saved handlers but has no entry in `jmps`: it has installed handlers and not
yet pushed its context, or a jump has taken its entry off and it has not yet put the
handlers back. `crashed` is set by the two things that end the process or worse: a
`longjmp` through the null env, and the second release of one set of saved handlers.

Each action is a routine from one call into the interpreter to the next:
`eppic_runcmd`, `eppic_exefunc`, `eppic_docall`, `AddParams`, `ReturnFromBody`,
`EndCommand`, `EnterBlock`, `AddAutos`, `ExitBlock`, `EnterLoop`, `BeginIteration`,
`EndIteration`, `ExitLoop`, `EnterSwitch`, `ExitSwitch`; of eppic_exenode
`InstallHandlers` (eppic_setexcept), `BeginEval` (eppic_pushjmp), `RemoveHandlers`,
`EndEval` (eppic_popjmp) and `AbandonEval` (the branch behind its setjmp); and the
jumps `Break`, `Continue`, `Return`, `Exit`, `Error`, `Interrupt`, which all go
through `eppic_dojmp`. A jump and what the frame it lands in does up to its return are
one step, but for eppic_exenode, whose handlers stay installed until `AbandonEval`
(SA_NODEFER lets a second signal in before it). eppic_runcmd's two calls at either end
are one step: a signal between them finds the base entry alone, and eppic_dojmp then
does nothing. Statements and expressions have no data: any of them may come next where
the grammar allows it.

`Faults` names what the grammar, the API or the operating system allow and the code
does not cope with. Three are about where a signal or an error finds the interpreter:

* `apiAbort`: an error or exit() in a function run by eppic_exefunc;
* `lateSignal`: a signal in eppic_exenode after eppic_rmexcept and before eppic_popjmp;
* `bareSignal`: a signal in eppic_exenode with its handlers installed and no entry of
  its own in `jmps`, before the push or after a landing, when no command or outer
  evaluation has one either, that is, under eppic_exefunc.

Signals at all other points are in every run. Runs without faults check everything;
runs with a fault show what breaks.

### EppicFiles and CrashCommands

`disk` and `mtime` are the files, `clock` is `time(0)` in seconds. `fall` is the
list of loaded files; an fdata has a text (its functions, its global variables,
whether it compiles) and `inserted`, how many functions the parser has entered.
`globs` are the global sets of those files; the set of the debugger's symbols and
the arguments of a running command are on that list too, and are left out. A load
is `BeginLoad` (eppic_newfile up to the parse) and one of `Install`,
`InstallJumpsOut` and `FailParse`; `loading` holds the new and the old version in
between, when the old one is off the list. `LoadUnread` is the early return when
the file cannot be read. `running` is the stack of files whose functions execute.
The help functions that the host's callback runs are taken to return and to load
nothing. A file that exists but cannot be opened or read is `Unreadable`; one that
does not exist is not found by its path, so it can be neither loaded nor unloaded.

`table` is the command table of the extension. It starts with the extension's own six
commands (`OwnCommands`: edit, load, unload, sdebug, sname, sclass); crash's native
names and the capacity are constants. A function name is a pair of a base and one of
"", "_help" and "_usage".

`FileRegistry` is the abstraction: a map from paths to texts and the load under way. A
load replaces its path's text just when the text compiles and collides with no other
loaded file, and changes nothing otherwise; a text goes only by an unload, and
`UnloadsAreAsked` says that this is eppic_unload of that path.

`Faults` names what users may do and the code does not expect:

* `unreadable`: a loaded file is loaded again when it cannot be read;
* `dupGlobal`: a file declares a global that another file declares;
* `brokenCommand`: a file that defines the function of a command, its own or another
  file's, does not compile;
* `dropCommand`: a file with commands is unloaded, or its new text lacks one of them;
* `ownCommand`: a file makes a command with the name of one of the extension's own;
* `selfUnload`: a file is replaced or unloaded while its code runs;
* `sameSecond`: a file changes while it is being loaded, or within the second of its load.

`files_ok` leaves them all out, so it says nothing of the hazards they stand for, but
that nothing else brings the same about. The section on bounds says what each breaks.

### EppicMacro

A text is a sequence of items: names, marks, directive lines, enum declarations.
`inlist` is the stack of input buffers with what is left of each and what its
donefunc does (`popmac`, `popsub`, or nothing for a file); `macs` is the list of
macros, in which a parameter's substitution is a macro too, of the macro `m`;
`supressed` are the macros so marked. `calls` are the macros whose "(" the lexer is
reading, `alts` the blocks of an #if not yet decided. `out` is what the parser is
given, `ppout` what the parser of an #if expression is given. Each action takes one
item: a name (`eppic_chkmacvar`), a mark, the "(" of a call (`eppic_pushmac`), a
directive (`eppic_define`, `eppic_undefine`, `eppic_include`, `eppic_zapif` and its
`TryBlock` and `EndExpression`), an enum (`eppic_pushenums`), the end of a buffer or
of the parse. An error pops every buffer and leaves the load in one step (`Abort`).
`status` tells the two ends that no load should have: "hung" is eppic_skipto reading
-1 for ever at the end of a buffer, "crashed" an eppic_flushmacs that runs off the
list, or an error in eppic_popallin.

`MCEppicMacro` defines the reference `Cpp` independently: one pass over the text
with a stack of open conditionals, in which arguments are expanded before they are
put in, where eppic reads names through a list of substitutions.

### EppicArray

Every value owns a pointer to an array, and of a value only that pointer is kept.
`heap` is the allocated arrays with their counts and elements; an element is an
index, the array of its index value and the array of its value. `vars` are the
variables, `stack` the calls, blocks, for-in loops and pending stores that hold
values while others run, `lost` what a jump left behind (a leak, bounded by
`MaxLost`). `eppic_refarray` recurses into the values of the elements, as the code
does, and `trap` says that a freed or null array was used. An action is one
statement step: a store, a copy, a call with its parameters, a return, the start, a
step and the end of a loop, a break.

The grammar indexes any term, so what is indexed may be a variable, what a builtin
made, or a function's result. `eppic_exeindex` is one index: it makes the element if
need be, copies its value, and frees the value that was indexed, with its array if
nothing else holds it. Next to a value stands the place a store to it goes
(`value_t.setval`): a variable, an element, nowhere, or `Freed`. A function's result
may be indexed and stored, or be the left side of an assignment (`left`), indexed or
not, whose right side may call again. Not modelled: a result's element stored into an
element, passed or returned without a variable between, and for-in over a result.

Faults: `sharedStore` (a store into an array that several values hold; `shared_array`
shows what it does), `selfStore` (of these, a store of an array into itself) and `tempStore` (a
store to what went with a temporary: `g()[1] = f()` when nothing else holds the array
that `g` returned, or `g() = f()` when `g` returned a local). With `tempStore` the left
side points into freed memory before the right side is evaluated, and the assignment
writes there (eppic_op.c 217-221 and 725-727): TLC finds `PendingStoresLive` broken in
one step, and `OnlyArraysUsed` in two. Without it temporaries are indexed and read, and
stored into when a variable holds their array too. `sharedStore` and `tempStore` alone
break `OnlyArraysUsed`; `selfStore` alone changes nothing, as an array that is stored
into itself is held by the value that is stored.

### EppicDecl

A type has attributes (what the words said) and an index with a size computed from
them, because part of the code looks at one and part at the other. The actions are
the words, stars, declarators and typedefs in the order the grammar allows;
`said` is what was reported. The properties compare with C's own rules for the
words, given as sets and not as a procedure. Faults: `longLong` (a long without a
sign is unsigned), `intLong` (int in front of long), `pointer` (a pointer to a type
without a sign), `pointerTypedef` (several declarators of a typedef of a pointer),
`repeated` (a third long, or a repeated word next to long, is not reported).

### CInt, EppicValue, EppicExpr

`EppicValue` has values as the code has them: an index, a size, attributes, and the
bytes of the union (`raw`), with the operations as they read and write these.
`EppicExpr` builds expressions an operator at a time over variables, and carries
next to each value what C has for the same expression (`CInt`). Faults name where
the interpreter is not C: `narrow` (operands below int are not promoted), `operand`
(type of conditions and shifts), `computed` (the sign of a computed value, where it
is converted or negated), `negation`, `flip` (of numbers wider than a word),
`suffix`, `strings` (`<=` and `>=` compare as `<` and `>`), `default` (a default
label in front of case 0 is taken for it), `overflow` (the smallest number of a type
divided by -1, or its remainder: eppic_op.c 624-631 looks for a divisor of 0 only, the
machine raises SIGFPE, and that signal is not one of eppic_func.c:361). `values_ok`
leaves these uses out and checks that the rest is C; `value_sign` shows the effect of
`computed`. With `overflow` alone `NeverTraps` fails in two operators. A shift by a
number of bits that the type does not have means nothing in C and is not modelled.

### EppicTypes

`slist` is a set of entries, each with its age: the list is searched from its head,
so of several with one name the youngest is found. An index of the image is an
address, here the name of what is there; an index of a script's type is a number
from `nextidx`. The image is three constants: its struct tags, the tags its members
mention, its typedefs. The actions are what the parser does with a name: a plain
name (`ReadName`: scanner and variable declaration both look it up as a typedef),
`struct n` (`eppic_newctype`, after the scanner has tried the tag as a typedef),
`struct n {` and `}`, a typedef; `AccessMember` is a function that runs, of this
file or an earlier one; `EndLoad` is both the end of the file and an error in it.
`scope`, `ndecl`, `done` and `uses` are not state of the code: they say what C
makes of the names, and which types the parser was given, each with what it had to
be.

What an answer depends on that it should not is in `Faults`: `stub` (a tag that
only members mentioned so far has an entry that is not complete: looked up by name
it stays so, and a script's struct of that tag fills it), `negative` (a tag that
was once read as a plain name is in `nlist`, and a typedef of the image to it is
then made a void one), `stale` (a typedef of the image keeps the struct its tag
meant when it was first read, though the file has redeclared it), `trailing` (a
struct that an earlier file declared hides the image's). Each of them alone breaks
`TypesKeepMeaning`. Two more are in the constants: a typedef of a pointer to a named
struct loses its reference (eppic_getctype frees the type that carries it), and a
typedef with the name of a struct tag is not found (apigetctype).

## 3. What the runs check

| Run | Instance | What it shows |
|---|---|---|
| `control_ok` | 7 frames, 8 scopes, 1 residual level, no faults | all invariants below, and that the stacks implement `StructuredControl` |
| `api_abort` | `apiAbort` | `NeverCrashes` fails: an error under eppic_exefunc jumps through the base entry |
| `files_ok` | 2 paths, 5 texts, 3 loads, 3 seconds, 1 running function, room for 3 commands, 1 of them the extension's own | all properties below, and that loads implement `FileRegistry` |
| `files_faults` | 2 paths, 4 texts, 2 seconds, all faults | `OneDefinition` holds with every fault |
| `lost_file` | `unreadable` | `LoadedUntilUnload` fails: a reload that cannot read the file loses the old version |
| `macro_ok` | about 8,400 texts, stack of 9 buffers, one load each | the invariants below for all of them; for those of `MCClean`, that the parser gets what a C preprocessor gives, and that every load ends |
| `arrays_ok` | 1 global and the locals of 2 calls or loops, paths of up to 2 indices, of up to 1 on a result, 5 arrays, no faults | counts are exact, nothing freed or null is used, and pending stores have their target |
| `shared_array` | `sharedStore`, 6 arrays | `ElementsHaveArrays` fails: an array stored into a shared one is freed while its element has it |
| `decl_ok` | 4 words, 2 stars, 2 declarators, images of 32 and 64 bits | the declared types are C's, what is no type is reported, printed names read back |
| `values_ok` | 2 operators, 2 variables of any of 5 types, bytes of 1 bit | values, variables and switch cases are C's; division by zero is reported |
| `value_sign` | `computed` | `VarsAreC` fails: the sum of two ints, assigned to a long long, loses its sign |
| `types_ok` | 2 structs and a typedef in the image, 2 loads, 3 indices, 2 nested declarations, no faults | every type keeps the meaning its name had |

Properties of control: `JmpsMirrorFrames` (the jump stack lists exactly the live
setjmp owners), `NeverCrashes`, `ScopesInForce` (no
freed list is in use, and a lookup ends at the level of the running function's
file), `HandlersOwned` (the host gets its handlers back), `StableScopes` (a step
touches no scope that stays), `LoopJumpsEndOnlyLoops`, `ImplementsStructured`.

Properties of the loader: `OneDefinition`, `GlobalsOfLoadedFiles` (the globals are
those of the loaded files, each declared once), `CommandsRegistered` (the host
offers its own commands and those of the loaded files, and no other), `RunningIsLoaded`,
`DependIsFresh`, `LoadedUntilUnload`, `ImplementsRegistry`.

Properties of input and macros: `SubsMirrorBuffers` (the parameters on the list are
those of the macros being read, innermost first), `MarksMirrorBuffers` (the
parameters of a macro are hidden just while one of them is read), `NoResidue` (a load leaves the host's defines, and no buffer; a mark may
stay on a host's define, where nothing reads it), `ExpandsAsC`, `LoadsEnd`.

Properties of arrays: `RefsArePaths` (a count is the number of ways to the array
from the values that are held), `OnlyArraysUsed` (elements have live arrays, and
none that was freed, or null, was used), `PendingStoresLive` (what an assignment is
about to write through is still there after its right side ran).

Properties of declarations: `DeclaredAsC`, `ReportedIffInvalid`,
`PrintedNameIsType` (the name that eppic_getbtypename prints, read again, is the
type). Of values: `ValueIsC`, `VarsAreC`, `SwitchIsC`, `NeverTraps` (no division
by zero reaches the machine; the quotient that overflows does, and is the fault
`overflow`). Of types: `OneEntryPerIndex`, `TypedefsAreScoped`,
`TypesKeepMeaning` (a type the parser was given has, now and after anything later,
the members its name had there, and is complete when that declaration is).

Bounds. Seven frames hold a command, its function, a block, a loop, an iteration,
a call or an initializer and what that opens: every pair of constructs nests in
both orders, and one jump crosses three others. Eight scopes let a second function
be entered inside a block of the first. Two paths and three loads are a file, its
replacement and a file in conflict with either; three seconds are a load, a later
edit and a reload. The texts of `MCEppicFiles` are two versions of a file with a
command and one that does not compile; a file with another command, a static
function and a global that collides with one of those versions; and one with a
command of crash's own name and a function that collides with the first file's; one has
a function named like a command of the extension that is no command. No text
has a static function named like another file's command: the callback announces
static functions too, and `CommandsRegistered` fails with such a text. With
`dupGlobal` a load by the host leaves two declarations of one global
(`GlobalsOfLoadedFiles`), because eppic_rerror returns when no jump context is left;
with `selfUnload` a script's own file is freed under it (`RunningIsLoaded`); with
`sameSecond` an edit in the second of the load is never noticed (`DependIsFresh`);
with `dropCommand` an unload leaves its command registered, with
`brokenCommand` a rejected file removes one, and with `ownCommand` a command named
`load` is entered a second time, and the unload of its file takes the extension's own
entry, the first of that name, and frees its name, a literal (`CommandsRegistered`).
Of control,
`strayJump` (break in a function without a loop) ends the caller's loop
(`LoopJumpsEndOnlyLoops`), and `evalError` (an error in an initializer) frees lists
that come back into use (`ScopesInForce`).

The texts of `macro_ok` are calls nested three deep over a macro without parameters
and three with, two of which share a parameter's name and one of which calls the
other; all sequences of four of ten lines after an #if that hold an #endif; texts
that run into the limit of the stack: a macro that contains itself, a file
that includes itself, in an #if or not; and the malformed: a macro in its own
argument, any three items after the definitions, an argument list that its buffer
cuts off. Nine buffers hold the deepest of the nested calls, so only the
self-containing ones meet the limit. `ExpandsAsC` and `LoadsEnd` are about the texts
that are not malformed: a macro in its own argument loses its parameters, as in
`P(P(x))` (eppic_getmac skips every substitution of a macro while one of its
parameters is read, those of the inner call too, and the inner eppic_popmac raises
"Oops macro pop!"), and an argument list that is cut off is read for ever. A macro
whose text uses the name of another's parameter is captured by it, unlike in C;
texts that undefine the host's defines lose them, or crash at the end of the load; a
parameter that finds the stack full crashes. No run has such texts. One load is
enough: `NoResidue` makes the state after it the one before, and the identities of
macros, which only grow, are not read.

Five arrays are a global's, a parameter's that shares it, an element two deep, an
index and a temporary, which may be a function's result or an element of it. Four words are each of C's longest specifier lists plus one
too many. With bytes of one bit an int has 4 bits and a long long 8, so every width
has its two signs and its limits among the five numbers; with two operators
(`MaxOps` counts the first operand) the result of an operation is converted, used in
another, or stored. The image of
`types_ok` has a struct with members of another and of itself, and a typedef; two
loads are a file that declares and one that meets what it left, three indices a
struct, its redeclaration and a typedef.

Deadlock is not checked: the bounds stop the instances, and a crashed interpreter
does nothing.

Fairness: for all but `EppicMacro` none is assumed, and no liveness is claimed. A
script may loop for ever and the user may never come back; nothing in the code
schedules anything. `EppicMacro` assumes weak fairness of the steps of a parse
(`WF_vars(Step)`), not of loads: a parse is one call that runs to its end and waits
for nothing.

## 4. What is proved

`EppicControlProofs`, for every value of the constants and every set of faults:

* `TypeCorrect`: `Spec => []TypeOK`;
* `StacksInStep`: `Spec => []JmpsMirrorFrames`;
* `PopsAlwaysMatch`: `Spec => []PopsMatch`.

The inductive invariant `IInv` is `TypeOK`, `JmpsMirrorFrames` and
`OnlyEvalsFreed` (only an evaluation on top of the stack has given its handlers
back). The argument is about one relation, `Mirrors(c, j)` between a C stack and a
jump stack, and how it is kept: by cutting both at an entry (`MirrorsCut`, every
jump and pop), by pushing a context with its entry (`MirrorsPush`), by pushing and
popping a block, which has none (`MirrorsOpenBlock`, `MirrorsCloseBlock`), and by
relabelling the top frame (`MirrorsRelabel`). `PopsMatch` (eppic_popjmp
never reports "Wrong pop!") follows from `Mirrors` alone, and so is in no run: when the
top frame owns an entry, it is the top entry.

Also there and in `EppicControlScopes`, for every value of the constants, with
the faults that each theorem rules out:

| Theorem | States | Ruled out |
|---|---|---|
| `HandlersStayOwned` | `[]HandlersOwned` | `strayJump`, `evalJump` |
| `LoopJumpsStayInside` | `LoopJumpsEndOnlyLoops` | `strayJump`, `evalJump` |
| `JumpsNeverCrash` | `[]NeverCrashes` | all but `evalError` |
| `LookupsStayInside` | `[]LookupStaysInFunction` | none |
| `ScopesStayInForce` | `[]ScopesInForce` | `evalError` |
| `ScopesStayStable` | `StableScopes` | `evalError` |
| `StructuredImplemented` | `ImplementsStructured` | all but `evalError` and `lateSignal` |

Each fault that a theorem rules out breaks its property: TLC finds the
counterexample when that fault alone is put into the constants of `control_ok`, with
an eighth frame for `strayJump` and `HandlersOwned`. (`bareSignal` crashes after
`eppic_exefunc`, `InstallHandlers`, `Interrupt`.) (`strayJump`, `apiAbort` and
`bareSignal` end in a crash, which `StructuredControl` has no step for.) The theorems so say which of the
code's weak points a property hangs on: a signal between the two halves of
eppic_exenode's return, for one, may crash the interpreter and still disturbs no scope.

* Jumps. Since the stacks mirror each other, `TargetFrame` and `JumpLands` turn
  eppic_dojmp's search by type into one among frames: it lands in the innermost
  frame of its kinds. `JInv` adds that only the top frame may have given its
  handlers back and only the first frame is a command (`Ordered`), and that a bare
  evaluation stands above no frame that has (`BareAbove`); otherwise a
  signal could find handlers whose frame is gone from the stack. `HandlersOwned` is
  not inductive, as it does not say what an inner evaluation gives back; `HInv` adds
  `OwnedBy`, that each saved set is eppic's just if another one is installed below
  it. `PlacedTarget` is where the place of a break, continue or return is used.
* Scopes. `SInv` adds to `JInv` the shape of the levels (`Shape`): each frame begins
  at a level that all frames before it, with the scopes they opened themselves, fit
  under (`Nested`), and the `S_FILE` levels are one for each active function, at its
  base (`FilesOwned`). It holds with every fault, up to a jump that leaves no entry.
  A lookup ends at the right level by `FilesOwned`. `ScopesLive` and `StableScopes`
  follow from `Keeps`: a level in use before and after a step is untouched, and a new
  one is alive. `ErrorKeeps` is where an error in an evaluation has to be ruled
  out: eppic_error drops all levels before it jumps.
* Refinement. `Activations` reads a frame's base off its local or its entry in the
  jump stack. `NextSorted` sorts the actions of `Next` into opening, relabelling,
  ending and jumping ones, and says once per sort what becomes of the activations
  (`StartsContext`, `RelabelsActs`, `CutActs`) and of the scopes; `JumpSteps`
  finds the abstract abrupt end, with its walls, from `PlacedTarget`.

`EppicFilesProofs`, for every value of the constants and every set of faults:

* `FilesTyped`: `Spec => []TypeOK`;
* `DefinitionsStaySingle`: `Spec => []OneDefinition`.

`OneDefinition` is not inductive: a failed parse puts the old version back in
front of files that it was not on the list with. `IInv` adds `OldFits` (while a file
is parsed, the version it replaces has the same path and shares no global function
with the files behind) and `GoodList` (no fdata counts functions its text lacks).
Four facts about lists carry it: `FirstFile` (what eppic_findfile finds),
`UnlinkedGood` (what is left has nothing of that path), `OldVersion` (what was taken
out fits what is left) and `LinkGood` (a file without conflicts may go in front).
`WholeSeparate` is where eppic_newfunc's check for conflicts is used: the file that
is parsed has no conflict, so once all its functions are in it shares none.

Also there, for every value of the constants:

| Theorem | States | Ruled out |
|---|---|---|
| `LoadedFilesStay` | `LoadedUntilUnload` | `unreadable` |
| `RunningStaysLoaded` | `[]RunningIsLoaded` | `selfUnload`, `unreadable` |
| `DependStaysFresh` | `[]DependIsFresh` | `sameSecond` |
| `GlobalsFollowFiles` | `[]GlobalsOfLoadedFiles` | `dupGlobal`, `unreadable` |
| `RegistryImplemented` | `ImplementsRegistry` | `dupGlobal`, `unreadable` |

Again TLC finds each property broken by each fault ruled out, alone, and by none of
the others. The proofs look at the list as a set: `Standing`, the loaded files
without the one being parsed, and `Coming`, the new and the old version that the
load holds. `StepSorted` says of every step that it begins a load, drops a file,
ends a load with one of the versions, or leaves both sets alone; the invariants are
kept case by case. `BInv` adds to `IInv` that what stands is complete and that
identities belong to one file each (`OwnIds`): without it an id in `running` or
`globs` would not name a file. On top of it stand

* `RunsStanding`: what runs stands, so a load that takes a file off the list may not
  be of one that runs, and `LoadUnread`, which takes it before it knows, may not
  happen;
* `AllUpToDate`: the time of a fdata vouches for its text, and for that of the old
  version while the new one is parsed, since a failure brings it back;
* `VarsApart` and `GlobsMatch`: what stands, and what the load may add to it,
  shares no global variable, and the sets are those of the files that stand, one
  each, so eppic_rm_globals finds the set it looks for (`RmGlobals`);
* for the refinement `Held`, the versions in force: those that stand and the old
  one under a load. Beginning a load, and a failed one, leave it, and a load fails just
  when its text does not compile or collides with a text in force: for the functions
  that is eppic_newfunc's check, for the variables `VarsApart`.

`EppicFilesCommands`, for every value of the constants, without the faults
`dupGlobal`, `unreadable`, `brokenCommand`, `dropCommand` and `ownCommand`:

* `CommandsFollowFiles`: if `WholeCommands` and `RoomForCommands`, then
  `Spec => []CommandsRegistered`.

The two hypotheses are about the texts, and TLC finds the property broken without
either. `WholeCommands`: a function named `x_help` or `x_usage` comes with `x`, in one
file, and no static function has a command's name. reg_callback looks for the three
names in all files, whoever defines them: a command whose help is in a second file is
not registered when that one is loaded last, and stays in the table when that one is
unloaded first. A static function with a command's name registers it again, and
takes it away when its own file goes. `RoomForCommands`: add_eppic_cmd drops a command
without a word when the table is full, and does not come back to it. `selfUnload` and
`sameSecond` do no harm.

The invariant `CmdInv` says that the table holds the extension's own commands and each
command of the versions in force (`Held`) exactly once and nothing else (`Entries`), that
no version in force has a command of an own name (`OwnApart`), and of a load (`LoadFits`)
that the commands of the old version are among the new one's, and that the new one has
none of an own name, or, if it does not compile, names no file's command of the table:
this is what `dropCommand`, `ownCommand` and `brokenCommand` break. A rejected file with
a function of an own name does no harm: help and usage of that name are nowhere in sight.
What a callback does to the table depends only on the names it is given and on
what is visible, so the proof is about one fold, eppic_docallback over the functions of
one file: `after[k]` is the table when k of them were told of. There is no induction
over data; instead, if the fold ever leaves what a lemma says of it, there is a least
position where it does (`Least`, from the well-foundedness of the naturals), and
the step to that position is one reg_callback.

`EppicMacroProofs`, for every family of texts, every depth of the stack and every
number of loads:

* `MacroTypes`: `Spec => []TypeOK`;
* `NothingStays`: if `HostUntouched`, then `Spec => []NoResidue`;
* `MarksFollowBuffers`: if `HostUntouched`, then `Spec => []MarksMirrorBuffers`.

`HostUntouched` says that no text defines, undefines or binds a name that the host
defined with eppic_apiset (crash defines `linux` and its like, eppic_apiset itself `eppic`). The code would let it:
such a text takes the host's define off for every file to come, or, when it is the first
on the list, makes eppic_flushmacs run off its end. `MCEppicMacro` assumes it of its
texts too.

One invariant, `Good(N)`, serves all three, for a set N of names that the texts keep to
when they define, undefine or bind one (`Heard`): N is all names for the types, and all
but the host's for the rest (`Others`). When N and the host's names are apart, the
list of macros is always some new macros with names in N, then the host's defines as
they were (`Lists`). This is what every operation on the list keeps: a name of N is
never found among the host's (`TakenFromFront`), so what is taken off is in front,
hidden macros included. Then the tag of a load is the host's first define, and
eppic_flushmacs leaves exactly the host's list, from whatever point eppic_error was
called: the buffers that eppic_popallin takes off may leave substitutions on the list,
which an error in the middle of `P(P(x))` does, and they lie before the tag. `Good` also
says that only one buffer at a time is an #if's expression, with the file it came from
under it (`Shaped`): otherwise `EndExpression` could decide the block of another #if.

The marks are kept by `Mirrored`, which says three things of the macros that are
held, on the list, in an open call or in a buffer that will pop or unmark them. No
identity is both that of a macro without parameters and that of a macro with
parameters or its substitution (`Unlike`), since a mark is put on m->m whatever m is. Of
the buffers of parameters (`Marking`), each has its macro marked and no two are of the
same macro: the second would have been hidden from eppic_chkmacvar. And a marked
macro with parameters has such a buffer (`Marked`). Without the second part
eppic_popsub could unmark a macro while another of its parameters is still being read.

`EppicTypesProofs`, for every image, every set of names and faults, and every bound:

* `TypesTyped`: `Spec => []TypeOK`;
* `IndexesStaySingle`: `Spec => []OneEntryPerIndex`;
* `TypedefsStayScoped`: `Spec => []TypedefsAreScoped`.

`IInv` says of the cache (`CacheOK`) that its entries are good (a struct of the image
is entered under its own tag, a script's under an index that was given out), that an
index leads to one struct, and that a script's typedef is younger than one of the
image with the same name (`Hides`); and of the scope (`ScopeOK`) that the typedefs
declared in the file are exactly the script's typedefs in the cache, all younger than
the tag of the load. Goodness is what makes the index of a tag new when no entry has
its name (`FromImageKeeps`), `Hides` what makes the youngest the script's. Every
lookup is shown to keep the cache (`Keeps`: it stays in order, and no typedef of a
script comes or goes), one lemma per routine; only `TdefDeclared` and `FlushIs` change
the typedefs. `YoungestIn`, that a set of entries with bounded ages has a youngest, is
from the well-foundedness of the naturals.

`EppicTypesMeaning`, for every image whose typedefs carry no reference, every set of
names and every bound, and no faults:

* `TypesStayMeant`: `Spec => []TypesKeepMeaning`.

Both hypotheses are needed: TLC finds the property broken by each fault alone, and by a
typedef of a pointer. It speaks of members, and nothing in the property says why a
lookup by name finds the struct that was meant. `MInv` does: an entry of the image has
the image's members and typedefs (`ImageOK`), of one name the youngest struct is one
(`AgesApart`), a tag of the file finds a struct of the script that is complete exactly
when its declaration is (`TagOK`), and whatever the parser was given fits what it had to
be (`Fit`): the struct at its index has those members (`Meant`), and the tag that means
that declaration, if the file has one, finds that very index (`Bound`). `Bound` is what
the end of a declaration needs: eppic_ctype_decl completes the struct that the tag
finds, and it has to be the one that its earlier uses hold. `TypedefsAreScoped` is not
enough for typedefs either: `AllFit` ties the one that is found to its meaning.

The argument has two halves. `Sustains` says what a growing cache keeps (the script's
structs as they are, complete structs of the image complete, and what a set of tags
finds), and `SustainsFit` that this keeps every meaning; `FillSustains`,
`NewPartialSustains` and `FromImageSustains` show it of the routines, and this is where
the faults would enter: `stub` entries would hide a tag's own, which is the hypothesis
of `FillSustains`. `StructMeans` and `TypedefMeans` say what the two lookups give
(`trailing`, `negative` and `stale` are the ways in which they would not), and
`NewMeaningAll` is the step where a tag gets a new meaning. What is left is the end of
a declaration, which changes an entry in place, and a typedef's declaration.

`EppicDeclProofs`, for images of both word sizes, specifier lists and declarators of
any length and number of stars, with the faults that each theorem rules out:

| Theorem | States | Ruled out |
|---|---|---|
| `DeclTyped` | `[]TypeOK` | none |
| `InvalidIsReported` | `[]ReportedIffInvalid` | `repeated` |
| `VariablesAreAsDeclared` | `[]DeclaredAsC` | `longLong`, `intLong`, `pointer`, `pointerTypedef` |

TLC finds each property broken by each fault ruled out, alone, and by none of the
others. The code keeps attributes and never the list that made them, so the question is
what the attributes remember. `Kept` says it for any list that C knows: whether a sign,
`char` or `short` was read, and whether a `long` was; an `int` may be forgotten next to
a `long`. That is enough to tell whether one more specifier goes with the list
(`TakenIffC`), and it is where `repeated` bites: a third `long` or a second `int` next
to one is not told from a first. `MadeAs` adds which sign it is and how many `long`
were read: true only without `longLong` and `intLong`, and `UnsignedGoesOn` is where
they enter (eppic_addbtype makes a type without a sign unsigned when it adds `long` or
`short`, and without the faults only `int`, or `short` after `int`, is added to such a
type). `Means` is what is left once the sign is settled (`MadeMeans`), survives the
setting of the size (`MeansSettled`) and is C's type (`MeansTyped`); `DeclaredMeans`
carries it to the declarators, through typedefs, and needs the last two faults ruled
out: under a pointer the sign is not settled, and only the first declarator gets the
stars of a typedef.

The assumptions are those on the constants (`ControlAssumption`,
`FilesAssumption`, `NullsAssumption`: the null pointers are no fdata, text or load;
`OnceAssumption`: eppic_newfunc reports a function defined twice; `MacroAssumption`,
`TypesAssumption`, `DeclAssumption`; `NoneAssumption`: no type is none), which TLC
evaluates in the runs.

Only model-checked: `PrintedNameIsType`, which flattens and folds a name;
`SubsMirrorBuffers`, `ExpandsAsC` and `LoadsEnd` of `EppicMacro`; and all of `EppicArray`
and `EppicExpr`. `SubsMirrorBuffers` and `ExpandsAsC` are about the texts of `Clean`,
those whose calls are closed and not in their own arguments: whether a text is one is
known only from what its expansion does, so no invariant can be stated in terms of the
text alone. `ExpandsAsC` compares with recursive operators, `EppicArray` is written with
them (the code's own recursion), and `CInt` uses the bitwise operators of the community
modules: the prover takes none of these. `LoadsEnd` is a liveness property, which the
prover does not handle.

## 5. Not modelled, and the plan

Not modelled for good: the grammar and scanner (lex and yacc input), formatting of
values, calls into gdb and crash, DSO modules (dlopen and the modules' own code).

Open, in this order:

1. `EppicSession`: the parse as the loader's third party: `parsing`, `parjmp`,
   `vlev`, `S_PARSE` levels, loads inside a running script, composed with
   `EppicControl`. Hazards: eppic_parseback keeps `njmps` and the handlers of an
   evaluation; a failed load drops the scopes of the script that asked for it.
2. Pointers as values, struct layout (eppic_setst) and bit fields, against C's.
3. Builtins: the list, the scan for help functions, substr.
4. The list of allocated blocks, and what a jump leaks of it.
5. Proofs: `PrintedNameIsType`, by cases of the at most seven printed words;
   `MarksFollowBuffers` without `HostUntouched`, by following the marks through
   eppic_popallin.

A difference of documentation and code met on the way and not modelled:
`src/libeppic/README:244-245` says eppic_unload takes the name of a function of the
file; eppic_loadunload takes the path of the file.
