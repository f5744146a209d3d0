----------------------------- MODULE EppicFiles -----------------------------
(***************************************************************************)
(* The loader of libeppic: the list of loaded files (fall), the list of    *)
(* global variable sets (globs), and eppic_newfile, eppic_deletefile,      *)
(* eppic_depend and what they call (eppic_func.c, eppic_var.c,             *)
(* eppic_api.c), with the crash command table their callbacks maintain.    *)
(*                                                                         *)
(* A load is two steps: eppic_newfile up to the parse, then the rest.  The *)
(* interpreter does nothing else in between, but the files may change and  *)
(* time passes.  `running' lists the files whose functions are executing:  *)
(* a script may load and unload files, its own included.                   *)
(***************************************************************************)
EXTENDS Integers, Sequences, SequencesExt, CrashCommands

CONSTANTS
    Files,        \* paths, as eppic_filepath resolves them
    Texts,        \* what a file may contain
    Absent,       \* no such file
    Unreadable,   \* a file that stat finds and open or read does not
    NoFile, NoText, Idle,
    MaxClock, MaxLoads, MaxRunning,  \* bounds of the exploration
    Faults

(***************************************************************************)
(* What users may do, and the code does not expect:                        *)
(*   unreadable    a loaded file is loaded again when it cannot be read    *)
(*   dupGlobal     a file declares a global that another file declares     *)
(*   brokenCommand a file that defines the function of a command, its own  *)
(*                 or another file's, does not compile                     *)
(*   dropCommand   a file with commands is unloaded, or its new text lacks *)
(*                 one of them                                             *)
(*   ownCommand    a file makes a command with the name of one of the       *)
(*                 extension's own (edit, load, unload, ...)               *)
(*   selfUnload    a file is replaced or unloaded while its code runs      *)
(*   sameSecond    a file changes while it is being loaded, or within the  *)
(*                 second of its load                                      *)
(***************************************************************************)
FaultNames == {"unreadable", "dupGlobal", "brokenCommand", "dropCommand",
               "ownCommand", "selfUnload", "sameSecond"}

\* ok: the text compiles as far as it alone is concerned.
ASSUME FilesAssumption ==
    /\ MaxClock \in Nat \ {0} /\ MaxLoads \in Nat /\ MaxRunning \in Nat /\ MaxCmds \in Nat
    /\ Faults \subseteq FaultNames
    /\ \A text \in Texts :
        /\ text.funcs \in Seq([name : STRING \X STRING, local : BOOLEAN])
        /\ text.ok \in BOOLEAN
    /\ {Absent, Unreadable} \cap Texts = {}

\* eppic_newfunc reports a function that the file defines twice.
ASSUME OnceAssumption ==
    \A text \in Texts :
        text.ok => \A i, j \in DOMAIN text.funcs :
                        text.funcs[i].name = text.funcs[j].name => i = j

VARIABLES
    disk, mtime,  \* per path: its text, Absent or Unreadable; st_mtime
    clock,        \* time(0)
    fall,         \* loaded files, most recent first
    globs,        \* sets of global variables, most recent first: [id, vars]
    loading,      \* Idle, or the fdata being parsed and the one it replaces
    running,      \* ids of the fdata whose functions are executing
    table,        \* crash's command table
    nloads        \* loads begun, for the identity of an fdata

vars == <<disk, mtime, clock, fall, globs, loading, running, table, nloads>>

-----------------------------------------------------------------------------
(* An fdata: inserted counts the functions the parser has entered so far.  *)

Fdata(id, path, text) ==
    [id |-> id, path |-> path, text |-> text, inserted |-> 0, time |-> 0]
Fdatas == [id : 0..MaxLoads, path : Files, text : Texts, inserted : Nat,
           time : 0..MaxClock]
Whole(fd) == [fd EXCEPT !.inserted = Len(fd.text.funcs)]

\* The null pointers are no fdata, no text and no load.
ASSUME NullsAssumption ==
    /\ NoFile \notin Fdatas /\ NoText \notin Texts
    /\ Idle \notin [fd : Fdatas, old : Fdatas \cup {NoFile}]
    /\ Idle \notin [path : Files, text : Texts]

\* The names of a text's functions, and of those entered so far.
GlobalNames(text) ==
    {text.funcs[i].name : i \in {j \in DOMAIN text.funcs : ~text.funcs[j].local}}
StaticNames(text) ==
    {text.funcs[i].name : i \in {j \in DOMAIN text.funcs : text.funcs[j].local}}
FuncNames(fd) == [i \in 1..fd.inserted |-> fd.text.funcs[i].name]
GlobalFuncs(fd) ==
    {fd.text.funcs[i].name : i \in {j \in 1..fd.inserted : ~fd.text.funcs[j].local}}
Visible(list) == UNION {GlobalFuncs(list[k]) : k \in DOMAIN list}
VarsOf(gs) == UNION {gs[i].vars : i \in DOMAIN gs}

\* eppic_findfile(name, 0), and the list after eppic_findfile(name, 1).
First(path) == SelectInSeq(fall, LAMBDA fd : fd.path = path)
FindAtHead(path) == IF First(path) = 1 THEN fall[1] ELSE NoFile
eppic_findfile(path) == IF First(path) = 0 THEN NoFile ELSE fall[First(path)]
UnlinkedCutsList(path) ==
    IF First(path) = 0 THEN fall ELSE SubSeq(fall, 1, First(path) - 1)
UnlinkedBehindHead(path) ==
    IF First(path) = 1 THEN fall ELSE RemoveFirstMatch(fall, LAMBDA fd : fd.path = path)
Unlinked(path) == RemoveFirstMatch(fall, LAMBDA fd : fd.path = path)

\* "put it on the list": the file being parsed is the first one.
LinkLast(fd, list) == Append(list, fd)
Link(fd, list) == <<fd>> \o list

\* eppic_isnew.
IsNewOffByOne(fd) == disk[fd.path] # Absent /\ mtime[fd.path] > fd.time + 1
eppic_isnew(fd) == disk[fd.path] # Absent /\ mtime[fd.path] > fd.time

RmGlobalsKeeps(gs, id) == gs
eppic_rm_globals(gs, id) == RemoveFirstMatch(gs, LAMBDA g : g.id = id)
AddGlobalsForgetsNext(gs, fd) == <<[id |-> fd.id, vars |-> fd.text.gvars]>>
eppic_add_globals(gs, fd) == <<[id |-> fd.id, vars |-> fd.text.gvars]>> \o gs
Duplicates(gs, fd) == fd.text.gvars \cap VarsOf(gs) # {}

\* The callbacks of a file, as the list stands at that moment.
Callback(t, list, fd, load) == eppic_docallback(t, Visible(list), FuncNames(fd), load)

\* eppic_newfunc: the first function that is global elsewhere stops the parse.
ConflictsOfStatics(fd, list) ==
    {i \in DOMAIN fd.text.funcs :
        fd.text.funcs[i].local /\ fd.text.funcs[i].name \in Visible(list)}
Conflicts(fd, list) ==
    {i \in DOMAIN fd.text.funcs :
        ~fd.text.funcs[i].local /\ fd.text.funcs[i].name \in Visible(list)}
CompilesDespiteConflicts(fd, list) == fd.text.ok
Compiles(fd, list) == fd.text.ok /\ Conflicts(fd, list) = {}

FileNames(fd) == {fd.text.funcs[i].name : i \in DOMAIN fd.text.funcs}
Commands(fd) == CommandsOf(GlobalNames(fd.text))
BeingLoaded(path) == loading # Idle /\ loading.fd.path = path
Runs(fd) == \E i \in DOMAIN running : running[i] = fd.id

-----------------------------------------------------------------------------

Init ==
    /\ disk \in [Files -> Texts \cup {Absent}]
    /\ mtime = [path \in Files |-> 0]
    /\ clock = 1
    /\ fall = << >> /\ globs = << >>
    /\ loading = Idle
    /\ running = << >>
    /\ table = OwnCommands
    /\ nloads = 0

\* Which loads the allowed faults leave.
Expected(old, fd) ==
    LET others == Unlinked(fd.path)
    IN  /\ "dupGlobal" \in Faults \/
            \A k \in DOMAIN others : others[k].text.gvars \cap fd.text.gvars = {}
        /\ "brokenCommand" \in Faults \/ Compiles(fd, others)
            \/ \A i \in DOMAIN table :
                table[i] \in OwnNames \/ <<table[i], "">> \notin FileNames(fd)
        /\ "ownCommand" \in Faults \/ ~Compiles(fd, others)
            \/ Commands(fd) \cap OwnNames = {}
        /\ old # NoFile =>
            /\ "selfUnload" \in Faults \/ ~Runs(old)
            /\ "dropCommand" \in Faults
                \/ Commands(old) \subseteq Commands(fd)

\* eppic_newfile up to eppicparse: the old version leaves the list first, its
\* globals only once the file has been read.
BeginLoad(path) ==
    LET old == eppic_findfile(path)
        fd == Fdata(nloads, path, disk[path])
    IN  /\ disk[path] \in Texts /\ nloads < MaxLoads
        /\ Expected(old, fd)
        /\ fall' = Link(fd, Unlinked(path))
        /\ globs' = IF old = NoFile THEN globs ELSE eppic_rm_globals(globs, old.id)
        /\ loading' = [fd |-> fd, old |-> old]
        /\ nloads' = nloads + 1
        /\ UNCHANGED <<disk, mtime, clock, running, table>>

\* ... or to the return when eppic_pushfile fails.
LoadUnread(path) ==
    /\ disk[path] = Unreadable
    /\ "unreadable" \in Faults \/ eppic_findfile(path) = NoFile
    /\ fall' = Unlinked(path)
    /\ UNCHANGED <<disk, mtime, clock, globs, loading, running, table, nloads>>

\* eppic_loadunload(1, path): the load builtin and command.
eppic_load(path) == loading = Idle /\ (BeginLoad(path) \/ LoadUnread(path))

\* eppic_depend: only what is not loaded or has changed since.
eppic_depend(path) ==
    /\ loading = Idle
    /\ eppic_findfile(path) # NoFile => eppic_isnew(eppic_findfile(path))
    /\ BeginLoad(path) \/ LoadUnread(path)

-----------------------------------------------------------------------------
(* The rest of eppic_newfile.                                              *)

\* eppic_rerror outside a parse: in a script it jumps out to eppic_runcmd;
\* in a load by the host it comes back, and the caller goes on.
JumpsOut == running # << >>

Parsed(list) == loading # Idle /\ Compiles(loading.fd, Tail(list))

\* Compiled: the globals are added, the old version freed, the host told.
Install ==
    LET fd == [Whole(loading.fd) EXCEPT !.time = clock]
        list == <<fd>> \o Tail(fall)
        told == IF loading.old = NoFile THEN table
                ELSE Callback(table, list, loading.old, FALSE)
    IN  /\ Parsed(fall)
        /\ ~Duplicates(globs, fd) \/ ~JumpsOut
        /\ fall' = list
        /\ globs' = eppic_add_globals(globs, fd)
        /\ table' = Callback(told, list, fd, TRUE)
        /\ loading' = Idle
        /\ UNCHANGED <<disk, mtime, clock, running, nloads>>

\* Compiled, but a global is declared elsewhere: the script that called load is
\* over, and with it this load, before its globals are in.
InstallJumpsOut ==
    /\ Parsed(fall)
    /\ Duplicates(globs, loading.fd) /\ JumpsOut
    /\ fall' = <<Whole(loading.fd)>> \o Tail(fall)
    /\ loading' = Idle
    /\ running' = << >>
    /\ UNCHANGED <<disk, mtime, clock, globs, table, nloads>>

\* A parse error, after some of the functions were inserted: the old version
\* returns to the head of the list, the new one is freed, the host told.
FailParse ==
    LET old == loading.old
        list == IF old = NoFile THEN Tail(fall) ELSE <<old>> \o Tail(fall)
        stop == Conflicts(loading.fd, Tail(fall))
    IN  /\ loading # Idle /\ ~Compiles(loading.fd, Tail(fall))
        /\ \E k \in 0..Len(loading.fd.text.funcs) :
            /\ \A i \in stop : k <= i
            /\ loading.fd.text.ok => k \in stop
            /\ LET part == [loading.fd EXCEPT !.inserted = k]
                   back == old # NoFile /\ Duplicates(globs, old) /\ JumpsOut
               IN  /\ globs' = IF old = NoFile \/ back THEN globs
                               ELSE eppic_add_globals(globs, old)
                   /\ table' = IF back THEN table ELSE Callback(table, list, part, FALSE)
                   /\ running' = IF back THEN << >> ELSE running
        /\ fall' = list
        /\ loading' = Idle
        /\ UNCHANGED <<disk, mtime, clock, nloads>>

\* eppic_deletefile and eppic_freefile; a path that no longer exists is not found
\* by eppic_filempath and cannot be unloaded.
eppic_unload(path) ==
    LET fd == eppic_findfile(path)
    IN  /\ loading = Idle /\ disk[path] # Absent /\ fd # NoFile
        /\ "selfUnload" \in Faults \/ ~Runs(fd)
        /\ "dropCommand" \in Faults \/ Commands(fd) = {}
        /\ fall' = Unlinked(path)
        /\ table' = Callback(table, Unlinked(path), fd, FALSE)
        /\ globs' = eppic_rm_globals(globs, fd.id)
        /\ UNCHANGED <<disk, mtime, clock, loading, running, nloads>>

-----------------------------------------------------------------------------
(* Functions run, and the world outside.                                   *)

\* A function of a loaded file is called: by the host, by another one, or as the
\* file's __init() right after it was installed.
CallFunction ==
    /\ loading = Idle /\ Len(running) < MaxRunning
    /\ \E k \in DOMAIN fall : /\ fall[k].inserted > 0
                              /\ running' = Append(running, fall[k].id)
    /\ UNCHANGED <<disk, mtime, clock, fall, globs, loading, table, nloads>>

ReturnFunction ==
    /\ loading = Idle /\ running # << >>
    /\ running' = SubSeq(running, 1, Len(running) - 1)
    /\ UNCHANGED <<disk, mtime, clock, fall, globs, loading, table, nloads>>

\* Someone writes the file, removes it, or takes away the right to read it.
Edit(path) ==
    /\ "sameSecond" \notin Faults =>
        /\ ~BeingLoaded(path)
        /\ eppic_findfile(path) # NoFile => clock > eppic_findfile(path).time
    /\ \E text \in Texts \cup {Absent, Unreadable} :
        /\ disk' = [disk EXCEPT ![path] = text]
        /\ mtime' = [mtime EXCEPT ![path] = IF text = Unreadable THEN @ ELSE clock]
    /\ UNCHANGED <<clock, fall, globs, loading, running, table, nloads>>

Tick ==
    /\ clock < MaxClock
    /\ clock' = clock + 1
    /\ UNCHANGED <<disk, mtime, fall, globs, loading, running, table, nloads>>

Next ==
    \/ \E path \in Files :
        eppic_load(path) \/ eppic_depend(path) \/ eppic_unload(path) \/ Edit(path)
    \/ Install \/ InstallJumpsOut \/ FailParse
    \/ CallFunction \/ ReturnFunction \/ Tick

Spec == Init /\ [][Next]_vars

-----------------------------------------------------------------------------
(* What the command table needs of the files.  The callbacks look for help  *)
(* and usage in every file, whoever defines the function they are told of.  *)

\* A help or usage function comes with its command, and no static function has
\* the name of a command.
WholeCommands ==
    \A text, other \in Texts : \A name \in GlobalNames(text) :
        name[2] \in {"_help", "_usage"} =>
            <<name[1], "">> \in GlobalNames(text) \ StaticNames(other)

\* The table has an entry for every command there is, the extension's own included.
CommandBases ==
    (UNION {CommandsOf(GlobalNames(text)) : text \in Texts}) \ NativeNames
AllCommands == CommandBases \cup OwnNames
RoomForCommands == IsFiniteSet(AllCommands) /\ Cardinality(AllCommands) <= MaxCmds

-----------------------------------------------------------------------------
(* Properties.                                                             *)

TypeOK ==
    /\ disk \in [Files -> Texts \cup {Absent, Unreadable}]
    /\ mtime \in [Files -> 0..MaxClock] /\ clock \in 1..MaxClock
    /\ fall \in Seq(Fdatas)
    /\ \A k \in DOMAIN fall : fall[k].inserted <= Len(fall[k].text.funcs)
    /\ globs \in Seq([id : 0..MaxLoads, vars : {text.gvars : text \in Texts}])
    /\ loading # Idle => fall # << >> /\ loading.fd = fall[1]
    /\ running \in Seq(0..MaxLoads)
    /\ Len(running) <= MaxRunning
    /\ nloads \in 0..MaxLoads

(***************************************************************************)
(* A path is on the list once, and a global function name belongs to one   *)
(* loaded file: eppic_getfbyname has one answer whatever the order of loads. *)
(***************************************************************************)
Separate(list) ==
    \A k, l \in DOMAIN list : k # l =>
        /\ list[k].path # list[l].path
        /\ GlobalFuncs(list[k]) \cap GlobalFuncs(list[l]) = {}

OneDefinition == Separate(fall)

(***************************************************************************)
(* Between loads, the global variables in force are those of the loaded    *)
(* files, each set once: a failed load takes none away and leaves none.    *)
(* At no time is a name in two sets ("Duplicate declaration of variable"). *)
(***************************************************************************)
GlobalsOfLoadedFiles ==
    /\ \A i, j \in DOMAIN globs : i # j => globs[i].vars \cap globs[j].vars = {}
    /\ loading = Idle =>
        /\ {globs[i].id : i \in DOMAIN globs} = {fall[k].id : k \in DOMAIN fall}
        /\ Len(globs) = Len(fall)

(***************************************************************************)
(* The extension's own commands stay in its table.  Between loads the host  *)
(* knows each command of the loaded files besides, and names only loaded    *)
(* functions, each once (reg_callback).                                    *)
(***************************************************************************)
CommandsRegistered ==
    /\ \A base \in OwnNames : \E i \in DOMAIN table : table[i] = base
    /\ loading = Idle =>
        /\ \A k \in DOMAIN fall :
            \A base \in CommandsOf(GlobalFuncs(fall[k])) \ NativeNames :
                \E i \in DOMAIN table : table[i] = base
        /\ \A i \in DOMAIN table :
            table[i] \in OwnNames \/ <<table[i], "">> \in Visible(fall)
        /\ \A i, j \in DOMAIN table : table[i] = table[j] => i = j

\* No file is freed whose functions are executing.
RunningIsLoaded ==
    \A i \in DOMAIN running :
        \/ \E k \in DOMAIN fall : fall[k].id = running[i]
        \/ loading # Idle /\ loading.old # NoFile /\ loading.old.id = running[i]

\* What eppic_depend takes for up to date is what the file says.
DependIsFresh ==
    loading = Idle => \A k \in DOMAIN fall :
        LET path == fall[k].path
        IN  disk[path] \in Texts /\ ~eppic_isnew(fall[k]) =>
            disk[path] = fall[k].text

Has(path) ==
    IF BeingLoaded(path) THEN loading.old # NoFile ELSE eppic_findfile(path) # NoFile

\* A loaded file stays loaded, in some version, until it is unloaded.
LoadedUntilUnload ==
    [][\A path \in Files : Has(path) /\ ~eppic_unload(path) => Has(path)']_vars

(***************************************************************************)
(* Loads and unloads are atomic.  A load replaces the text of its path or   *)
(* changes nothing, which it does just when the text does not compile or    *)
(* collides with a loaded file; whoever runs meanwhile sees the old version. *)
(***************************************************************************)
TextInForce(path) ==
    IF BeingLoaded(path)
    THEN IF loading.old = NoFile THEN NoText ELSE loading.old.text
    ELSE IF eppic_findfile(path) = NoFile THEN NoText ELSE eppic_findfile(path).text

Loaded == [path \in Files |-> TextInForce(path)]
Pending ==
    IF loading = Idle THEN Idle
    ELSE [path |-> loading.fd.path, text |-> loading.fd.text]

Registry == INSTANCE FileRegistry WITH loaded <- Loaded, pending <- Pending

\* A file goes only when its unload is asked for.
UnloadsAreAsked ==
    [][\A path \in Files : Registry!Unload(path) => eppic_unload(path)]_vars

ImplementsRegistry == Registry!RegSpec /\ UnloadsAreAsked
=============================================================================
