--------------------------- MODULE CrashCommands ---------------------------
(***************************************************************************)
(* The command table that the crash extension keeps for loaded functions   *)
(* (applications/crash/eppic.c), as operators on its value: the sequence of *)
(* the names registered.  reg_callback is what eppic calls for each         *)
(* function of a file that has just been loaded or is about to go.         *)
(*                                                                         *)
(* A function's name is a pair: a base, and "", "_help" or "_usage".       *)
(***************************************************************************)
EXTENDS Naturals, Sequences, SequencesExt

CONSTANTS
    NativeNames,  \* names of crash's own commands
    OwnCommands,  \* the extension's own commands, first in its table
    MaxCmds       \* entries the table has room for, those included

ASSUME OwnAssumption ==
    /\ OwnCommands \in Seq(STRING)
    /\ \A i, j \in DOMAIN OwnCommands : OwnCommands[i] = OwnCommands[j] => i = j

OwnNames == Range(OwnCommands)

AddCmdNoRoomForLast(table, base) ==
    IF base \in NativeNames \/ Len(table) + 1 >= MaxCmds THEN table
    ELSE Append(table, base)
\* A native name clashes, an own one does not; a full table drops the command
\* without a word.
add_eppic_cmd(table, base) ==
    IF base \in NativeNames \/ Len(table) >= MaxCmds THEN table
    ELSE Append(table, base)

RmCmdOfOther(table, base) == SelectSeq(table, LAMBDA b : b = base)
\* The first entry of the name goes, which of an own one is the extension's.
rm_eppic_cmd(table, base) == RemoveFirst(table, base)

\* visible: the names eppic_chkfname finds when the callback runs.
reg_callback(table, visible, name, load) ==
    LET base == name[1]
    IN  IF name[2] = "" /\ <<base, "_help">> \in visible /\ <<base, "_usage">> \in visible
        THEN IF load THEN add_eppic_cmd(table, base) ELSE rm_eppic_cmd(table, base)
        ELSE table

\* eppic_docallback: the functions of a file, the last one inserted first;
\* after[k] is the table once the callback was made for k of them.
eppic_docallback(table, visible, names, load) ==
    LET after[k \in 0..Len(names)] ==
            IF k = 0 THEN table
            ELSE reg_callback(after[k - 1], visible, names[Len(names) + 1 - k], load)
    IN  after[Len(names)]

\* The names a file with these functions makes commands of.
CommandsOf(names) ==
    {base \in {n[1] : n \in names} :
        \A suffix \in {"", "_help", "_usage"} : <<base, suffix>> \in names}
=============================================================================
