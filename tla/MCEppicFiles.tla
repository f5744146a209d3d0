---------------------------- MODULE MCEppicFiles ----------------------------
(* Model-checking instances of EppicFiles: a handful of texts, so that       *)
(* commands, functions and globals collide between files and versions.       *)
EXTENDS EppicFiles

Global(base, suffix) == [name |-> <<base, suffix>>, local |-> FALSE]
Static(base) == [name |-> <<base, "">>, local |-> TRUE]
Text(funcs, gvars, ok) == [funcs |-> funcs, gvars |-> gvars, ok |-> ok]

Command(base) == <<Global(base, "_usage"), Global(base, "_help"), Global(base, "")>>

CmdText == Text(Command("c"), {}, TRUE)
CmdText2 == Text(Command("c"), {"x"}, TRUE)
CmdBroken == Text(Command("c"), {}, FALSE)
FunText == Text(Command("d") \o <<Static("h"), Global("load", "")>>, {"x"}, TRUE)
OwnText == Text(Command("load") \o <<Static("h")>>, {"x"}, TRUE)
Clash == Text(Command("ps") \o <<Static("g"), Global("c", "")>>, {"y"}, TRUE)

MCTexts == {CmdText, CmdText2, CmdBroken, FunText, Clash}
FaultTexts == {CmdText2, CmdBroken, OwnText, Clash}

NoFaults == {}
AllFaults == FaultNames
OnlyUnreadable == {"unreadable"}
Natives == {"ps"}
Own == <<"load">>

\* The texts above are what the command table needs (theorem CommandsFollowFiles).
ASSUME CommandsAssumption == WholeCommands /\ RoomForCommands
=============================================================================
