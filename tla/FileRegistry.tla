---------------------------- MODULE FileRegistry ----------------------------
(***************************************************************************)
(* What loading and unloading promises: at most one text per path, replaced *)
(* as a whole by a load that ends well and dropped by an unload, and no two *)
(* loaded files that define the same global function or the same global    *)
(* variable.  A load fails just when its text does not compile or collides *)
(* with another file's, and a load that fails changes nothing.             *)
(***************************************************************************)
EXTENDS Sequences

CONSTANTS Files, Texts, NoText, Idle

VARIABLES
    loaded,   \* path -> the text in force, or NoText
    pending   \* Idle, or the path and text of the load under way

regVars == <<loaded, pending>>

GlobalFuncs(text) ==
    {text.funcs[i].name : i \in {j \in DOMAIN text.funcs : ~text.funcs[j].local}}

Compatible(text, path) ==
    \A other \in Files \ {path} : loaded[other] # NoText =>
        /\ GlobalFuncs(text) \cap GlobalFuncs(loaded[other]) = {}
        /\ text.gvars \cap loaded[other].gvars = {}

RegInit == loaded = [path \in Files |-> NoText] /\ pending = Idle

BeginLoad(path, text) ==
    /\ pending = Idle
    /\ pending' = [path |-> path, text |-> text]
    /\ UNCHANGED loaded

Loadable == pending.text.ok /\ Compatible(pending.text, pending.path)

EndLoad ==
    /\ pending # Idle /\ Loadable
    /\ loaded' = [loaded EXCEPT ![pending.path] = pending.text]
    /\ pending' = Idle

FailLoad ==
    /\ pending # Idle /\ ~Loadable
    /\ pending' = Idle
    /\ UNCHANGED loaded

Unload(path) ==
    /\ pending = Idle /\ loaded[path] # NoText
    /\ loaded' = [loaded EXCEPT ![path] = NoText]
    /\ UNCHANGED pending

RegNext ==
    \/ \E path \in Files : Unload(path) \/ \E text \in Texts : BeginLoad(path, text)
    \/ EndLoad \/ FailLoad

RegSpec == RegInit /\ [][RegNext]_regVars
=============================================================================
