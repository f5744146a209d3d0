---------------------------- MODULE EppicControl ----------------------------
(***************************************************************************)
(* The run-time control core of libeppic: the jump stack (eppic_alloc.c),  *)
(* the variable-scope stack (eppic_var.c), and the interpreter routines    *)
(* that push and unwind both while a loaded script runs (eppic_stat.c,     *)
(* eppic_func.c, eppic_node.c, eppic_util.c, eppic_builtin.c).             *)
(*                                                                         *)
(* The interpreter is recursive C.  `ctl' is the C stack, reduced to the   *)
(* activations that own a setjmp buffer or remember a scope level; `jmps'  *)
(* and `svs' are the two global arrays that the same routines maintain     *)
(* beside it.  Nothing in the code ties the three together: that they stay *)
(* in step is what this module is about.                                   *)
(***************************************************************************)
EXTENDS Integers, Sequences

CONSTANTS
    MaxFrames,  \* bound on the C stack: activations nested at one time
    MaxScopes,  \* S_MAXDEEP: capacity of svs[]
    Residue,    \* dead S_PARSE levels that eppic_open's prototypes leave
    Faults      \* which script or host mistakes are allowed, see FaultNames

(***************************************************************************)
(* The grammar, the API and the host accept them all; each breaks something. *)
(*   strayJump   break/continue with no enclosing loop in its own function *)
(*   evalJump    break/continue/return out of an initializer's evaluation  *)
(*   evalError   eppic_error() while an initializer is evaluated           *)
(*   apiAbort    error or exit() in a function run by eppic_exefunc()      *)
(*   lateSignal  a signal between eppic_exenode's rmexcept and popjmp      *)
(*   bareSignal  a signal in eppic_exenode before its pushjmp, or between  *)
(*               the landing of a jump there and its rmexcept, with no     *)
(*               other J_EXIT context to land in                           *)
(***************************************************************************)
FaultNames ==
    {"strayJump", "evalJump", "evalError", "apiAbort", "lateSignal", "bareSignal"}

ASSUME ControlAssumption ==
    /\ MaxFrames \in Nat /\ MaxScopes \in Nat /\ Residue \in Nat
    /\ Residue <= MaxScopes
    /\ Faults \subseteq FaultNames

VARIABLES
    ctl,      \* C stack, outermost first: a sequence of Frame records
    jmps,     \* jmps[0..njmps-1]; jmps[1] here is the base of eppic_open
    svs,      \* the array svs[]: every slot, those above svlev included
    svlev,    \* number of scope levels in use
    handler,  \* whose SIGINT/SIGTRAP/SIGPIPE handlers are installed
    curp,     \* current script path: its owning frame, or one of Paths
    bare,     \* an eppic_exenode above the frames of ctl with no entry in jmps
    crashed   \* a longjmp through the base entry's null env took place, or
              \* a saved handler set was freed twice

vars == <<ctl, jmps, svs, svlev, handler, curp, bare, crashed>>

-----------------------------------------------------------------------------
(* Values.                                                                 *)

NoPath == 0        \* curp == 0
FreedPath == -1    \* curp points into a string already given back
StalePath == -2    \* the path of a function that a jump abandoned
Paths == {NoPath, FreedPath, StalePath}

JumpTypes == {"EXIT", "RETURN", "BREAK", "CONTINUE"}
Functions == {"enter", "call"}
Guards == {"cmd", "eval"}
ContextKinds == Functions \cup Guards \cup {"loop", "switch", "body"}
BlockKinds == {"statics", "block"}
Kinds == ContextKinds \cup BlockKinds

\* The kind of context each routine opens with eppic_pushjmp.
JumpType(kind) ==
    IF kind \in Guards THEN "EXIT"
    ELSE IF kind \in Functions THEN "RETURN"
    ELSE IF kind \in {"loop", "switch"} THEN "BREAK"
    ELSE "CONTINUE"

\* An activation with the C locals that outlive the calls it makes: lev of a
\* block, osa of eppic_setexcept's users, ocurp of eppic_execmcfunc.
Frame(kind, lev, osa, ocurp) ==
    [kind |-> kind, lev |-> lev, osa |-> osa, ocurp |-> ocurp]
Plain(kind) == Frame(kind, 0, "app", NoPath)
Frames == [kind : Kinds, lev : 0..MaxScopes, osa : {"app", "eppic", "freed"},
           ocurp : Paths \cup (1..MaxFrames)]

\* eppic_exenode has installed handlers but pushed no context yet (entering), or
\* a jump to its context has landed and it still holds the handlers (landed);
\* osa is its local sa.
Bare(at, osa) == [at |-> at, osa |-> osa]
NotBare == Bare("none", "app")
Bares == {NotBare} \cup [at : {"entering"}, osa : {"app", "eppic"}]
                   \cup [at : {"landed"}, osa : {"app", "eppic", "freed"}]

Jump(type, lev, env) == [type |-> type, svlev |-> lev, env |-> env]
BaseJump == Jump("NONE", 0, 0)
Jumps == [type : JumpTypes \cup {"NONE"}, svlev : 0..MaxScopes,
          env : 0..MaxFrames]

\* live: the variable list still exists (automatic lists are freed when their
\* level is dropped; a S_PARSE list is freed by the eppic_vardecl that made it).
Scope(type) == [type |-> type, live |-> TRUE]
DeadParse == [type |-> "PARSE", live |-> FALSE]
Unused == [type |-> "NONE", live |-> FALSE]
Scopes == [type : {"FILE", "STAT", "AUTO", "PARSE", "NONE"}, live : BOOLEAN]

-----------------------------------------------------------------------------
(* eppic_setsvlev: automatic lists between the levels are freed.           *)

\* Faulty variant: the loop over the levels runs one too far down.
SetsvlevOneTooFar(s, from, to) ==
    [i \in 1..MaxScopes |->
        IF to - 1 < i /\ i <= from /\ s[i].type = "AUTO"
        THEN [s[i] EXCEPT !.live = FALSE] ELSE s[i]]

eppic_setsvlev(s, from, to) ==
    [i \in 1..MaxScopes |->
        IF to < i /\ i <= from /\ s[i].type = "AUTO"
        THEN [s[i] EXCEPT !.live = FALSE] ELSE s[i]]

\* Faulty variant of AddScope: the level on top is overwritten.
AddScopeOverTop(s, lev, type) ==
    [s EXCEPT ![IF lev = 0 THEN 1 ELSE lev] = Scope(type)]

\* eppic_addsvs for one level.
AddScope(s, lev, type) == [s EXCEPT ![lev + 1] = Scope(type)]

\* eppic_curp(ocurp); eppic_free(curp): a null argument only reads curp, so
\* the string frame `me' is about to free stays current.
RestoreCurp(ocurp, me) ==
    IF ocurp # NoPath THEN ocurp
    ELSE IF curp = me THEN FreedPath
    ELSE curp

Depth == Len(ctl)
Top == ctl[Depth]
At(kinds) == ~crashed /\ bare = NotBare /\ Depth > 0 /\ Top.kind \in kinds
\* eppic_exenode between eppic_rmexcept and eppic_popjmp.
Leaving == Depth > 0 /\ Top.osa = "freed"
ExprPos == At({"block", "body", "loop", "switch", "eval"}) /\ ~Leaving
StmtPos == At({"block", "body", "switch"})
\* eppic_inivars: variables of a list just pushed are being initialized.
IniPos == At({"enter", "statics", "block"})
HostPos == ~crashed /\ bare = NotBare /\ ctl = << >>
HasRoom(n) == Depth + n <= MaxFrames

Innermost(k, kinds) ==
    /\ ctl[k].kind \in kinds
    /\ \A j \in k + 1..Depth : ctl[j].kind \notin kinds
Inside(kind, barriers) ==
    \E k \in 1..Depth : /\ ctl[k].kind \in kind
                        /\ \A j \in k..Depth : ctl[j].kind \notin barriers

-----------------------------------------------------------------------------
(* eppic_dojmp: drop contexts down to the nearest one of this type, restore *)
(* the scope level it recorded, longjmp into its owner, which then runs the *)
(* code behind its setjmp and returns.  When no context matches, the search *)
(* stops at the base entry, whose env is null.                              *)

\* Faulty variant: the search starts at the bottom of the stack.
IsTargetFromBottom(t, type) ==
    /\ t = 1 \/ jmps[t].type = type
    /\ \A i \in 2..t - 1 : jmps[i].type # type
    /\ t > 1 \/ \A i \in 2..Len(jmps) : jmps[i].type # type

IsTarget(t, type) ==
    /\ t = 1 \/ jmps[t].type = type
    /\ \A i \in t + 1..Len(jmps) : jmps[i].type # type

\* Faulty variant: the code behind eppic_runcmd's setjmp forgets eppic_rmexcept.
LandKeepsHandlers(e) ==
    /\ ctl' = SubSeq(ctl, 1, e - 1)
    /\ bare' = IF ctl[e].kind = "eval" THEN Bare("landed", ctl[e].osa) ELSE NotBare
    /\ curp' = IF ctl[e].kind \in Functions THEN RestoreCurp(ctl[e].ocurp, e)
               ELSE IF curp > e THEN StalePath
               ELSE curp
    /\ UNCHANGED <<handler, crashed>>

\* eppic_exenode gives its handlers back in a later step, and a signal may come
\* in between (SA_NODEFER). So may one in eppic_runcmd, but there jmps is down to
\* its base, and eppic_dojmp does nothing.
Land(e) ==
    /\ ctl' = SubSeq(ctl, 1, e - 1)
    /\ bare' = IF ctl[e].kind = "eval" THEN Bare("landed", ctl[e].osa) ELSE NotBare
    /\ handler' = IF ctl[e].kind = "cmd" THEN ctl[e].osa ELSE handler
    /\ curp' = IF ctl[e].kind \in Functions THEN RestoreCurp(ctl[e].ocurp, e)
               ELSE IF curp > e THEN StalePath
               ELSE curp
    /\ UNCHANGED crashed

NullJump == crashed' = TRUE /\ UNCHANGED <<ctl, handler, curp, bare>>

\* Faulty variant: the entry found stays on the stack.
DojmpKeepsEntry(type, s, lev) ==
    /\ Len(jmps) > 1
    /\ \E t \in 1..Len(jmps) :
        /\ IsTarget(t, type)
        /\ jmps' = SubSeq(jmps, 1, t)
        /\ svs' = eppic_setsvlev(s, lev, jmps[t].svlev)
        /\ svlev' = jmps[t].svlev
        /\ IF t = 1 THEN NullJump ELSE Land(jmps[t].env)

\* s and lev are svs and svlev as they are when eppic_dojmp is entered.
eppic_dojmp(type, s, lev) ==
    /\ Len(jmps) > 1
    /\ \E t \in 1..Len(jmps) :
        /\ IsTarget(t, type)
        /\ jmps' = SubSeq(jmps, 1, t - 1)
        /\ svs' = eppic_setsvlev(s, lev, jmps[t].svlev)
        /\ svlev' = jmps[t].svlev
        /\ IF t = 1 THEN NullJump ELSE Land(jmps[t].env)

\* Faulty variant of eppic_popjmp: the scope level is not restored.
PopjmpKeepsLevel(type) ==
    /\ Len(jmps) > 1
    /\ jmps[Len(jmps)].type = type
    /\ jmps' = SubSeq(jmps, 1, Len(jmps) - 1)
    /\ UNCHANGED <<svs, svlev>>

\* eppic_popjmp, the ordinary exit of a context: the entry on top must be of
\* the kind the caller pushed ("Wrong pop!" otherwise, see PopsMatch).
eppic_popjmp(type) ==
    /\ Len(jmps) > 1
    /\ jmps[Len(jmps)].type = type
    /\ jmps' = SubSeq(jmps, 1, Len(jmps) - 1)
    /\ svs' = eppic_setsvlev(svs, svlev, jmps[Len(jmps)].svlev)
    /\ svlev' = jmps[Len(jmps)].svlev

PopFrame == ctl' = SubSeq(ctl, 1, Depth - 1)

-----------------------------------------------------------------------------
(* Entering and leaving, in the order of the routines.                     *)

Init ==
    /\ ctl = << >>
    /\ jmps = <<BaseJump>>
    /\ svs = [i \in 1..MaxScopes |-> IF i <= Residue THEN DeadParse ELSE Unused]
    /\ svlev = Residue
    /\ handler = "app"
    /\ curp = NoPath
    /\ bare = NotBare
    /\ crashed = FALSE

\* Faulty variants of EnterFunction: the context is pushed after the statics; the
\* full array is taken for one with a free slot.
EnterFunctionLatePush(e, j) ==
    /\ svlev + 1 <= MaxScopes
    /\ jmps' = Append(j, Jump("RETURN", svlev + 1, e))
    /\ svs' = AddScope(svs, svlev, "FILE")
    /\ svlev' = svlev + 1
    /\ curp' = e
    /\ UNCHANGED <<bare, crashed>>

EnterFunctionNoRoom(e, j) ==
    /\ svlev <= MaxScopes
    /\ jmps' = Append(j, Jump("RETURN", svlev, e))
    /\ svs' = AddScope(svs, svlev, "FILE")
    /\ svlev' = svlev + 1
    /\ curp' = e
    /\ UNCHANGED <<bare, crashed>>

\* eppic_execmcfunc: the function becomes activation e, its file's path is
\* current, the statics of its file are pushed (and initialized on first use).
EnterFunction(e, j) ==
    /\ svlev + 1 <= MaxScopes
    /\ jmps' = Append(j, Jump("RETURN", svlev, e))
    /\ svs' = AddScope(svs, svlev, "FILE")
    /\ svlev' = svlev + 1
    /\ curp' = e
    /\ UNCHANGED <<bare, crashed>>

\* Faulty variant of eppic_runcmd: no J_EXIT context is pushed.
RuncmdNoExitContext ==
    /\ HostPos /\ HasRoom(2)
    /\ ctl' = <<Frame("cmd", 0, handler, NoPath), Frame("enter", 0, "app", curp)>>
    /\ handler' = "eppic"
    /\ EnterFunction(2, jmps)

\* eppic_runcmd: the host runs a loaded function as a command.
eppic_runcmd ==
    /\ HostPos /\ HasRoom(2)
    /\ ctl' = <<Frame("cmd", 0, handler, NoPath), Frame("enter", 0, "app", curp)>>
    /\ handler' = "eppic"
    /\ EnterFunction(2, Append(jmps, Jump("EXIT", svlev, 1)))

\* eppic_exefunc: the host calls a function directly, with no J_EXIT context
\* (eppic_cmd does so for fname_opt and fname_usage).
eppic_exefunc ==
    /\ HostPos /\ HasRoom(1)
    /\ ctl' = <<Frame("enter", 0, "app", curp)>>
    /\ UNCHANGED handler
    /\ EnterFunction(1, jmps)

\* A call operator inside an expression: eppic_docall, eppic_exefunc_common.
eppic_docall ==
    /\ ExprPos /\ HasRoom(1)
    /\ ctl' = Append(ctl, Frame("enter", 0, "app", curp))
    /\ UNCHANGED handler
    /\ EnterFunction(Depth + 1, jmps)

\* eppic_addsvs(S_FILE) ends with an automatic list, for the parameters.
AddParams ==
    /\ At({"enter"}) /\ svlev + 1 <= MaxScopes
    /\ ctl' = [ctl EXCEPT ![Depth].kind = "call"]
    /\ svs' = AddScope(svs, svlev, "AUTO")
    /\ svlev' = svlev + 1
    /\ UNCHANGED <<jmps, handler, curp, bare, crashed>>

\* The end of eppic_execmcfunc when the body ran off its end.
ReturnFromBody ==
    /\ At({"call"})
    /\ eppic_popjmp("RETURN")
    /\ PopFrame
    /\ curp' = RestoreCurp(Top.ocurp, Depth)
    /\ UNCHANGED <<handler, bare, crashed>>

\* The end of eppic_runcmd when the function returned. A signal between
\* eppic_popjmp and eppic_rmexcept finds the base entry alone and does nothing.
EndCommand ==
    /\ At({"cmd"})
    /\ eppic_popjmp("EXIT")
    /\ PopFrame
    /\ handler' = Top.osa
    /\ UNCHANGED <<curp, bare, crashed>>

\* The DOBLK case of eppic_exestat: the block's statics are pushed and
\* initialized first, its automatic list after that.
EnterBlock ==
    /\ ExprPos \/ At({"call"})
    /\ HasRoom(1) /\ svlev + 1 <= MaxScopes
    /\ ctl' = Append(ctl, Frame("statics", svlev, "app", NoPath))
    /\ svs' = AddScope(svs, svlev, "STAT")
    /\ svlev' = svlev + 1
    /\ UNCHANGED <<jmps, handler, curp, bare, crashed>>

AddAutos ==
    /\ At({"statics"}) /\ svlev + 1 <= MaxScopes
    /\ ctl' = [ctl EXCEPT ![Depth].kind = "block"]
    /\ svs' = AddScope(svs, svlev, "AUTO")
    /\ svlev' = svlev + 1
    /\ UNCHANGED <<jmps, handler, curp, bare, crashed>>

ExitBlock ==
    /\ At({"block"})
    /\ svs' = eppic_setsvlev(svs, svlev, Top.lev)
    /\ svlev' = Top.lev
    /\ PopFrame
    /\ UNCHANGED <<jmps, handler, curp, bare, crashed>>

\* eppic_dofor, eppic_dowhile, eppic_dodo and eppic_doin open a J_BREAK
\* context, and a J_CONTINUE one for every iteration; eppic_doswitch a J_BREAK.
Open(kind) ==
    /\ HasRoom(1)
    /\ ctl' = Append(ctl, Plain(kind))
    /\ jmps' = Append(jmps, Jump(JumpType(kind), svlev, Depth + 1))
    /\ UNCHANGED <<svs, svlev, handler, curp, bare, crashed>>

Close(kind) ==
    /\ At({kind})
    /\ eppic_popjmp(JumpType(kind))
    /\ PopFrame
    /\ UNCHANGED <<handler, curp, bare, crashed>>

EnterLoop == StmtPos /\ Open("loop")
EnterSwitch == StmtPos /\ Open("switch")
BeginIteration == At({"loop"}) /\ Open("body")
EndIteration == Close("body")
ExitLoop == Close("loop")
ExitSwitch == Close("switch")

\* eppic_exenode, here for the initializers run by eppic_inivars and for the
\* callee expression of eppic_vartofunc: handlers first, then a J_EXIT context.
InstallHandlers ==
    /\ ExprPos \/ IniPos
    /\ HasRoom(1)
    /\ bare' = Bare("entering", handler)
    /\ handler' = "eppic"
    /\ UNCHANGED <<ctl, jmps, svs, svlev, curp, crashed>>

BeginEval ==
    /\ ~crashed /\ bare.at = "entering"
    /\ HasRoom(1)
    /\ ctl' = Append(ctl, Frame("eval", 0, bare.osa, NoPath))
    /\ jmps' = Append(jmps, Jump("EXIT", svlev, Depth + 1))
    /\ bare' = NotBare
    /\ UNCHANGED <<svs, svlev, handler, curp, crashed>>

\* Faulty variant: the branch behind its setjmp only returns.
AbandonEvalKeepsHandlers ==
    /\ ~crashed /\ bare.at = "landed"
    /\ bare' = NotBare
    /\ UNCHANGED <<ctl, jmps, svs, svlev, handler, curp, crashed>>

\* A jump has landed in it: the branch behind its setjmp.
AbandonEval ==
    /\ ~crashed /\ bare.at = "landed"
    /\ handler' = IF bare.osa = "freed" THEN handler ELSE bare.osa
    /\ crashed' = (bare.osa = "freed")
    /\ bare' = NotBare
    /\ UNCHANGED <<ctl, jmps, svs, svlev, curp>>

\* On the way out the handlers go first, the context after them.
RemoveHandlers ==
    /\ At({"eval"}) /\ ~Leaving
    /\ handler' = Top.osa
    /\ ctl' = [ctl EXCEPT ![Depth].osa = "freed"]
    /\ UNCHANGED <<jmps, svs, svlev, curp, bare, crashed>>

\* Faulty variant: eppic_popjmp is forgotten.
EndEvalNoPop ==
    /\ At({"eval"}) /\ Leaving
    /\ PopFrame
    /\ UNCHANGED <<jmps, svs, svlev, handler, curp, bare, crashed>>

EndEval ==
    /\ At({"eval"}) /\ Leaving
    /\ eppic_popjmp("EXIT")
    /\ PopFrame
    /\ UNCHANGED <<handler, curp, bare, crashed>>

-----------------------------------------------------------------------------
(* Jumps.                                                                  *)

\* The statement stands in its own function, outside any initializer, and
\* (break, continue) inside a construct of that function it can end.
WellPlaced(kinds) ==
    /\ "strayJump" \in Faults \/ Inside(kinds, Functions \ kinds)
    /\ "evalJump" \in Faults \/ Inside(Functions \cup kinds, {"eval"})

Break == StmtPos /\ WellPlaced({"loop", "switch"}) /\ eppic_dojmp("BREAK", svs, svlev)
Continue == StmtPos /\ WellPlaced({"body"}) /\ eppic_dojmp("CONTINUE", svs, svlev)
Return == StmtPos /\ WellPlaced(Functions) /\ eppic_dojmp("RETURN", svs, svlev)

ExitContext == \E k \in 1..Depth : ctl[k].kind \in Guards
MayAbort == "apiAbort" \in Faults \/ ExitContext
InEval == \E k \in 1..Depth : ctl[k].kind = "eval" /\ Innermost(k, Guards)

\* The builtin exit(), and eppic_rerror: eppic_exit with no parse under way.
Exit == ExprPos /\ MayAbort /\ eppic_dojmp("EXIT", svs, svlev)

\* eppic_error: every scope level is dropped before eppic_exit. Any routine may
\* call it (an overflow of jmps or svs included), and so does the handler of
\* SIGTRAP.
Error ==
    /\ ~crashed /\ Depth > 0 /\ ~Leaving /\ MayAbort
    /\ "evalError" \in Faults \/ ~InEval
    /\ eppic_dojmp("EXIT", eppic_setsvlev(svs, svlev, 0), 0)

\* eppic_except_handler: SIGINT or SIGPIPE while its handlers are installed.
Interrupt ==
    /\ ~crashed /\ handler = "eppic"
    /\ "lateSignal" \in Faults \/ ~Leaving
    /\ "bareSignal" \in Faults \/ bare = NotBare \/ ExitContext
    /\ eppic_dojmp("EXIT", svs, svlev)

Next ==
    \/ eppic_runcmd \/ eppic_exefunc \/ eppic_docall
    \/ AddParams \/ ReturnFromBody \/ EndCommand
    \/ EnterBlock \/ AddAutos \/ ExitBlock
    \/ EnterLoop \/ EnterSwitch \/ BeginIteration
    \/ EndIteration \/ ExitLoop \/ ExitSwitch
    \/ InstallHandlers \/ BeginEval \/ RemoveHandlers \/ EndEval \/ AbandonEval
    \/ Break \/ Continue \/ Return
    \/ Exit \/ Error \/ Interrupt

Spec == Init /\ [][Next]_vars

-----------------------------------------------------------------------------
(* Properties.                                                             *)

TypeOK ==
    /\ ctl \in Seq(Frames) /\ Depth <= MaxFrames
    /\ jmps \in Seq(Jumps)
    /\ svs \in [1..MaxScopes -> Scopes]
    /\ svlev \in 0..MaxScopes
    /\ handler \in {"app", "eppic"}
    /\ curp \in Paths \cup (1..MaxFrames)
    /\ bare \in Bares
    /\ crashed \in BOOLEAN

(***************************************************************************)
(* Above the base, the jump stack lists exactly the active routines that   *)
(* called setjmp, in nesting order: no entry names a routine that returned *)
(* (a longjmp there would be into a dead stack frame) and none is missing. *)
(***************************************************************************)
Mirrors(c, j) ==
    /\ Len(j) > 0 /\ j[1] = BaseJump
    /\ \A i \in 2..Len(j) :
        /\ j[i].env \in 1..Len(c)
        /\ c[j[i].env].kind \in ContextKinds
        /\ j[i].type = JumpType(c[j[i].env].kind)
    /\ \A i, n \in 2..Len(j) : i < n => j[i].env < j[n].env
    /\ \A k \in 1..Len(c) : c[k].kind \in ContextKinds =>
        \E i \in 2..Len(j) : j[i].env = k

JmpsMirrorFrames == ~crashed => Mirrors(ctl, jmps)

(***************************************************************************)
(* eppic_popjmp never reports "Wrong pop!": whichever way control came back *)
(* to a routine, the entry on top of the jump stack is the one it pushed.  *)
(***************************************************************************)
PopsMatch ==
    At(ContextKinds) => /\ Len(jmps) > 1
                        /\ jmps[Len(jmps)].type = JumpType(Top.kind)
                        /\ jmps[Len(jmps)].env = Depth

\* No jump runs off the jump stack into the null env of the base entry, and
\* none lands in an eppic_exenode that has already given its handlers back.
NeverCrashes == ~crashed

(***************************************************************************)
(* Every automatic list at a level in use still exists: eppic_getvarbyname *)
(* scans none that was freed, and dropping the level frees none twice.     *)
(***************************************************************************)
ScopesLive == \A i \in 1..svlev : svs[i].type = "AUTO" => svs[i].live

(***************************************************************************)
(* eppic_getvarbyname scans down to the first S_FILE level.  That level is *)
(* the one its own function opened, so a lookup sees no scope of a caller. *)
(***************************************************************************)
LookupStaysInFunction ==
    \A i \in 2..Len(jmps) :
        (jmps[i].type = "RETURN" /\ \A j \in i + 1..Len(jmps) : jmps[j].type # "RETURN")
        => /\ svlev >= jmps[i].svlev + 1
           /\ svs[jmps[i].svlev + 1].type = "FILE"
           /\ \A n \in jmps[i].svlev + 2..svlev : svs[n].type # "FILE"

\* What a lookup scans is there, and belongs to the running function.
ScopesInForce == ScopesLive /\ LookupStaysInFunction

(***************************************************************************)
(* eppic's signal handlers are installed exactly while a command or an     *)
(* evaluation holds the set they replaced, the steps of eppic_exenode with *)
(* no J_EXIT context included; the host has its own handlers back at every *)
(* other moment.                                                           *)
(***************************************************************************)
HandlersOwned ==
    ~crashed => (handler = "eppic" <=>
        \/ bare # NotBare /\ bare.osa # "freed"
        \/ \E k \in 1..Depth : ctl[k].kind \in Guards /\ ctl[k].osa # "freed")

\* A step leaves every scope that stays in use as it was.
StableScopes ==
    [][\A i \in 1..MaxScopes : i <= svlev /\ i <= svlev' => svs'[i] = svs[i]]_vars

(***************************************************************************)
(* A break or continue ends no function call, initializer or command: what *)
(* eppic_dojmp's comment says is dropped are loop contexts.                *)
(***************************************************************************)
LoopJumpsEndOnlyLoops ==
    [][Break \/ Continue =>
        \A k \in 1..Depth : ctl[k].kind \in Functions \cup Guards =>
            k <= Len(ctl') /\ ctl'[k] = ctl[k]]_vars

(***************************************************************************)
(* The jump stack and the recorded levels implement structured control: an *)
(* activation's base is the level its entry in jmps, or its local, holds.  *)
(***************************************************************************)
Base(c, j, k) ==
    IF c[k].kind \in BlockKinds THEN c[k].lev
    ELSE j[CHOOSE i \in 2..Len(j) : j[i].env = k].svlev

Activations(c, j) == [k \in 1..Len(c) |-> [kind |-> c[k].kind, base |-> Base(c, j, k)]]

\* The frames, and the types of the open scopes, as StructuredControl sees them.
Act == Activations(ctl, jmps)
Types == [i \in 1..svlev |-> svs[i].type]

Structured == INSTANCE StructuredControl WITH act <- Act, scopes <- Types

ImplementsStructured == Structured!AbsSpec

=============================================================================
