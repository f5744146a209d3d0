-------------------------- MODULE StructuredControl --------------------------
(***************************************************************************)
(* What the control constructs of the eppic language promise, with no jump *)
(* stack: one stack of activations, and the list of variable scopes that   *)
(* these activations have opened.  Leaving an activation, in the ordinary  *)
(* way or abruptly, closes exactly the scopes opened since it was entered. *)
(* A break or continue reaches the nearest construct of its own function,  *)
(* a return its own function, an abort the nearest initializer or command. *)
(***************************************************************************)
EXTENDS Integers, Sequences

CONSTANT Residue

VARIABLES
    act,     \* activations, outermost first: [kind, base]
    scopes   \* kinds of the open scopes, outermost first

absVars == <<act, scopes>>

Guards == {"cmd", "eval"}
Functions == {"enter", "call"}
Kinds == Guards \cup Functions \cup {"loop", "switch", "body", "statics", "block"}

AbsInit == act = << >> /\ scopes = [i \in 1..Residue |-> "PARSE"]

Activation(kind, base) == [kind |-> kind, base |-> base]

\* A command is a guard and, inside it, a function.
Command ==
    /\ act = << >>
    /\ act' = <<Activation("cmd", Len(scopes)), Activation("enter", Len(scopes))>>
    /\ scopes' = Append(scopes, "FILE")

Enter(kind, opened) ==
    /\ act' = Append(act, Activation(kind, Len(scopes)))
    /\ scopes' = scopes \o opened

Inner == act # << >> /\ act[Len(act)].kind # "cmd"

Call == (Inner \/ act = << >>) /\ Enter("enter", <<"FILE">>)
Block == Inner /\ Enter("statics", <<"STAT">>)
Eval == Inner /\ Enter("eval", << >>)
Construct == Inner /\ \E kind \in {"loop", "switch", "body"} : Enter(kind, << >>)

\* A function, and a block, opens its automatic scope once the static variables
\* outside it have their values.
OpenAutos ==
    /\ act # << >>
    /\ \/ act[Len(act)].kind = "enter"
          /\ act' = [act EXCEPT ![Len(act)].kind = "call"]
       \/ act[Len(act)].kind = "statics"
          /\ act' = [act EXCEPT ![Len(act)].kind = "block"]
    /\ scopes' = Append(scopes, "AUTO")

\* Activation k ends, with everything inside it.
Leave(k) ==
    /\ act' = SubSeq(act, 1, k - 1)
    /\ scopes' = SubSeq(scopes, 1, act[k].base)

Complete == act # << >> /\ Leave(Len(act))

\* Abrupt ends: the nearest activation of one of these kinds, with none of the
\* kinds in `walls' around the statement before it is reached.
Abrupt(kinds, walls) ==
    \E k \in 1..Len(act) :
        /\ act[k].kind \in kinds
        /\ \A j \in k + 1..Len(act) : act[j].kind \notin kinds \cup walls
        /\ Leave(k)

BreakOut == Abrupt({"loop", "switch"}, Functions \cup {"eval"})
NextIteration == Abrupt({"body"}, Functions \cup {"eval"})
ReturnOut == Abrupt(Functions, {"eval"})
Abort == Abrupt(Guards, {})

AbsNext ==
    \/ Command \/ Call \/ Block \/ Eval \/ Construct \/ OpenAutos
    \/ Complete \/ BreakOut \/ NextIteration \/ ReturnOut \/ Abort

AbsSpec == AbsInit /\ [][AbsNext]_absVars
=============================================================================
