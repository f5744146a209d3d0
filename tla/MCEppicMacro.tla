---------------------------- MODULE MCEppicMacro ----------------------------
(***************************************************************************)
(* Model-checking instances of EppicMacro: families of texts, and what a C  *)
(* preprocessor makes of them.  In those of MCClean, the arguments             *)
(* of a macro do not call it again, directly or not; no macro text uses the *)
(* name of another macro's parameter; and no text touches the host's        *)
(* defines.                                                                 *)
(***************************************************************************)
EXTENDS EppicMacro

Name(n) == [k |-> "name", n |-> n]
M(n) == [k |-> "mark", n |-> n]
Line(n, fn, ps, items) == [k |-> "define", n |-> n, fn |-> fn, ps |-> ps, text |-> items]
Define(n, items) == Line(n, FALSE, << >>, items)
DefineFn(n, ps, items) == Line(n, TRUE, ps, items)
Undef(n) == [k |-> "undef", n |-> n]
Enum(ns) == [k |-> "enum", ns |-> ns]
Include(n) == [k |-> "include", n |-> n]
If(cond) == [k |-> "if", cond |-> cond]
Elif(cond) == [k |-> "elif", cond |-> cond]
Else == [k |-> "else", cond |-> [t |-> "else"]]
Endif == [k |-> "endif"]
Expr(n) == [t |-> "expr", text |-> <<Name(n)>>]
IfDef(n) == [t |-> "ifdef", n |-> n]
IfNDef(n) == [t |-> "ifndef", n |-> n]

\* A is a constant; P and Q have a parameter of the same name, and Q calls P.
Prelude == <<Define("A", <<Name("b")>>),
             DefineFn("P", <<"x">>, <<Name("x"), Name("A")>>),
             DefineFn("S", <<"z">>, <<Name("z"), M("+"), Name("z")>>),
             DefineFn("Q", <<"x", "y">>, <<Name("y"), Name("P"), M("("), Name("x"), M(")")>>)>>
Call1(f, t) == <<Name(f), M("(")>> \o t \o <<M(")")>>
Call2(f, t, u) == <<Name(f), M("(")>> \o t \o <<M(",")>> \o u \o <<M(")")>>
Calls1(f, S) == {Call1(f, t) : t \in S}
Terms == {<<Name("x")>>, <<Name("A")>>, <<M("("), Name("y"), M(","), Name("x"), M(")")>>}
Sums == Terms \cup Calls1("S", Terms)
CallTexts ==
    {Prelude \o t : t \in Calls1("P", Sums) \cup Calls1("S", Calls1("P", Terms))
                        \cup {Call2("Q", t, u) : t \in Sums, u \in Sums \cup Calls1("P", Sums)}}

\* Lines of conditionals, definitions and inclusions.
Lines == {If(Expr("A")), If(IfNDef("N")), Elif(Expr("eppic")), Else, Endif, Name("A"),
          Define("A", <<Name("1")>>), Undef("A"), Enum(<<"N">>), Include("f")}
IfTexts == {<<Name("t"), If(c)>> \o l : c \in {Expr("eppic"), IfDef("N")}, l \in {s \in [1..4 -> Lines] : \E i \in 1..4 : s[i] = Endif}}
OddTexts == {<<Define("R", <<Name("R")>>), Name("R")>>, <<Include("g")>>, <<Include("h")>>,
             <<DefineFn("Z", << >>, <<Name("z")>>), Name("Z"), M("("), M(")")>>}
MCClean == CallTexts \cup IfTexts \cup OddTexts
\* f is a header, g and h include themselves.
MCIncluded == [n \in {"f", "g", "h"} |->
                CASE n = "f" -> <<Define("N", <<Name("0")>>), Name("N")>>
                  [] n = "g" -> <<Include("g")>>
                  [] n = "h" -> <<If(Expr("eppic")), Include("h"), Endif>>]
MCNames == STRING
MCApi == <<[name |-> "eppic", text |-> <<Name("1")>>], [name |-> "H", text |-> <<Name("1")>>]>>

\* Any macro call as an argument; any few items after the definitions; a macro
\* that is cut off by the end of its buffer.
Grown == Terms \cup Calls1("P", Terms) \cup {Call2("Q", <<Name("x")>>, t) : t \in Terms}
NestedFiles ==
    {Prelude \o t : t \in Calls1("P", Grown) \cup {Call2("Q", t, u) : t \in Grown, u \in Grown}}
Tokens == {Name("P"), Name("Q"), Name("z"), M("("), M(")"), M(","), Enum(<<"N">>), Else,
           If([t |-> "expr", text |-> <<Name("A"), Name("A")>>]), Endif, Include("none")}
FaultFiles == NestedFiles \cup {Prelude \o t : t \in [1..3 -> Tokens]}
                \cup {<<Define("R", <<Name("P"), M("(")>>)>> \o Prelude \o <<Name("R"), M(")")>>}
MCFiles == MCClean \cup FaultFiles

\* What the theorem about NoResidue supposes of the texts.
ASSUME HostAssumption == HostUntouched

-----------------------------------------------------------------------------
(* What a C preprocessor makes of a text: a pass that keeps a stack of the    *)
(* open conditionals, and expands the arguments before it puts them in.       *)

\* The arguments, and what follows them: `depth' parentheses are open, `args' is
\* what was read.
RECURSIVE Split(_, _, _)
Split(ts, depth, args) ==
    CASE ts[1] = M(")") /\ depth = 0 -> [args |-> args, rest |-> Tail(ts)]
      [] ts[1] = M(",") /\ depth = 0 -> Split(Tail(ts), 0, Append(args, << >>))
      [] OTHER -> Split(Tail(ts),
                        CASE ts[1] = M("(") -> depth + 1
                          [] ts[1] = M(")") -> depth - 1
                          [] OTHER -> depth,
                        Front(args) \o <<Append(Last(args), ts[1])>>)
Call(m, ts) ==
    IF m.fn THEN Split(SubSeq(ts, 3, Len(ts)), 0, << << >> >>)
    ELSE [args |-> << >>, rest |-> Tail(ts)]

RECURSIVE Expand(_, _)
Expand(ts, ms) ==
    IF ts = << >> THEN << >>
    ELSE LET n == Head(ts).n
         IN  IF n \notin DOMAIN ms THEN <<n>> \o Expand(Tail(ts), ms)
             ELSE LET m == ms[n]
                      inner == [o \in DOMAIN ms \ {n} |-> ms[o]]
                      call == Call(m, ts)
                      arg == [i \in DOMAIN m.ps |-> Expand(call.args[i], ms)]
                      put(t) == IF \E i \in DOMAIN m.ps : m.ps[i] = t.n
                                THEN LET a == arg[CHOOSE i \in DOMAIN m.ps : m.ps[i] = t.n]
                                     IN  [j \in DOMAIN a |-> Name(a[j])]
                                ELSE <<t>>
                  IN  Expand(FlattenSeq([i \in DOMAIN m.text |-> put(m.text[i])]), inner)
                        \o Expand(call.rest, ms)

Truth(cond, ms) ==
    CASE cond.t = "else" -> TRUE
      [] cond.t = "ifdef" -> cond.n \in DOMAIN ms
      [] cond.t = "ifndef" -> cond.n \notin DOMAIN ms
      [] cond.t = "expr" -> Expand(cond.text, ms) = <<"1">>

With(ms, n, m) == [o \in DOMAIN ms \cup {n} |-> IF o = n THEN m ELSE ms[o]]
One == [fn |-> FALSE, ps |-> << >>, text |-> <<Name("1")>>]

\* The groups that are open, innermost first: "read", "wait" for a true
\* condition, "skip" to the end; `last' after an #else.
RECURSIVE Cpp(_, _, _)
Cpp(ts, ms, open) ==
    LET t == Head(ts)
        live == \A i \in DOMAIN open : open[i].s = "read"
        livebelow == \A i \in DOMAIN Tail(open) : Tail(open)[i].s = "read"
        group(s, last) == [s |-> s, last |-> last]
    IN  CASE ts = << >> -> IF open = << >> THEN << >> ELSE <<"error">>
          [] ts # << >> /\ t.k = "if" ->
                Cpp(Tail(ts), ms,
                    <<group(IF ~live THEN "skip" ELSE IF Truth(t.cond, ms) THEN "read" ELSE "wait",
                            FALSE)>> \o open)
          [] ts # << >> /\ t.k \in {"elif", "else"} ->
                IF open = << >> \/ open[1].last THEN <<"error">>
                ELSE Cpp(Tail(ts), ms,
                         <<group(IF open[1].s = "wait"
                                 THEN IF livebelow /\ Truth(t.cond, ms) THEN "read" ELSE "wait"
                                 ELSE "skip", t.k = "else")>> \o Tail(open))
          [] ts # << >> /\ t.k = "endif" ->
                IF open = << >> THEN <<"error">> ELSE Cpp(Tail(ts), ms, Tail(open))
          [] ts # << >> /\ t.k \notin {"if", "elif", "else", "endif"} ->
                IF ~live THEN Cpp(Tail(ts), ms, open)
                ELSE CASE t.k \in {"name", "mark"} ->
                            LET rest == IF t.n \in DOMAIN ms THEN Call(ms[t.n], ts).rest
                                        ELSE Tail(ts)
                            IN  Expand(SubSeq(ts, 1, Len(ts) - Len(rest)), ms)
                                    \o Cpp(rest, ms, open)
                       [] t.k = "define" ->
                            Cpp(Tail(ts), With(ms, t.n, [fn |-> t.fn, ps |-> t.ps, text |-> t.text]),
                                open)
                       [] t.k = "undef" ->
                            Cpp(Tail(ts), [o \in DOMAIN ms \ {t.n} |-> ms[o]], open)
                       [] t.k = "enum" -> Cpp(Tail(ts), With(ms, t.ns[1], One), open)
                       [] t.k = "include" -> Cpp(Included[t.n] \o Tail(ts), ms, open)

(***************************************************************************)
(* A text that a C preprocessor takes is loaded without an error, and the   *)
(* parser gets what the C compiler would get.                              *)
(***************************************************************************)
ExpandsAsC ==
    status = "idle" /\ result # "none" /\ text \in CallTexts \cup IfTexts =>
        LET c == Cpp(text, [n \in {Api[i].name : i \in DOMAIN Api} |-> One], << >>)
        IN  "error" \notin {c[i] : i \in DOMAIN c} => result = "ok" /\ out = c
=============================================================================
