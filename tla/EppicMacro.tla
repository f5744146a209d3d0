----------------------------- MODULE EppicMacro -----------------------------
(***************************************************************************)
(* What stands between a script file and the parser: the stack of input    *)
(* buffers (eppic_input.c), the list of macros with the substitutions of    *)
(* their parameters (eppic_define.c), the conditional blocks, and the       *)
(* cleaning up that eppic_newfile does after a parse (eppic_func.c).        *)
(*                                                                         *)
(* A text is a sequence of items: a name, a punctuation mark, a whole       *)
(* directive line, or an enum declaration.  The lexer takes one item at a   *)
(* time, and expands macros by pushing their text as a buffer: `out' is     *)
(* what reaches the parser.  Function-like macros are not used in #if       *)
(* expressions, and directives do not stand in macro texts or arguments.    *)
(* The grammar accepts any sequence of names and marks; the flex buffers    *)
(* that go with the input buffers are taken to follow them.                 *)
(***************************************************************************)
EXTENDS Integers, Sequences, SequencesExt

CONSTANTS
    Names,     \* what a name, a number or a mark reads as
    Files,     \* the texts that may be loaded
    Clean,     \* those of them that close every call, and call no macro in its own arguments
    Included,  \* the files that #include finds: a function from names to texts
    Api,       \* the host's defines, a sequence of [name, text], last one first
    MAXIN,     \* input buffers
    MaxLoads,  \* bound of the exploration
    NoMac

\* What texts are made of.
Plain == [k : {"name", "mark"}, n : Names]
Conditions == [t : {"else"}] \cup [t : {"ifdef", "ifndef"}, n : Names]
                \cup [t : {"expr"}, text : Seq(Plain)]
Items == Plain \cup [k : {"undef", "include"}, n : Names]
            \cup [k : {"define"}, n : Names, fn : BOOLEAN, ps : Seq(Names), text : Seq(Plain)]
            \cup [k : {"enum"}, ns : Seq(Names)]
            \cup [k : {"if", "elif", "else"}, cond : Conditions] \cup [k : {"endif"}]

\* mac_t, of a text of items in I.
MacsOf(I) == [id : Nat, name : Names, fn : BOOLEAN, ps : Seq(Names), text : Seq(I),
              issub : BOOLEAN, m : Nat]

ASSUME MacroAssumption ==
    /\ "1" \in Names
    /\ MAXIN \in Nat \ {0} /\ MaxLoads \in Nat /\ Clean \subseteq Files
    /\ Files \subseteq Seq(Items) /\ Range(Included) \subseteq Seq(Items)
    /\ Api \in Seq([name : Names, text : Seq(Plain)])
    /\ \A i, j \in DOMAIN Api : i # j => Api[i].name # Api[j].name
    /\ NoMac \notin MacsOf(Items)

VARIABLES
    macs,       \* the macros, most recent first
    supressed,  \* ids of the macros that are marked so
    inlist,     \* input buffers, the current one first
    calls,      \* macros whose "(" the lexer is reading, innermost first
    alts,       \* blocks of the #if being decided: [cond, body]
    out,        \* what the parser was given
    ppout,      \* what the expression parser was given
    text,       \* the file of the load
    status,     \* "idle", "parsing", "hung" or "crashed"
    result,     \* of the last load: "none", "ok" or "error"
    tag,        \* id of the first macro when the load began, 0 if none
    made,       \* macros made, for their identity
    nloads

vars == <<macs, supressed, inlist, calls, alts, out, ppout, text, status, result,
          tag, made, nloads>>

-----------------------------------------------------------------------------
\* The elements of a sequence taken into a state, one after the other.
Through(op(_, _), state, elems) ==
    LET after[k \in 0..Len(elems)] ==
            IF k = 0 THEN state ELSE op(after[k - 1], elems[k])
    IN  after[Len(elems)]

(* The list of macros.  A parameter's substitution is a macro too, of (m->m) *)
(* the macro it is a parameter of; any other macro is its own.               *)

Mac(id, name, fn, ps, items) ==
    [id |-> id, name |-> name, fn |-> fn, ps |-> ps, text |-> items,
     issub |-> FALSE, m |-> id]
SubMac(id, name, items, m) ==
    [id |-> id, name |-> name, fn |-> FALSE, ps |-> << >>, text |-> items,
     issub |-> TRUE, m |-> m.id]

Hidden(m, sup) == m.issub /\ m.m \in sup
FoundAt(ms, sup, name) ==
    {i \in DOMAIN ms : ms[i].name = name /\ ~Hidden(ms[i], sup)}

\* eppic_getmac(name, 0), and the list after eppic_getmac(name, 1): `prev' is the
\* last macro that was compared, so hidden ones before the match go with it.
eppic_getmac(ms, sup, name) ==
    LET found == FoundAt(ms, sup, name)
    IN  IF found = {} THEN NoMac ELSE ms[Min(found)]
TakenOff(ms, sup, name) ==
    LET found == FoundAt(ms, sup, name)
        i == Min(found)
        prev == Max({0} \cup {j \in 1..i-1 : ~Hidden(ms[j], sup)})
    IN  IF found = {} THEN ms ELSE SubSeq(ms, 1, prev) \o SubSeq(ms, i + 1, Len(ms))

\* A new definition replaces the one that is visible.
eppic_newmac(ms, sup, m) == <<m>> \o TakenOff(ms, sup, m.name)

\* eppic_pushmac: the last parameter's substitution comes first.
Subs(m, args, id) ==
    Reverse([i \in DOMAIN m.ps |-> SubMac(id + i, m.ps[i], args[i], m)])

\* eppic_popmac: a substitution that is not found is "Oops macro pop!".
PopMacForgetsLast(s, m) ==
    [s EXCEPT !.macs = IF m.ps = << >> THEN @
                       ELSE Through(LAMBDA ms, p : TakenOff(ms, s.sup, p), @, Front(m.ps))]
SubOff(s, p) ==
    [s EXCEPT !.macs = TakenOff(@, s.sup, p), !.ok = @ /\ FoundAt(s.macs, s.sup, p) # {}]
eppic_popmac(s, m) == Through(SubOff, s, m.ps)

PopSubKeepsMark(s, m) == s
eppic_popsub(s, m) == [s EXCEPT !.sup = @ \ {m.m}]

\* The donefunc of a buffer, on what it may change.
Popped(s, b) ==
    CASE b.done = "popmac" -> eppic_popmac(s, b.mac)
      [] b.done = "popsub" -> eppic_popsub(s, b.mac)
      [] OTHER -> s

FlushKeepsFirst(ms, mtag) ==
    LET i == SelectInSeq(ms, LAMBDA m : m.id = mtag)
    IN  IF i <= 1 THEN ms ELSE <<Head(ms)>> \o SubSeq(ms, i, Len(ms))
\* eppic_flushmacs runs off the list when the tag is no longer on it.
TagLost(ms, mtag) == mtag # 0 /\ \A i \in DOMAIN ms : ms[i].id # mtag
eppic_flushmacs(ms, mtag) ==
    IF mtag = 0 THEN << >>
    ELSE SubSeq(ms, SelectInSeq(ms, LAMBDA m : m.id = mtag), Len(ms))

-----------------------------------------------------------------------------
(* Conditional blocks (eppic_getblklst): the directives of an #if are those  *)
(* of its level up to its #endif.                                            *)

Kind(ts, i, kinds) == ts[i].k \in kinds
Level(ts, i) ==
    Cardinality({j \in 1..i-1 : Kind(ts, j, {"if"})})
        - Cardinality({j \in 1..i-1 : Kind(ts, j, {"endif"})})
Endifs(ts) == {i \in DOMAIN ts : Kind(ts, i, {"endif"}) /\ Level(ts, i) = 0}
NextBlocks(ts) ==
    LET end == Min(Endifs(ts) \cup {Len(ts) + 1})
    IN  {i \in 1..end-1 : Kind(ts, i, {"elif", "else"}) /\ Level(ts, i) = 0}

\* "Block without endif", "#else already done", "Additional block found".
MalformedIf(ts) ==
    \/ Endifs(ts) = {}
    \/ \E i, j \in NextBlocks(ts) : i < j /\ Kind(ts, i, {"else"})

\* The nth number of a set.
Nth(S, n) == CHOOSE i \in S : Cardinality({j \in S : j < i}) = n - 1

Alternatives(cond, ts) ==
    LET starts == NextBlocks(ts)
        directive(n) == IF n = 1 THEN 0 ELSE Nth(starts, n - 1)
        next(n) == IF n > Cardinality(starts) THEN Min(Endifs(ts)) ELSE Nth(starts, n)
    IN  [n \in 1..Cardinality(starts) + 1 |->
            [cond |-> IF n = 1 THEN cond ELSE ts[directive(n)].cond,
             body |-> SubSeq(ts, directive(n) + 1, next(n) - 1)]]

-----------------------------------------------------------------------------
(* Arguments of a macro (eppic_skipto): r is the current buffer after "(".   *)

Mark(r, i, n) == r[i] = [k |-> "mark", n |-> n]
Depth(r, i) ==
    Cardinality({j \in 1..i-1 : Mark(r, j, "(")})
        - Cardinality({j \in 1..i-1 : Mark(r, j, ")")})
Closings(r) == {i \in DOMAIN r : Mark(r, i, ")") /\ Depth(r, i) = 0}
Commas(r) ==
    LET end == Min(Closings(r) \cup {Len(r) + 1})
    IN  {i \in 1..end-1 : Mark(r, i, ",") /\ Depth(r, i) = 0}
MissingArgs(m, r) == Cardinality(Commas(r)) < Len(m.ps) - 1

\* Where the arguments end; the last one takes all up to ")".
ArgEndFlat(m, r, i) ==
    LET marks(n) == {j \in DOMAIN r : Mark(r, j, n)}
    IN  IF i = Len(m.ps) THEN Min(marks(")")) ELSE Nth(marks(","), i)
ArgEnd(m, r, i) == IF i = Len(m.ps) THEN Min(Closings(r)) ELSE Nth(Commas(r), i)
Args(m, r) ==
    [i \in DOMAIN m.ps |->
        SubSeq(r, IF i = 1 THEN 1 ELSE ArgEnd(m, r, i - 1) + 1, ArgEnd(m, r, i) - 1)]

-----------------------------------------------------------------------------

Buffer(done, mac, items) == [done |-> done, mac |-> mac, rest |-> items]

\* eppic_apiset: the host's defines.
ApiMacs == [i \in DOMAIN Api |-> Mac(i, Api[i].name, FALSE, << >>, Api[i].text)]

Init ==
    /\ macs = ApiMacs
    /\ supressed = {}
    /\ inlist = << >> /\ calls = << >> /\ alts = << >>
    /\ out = << >> /\ ppout = << >> /\ text = << >>
    /\ status = "idle" /\ result = "none"
    /\ tag = 0 /\ made = Len(Api) /\ nloads = 0

\* eppic_newfile: the file is pushed, the macros are tagged.
BeginLoad ==
    /\ status = "idle" /\ nloads < MaxLoads
    /\ text' \in Files
    /\ inlist' = <<Buffer("file", NoMac, text')>>
    /\ tag' = IF macs = << >> THEN 0 ELSE macs[1].id
    /\ status' = "parsing" /\ result' = "none"
    /\ out' = << >> /\ ppout' = << >>
    /\ nloads' = nloads + 1
    /\ UNCHANGED <<macs, supressed, calls, alts, made>>

\* The end of a load: macros made since the tag go.
Leave(ms, sup, ok, how) ==
    /\ status' = IF ~ok \/ TagLost(ms, tag) THEN "crashed" ELSE "idle"
    /\ macs' = IF TagLost(ms, tag) THEN ms ELSE eppic_flushmacs(ms, tag)
    /\ supressed' = sup
    /\ result' = how
    /\ inlist' = << >> /\ calls' = << >> /\ alts' = << >>
    /\ UNCHANGED <<out, ppout, tag, made, text, nloads>>

\* eppic_error during a parse: eppic_parseback, then eppic_popallin.  An "Oops" of
\* eppic_popallin finds no parse to leave.
Abort(ms, sup, bufs) ==
    \E s \in {Through(Popped, [macs |-> ms, sup |-> sup, ok |-> TRUE], bufs)} :
        Leave(s.macs, s.sup, s.ok, "error")
eppic_error == Abort(macs, supressed, inlist)

Inpp == \E i \in DOMAIN inlist : inlist[i].done = "expr"
Lexing == status = "parsing" /\ (alts = << >> \/ Inpp)
Top == inlist[1]
Item == Top.rest[1]
AtItem(kinds) == /\ Lexing /\ inlist # << >> /\ Top.rest # << >>
                 /\ Item.k \in kinds
Advanced == <<[Top EXCEPT !.rest = Tail(@)]>> \o Tail(inlist)
FullAfterNext == Len(inlist) > MAXIN
Full == Len(inlist) = MAXIN

\* A token for whoever parses.
Token(n) ==
    /\ out' = IF Inpp THEN out ELSE Append(out, n)
    /\ ppout' = IF Inpp THEN Append(ppout, n) ELSE ppout

\* The end of a buffer (eppic_popin), but for a #if expression's.
PopBuffer ==
    /\ Lexing /\ inlist # << >> /\ Top.rest = << >> /\ Top.done # "expr"
    /\ \E s \in {Popped([macs |-> macs, sup |-> supressed, ok |-> TRUE], Top)} :
        \/ /\ s.ok
           /\ macs' = s.macs /\ supressed' = s.sup
           /\ inlist' = Tail(inlist)
           /\ UNCHANGED <<calls, alts, out, ppout, status, result, tag, made, text, nloads>>
        \/ ~s.ok /\ Abort(s.macs, s.sup, Tail(inlist))

EndParse ==
    /\ Lexing /\ inlist = << >>
    /\ Leave(macs, supressed, TRUE, IF calls = << >> THEN "ok" ELSE "error")

\* eppic_chkmacvar: a name that is no macro is a token; one without parameters is
\* replaced, and its substitutions hidden while its text is read.
Hides(m) == supressed \cup {m.m}

eppic_chkmacvar ==
    LET m == eppic_getmac(macs, supressed, Item.n)
    IN  /\ AtItem({"name"})
        /\ \/ /\ m = NoMac /\ calls = << >>
              /\ Token(Item.n) /\ inlist' = Advanced
              /\ UNCHANGED <<macs, supressed, calls, alts, status, result, tag, made, text, nloads>>
           \/ m = NoMac /\ calls # << >> /\ eppic_error
           \/ /\ m # NoMac /\ ~m.fn /\ ~Full
              /\ supressed' = Hides(m)
              /\ inlist' = <<Buffer("popsub", m, m.text)>> \o Advanced
              /\ UNCHANGED <<macs, calls, alts, out, ppout, status, result, tag, made, text, nloads>>
           \/ m # NoMac /\ ~m.fn /\ Full /\ Abort(macs, Hides(m), inlist)
           \/ /\ m # NoMac /\ m.fn
              /\ calls' = <<m>> \o calls /\ inlist' = Advanced
              /\ UNCHANGED <<macs, supressed, alts, out, ppout, status, result, tag, made, text, nloads>>

LexMark ==
    /\ AtItem({"mark"})
    /\ \/ /\ calls = << >>
          /\ Token(Item.n) /\ inlist' = Advanced
          /\ UNCHANGED <<macs, supressed, calls, alts, status, result, tag, made, text, nloads>>
       \/ calls # << >> /\ Item.n # "(" /\ eppic_error

\* The "(" of a macro: its arguments are in the current buffer, or not at all:
\* eppic_skipto reads -1 for ever at the end of it.
eppic_pushmac ==
    LET m == calls[1]
        r == Tail(Top.rest)
        after == <<[Top EXCEPT !.rest = SubSeq(r, Min(Closings(r)) + 1, Len(r))]>>
                    \o Tail(inlist)
    IN  /\ AtItem({"mark"}) /\ calls # << >> /\ Item.n = "("
        /\ \/ /\ Closings(r) = {}
              /\ status' = "hung"
              /\ UNCHANGED <<macs, supressed, inlist, calls, alts, out, ppout, result,
                             tag, made, text, nloads>>
           \/ Closings(r) # {} /\ (MissingArgs(m, r) \/ Full) /\ eppic_error
           \/ /\ Closings(r) # {} /\ ~MissingArgs(m, r) /\ ~Full
              /\ inlist' = <<Buffer("popmac", m, m.text)>> \o after
              /\ macs' = Subs(m, Args(m, r), made) \o macs
              /\ made' = made + Len(m.ps)
              /\ calls' = Tail(calls)
              /\ UNCHANGED <<supressed, alts, out, ppout, status, result, tag, text, nloads>>

eppic_define ==
    /\ AtItem({"define"})
    /\ macs' = eppic_newmac(macs, supressed,
                            Mac(made + 1, Item.n, Item.fn, Item.ps, Item.text))
    /\ made' = made + 1
    /\ inlist' = Advanced
    /\ UNCHANGED <<supressed, calls, alts, out, ppout, status, result, tag, text, nloads>>

eppic_undefine ==
    /\ AtItem({"undef"})
    /\ macs' = TakenOff(macs, supressed, Item.n)
    /\ inlist' = Advanced
    /\ UNCHANGED <<supressed, calls, alts, out, ppout, status, result, tag, made, text, nloads>>

eppic_include ==
    /\ AtItem({"include"})
    /\ \/ /\ Item.n \notin DOMAIN Included
          /\ inlist' = Advanced
          /\ UNCHANGED <<macs, supressed, calls, alts, out, ppout, status, result, tag,
                         made, text, nloads>>
       \/ /\ Item.n \in DOMAIN Included /\ ~Full
          /\ inlist' = <<Buffer("file", NoMac, Included[Item.n])>> \o Advanced
          /\ UNCHANGED <<macs, supressed, calls, alts, out, ppout, status, result, tag,
                         made, text, nloads>>
       \/ Item.n \in DOMAIN Included /\ Full /\ eppic_error

\* eppic_pushenums, when the parser has read an enum.
Enumerators(ms, sup, ns, id) ==
    LET one(i) == Mac(id + i, ns[i], FALSE, << >>, <<[k |-> "name", n |-> "1"]>>)
    IN  Through(LAMBDA l, i : eppic_newmac(l, sup, one(i)), ms, [i \in DOMAIN ns |-> i])

eppic_pushenums ==
    /\ AtItem({"enum"})
    /\ \/ calls # << >> /\ eppic_error
       \/ /\ calls = << >>
          /\ macs' = Enumerators(macs, supressed, Item.ns, made)
          /\ made' = made + Len(Item.ns)
          /\ inlist' = Advanced
          /\ UNCHANGED <<supressed, calls, alts, out, ppout, status, result, tag, text, nloads>>

\* eppic_zapif, at an #if: the blocks, with what follows the #endif.
eppic_zapif ==
    LET ts == Tail(Top.rest)
    IN  /\ AtItem({"if"})
        /\ \/ MalformedIf(ts) /\ eppic_error
           \/ /\ ~MalformedIf(ts)
              /\ alts' = Alternatives(Item.cond, ts)
              /\ inlist' = <<[Top EXCEPT !.rest = SubSeq(ts, Min(Endifs(ts)) + 1, Len(ts))]>>
                                \o Tail(inlist)
              /\ UNCHANGED <<macs, supressed, calls, out, ppout, status, result, tag,
                             made, text, nloads>>

\* Anything else that begins with # is a syntax error.
StrayDirective == AtItem({"elif", "else", "endif"}) /\ eppic_error

\* One block is decided: it is read now and the others are not, or the next is tried.
Reading(b, bufs) ==
    IF b THEN <<[bufs[1] EXCEPT !.rest = alts[1].body \o @]>> \o Tail(bufs) ELSE bufs
DecideGoesOn(b, bufs) == alts' = Tail(alts) /\ inlist' = Reading(b, bufs)
DecideStays(b, bufs) == alts' = (IF b THEN << >> ELSE alts) /\ inlist' = Reading(b, bufs)
Decide(b, bufs) ==
    alts' = (IF b THEN << >> ELSE Tail(alts)) /\ inlist' = Reading(b, bufs)

TryBlock ==
    LET cond == alts[1].cond
        defined == eppic_getmac(macs, supressed, cond.n) # NoMac
    IN  /\ status = "parsing" /\ alts # << >> /\ ~Inpp
        /\ \/ /\ cond.t \in {"else", "ifdef", "ifndef"}
              /\ Decide(cond.t = "else" \/ (cond.t = "ifdef") = defined, inlist)
              /\ UNCHANGED <<macs, supressed, calls, out, ppout, status, result, tag,
                             made, text, nloads>>
           \/ /\ cond.t = "expr" /\ ~Full
              /\ inlist' = <<Buffer("expr", NoMac, cond.text)>> \o inlist
              /\ ppout' = << >>
              /\ UNCHANGED <<macs, supressed, calls, alts, out, status, result, tag,
                             made, text, nloads>>
           \/ cond.t = "expr" /\ Full /\ eppic_error

\* The expression's buffer has eofonpop: it is parsed and evaluated.
EndExpression ==
    /\ Lexing /\ inlist # << >> /\ Top.rest = << >> /\ Top.done = "expr"
    /\ \/ Len(ppout) # 1 /\ eppic_error
       \/ /\ Len(ppout) = 1
          /\ Decide(ppout[1] = "1", Tail(inlist))
          /\ UNCHANGED <<macs, supressed, calls, out, ppout, status, result, tag, made,
                         text, nloads>>

Step ==
    \/ PopBuffer \/ EndParse \/ eppic_chkmacvar \/ LexMark \/ eppic_pushmac
    \/ eppic_define \/ eppic_undefine \/ eppic_include \/ eppic_pushenums
    \/ eppic_zapif \/ StrayDirective \/ TryBlock \/ EndExpression

Next == BeginLoad \/ Step

\* A parse that has begun runs on: nothing else runs.
Spec == Init /\ [][Next]_vars /\ WF_vars(Step)

-----------------------------------------------------------------------------
(* Properties.                                                             *)

BuffersOf(I) ==
    [done : {"file", "popmac", "popsub", "expr"}, mac : MacsOf(I) \cup {NoMac}, rest : Seq(I)]

TypeOK ==
    /\ macs \in Seq(MacsOf(Items))
    /\ \A i \in DOMAIN macs : macs[i].id \in 1..made /\ macs[i].m \in 1..made
    /\ supressed \subseteq 1..made
    /\ inlist \in Seq(BuffersOf(Items)) /\ Len(inlist) <= MAXIN
    /\ \A i \in DOMAIN inlist : inlist[i].done \in {"popmac", "popsub"} => inlist[i].mac # NoMac
    /\ calls \in Seq(MacsOf(Items)) /\ \A i \in DOMAIN calls : calls[i].fn
    /\ alts \in Seq([cond : Conditions, body : Seq(Items)])
    /\ out \in Seq(Names) /\ ppout \in Seq(Names)
    /\ status \in {"idle", "parsing", "hung", "crashed"}
    /\ result \in {"none", "ok", "error"}
    /\ nloads \in 0..MaxLoads /\ tag \in 0..made /\ made \in Nat

(***************************************************************************)
(* The substitutions on the list are those of the macros whose text is on  *)
(* the stack, innermost first: no parameter outlives its call, and none is  *)
(* missing while its call is read (eppic_pushmac, eppic_popmac).             *)
(***************************************************************************)
ParamsOf(b) == IF b.done = "popmac" THEN Reverse(b.mac.ps) ELSE << >>
SubsMirrorBuffers ==
    text \in Clean /\ status \in {"idle", "parsing"} =>
        LET subs == SelectSeq(macs, LAMBDA m : m.issub)
        IN  [i \in DOMAIN subs |-> subs[i].name] =
                FlattenSeq([i \in DOMAIN inlist |-> ParamsOf(inlist[i])])

(***************************************************************************)
(* The parameters of a macro are hidden just while one of them is read      *)
(* (eppic_chkmacvar, eppic_popsub, eppic_popallin): a mark that stayed would  *)
(* hide the parameters of every call to come, one that went too early would  *)
(* let an argument be read as a parameter.                                  *)
(***************************************************************************)
MarksMirrorBuffers ==
    status \in {"idle", "parsing"} =>
        \A i \in DOMAIN macs : macs[i].fn =>
            (macs[i].id \in supressed <=>
                \E j \in DOMAIN inlist : /\ inlist[j].done = "popsub"
                                         /\ inlist[j].mac.m = macs[i].id)

(***************************************************************************)
(* The texts that leave the names of the host's defines alone: they neither *)
(* define nor undefine them, and use them for no parameter or enumerator.    *)
(***************************************************************************)
Touched(item) ==
    CASE item.k = "define" -> {item.n} \cup Range(item.ps)
      [] item.k = "undef" -> {item.n}
      [] item.k = "enum" -> Range(item.ns)
      [] OTHER -> {}
HostNames == {Api[i].name : i \in DOMAIN Api}
HostUntouched ==
    \A t \in Files \cup Range(Included) : \A item \in Range(t) : Touched(item) \cap HostNames = {}

\* After a load, whatever became of it, the host's defines are as they were.
NoResidue ==
    status = "idle" =>
        /\ macs = ApiMacs
        /\ inlist = << >> /\ calls = << >> /\ alts = << >>

\* A load comes to an end, with success or an error.
LoadsEnd == status = "parsing" /\ text \in Clean ~> status = "idle"
=============================================================================
