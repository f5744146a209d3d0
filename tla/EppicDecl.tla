------------------------------- MODULE EppicDecl -------------------------------
(***************************************************************************)
(* Declarations: the base type that a list of specifiers makes, the levels   *)
(* of reference of its declarators, typedefs, and the names types print as.   *)
(*                                                                         *)
(* A type_t has attributes (what the specifiers said), an index and a size    *)
(* computed from them, and a level of reference.  Some code looks at the      *)
(* attributes (eppic_issigned) and some at the index (eppic_baseop).          *)
(***************************************************************************)
EXTENDS Naturals, Sequences, SequencesExt, FiniteSets

CONSTANTS Words,     \* bytes in a word of the image: 4, 8
          MaxToks,   \* bound: specifiers in a declaration
          MaxRef,    \* bound: stars in front of a declarator
          MaxVars,   \* bound: declarators of a declaration
          Faults,    \* the declarations that C knows and the code gets wrong:
                     \*   longLong: long long without a sign
                     \*   intLong: int in front of long
                     \*   pointer: a pointer to a type without a sign
                     \*   pointerTypedef: several variables of a typedef of a pointer
                     \*   repeated: a repeated specifier next to long
          None       \* no type, no typedef

Signs == {"signed", "unsigned"}
Sizes == {"char", "short", "int", "long"}
ASSUME DeclAssumption ==
    /\ Words \subseteq {4, 8}
    /\ MaxToks \in Nat /\ MaxRef \in Nat /\ MaxVars \in Nat

VARIABLES def,    \* the word size and the sign of a plain char: eppic_setdefbtype
          t,      \* the type that is being read
          tdef,   \* the type behind the typedef T
          vars,   \* the types of the variables of the last declaration
          said,   \* what was reported of it: "ok", "warning" or "error"
          read    \* the specifiers that were read, and those behind T: for the properties
vars_ == <<def, t, tdef, vars, said, read>>

-----------------------------------------------------------------------------
(* Attributes.  "uspec" is B_USPEC, a sign that the user gave; "longlong" is   *)
(* B_LONGLONG.                                                              *)
AllSizes == Sizes \cup {"longlong"}
Rank(attr) ==
    CASE "char" \in attr -> 0
      [] attr \cap {"char", "short"} = {"short"} -> 1
      [] attr \cap {"char", "short"} = {} ->
            IF "long" \in attr THEN IF def.size = 4 THEN 2 ELSE 3
            ELSE IF "longlong" \in attr /\ "int" \notin attr THEN 3 ELSE 2
\* The index is B_SC, B_UC, B_SS .. B_ULL.
settypidx(ty) ==
    LET unsigned == \/ "unsigned" \in ty.attr /\ "signed" \notin ty.attr
                    \/ ty.attr \cap Signs = {} /\ Rank(ty.attr) = 0 /\ def.sign = "unsigned"
    IN  [ty EXCEPT !.idx = 2 * Rank(ty.attr) + (IF unsigned THEN 1 ELSE 0),
                   !.size = 2 ^ Rank(ty.attr)]
eppic_newbtype(tok) ==
    settypidx([type |-> "base", rtype |-> None, ref |-> 0, idx |-> 0, size |-> 0,
               attr |-> IF tok \in Signs THEN {tok, "uspec"} ELSE {tok}])

set_base_sign(base, s) == IF base \cap {"uspec", "int"} = {} THEN (base \ Signs) \cup {s} ELSE base

\* The attributes once a size is added, and what they were for the test that says
\* nothing was added.  AddSizeEager is a faulty variant.
AddSizeEager(base, tok) == [attr |-> set_base_sign(base, "signed") \cup {tok}, was |-> base]
AddSize(base, tok) ==
    CASE tok = "long" ->
            IF base \cap {"char", "short"} # {} THEN [attr |-> base, was |-> base]
            ELSE LET b == set_base_sign(base, "unsigned")
                 IN  IF "long" \in b \/ def.size = 8
                     THEN [attr |-> (b \cup {"longlong"}) \ {"long"}, was |-> base \ {"longlong"}]
                     ELSE [attr |-> b \cup {"long"}, was |-> base]
      [] tok = "int" ->
            LET b == IF base \cap {"int", "char", "long", "longlong"} = {}
                     THEN set_base_sign(base, "signed") \cup {"int"} ELSE base
            IN  [attr |-> b, was |-> IF b \cap {"long", "longlong"} # {} THEN {} ELSE base]
      [] tok = "short" ->
            [attr |-> IF base \cap {"short", "char", "long", "longlong"} = {}
                      THEN set_base_sign(base \cup {"short"}, "unsigned") ELSE base,
             was |-> base]
      [] tok = "char" ->
            [attr |-> IF base \cap AllSizes = {} THEN set_base_sign(base \cup {"char"}, def.sign) ELSE base,
             was |-> base]

\* A type and what is reported.
eppic_addbtype(ty, tok) ==
    IF tok \in Signs
    THEN [t |-> settypidx([ty EXCEPT !.attr = (@ \ Signs) \cup {tok, "uspec"}]),
          said |-> IF "uspec" \notin ty.attr THEN "ok"
                   ELSE IF tok \in ty.attr THEN "warning" ELSE "error"]
    ELSE LET b == AddSize(ty.attr, tok)
         IN  [t |-> settypidx([ty EXCEPT !.attr = b.attr]),
              said |-> IF b.attr = b.was THEN "warning" ELSE "ok"]

\* ChksignLate is a faulty variant.
ChksignLate(ty) ==
    settypidx(IF ty.attr \cap Signs # {} THEN ty ELSE [ty EXCEPT !.attr = @ \cup {"signed"}])
eppic_chksign(ty) ==
    settypidx(IF ty.attr \cap Signs # {} THEN ty
              ELSE [ty EXCEPT !.attr = @ \cup {IF ty.idx \in {0, 1} THEN def.sign ELSE "signed"}])
eppic_chksize(ty) == IF ty.attr \cap AllSizes # {} THEN ty ELSE eppic_addbtype(ty, "int").t

eppic_pushref(ty, ref) ==
    IF ty.type = "ref" THEN [ty EXCEPT !.ref = @ + ref]
    ELSE IF ref = 0 THEN [ty EXCEPT !.ref = 0]
    ELSE [ty EXCEPT !.ref = ref, !.rtype = ty.type, !.type = "ref"]
\* PoprefKeepsType is a faulty variant.
PoprefKeepsType(ty, ref) == [ty EXCEPT !.ref = @ - ref]
eppic_popref(ty, ref) ==
    IF ty.ref = 0 THEN ty
    ELSE [ty EXCEPT !.ref = @ - ref, !.type = IF ty.ref = ref THEN ty.rtype ELSE @]

\* The specifiers that eppic_getbtypename prints: the sign if it is not the default.
\* HiddenSignOfInt is a faulty variant.
Printed == <<"unsigned", "signed", "char", "short", "int", "long", "longlong">>
HiddenSignOfInt(attr) == IF attr \cap {"int", "char"} = {} THEN "unsigned" ELSE "signed"
HiddenSign(attr) ==
    CASE "int" \in attr -> "signed"
      [] attr \cap {"int", "char"} = {"char"} -> def.sign
      [] attr \cap {"int", "char"} = {} -> "unsigned"
Shown(attr, a) ==
    a \in attr /\ (a \in Signs => "uspec" \in attr /\ a # HiddenSign(attr))
eppic_getbtypename(attr) ==
    FlattenSeq([n \in DOMAIN Printed |->
        IF ~Shown(attr, Printed[n]) THEN << >>
        ELSE IF Printed[n] = "longlong" THEN <<"long", "long">> ELSE <<Printed[n]>>])

\* The base type of a type that the image names (a string), with no sign or size
\* left open, and what is reported.
eppic_parsetype(toks) ==
    LET add(r, tok) == LET s == eppic_addbtype(r.t, tok)
                       IN  [t |-> s.t, said |-> IF s.said = "ok" THEN r.said ELSE s.said]
        all == FoldLeft(add, [t |-> eppic_newbtype(toks[1]), said |-> "ok"], Tail(toks))
    IN  [all EXCEPT !.t = eppic_chksize(eppic_chksign(@))]

-----------------------------------------------------------------------------
(* What C makes of the specifiers, by counting them.                        *)
Count(toks, tok) == Cardinality({n \in DOMAIN toks : toks[n] = tok})
IsC(toks) ==
    LET n(tok) == Count(toks, tok)
    IN  /\ n("signed") + n("unsigned") <= 1
        /\ n("char") + n("short") + n("int") <= 1 \/ (n("short") = 1 /\ n("int") = 1 /\ n("char") = 0)
        /\ n("long") > 0 => n("short") + n("char") = 0
        /\ n("long") <= 2
SignOfC(toks) ==
    IF Count(toks, "unsigned") > 0 THEN "unsigned"
    ELSE IF Count(toks, "char") > 0 /\ Count(toks, "signed") = 0 THEN def.sign ELSE "signed"
BytesOfC(toks) ==
    CASE Count(toks, "char") > 0 -> 1
      [] Count(toks, "short") > 0 -> 2
      [] Count(toks, "char") + Count(toks, "short") = 0 ->
            IF Count(toks, "long") = 2 THEN 8 ELSE IF Count(toks, "long") = 1 THEN def.size ELSE 4
IndexOfC(toks) ==
    2 * (CHOOSE r \in 0..3 : 2 ^ r = BytesOfC(toks)) + (IF SignOfC(toks) = "signed" THEN 0 ELSE 1)
Typed(ty, toks, ref) ==
    /\ ty.ref = ref
    /\ ty.type = IF ref = 0 THEN "base" ELSE "ref"
    /\ ref > 0 => ty.rtype = "base"
    /\ ty.idx = IndexOfC(toks) /\ ty.size = BytesOfC(toks)
    /\ "signed" \in ty.attr <=> SignOfC(toks) = "signed"

\* The faults: what an eppic script that means what it means in C leaves out.
Clean(toks) ==
    /\ "longLong" \in Faults \/ (Count(toks, "long") = 2 => Count(toks, "signed") + Count(toks, "unsigned") > 0)
    /\ "intLong" \in Faults \/ \A m, n \in DOMAIN toks : m < n => ~(toks[m] = "int" /\ toks[n] = "long")
    /\ "repeated" \in Faults \/ Count(toks, "long") = 0 \/ (Count(toks, "long") <= 2 /\ Count(toks, "int") <= 1)
Signed(ty) == ty.attr \cap Signs # {}

-----------------------------------------------------------------------------
Init ==
    /\ def \in [size : Words, sign : Signs]
    /\ t = None /\ tdef = None /\ vars = << >> /\ said = "ok"
    /\ read = [toks |-> << >>, stars |-> 0, named |-> FALSE, of |-> None]

Reading == said # "error"
Worst(r) == IF r = "ok" THEN said ELSE r

\* A specifier: btype_list of the grammar.  Declarations meet in T alone: once it is
\* there, the declarations are those of T.
btype ==
    /\ Reading /\ tdef = None /\ read.stars = 0
    /\ Len(read.toks) < MaxToks
    /\ \E tok \in Sizes \cup Signs :
        /\ Clean(Append(read.toks, tok))
        /\ LET r == IF t = None THEN [t |-> eppic_newbtype(tok), said |-> "ok"] ELSE eppic_addbtype(t, tok)
           IN  t' = r.t /\ said' = Worst(r.said)
        /\ read' = [read EXCEPT !.toks = Append(@, tok)]
    /\ vars' = << >>
    /\ UNCHANGED <<def, tdef>>
\* The typedef as a type: eppic_getctype gives a copy of what is behind it.
typedef_name ==
    /\ Reading /\ t = None /\ tdef # None
    /\ t' = tdef
    /\ read' = [read EXCEPT !.named = TRUE]
    /\ vars' = << >>
    /\ UNCHANGED <<def, tdef, said>>
\* The stars after the type: the parser takes them as part of the type.
PTR ==
    /\ Reading /\ t # None /\ read.stars = 0
    /\ \E n \in 1..MaxRef :
        /\ t' = eppic_pushref(t, n)
        /\ read' = [read EXCEPT !.stars = n]
    /\ UNCHANGED <<def, tdef, vars, said>>

\* The types that a list of declarators gets; refs are the stars of each.
Declared(ty, refs) ==
    LET base == eppic_popref(ty, ty.ref)
        head == refs[1] + ty.ref
        full == IF head = 0 THEN eppic_chksize(eppic_chksign(base)) ELSE base
    IN  [n \in DOMAIN refs |-> eppic_pushref(full, IF n = 1 THEN head ELSE refs[n])]
Declarators == SeqOf(0..MaxRef, MaxVars) \ {<< >>}
MayDeclare(refs) ==
    /\ "pointer" \in Faults \/ Signed(t) \/ refs[1] + t.ref = 0
    /\ "pointerTypedef" \notin Faults /\ Len(refs) > 1 /\ read.named => tdef.ref = 0

\* What the specifiers of the type are, and the stars that T stands for.
Specs == IF read.named THEN read.of.toks ELSE read.toks
Behind == IF read.named THEN read.of.ref ELSE 0
RefOfC(refs, n) == Behind + refs[n] + (IF n = 1 THEN read.stars ELSE 0)

eppic_vardecl ==
    /\ Reading /\ t # None
    /\ \E refs \in Declarators :
        /\ MayDeclare(refs)
        /\ vars' = [n \in DOMAIN refs |->
                        [t |-> Declared(t, refs)[n], toks |-> Specs, ref |-> RefOfC(refs, n), said |-> said]]
    /\ t' = None /\ said' = "ok"
    /\ read' = [read EXCEPT !.toks = << >>, !.stars = 0, !.named = FALSE]
    /\ UNCHANGED <<def, tdef>>
\* typedef <type> T: the typedef storage class, which is merged into the type.
eppic_tdef_decl ==
    /\ Reading /\ t # None
    /\ \E ref \in 0..MaxRef :
        /\ MayDeclare(<<ref>>) /\ RefOfC(<<ref>>, 1) <= MaxRef
        /\ tdef' = Declared(t, <<ref>>)[1]
        /\ read' = [toks |-> << >>, stars |-> 0, named |-> FALSE,
                    of |-> [toks |-> Specs, ref |-> RefOfC(<<ref>>, 1), said |-> said]]
    /\ t' = None /\ said' = "ok" /\ vars' = << >>
    /\ UNCHANGED def

Next == btype \/ typedef_name \/ PTR \/ eppic_vardecl \/ eppic_tdef_decl
Spec == Init /\ [][Next]_vars_

-----------------------------------------------------------------------------
Types == [type : {"base", "ref"}, rtype : {"base", None}, ref : Nat, idx : 0..7, size : {1, 2, 4, 8},
          attr : SUBSET (AllSizes \cup Signs \cup {"uspec"})]
ASSUME NoneAssumption == None \notin Types

\* A type has one size and one sign at most, and a reference to nothing is a base type.
TypeOK ==
    /\ t \in Types \cup {None}
    /\ tdef \in Types \cup {None}
    /\ \A n \in DOMAIN vars : vars[n].t \in Types
    /\ said \in {"ok", "warning", "error"}
    /\ \A ty \in ({t, tdef} \ {None}) \cup {vars[n].t : n \in DOMAIN vars} :
        Cardinality(ty.attr \cap Signs) <= 1 /\ (ty.ref > 0 <=> ty.type = "ref")

(***************************************************************************)
(* Every variable has the type that C gives it, whatever the order of its    *)
(* specifiers, and its attributes and its index agree on the sign            *)
(* (eppic_vardecl; what is assigned to it is converted by the one, what is    *)
(* computed with it by the other).                                          *)
(***************************************************************************)
DeclaredAsC ==
    \A n \in DOMAIN vars : IsC(vars[n].toks) => Typed(vars[n].t, vars[n].toks, vars[n].ref)

(***************************************************************************)
(* What is not a type in C is reported, and nothing else is (the table above *)
(* eppic_addbtype says which sizes go together).                            *)
(***************************************************************************)
ReportedIffInvalid == ~read.named => (said = "ok" <=> IsC(read.toks))

(***************************************************************************)
(* The name that a type prints as is the name of the type (eppic_getbtypename, *)
(* eppic_parsetype), but for an unsigned type without `int', which loses the sign. *)
(***************************************************************************)
KeepsSign(attr) == {"unsigned", "uspec"} \subseteq attr => attr \cap {"int", "char"} # {}
PrintedNameIsType ==
    \A n \in DOMAIN vars :
        LET v == vars[n]
        IN  v.ref = 0 /\ IsC(v.toks) /\ KeepsSign(v.t.attr) =>
                eppic_parsetype(eppic_getbtypename(v.t.attr)).t.idx = v.t.idx
=============================================================================
