------------------------------- MODULE EppicValue -------------------------------
(***************************************************************************)
(* Values and what is done to one or two of them: numbers, the table of base  *)
(* operations, conversions, conditions and switch cases.                      *)
(*                                                                         *)
(* A value_t has a type and a union of members of 1, 2, 4 and 8 bytes; the    *)
(* union is modelled as the number `raw' that its 8 bytes hold (the host is    *)
(* little-endian).  Of a type's attributes only what they say of size and      *)
(* sign is kept: the index `attr' that settypidx would compute from them, and  *)
(* whether they say void.                                                    *)
(***************************************************************************)
EXTENDS CInt, Sequences, FiniteSetsExt

CONSTANTS DefSize,   \* bytes in a word of the image: eppic_setdefbtype
          DefSign,   \* TRUE iff its default is signed
          Default    \* the label of a default case

ASSUME ValueAssumption == DefSize \in {4, 8} /\ DefSign \in BOOLEAN /\ Default \notin Int

\* defbidx and defbtype: eppic_setdefbtype.
DefIdx == IF DefSize = 8 THEN 7 ELSE 5
DefAttr == IF DefSign THEN DefIdx - 1 ELSE DefIdx

Base(idx, attr, raw) ==
    [type |-> "base", ref |-> 0, idx |-> idx, size |-> Bytes(idx), attr |-> attr, void |-> FALSE, raw |-> raw]
eppic_makebtype(n) == Base(DefIdx, DefAttr, Low(n, DefSize))
eppic_newval == eppic_makebtype(0)

TypedAs(v, raw) == [v EXCEPT !.raw = raw]
TYPE_SIZE(v) == IF v.type = "ref" THEN DefSize ELSE v.size

\* One member of the union is written, the bytes above it stay.  PutSigned is a faulty
\* variant.
PutSigned(raw, size, n) == (raw \div Pow(size)) * Pow(size) + n
Put(raw, size, n) == (raw \div Pow(size)) * Pow(size) + Low(n, size)
\* The member of an index.
Member(v, idx) == Conv(v.raw, idx)
Number(v) == Member(v, v.idx)

\* The value as an unsigned long long, by the index.
unival(v) == IF v.type = "ref" THEN Low(v.raw, DefSize) ELSE Low(Number(v), 8)
SizeIdx(size, signed) == CHOOSE i \in Indices : Bytes(i) = size /\ (IsSigned(i) <=> signed)
eppic_bool(v) == Low(v.raw, TYPE_SIZE(v)) # 0

-----------------------------------------------------------------------------
(* Numeric constants.                                                       *)

\* The suffix: u, ll, both or none.
eppic_newnum(u, ll) ==
    IF u THEN IF DefSize = 8 \/ ll THEN 7 ELSE 5
    ELSE IF DefSize = 8 \/ ll THEN 6 ELSE 4
eppic_exenum(type, n) ==
    CASE type = 6 -> Base(6, 6, Low(n, 8))
      [] type = 0 -> Base(0, 0, Low(n, 1))
      [] type \notin {0, 6} ->
            IF DefSize = 4 THEN [Base(type, type, Low(n, 4)) EXCEPT !.size = 4] ELSE Base(6, 6, Low(n, 8))

-----------------------------------------------------------------------------
(* Operations.  eppic_baseop is the table that mkbaseop generates: the members *)
(* that the indices name, the machine's operation, and the type of the operand *)
(* of higher index; the attributes of `ret' are not touched.  BaseopOfFirst is  *)
(* a faulty variant.                                                         *)

Higher(v1, v2) == IF v2.idx >= v1.idx THEN v2 ELSE v1
BaseopOfFirst(op, v1, v2, ret) ==
    [ret EXCEPT !.type = "base", !.idx = v1.idx, !.size = v1.size,
                !.raw = Put(@, Bytes(v1.idx), COp(op, Number(v1), v1.idx, Number(v2), v2.idx))]
eppic_baseop(op, v1, v2, ret) ==
    LET n == COp(op, Number(v1), v1.idx, Number(v2), v2.idx)
        h == Higher(v1, v2)
    IN  IF op \in Relations
        THEN [ret EXCEPT !.type = "base", !.idx = 5, !.size = 4, !.raw = Put(@, 4, n)]
        ELSE [ret EXCEPT !.type = h.type, !.idx = h.idx, !.size = h.size, !.raw = Put(@, Bytes(h.idx), n)]

\* A pointer is compared as an unsigned word.
eppic_reftobase(v) == IF v.type = "ref" THEN [v EXCEPT !.idx = DefIdx] ELSE v
eppic_docomp(op, v1, v2) == eppic_baseop(op, eppic_reftobase(v1), eppic_reftobase(v2), eppic_newval)

\* Strings, as numbers in the order of strcmp.
strcmp(s, r) == IF s > r THEN 1 ELSE IF s < r THEN -1 ELSE 0
eppic_docomp_str(op, s, r) ==
    eppic_makebtype(CASE op = "EQ" -> Truth(strcmp(s, r) = 0)
                      [] op \in {"GT", "GE"} -> Truth(strcmp(s, r) > 0)
                      [] op \in {"LT", "LE"} -> Truth(strcmp(s, r) < 0)
                      [] op = "NE" -> strcmp(s, r))

\* Division looks for a zero first.  UncheckedByZero is a faulty variant.
UncheckedByZero(op, v) == op = "DIV" /\ unival(v) = 0
ByZero(op, v) == op \in {"DIV", "MOD"} /\ unival(v) = 0

settypidx(v, attr) == [v EXCEPT !.attr = attr, !.idx = attr, !.size = Bytes(attr)]
eppic_mkvsigned(v) == settypidx(v, IF IsSigned(v.attr) THEN v.attr ELSE v.attr - 1)
UMINUS(v1) == eppic_mkvsigned(eppic_baseop("SUB", TypedAs(v1, 0), v1, TypedAs(v1, 0)))
FLIP(v1) == eppic_baseop("XOR", TypedAs(v1, Low(-1, DefSize)), v1, eppic_newval)

\* v1 with another number in it: PRE and POST, INCR and DECR.
eppic_transfer(v1, n) == [v1 EXCEPT !.raw = Put(@, TYPE_SIZE(v1), n)]

-----------------------------------------------------------------------------
(* Conversions.  The bytes above the new size are those of an uninitialized   *)
(* local: whatever the stack holds there.                                    *)

Sized(v, size) == IF v.type = "ref" THEN v ELSE [v EXCEPT !.size = size]
Converted(v, n, s2) ==
    {[Sized(v, s2) EXCEPT !.raw = Put(stack, s2, n)] : stack \in {0, Pow(8) - 1}}
eppic_transval(s1, s2, v, signed) ==
    IF s1 = s2 THEN {v} ELSE Converted(v, Member(v, SizeIdx(s1, signed)), s2)

\* (type) v, for a type given by a value of it.  The size of v is that before.
eppic_execast(v, to) ==
    eppic_transval(TYPE_SIZE(v), TYPE_SIZE(to), TypedAs(to, v.raw), IsSigned(v.attr))

\* What vto is after the assignment of vfrm.  ChkandconvertTo is a faulty
\* variant.
ChkandconvertTo(vto, vfrm) == {vfrm}
eppic_chkandconvert(vto, vfrm) ==
    {[w EXCEPT !.attr = vto.attr, !.idx = vto.idx] :
        w \in eppic_transval(vfrm.size, vto.size, vfrm, IsSigned(vfrm.attr))}

-----------------------------------------------------------------------------
(* Switch.  A case has a set of labels; a default is kept as a case of 0 that is   *)
(* marked.                                                                  *)

CaseVal(l) == IF l = Default THEN 0 ELSE Low(l, 8)
\* The case that is entered, or 0.  DocaseFirst is a faulty variant.
DocaseFirst(val, cl) ==
    LET hit == {n \in DOMAIN cl : Default \in cl[n] \/ \E l \in cl[n] : CaseVal(l) = val}
    IN  IF hit = {} THEN 0 ELSE Min(hit)
eppic_docase(val, cl) ==
    LET hit == {n \in DOMAIN cl : \E l \in cl[n] : CaseVal(l) = val}
        default == {n \in DOMAIN cl : Default \in cl[n]}
    IN  IF hit # {} THEN Min(hit) ELSE IF default # {} THEN Max(default) ELSE 0
=============================================================================
