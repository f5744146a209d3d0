---------------------------- MODULE EppicDeclProofs ----------------------------
(***************************************************************************)
(* Proofs about EppicDecl for declarations of any number of specifiers,      *)
(* stars and declarators, on images of both word sizes: the types, what is   *)
(* reported, and that variables have the types that C gives them.            *)
(***************************************************************************)
EXTENDS EppicDecl, FiniteSetTheorems, TLAPS

Toks == Sizes \cup Signs
Attributes == AllSizes \cup Signs \cup {"uspec"}
Defs == [size : {4, 8}, sign : Signs]

Unsigned(attr) ==
    \/ "unsigned" \in attr /\ "signed" \notin attr
    \/ attr \cap Signs = {} /\ Rank(attr) = 0 /\ def.sign = "unsigned"
OneSign(attr) == ~("signed" \in attr /\ "unsigned" \in attr)

\* A type as the parser leaves it: one sign at most, what it refers to, and the
\* index and the size of its attributes.
Good(ty) ==
    /\ ty \in Types /\ OneSign(ty.attr)
    /\ ty.ref > 0 <=> ty.type = "ref"
    /\ ty.type = "ref" => ty.rtype = "base"
    /\ ty.idx = 2 * Rank(ty.attr) + (IF Unsigned(ty.attr) THEN 1 ELSE 0)
    /\ ty.size = 2 ^ Rank(ty.attr)

-----------------------------------------------------------------------------
(* Counting specifiers.                                                     *)

LEMMA CountAppend ==
    ASSUME NEW toks \in Seq(Toks), NEW tok \in Toks, NEW x
    PROVE  /\ Count(toks, x) \in Nat
           /\ Count(Append(toks, tok), x) = Count(toks, x) + (IF x = tok THEN 1 ELSE 0)
<1> DEFINE I == {n \in DOMAIN toks : toks[n] = x}
           J == {n \in DOMAIN Append(toks, tok) : Append(toks, tok)[n] = x}
<1>1. IsFiniteSet(1..Len(toks)) /\ I \subseteq 1..Len(toks)
  BY FS_Interval
<1>2. IsFiniteSet(I)
  BY <1>1, FS_Subset
<1>3. J = IF x = tok THEN I \cup {Len(toks) + 1} ELSE I
  OBVIOUS
<1>4. Len(toks) + 1 \notin I
  OBVIOUS
<1> HIDE DEF I, J
<1>5. Cardinality(I) \in Nat
  BY <1>2, FS_CardinalityType
<1>6. Cardinality(I \cup {Len(toks) + 1}) = Cardinality(I) + 1
  BY <1>2, <1>4, FS_AddElement
<1>7. Cardinality(J) = Cardinality(I) + (IF x = tok THEN 1 ELSE 0)
  BY <1>3, <1>5, <1>6
<1>8. QED
  BY <1>5, <1>7 DEF Count, I, J

LEMMA CountNone == ASSUME NEW x PROVE Count(<< >>, x) = 0
<1>1. {n \in DOMAIN << >> : << >>[n] = x} = {}
  OBVIOUS
<1>2. QED
  BY <1>1, FS_EmptySet DEF Count

LEMMA CountOne ==
    ASSUME NEW tok \in Toks, NEW x
    PROVE  Count(<<tok>>, x) = IF x = tok THEN 1 ELSE 0
<1>1. {n \in DOMAIN <<tok>> : <<tok>>[n] = x} = IF x = tok THEN {1} ELSE {}
  OBVIOUS
<1>2. QED
  BY <1>1, FS_Singleton, FS_EmptySet DEF Count

\* What is not there is counted as none.
LEMMA CountZero ==
    ASSUME NEW toks \in Seq(Toks), NEW x, \A n \in DOMAIN toks : toks[n] # x
    PROVE  Count(toks, x) = 0
<1>1. {n \in DOMAIN toks : toks[n] = x} = {}
  OBVIOUS
<1>2. QED
  BY <1>1, FS_EmptySet DEF Count

\* What begins like no declaration of C is none.
LEMMA IsCPrefix ==
    ASSUME NEW toks \in Seq(Toks), NEW tok \in Toks, IsC(Append(toks, tok))
    PROVE  IsC(toks)
<1> DEFINE n(x) == Count(toks, x)
           m(x) == Count(Append(toks, tok), x)
<1>1. \A x : n(x) \in Nat /\ m(x) \in Nat /\ n(x) <= m(x) /\ m(x) <= n(x) + 1
  BY CountAppend
<1>2. /\ m("signed") + m("unsigned") <= 1
      /\ m("char") + m("short") + m("int") <= 1 \/ (m("short") = 1 /\ m("int") = 1 /\ m("char") = 0)
      /\ m("long") > 0 => m("short") + m("char") = 0
      /\ m("long") <= 2
  BY DEF IsC
<1> HIDE DEF n, m
<1>3. /\ n("signed") \in Nat /\ n("signed") <= m("signed") /\ m("signed") \in Nat
      /\ n("unsigned") \in Nat /\ n("unsigned") <= m("unsigned") /\ m("unsigned") \in Nat
      /\ n("char") \in Nat /\ n("char") <= m("char") /\ m("char") \in Nat
      /\ n("short") \in Nat /\ n("short") <= m("short") /\ m("short") \in Nat
      /\ n("int") \in Nat /\ n("int") <= m("int") /\ m("int") \in Nat
      /\ n("long") \in Nat /\ n("long") <= m("long") /\ m("long") \in Nat
  BY <1>1
<1>4. n("signed") + n("unsigned") <= 1
  BY <1>2, <1>3
<1>5. n("char") + n("short") + n("int") <= 1 \/ (n("short") = 1 /\ n("int") = 1 /\ n("char") = 0)
  <2>1. CASE m("char") + m("short") + m("int") <= 1
    BY <1>3, <2>1
  <2>2. CASE m("short") = 1 /\ m("int") = 1 /\ m("char") = 0
    <3>1. n("char") = 0 /\ n("short") \in {0, 1} /\ n("int") \in {0, 1}
      BY <1>3, <2>2
    <3>2. QED
      BY <3>1
  <2>3. QED
    BY <1>2, <2>1, <2>2
<1>6. (n("long") > 0 => n("short") + n("char") = 0) /\ n("long") <= 2
  BY <1>2, <1>3
<1>7. QED
  BY <1>4, <1>5, <1>6 DEF IsC, n

-----------------------------------------------------------------------------
(* Attributes, indices and sizes.                                           *)

LEMMA Ranks ==
    ASSUME NEW attr, def \in Defs
    PROVE  /\ Rank(attr) \in 0..3
           /\ Rank(attr) = 0 <=> "char" \in attr
           /\ 2 ^ Rank(attr) \in {1, 2, 4, 8}
           /\ \A r \in 0..3 : 2 ^ r = 2 ^ Rank(attr) => r = Rank(attr)
<1>1. Rank(attr) \in 0..3 /\ (Rank(attr) = 0 <=> "char" \in attr)
  BY DEF Rank, Defs
<1>2. 2^0 = 1 /\ 2^1 = 2 /\ 2^2 = 4 /\ 2^3 = 8
  OBVIOUS
<1>3. ASSUME NEW r \in 0..3
      PROVE  2^r = IF r = 0 THEN 1 ELSE IF r = 1 THEN 2 ELSE IF r = 2 THEN 4 ELSE 8
  <2>1. r = 0 \/ r = 1 \/ r = 2 \/ r = 3
    OBVIOUS
  <2>2. QED
    BY <1>2, <2>1
<1> DEFINE k == Rank(attr)
           P == [r \in 0..3 |-> 2^r]
<1>4. k \in 0..3 /\ \A r \in 0..3 : 2^r = P[r]
  BY <1>1
<1>5. P[0] = 1 /\ P[1] = 2 /\ P[2] = 4 /\ P[3] = 8
  BY <1>3
<1> HIDE DEF k, P
<1>6. P[k] \in {1, 2, 4, 8} /\ \A r \in 0..3 : P[r] = P[k] => r = k
  <2>1. \A r \in 0..3 : r = 0 \/ r = 1 \/ r = 2 \/ r = 3
    OBVIOUS
  <2>2. k = 0 \/ k = 1 \/ k = 2 \/ k = 3
    BY <1>4, <2>1
  <2>3. P[k] \in {1, 2, 4, 8}
    BY <1>5, <2>2
  <2>4. ASSUME NEW r \in 0..3, P[r] = P[k] PROVE r = k
    <3>1. r = 0 \/ r = 1 \/ r = 2 \/ r = 3
      BY <2>1
    <3>2. QED
      BY <1>5, <2>2, <2>4, <3>1
  <2>5. QED
    BY <2>3, <2>4
<1>7. 2^k \in {1, 2, 4, 8} /\ \A r \in 0..3 : 2^r = 2^k => r = k
  <2>1. 2^k = P[k]
    BY Zenon, <1>4
  <2>2. 2^k \in {1, 2, 4, 8}
    BY Zenon, <1>6, <2>1
  <2>3. ASSUME NEW r \in 0..3, 2^r = 2^k PROVE r = k
    <3>1. P[r] = P[k]
      BY Zenon, <1>4, <2>1, <2>3
    <3>2. QED
      BY Zenon, <1>6, <3>1
  <2>4. QED
    BY Zenon, <2>2, <2>3
<1>8. QED
  BY <1>1, <1>7 DEF k

\* A type whose size is not computed yet.
Unsized == [type : {"base", "ref"}, rtype : {"base", None}, ref : Nat, idx : 0..7, size : Nat,
            attr : SUBSET Attributes]

LEMMA SettypidxIs ==
    ASSUME def \in Defs, NEW ty \in Unsized
    PROVE  LET s == settypidx(ty)
           IN  /\ s \in Types /\ s.type = ty.type /\ s.rtype = ty.rtype /\ s.ref = ty.ref
               /\ s.attr = ty.attr /\ s.size = 2 ^ Rank(ty.attr)
               /\ s.idx = 2 * Rank(ty.attr) + (IF Unsigned(ty.attr) THEN 1 ELSE 0)
<1> DEFINE i == 2 * Rank(ty.attr) + (IF Unsigned(ty.attr) THEN 1 ELSE 0)
           z == 2 ^ Rank(ty.attr)
<1>1. i \in 0..7 /\ z \in {1, 2, 4, 8}
  BY Ranks
<1>2. settypidx(ty) = [ty EXCEPT !.idx = i, !.size = z]
  BY DEF settypidx, Unsigned
<1> HIDE DEF i, z
<1>3. LET s == [ty EXCEPT !.idx = i, !.size = z]
      IN  /\ s \in Types /\ s.type = ty.type /\ s.rtype = ty.rtype /\ s.ref = ty.ref
          /\ s.attr = ty.attr /\ s.size = z /\ s.idx = i
  BY <1>1 DEF Types, Unsized, Attributes
<1>4. QED
  BY <1>2, <1>3 DEF i, z

\* A type gets other attributes.
LEMMA NewAttributes ==
    ASSUME def \in Defs, NEW ty \in Types, ty.ref > 0 <=> ty.type = "ref",
           ty.type = "ref" => ty.rtype = "base",
           NEW attr \in SUBSET Attributes, OneSign(attr)
    PROVE  LET s == settypidx([ty EXCEPT !.attr = attr])
           IN  Good(s) /\ s.attr = attr /\ s.ref = ty.ref /\ s.type = ty.type
<1> DEFINE u == [ty EXCEPT !.attr = attr]
<1>1. /\ u \in Unsized /\ u.attr = attr /\ u.ref = ty.ref /\ u.type = ty.type
      /\ u.rtype = ty.rtype
  BY DEF Types, Unsized
<1> HIDE DEF u
<1>2. LET s == settypidx(u)
      IN  /\ s \in Types /\ s.type = u.type /\ s.rtype = u.rtype /\ s.ref = u.ref
          /\ s.attr = u.attr /\ s.size = 2 ^ Rank(u.attr)
          /\ s.idx = 2 * Rank(u.attr) + (IF Unsigned(u.attr) THEN 1 ELSE 0)
  BY Zenon, <1>1, SettypidxIs
<1> DEFINE s == settypidx(u)
<1> HIDE DEF s
<1>3. Good(s) /\ s.attr = attr /\ s.ref = ty.ref /\ s.type = ty.type
  BY <1>1, <1>2 DEF Good, s
<1>4. QED
  BY <1>3 DEF s, u

-----------------------------------------------------------------------------
(* What the routines make of a type.                                        *)

\* The attributes after one more specifier, and once sign and size are settled.
Grown(attr, tok) ==
    IF tok \in Signs THEN (attr \ Signs) \cup {tok, "uspec"} ELSE AddSize(attr, tok).attr
Settled(attr) ==
    LET b == IF attr \cap Signs # {} THEN attr
             ELSE attr \cup {IF "char" \in attr THEN def.sign ELSE "signed"}
    IN  IF b \cap AllSizes # {} THEN b ELSE set_base_sign(b, "signed") \cup {"int"}

LEMMA GoodHas ==
    ASSUME def \in Defs, NEW ty, Good(ty)
    PROVE  /\ ty \in Types /\ OneSign(ty.attr) /\ ty.attr \in SUBSET Attributes
           /\ ty.ref \in Nat /\ (ty.ref > 0 <=> ty.type = "ref")
           /\ ty.type = "ref" => ty.rtype = "base"
           /\ ty.type # "ref" => ty.ref = 0 /\ ty.type = "base"
           /\ ty.idx \in {0, 1} <=> "char" \in ty.attr
<1>1. ty.idx \in {0, 1} <=> Rank(ty.attr) = 0
  BY Ranks DEF Good
<1>2. QED
  BY <1>1, Ranks DEF Good, Types, Attributes

LEMMA AddSizeIs ==
    ASSUME def \in Defs, NEW attr \in SUBSET Attributes, OneSign(attr), NEW tok \in Sizes
    PROVE  AddSize(attr, tok).attr \in SUBSET Attributes /\ OneSign(AddSize(attr, tok).attr)
<1>1. ASSUME NEW base \in SUBSET Attributes, OneSign(base), NEW s \in Signs
      PROVE  set_base_sign(base, s) \in SUBSET Attributes /\ OneSign(set_base_sign(base, s))
  <2>1. CASE base \cap {"uspec", "int"} = {}
    <3>1. set_base_sign(base, s) = (base \ Signs) \cup {s}
      BY <2>1 DEF set_base_sign
    <3>2. (base \ Signs) \cup {s} \in SUBSET Attributes
      BY <1>1 DEF Attributes
    <3>3. OneSign((base \ Signs) \cup {s})
      BY <1>1 DEF Signs, OneSign
    <3>4. QED
      BY <3>1, <3>2, <3>3
  <2>2. CASE base \cap {"uspec", "int"} # {}
    <3>1. set_base_sign(base, s) = base
      BY <2>2 DEF set_base_sign
    <3>2. QED
      BY <1>1, <3>1
  <2>3. QED
    BY <2>1, <2>2
<1>2. def.sign \in Signs /\ "signed" \in Signs /\ "unsigned" \in Signs
  BY DEF Defs, Signs
<1>3. \A base \in SUBSET Attributes : \A x \in AllSizes :
        /\ base \cup {x} \in SUBSET Attributes
        /\ (base \cup {x}) \ {"long"} \in SUBSET Attributes
        /\ OneSign(base) => OneSign(base \cup {x}) /\ OneSign((base \cup {x}) \ {"long"})
  BY DEF OneSign, Attributes, Signs, AllSizes, Sizes
<1>4. {"char", "short", "int", "long", "longlong"} \subseteq AllSizes
  BY DEF AllSizes, Sizes
<1>5. CASE tok = "long"
  <2> DEFINE b == set_base_sign(attr, "unsigned")
  <2>1. b \in SUBSET Attributes /\ OneSign(b)
    BY <1>1, <1>2
  <2>2. AddSize(attr, tok).attr \in
            {attr, (b \cup {"longlong"}) \ {"long"}, b \cup {"long"}}
    BY <1>5 DEF AddSize
  <2> HIDE DEF b
  <2>3. QED
    BY <1>3, <1>4, <2>1, <2>2
<1>6. CASE tok = "int"
  <2> DEFINE b == set_base_sign(attr, "signed")
  <2>1. b \in SUBSET Attributes /\ OneSign(b)
    BY <1>1, <1>2
  <2>2. AddSize(attr, tok).attr \in {attr, b \cup {"int"}}
    BY <1>6 DEF AddSize
  <2> HIDE DEF b
  <2>3. QED
    BY <1>3, <1>4, <2>1, <2>2
<1>7. CASE tok \in {"short", "char"}
  <2> DEFINE a == attr \cup {tok}
             b == set_base_sign(a, IF tok = "short" THEN "unsigned" ELSE def.sign)
  <2>1. a \in SUBSET Attributes /\ OneSign(a)
    BY <1>3, <1>4, <1>7
  <2>2. AddSize(attr, tok).attr \in {attr, b}
    BY <1>7 DEF AddSize
  <2> HIDE DEF a
  <2>3. b \in SUBSET Attributes /\ OneSign(b)
    BY <1>1, <1>2, <2>1
  <2> HIDE DEF b
  <2>4. QED
    BY <2>2, <2>3
<1>8. QED
  BY <1>5, <1>6, <1>7 DEF Sizes

LEMMA NewbtypeIs ==
    ASSUME def \in Defs, NEW tok \in Toks
    PROVE  LET s == eppic_newbtype(tok)
           IN  /\ Good(s) /\ s.ref = 0 /\ s.type = "base"
               /\ s.attr = IF tok \in Signs THEN {tok, "uspec"} ELSE {tok}
<1> DEFINE a == IF tok \in Signs THEN {tok, "uspec"} ELSE {tok}
           x == [type |-> "base", rtype |-> None, ref |-> 0, idx |-> 0, size |-> 0,
                 attr |-> a]
           s == settypidx(x)
<1>1. a \in SUBSET Attributes /\ OneSign(a)
  BY DEF Toks, Attributes, AllSizes, OneSign, Signs, Sizes
<1>2. s = eppic_newbtype(tok)
  BY DEF eppic_newbtype
<1> HIDE DEF a
<1>3. x \in Unsized /\ x.ref = 0 /\ x.type = "base" /\ x.attr = a
  BY <1>1 DEF Unsized
<1> HIDE DEF x
<1>4. /\ s \in Types /\ s.type = x.type /\ s.rtype = x.rtype /\ s.ref = x.ref
      /\ s.attr = x.attr /\ s.size = 2 ^ Rank(x.attr)
      /\ s.idx = 2 * Rank(x.attr) + (IF Unsigned(x.attr) THEN 1 ELSE 0)
  BY Zenon, <1>3, SettypidxIs
<1> HIDE DEF s
<1>5. Good(s) /\ s.ref = 0 /\ s.type = "base" /\ s.attr = a
  BY <1>1, <1>3, <1>4 DEF Good
<1>6. QED
  BY <1>2, <1>5 DEF a

LEMMA AddbtypeIs ==
    ASSUME def \in Defs, NEW ty, Good(ty), NEW tok \in Toks
    PROVE  LET r == eppic_addbtype(ty, tok)
           IN  /\ Good(r.t) /\ r.t.attr = Grown(ty.attr, tok)
               /\ r.t.ref = ty.ref /\ r.t.type = ty.type
               /\ r.said \in {"ok", "warning", "error"}
               /\ r.said = "ok" <=> IF tok \in Signs THEN "uspec" \notin ty.attr
                                    ELSE AddSize(ty.attr, tok).attr # AddSize(ty.attr, tok).was
<1> DEFINE g == Grown(ty.attr, tok)
           r == eppic_addbtype(ty, tok)
<1>1. g \in SUBSET Attributes /\ OneSign(g)
  <2>1. CASE tok \in Signs
    BY <2>1, GoodHas DEF Grown, Attributes, OneSign, Signs
  <2>2. CASE tok \notin Signs
    <3>1. tok \in Sizes
      BY <2>2 DEF Toks
    <3>2. QED
      BY <2>2, <3>1, AddSizeIs, GoodHas DEF Grown
  <2>3. QED
    BY <2>1, <2>2
<1>2. r.t = settypidx([ty EXCEPT !.attr = g])
  BY DEF eppic_addbtype, Grown
<1>3. /\ r.said \in {"ok", "warning", "error"}
      /\ r.said = "ok" <=> IF tok \in Signs THEN "uspec" \notin ty.attr
                           ELSE AddSize(ty.attr, tok).attr # AddSize(ty.attr, tok).was
  BY DEF eppic_addbtype
<1> HIDE DEF g, r
<1>4. LET s == settypidx([ty EXCEPT !.attr = g])
      IN  Good(s) /\ s.attr = g /\ s.ref = ty.ref /\ s.type = ty.type
  BY <1>1, GoodHas, NewAttributes
<1>5. QED
  BY <1>2, <1>3, <1>4 DEF g, r

LEMMA SettledIs ==
    ASSUME def \in Defs, NEW ty, Good(ty)
    PROVE  LET s == eppic_chksize(eppic_chksign(ty))
           IN  Good(s) /\ s.attr = Settled(ty.attr) /\ s.ref = ty.ref /\ s.type = ty.type
<1> DEFINE b == IF ty.attr \cap Signs # {} THEN ty.attr
                ELSE ty.attr \cup {IF "char" \in ty.attr THEN def.sign ELSE "signed"}
           c == eppic_chksign(ty)
           s == eppic_chksize(c)
<1>1. b \in SUBSET Attributes /\ OneSign(b)
  BY GoodHas DEF Attributes, OneSign, Signs, Defs
<1>2. c = settypidx([ty EXCEPT !.attr = b])
  <2>1. CASE ty.attr \cap Signs # {}
    <3>1. ty = [ty EXCEPT !.attr = b]
      BY <2>1, GoodHas DEF Types
    <3>2. c = settypidx(ty)
      BY <2>1 DEF eppic_chksign
    <3> HIDE DEF b
    <3>3. QED
      BY <3>1, <3>2
  <2>2. CASE ty.attr \cap Signs = {}
    BY <2>2, GoodHas DEF eppic_chksign
  <2>3. QED
    BY <2>1, <2>2
<1> HIDE DEF b, c
<1>3. Good(c) /\ c.attr = b /\ c.ref = ty.ref /\ c.type = ty.type
  <2>1. LET x == settypidx([ty EXCEPT !.attr = b])
        IN  Good(x) /\ x.attr = b /\ x.ref = ty.ref /\ x.type = ty.type
    BY <1>1, GoodHas, NewAttributes
  <2>2. QED
    BY <1>2, <2>1
<1>4. CASE b \cap AllSizes # {}
  <2>1. s = c
    BY <1>3, <1>4 DEF eppic_chksize
  <2>2. Settled(ty.attr) = b
    BY <1>4 DEF Settled, b
  <2> HIDE DEF s
  <2>3. QED
    BY <1>3, <2>1, <2>2 DEF s, c
<1>5. CASE b \cap AllSizes = {}
  <2>1. s = eppic_addbtype(c, "int").t
    BY <1>3, <1>5 DEF eppic_chksize
  <2>2. Grown(b, "int") = set_base_sign(b, "signed") \cup {"int"}
    BY <1>5 DEF Grown, AddSize, AllSizes, Sizes, Signs
  <2>3. "int" \in Toks
    BY DEF Toks, Sizes
  <2>4. Good(s) /\ s.attr = Grown(b, "int") /\ s.ref = c.ref /\ s.type = c.type
    <3> HIDE DEF s
    <3>1. QED
      BY <1>3, <2>1, <2>3, AddbtypeIs
  <2>5. Settled(ty.attr) = Grown(b, "int")
    BY <1>5, <2>2 DEF Settled, b
  <2>6. QED
    BY <1>3, <2>4, <2>5 DEF c
<1>6. QED
  BY <1>4, <1>5

\* Levels of reference are put on a base type.
LEMMA PushrefIs ==
    ASSUME def \in Defs, NEW ty, Good(ty), ty.type = "base", NEW ref \in Nat
    PROVE  LET s == eppic_pushref(ty, ref)
           IN  Good(s) /\ s.attr = ty.attr /\ s.ref = ref
<1> DEFINE s == eppic_pushref(ty, ref)
<1>1. ty \in Types /\ ty.ref = 0 /\ ty.type # "ref"
  BY GoodHas
<1>2. /\ s \in Types /\ s.attr = ty.attr /\ s.ref = ref /\ s.idx = ty.idx /\ s.size = ty.size
      /\ s.type = IF ref = 0 THEN "base" ELSE "ref"
      /\ s.type = "ref" => s.rtype = "base"
  <2>1. CASE ref = 0
    <3> DEFINE u == [ty EXCEPT !.ref = 0]
    <3>1. s = u
      BY <1>1, <2>1 DEF eppic_pushref
    <3>2. /\ u \in Types /\ u.attr = ty.attr /\ u.ref = 0 /\ u.idx = ty.idx
          /\ u.size = ty.size /\ u.type = "base"
      BY <1>1 DEF Types
    <3> HIDE DEF s, u
    <3>3. QED
      BY <2>1, <3>1, <3>2
  <2>2. CASE ref # 0
    <3> DEFINE u == [ty EXCEPT !.ref = ref, !.rtype = "base", !.type = "ref"]
    <3>1. s = u
      BY <1>1, <2>2 DEF eppic_pushref
    <3>2. /\ u \in Types /\ u.attr = ty.attr /\ u.ref = ref /\ u.idx = ty.idx
          /\ u.size = ty.size /\ u.type = "ref" /\ u.rtype = "base"
      BY <1>1 DEF Types
    <3> HIDE DEF s, u
    <3>3. QED
      BY <2>2, <3>1, <3>2
  <2>3. QED
    BY <2>1, <2>2
<1> HIDE DEF s
<1>3. Good(s) /\ s.attr = ty.attr /\ s.ref = ref
  BY <1>2 DEF Good
<1>4. QED
  BY <1>3 DEF s

\* And more of them on any type.
LEMMA PushrefAdds ==
    ASSUME def \in Defs, NEW ty, Good(ty), NEW ref \in Nat \ {0}
    PROVE  LET s == eppic_pushref(ty, ref)
           IN  Good(s) /\ s.attr = ty.attr /\ s.ref = ty.ref + ref
<1>1. CASE ty.type = "base"
  <2>1. ty.ref = 0
    BY <1>1, GoodHas
  <2>2. LET s == eppic_pushref(ty, ref)
        IN  Good(s) /\ s.attr = ty.attr /\ s.ref = ref
    BY Zenon, <1>1, PushrefIs
  <2>3. QED
    BY <2>1, <2>2
<1>2. CASE ty.type = "ref"
  <2> DEFINE s == eppic_pushref(ty, ref)
  <2>1. ty \in Types /\ ty.rtype = "base" /\ s = [ty EXCEPT !.ref = @ + ref]
    BY <1>2, GoodHas DEF eppic_pushref
  <2>2. /\ s \in Types /\ s.attr = ty.attr /\ s.ref = ty.ref + ref /\ s.idx = ty.idx
        /\ s.size = ty.size /\ s.type = "ref" /\ s.rtype = "base"
    BY <1>2, <2>1 DEF Types
  <2>3. s.ref > 0
    BY <2>1, <2>2 DEF Types
  <2> HIDE DEF s
  <2>4. Good(s) /\ s.attr = ty.attr /\ s.ref = ty.ref + ref
    BY <2>2, <2>3 DEF Good
  <2>5. QED
    BY <2>4 DEF s
<1>3. QED
  BY <1>1, <1>2, GoodHas

\* All levels of reference are taken off.
LEMMA PoprefIs ==
    ASSUME def \in Defs, NEW ty, Good(ty)
    PROVE  LET s == eppic_popref(ty, ty.ref)
           IN  Good(s) /\ s.attr = ty.attr /\ s.ref = 0 /\ s.type = "base"
<1> DEFINE s == eppic_popref(ty, ty.ref)
<1>1. CASE ty.ref = 0
  BY <1>1, GoodHas DEF eppic_popref
<1>2. CASE ty.ref # 0
  <2>1. /\ ty \in Types /\ ty.rtype = "base" /\ ty.ref - ty.ref = 0
        /\ s = [ty EXCEPT !.ref = ty.ref - ty.ref, !.type = ty.rtype]
    BY <1>2, GoodHas DEF eppic_popref
  <2>2. /\ s \in Types /\ s.attr = ty.attr /\ s.ref = 0 /\ s.idx = ty.idx
        /\ s.size = ty.size /\ s.type = "base"
    <3> DEFINE u == [ty EXCEPT !.ref = 0, !.type = "base"]
    <3>1. ty \in Types /\ s = u
      BY <2>1
    <3> HIDE DEF s
    <3>2. /\ u \in Types /\ u.attr = ty.attr /\ u.ref = 0 /\ u.idx = ty.idx
          /\ u.size = ty.size /\ u.type = "base"
      BY <3>1 DEF Types
    <3> HIDE DEF u
    <3>3. QED
      BY <3>1, <3>2
  <2> HIDE DEF s
  <2>3. Good(s) /\ s.attr = ty.attr /\ s.ref = 0 /\ s.type = "base"
    BY <2>2 DEF Good
  <2>4. QED
    BY <2>3 DEF s
<1>3. QED
  BY <1>1, <1>2

\* The types that the declarators of a declaration get.
LEMMA DeclaredIs ==
    ASSUME def \in Defs, NEW ty, Good(ty), NEW refs \in Seq(Nat), refs # << >>,
           NEW n \in DOMAIN refs
    PROVE  LET s == Declared(ty, refs)[n]
           IN  /\ Good(s) /\ s.ref = IF n = 1 THEN refs[1] + ty.ref ELSE refs[n]
               /\ s.attr = IF refs[1] + ty.ref = 0 THEN Settled(ty.attr) ELSE ty.attr
<1> DEFINE base == eppic_popref(ty, ty.ref)
           head == refs[1] + ty.ref
           full == IF head = 0 THEN eppic_chksize(eppic_chksign(base)) ELSE base
           k == IF n = 1 THEN head ELSE refs[n]
           s == eppic_pushref(full, k)
<1>1. Declared(ty, refs)[n] = s
  BY DEF Declared
<1>2. head \in Nat /\ k \in Nat
  <2>1. refs[1] \in Nat /\ refs[n] \in Nat /\ ty.ref \in Nat
    BY GoodHas
  <2>2. QED
    BY <2>1
<1>3. Good(base) /\ base.attr = ty.attr /\ base.ref = 0 /\ base.type = "base"
  BY Zenon, PoprefIs
<1> HIDE DEF base, head
<1>4. /\ Good(full) /\ full.type = "base"
      /\ full.attr = IF head = 0 THEN Settled(ty.attr) ELSE ty.attr
  <2>1. CASE head = 0
    <3> DEFINE x == eppic_chksize(eppic_chksign(base))
    <3>1. Good(x) /\ x.attr = Settled(base.attr) /\ x.ref = base.ref /\ x.type = base.type
      BY Zenon, <1>3, SettledIs
    <3>2. full = x
      BY <2>1
    <3> HIDE DEF x, full
    <3>3. QED
      BY <1>3, <2>1, <3>1, <3>2
  <2>2. CASE head # 0
    BY <1>3, <2>2
  <2>3. QED
    BY <2>1, <2>2
<1> HIDE DEF full, k
<1>5. Good(s) /\ s.attr = full.attr /\ s.ref = k
  BY Zenon, <1>2, <1>4, PushrefIs
<1> HIDE DEF s
<1>6. QED
  BY <1>1, <1>4, <1>5 DEF head, k

-----------------------------------------------------------------------------
(* The attributes of a list of specifiers that C knows.                     *)

\* What holds of them whatever the faults: the sign, char, short, and whether a
\* long was read; an int next to a long may be missing.
Kept(toks, attr) ==
    LET n(x) == Count(toks, x)
    IN  /\ "uspec" \in attr <=> n("signed") + n("unsigned") = 1
        /\ "char" \in attr <=> n("char") = 1
        /\ "short" \in attr <=> n("short") = 1
        /\ "int" \in attr => n("int") = 1
        /\ n("int") = 1 /\ n("long") = 0 => "int" \in attr
        /\ n("long") = 0 <=> "long" \notin attr /\ "longlong" \notin attr

LEMMA KeptNew ==
    ASSUME NEW tok \in Toks
    PROVE  IsC(<<tok>>) /\ Kept(<<tok>>, IF tok \in Signs THEN {tok, "uspec"} ELSE {tok})
BY CountOne DEF IsC, Kept, Toks, Sizes, Signs

\* Signs come and go; nothing else does.
LEMMA SignOnly ==
    ASSUME NEW attr, NEW s \in Signs, NEW x, x \notin Signs
    PROVE  x \in set_base_sign(attr, s) <=> x \in attr
BY DEF set_base_sign

LEMMA GrownHas ==
    ASSUME def \in Defs, NEW attr \in SUBSET Attributes, NEW tok \in Sizes
    PROVE  LET g == AddSize(attr, tok).attr
           IN  /\ "uspec" \in g <=> "uspec" \in attr
               /\ "char" \in g <=> "char" \in attr \/ (tok = "char" /\ attr \cap AllSizes = {})
               /\ "short" \in g <=> \/ "short" \in attr
                                    \/ tok = "short" /\ attr \cap {"char", "long", "longlong"} = {}
               /\ "int" \in g <=> \/ "int" \in attr
                                  \/ tok = "int" /\ attr \cap {"char", "long", "longlong"} = {}
               /\ g \cap {"long", "longlong"} = {} <=>
                    /\ attr \cap {"long", "longlong"} = {}
                    /\ tok = "long" => attr \cap {"char", "short"} # {}
<1>1. \A base, s, x : s \in Signs /\ x \notin Signs => (x \in set_base_sign(base, s) <=> x \in base)
  BY SignOnly
<1>2. /\ def.sign \in Signs /\ "signed" \in Signs /\ "unsigned" \in Signs /\ "uspec" \notin Signs
      /\ AllSizes \cap Signs = {} /\ AllSizes = {"char", "short", "int", "long", "longlong"}
  BY DEF Defs, Signs, AllSizes, Sizes
<1>3. CASE tok = "long"
  <2> DEFINE b == set_base_sign(attr, "unsigned")
  <2>1. \A x \in {"uspec", "char", "short", "int", "long", "longlong"} : x \in b <=> x \in attr
    BY <1>1, <1>2
  <2> HIDE DEF b
  <2>2. AddSize(attr, tok).attr =
            IF attr \cap {"char", "short"} # {} THEN attr
            ELSE IF "long" \in b \/ def.size = 8 THEN (b \cup {"longlong"}) \ {"long"}
            ELSE b \cup {"long"}
    BY <1>3 DEF AddSize, b
  <2>3. QED
    BY <1>2, <1>3, <2>1, <2>2
<1>4. CASE tok = "int"
  <2> DEFINE b == set_base_sign(attr, "signed")
  <2>1. \A x \in {"uspec", "char", "short", "int", "long", "longlong"} : x \in b <=> x \in attr
    BY <1>1, <1>2
  <2> HIDE DEF b
  <2>2. AddSize(attr, tok).attr =
            IF attr \cap {"int", "char", "long", "longlong"} = {} THEN b \cup {"int"} ELSE attr
    BY <1>4 DEF AddSize, b
  <2>3. QED
    BY <1>2, <1>4, <2>1, <2>2
<1>5. CASE tok = "short"
  <2> DEFINE b == set_base_sign(attr \cup {"short"}, "unsigned")
  <2>1. \A x \in {"uspec", "char", "short", "int", "long", "longlong"} :
            x \in b <=> x \in attr \/ x = "short"
    BY <1>1, <1>2
  <2> HIDE DEF b
  <2>2. AddSize(attr, tok).attr =
            IF attr \cap {"short", "char", "long", "longlong"} = {} THEN b ELSE attr
    BY <1>5 DEF AddSize, b
  <2>3. QED
    BY <1>2, <1>5, <2>1, <2>2
<1>6. CASE tok = "char"
  <2> DEFINE b == set_base_sign(attr \cup {"char"}, def.sign)
  <2>1. \A x \in {"uspec", "char", "short", "int", "long", "longlong"} :
            x \in b <=> x \in attr \/ x = "char"
    BY <1>1, <1>2
  <2> HIDE DEF b
  <2>2. AddSize(attr, tok).attr = IF attr \cap AllSizes = {} THEN b ELSE attr
    BY <1>6 DEF AddSize, b
  <2>3. QED
    BY <1>2, <1>6, <2>1, <2>2
<1>7. QED
  BY <1>3, <1>4, <1>5, <1>6 DEF Sizes

LEMMA KeptGrown ==
    ASSUME def \in Defs, NEW toks \in Seq(Toks), NEW attr \in SUBSET Attributes, NEW tok \in Toks,
           Kept(toks, attr), IsC(Append(toks, tok))
    PROVE  Kept(Append(toks, tok), Grown(attr, tok))
<1> DEFINE n(x) == Count(toks, x)
           m(x) == Count(Append(toks, tok), x)
<1>1. \A x : n(x) \in Nat /\ m(x) = n(x) + (IF x = tok THEN 1 ELSE 0)
  BY CountAppend
<1>2. IsC(toks)
  BY IsCPrefix
<1>3. CASE tok \in Signs
  <2>1. Grown(attr, tok) = (attr \ Signs) \cup {tok, "uspec"}
    BY <1>3 DEF Grown
  <2>2. \A x \in Sizes : m(x) = n(x)
    BY <1>1, <1>3 DEF Signs, Sizes
  <2>3. m("signed") + m("unsigned") = 1
    BY <1>1, <1>3 DEF IsC, Signs
  <2>4. \A x \in AllSizes : x \in Grown(attr, tok) <=> x \in attr
    BY <1>3, <2>1 DEF Signs, AllSizes, Sizes
  <2>5. QED
    BY <2>1, <2>2, <2>3, <2>4 DEF Kept, AllSizes, Sizes
<1>4. CASE tok \in Sizes
  <2>1. Grown(attr, tok) = AddSize(attr, tok).attr
    BY <1>4 DEF Grown, Signs, Sizes
  <2>2. m("signed") = n("signed") /\ m("unsigned") = n("unsigned")
    BY <1>1, <1>4 DEF Sizes
  <2> DEFINE g == AddSize(attr, tok).attr
  <2>3. /\ "uspec" \in g <=> "uspec" \in attr
        /\ "char" \in g <=> "char" \in attr \/ (tok = "char" /\ attr \cap AllSizes = {})
        /\ "short" \in g <=> \/ "short" \in attr
                             \/ tok = "short" /\ attr \cap {"char", "long", "longlong"} = {}
        /\ "int" \in g <=> \/ "int" \in attr
                           \/ tok = "int" /\ attr \cap {"char", "long", "longlong"} = {}
        /\ g \cap {"long", "longlong"} = {} <=>
             /\ attr \cap {"long", "longlong"} = {}
             /\ tok = "long" => attr \cap {"char", "short"} # {}
    BY <1>4, GrownHas
  <2> HIDE DEF g
  <2>4. AllSizes = {"char", "short", "int", "long", "longlong"}
    BY DEF AllSizes, Sizes
  <2>5. /\ n("char") \in Nat /\ n("short") \in Nat /\ n("int") \in Nat /\ n("long") \in Nat
        /\ n("signed") \in Nat /\ n("unsigned") \in Nat
    BY <1>1
  <2>6. /\ m("char") = n("char") + (IF tok = "char" THEN 1 ELSE 0)
        /\ m("short") = n("short") + (IF tok = "short" THEN 1 ELSE 0)
        /\ m("int") = n("int") + (IF tok = "int" THEN 1 ELSE 0)
        /\ m("long") = n("long") + (IF tok = "long" THEN 1 ELSE 0)
    BY <1>1
  <2>7. /\ m("char") + m("short") + m("int") <= 1 \/ (m("short") = 1 /\ m("int") = 1 /\ m("char") = 0)
        /\ m("long") > 0 => m("short") + m("char") = 0
    BY DEF IsC
  <2>8. /\ "uspec" \in attr <=> n("signed") + n("unsigned") = 1
        /\ "char" \in attr <=> n("char") = 1
        /\ "short" \in attr <=> n("short") = 1
        /\ "int" \in attr => n("int") = 1
        /\ n("int") = 1 /\ n("long") = 0 => "int" \in attr
        /\ n("long") = 0 <=> "long" \notin attr /\ "longlong" \notin attr
    BY DEF Kept
  <2> HIDE DEF n, m
  <2>9. /\ "char" \in g <=> \/ "char" \in attr
                            \/ /\ tok = "char" /\ "short" \notin attr /\ "int" \notin attr
                               /\ "char" \notin attr /\ "long" \notin attr /\ "longlong" \notin attr
        /\ "short" \in g <=> \/ "short" \in attr
                             \/ /\ tok = "short" /\ "char" \notin attr
                                /\ "long" \notin attr /\ "longlong" \notin attr
        /\ "int" \in g <=> \/ "int" \in attr
                           \/ /\ tok = "int" /\ "char" \notin attr
                              /\ "long" \notin attr /\ "longlong" \notin attr
        /\ ("long" \notin g /\ "longlong" \notin g) <=>
             /\ "long" \notin attr /\ "longlong" \notin attr
             /\ tok = "long" => "char" \in attr \/ "short" \in attr
    BY <2>3, <2>4
  <2>10.
        /\ "uspec" \in g <=> m("signed") + m("unsigned") = 1
        /\ "char" \in g <=> m("char") = 1
        /\ "short" \in g <=> m("short") = 1
        /\ "int" \in g => m("int") = 1
        /\ m("int") = 1 /\ m("long") = 0 => "int" \in g
        /\ m("long") = 0 <=> "long" \notin g /\ "longlong" \notin g
    <3>1. CASE tok = "char"
      BY <2>2, <2>3, <2>5, <2>6, <2>7, <2>8, <2>9, <3>1
    <3>2. CASE tok = "short"
      BY <2>2, <2>3, <2>5, <2>6, <2>7, <2>8, <2>9, <3>2
    <3>3. CASE tok = "int"
      BY <2>2, <2>3, <2>5, <2>6, <2>7, <2>8, <2>9, <3>3
    <3>4. CASE tok = "long"
      <4>1. /\ m("long") > 0 /\ n("char") = 0 /\ n("short") = 0
            /\ m("char") = 0 /\ m("short") = 0 /\ m("int") = n("int")
        <5>1. /\ m("char") = n("char") + 0 /\ m("short") = n("short") + 0
              /\ m("int") = n("int") + 0 /\ m("long") = n("long") + 1
          BY <2>6, <3>4
        <5>2. m("short") + m("char") = 0
          BY <2>5, <2>7, <5>1
        <5>3. m("short") = n("short") /\ m("char") = n("char") /\ m("int") = n("int")
          BY <2>5, <5>1
        <5>4. n("short") = 0 /\ n("char") = 0
          BY <2>5, <5>2, <5>3
        <5>5. m("long") > 0
          BY <2>5, <5>1
        <5>6. QED
          BY <5>3, <5>4, <5>5
      <4>2. /\ "char" \notin g /\ "short" \notin g /\ ("int" \in g <=> "int" \in attr)
            /\ "long" \in g \/ "longlong" \in g
        BY <2>8, <2>9, <3>4, <4>1
      <4>3. "uspec" \in g <=> m("signed") + m("unsigned") = 1
        BY <2>2, <2>3, <2>8
      <4>4. QED
        BY <2>5, <2>8, <4>1, <4>2, <4>3
    <3>5. QED
      BY <1>4, <3>1, <3>2, <3>3, <3>4 DEF Sizes
  <2>11. Kept(Append(toks, tok), g)
    BY <2>10 DEF Kept, m
  <2>12. QED
    BY <2>1, <2>11 DEF g
<1>5. QED
  BY <1>3, <1>4 DEF Toks

\* When a size is said to add nothing.
LEMMA AddedIff ==
    ASSUME def \in Defs, NEW attr \in SUBSET Attributes, NEW tok \in Sizes
    PROVE  LET a == AddSize(attr, tok)
           IN  a.attr # a.was <=>
                 /\ tok = "long" => "char" \notin attr /\ "short" \notin attr
                 /\ tok = "int" => \/ "int" \notin attr /\ "char" \notin attr
                                   \/ "long" \in attr \/ "longlong" \in attr
                 /\ tok = "short" => /\ "char" \notin attr /\ "short" \notin attr
                                     /\ "long" \notin attr /\ "longlong" \notin attr
                 /\ tok = "char" => attr \cap AllSizes = {}
<1> DEFINE a == AddSize(attr, tok)
<1>1. \A base, s, x : s \in Signs /\ x \notin Signs => (x \in set_base_sign(base, s) <=> x \in base)
  BY SignOnly
<1>2. /\ def.sign \in Signs /\ "signed" \in Signs /\ "unsigned" \in Signs
      /\ AllSizes \cap Signs = {} /\ AllSizes = {"char", "short", "int", "long", "longlong"}
  BY DEF Defs, Signs, AllSizes, Sizes
<1>3. CASE tok = "long"
  <2> DEFINE b == set_base_sign(attr, "unsigned")
  <2>1. CASE attr \cap {"char", "short"} # {}
    <3>1. a = [attr |-> attr, was |-> attr]
      BY <1>3, <2>1 DEF AddSize
    <3>2. QED
      BY <1>3, <2>1, <3>1
  <2>2. CASE attr \cap {"char", "short"} = {} /\ ("long" \in b \/ def.size = 8)
    <3>1. a = [attr |-> (b \cup {"longlong"}) \ {"long"}, was |-> attr \ {"longlong"}]
      BY <1>3, <2>2 DEF AddSize
    <3>2. "longlong" \in a.attr /\ "longlong" \notin a.was
      <4> HIDE DEF b
      <4>1. QED
        BY <3>1
    <3>3. QED
      BY <1>3, <2>2, <3>2
  <2>3. CASE attr \cap {"char", "short"} = {} /\ ~("long" \in b \/ def.size = 8)
    <3>1. a = [attr |-> b \cup {"long"}, was |-> attr]
      BY <1>3, <2>3 DEF AddSize
    <3>2. "long" \notin attr
      BY <1>1, <1>2, <2>3
    <3>3. "long" \in a.attr /\ "long" \notin a.was
      <4> HIDE DEF b
      <4>1. QED
        BY <3>1, <3>2
    <3>4. QED
      BY <1>3, <2>3, <3>3
  <2>4. QED
    BY <2>1, <2>2, <2>3
<1>4. CASE tok = "int"
  <2> DEFINE b == set_base_sign(attr, "signed") \cup {"int"}
  <2>1. CASE attr \cap {"int", "char", "long", "longlong"} = {}
    <3>1. "int" \in b /\ "long" \notin b /\ "longlong" \notin b
      BY <1>1, <1>2, <2>1
    <3>2. a = [attr |-> b, was |-> IF b \cap {"long", "longlong"} # {} THEN {} ELSE attr]
      BY <1>4, <2>1 DEF AddSize
    <3> HIDE DEF b
    <3>3. "int" \in a.attr /\ "int" \notin a.was
      BY <2>1, <3>1, <3>2
    <3>4. QED
      BY <1>4, <2>1, <3>3
  <2>2. CASE attr \cap {"int", "char", "long", "longlong"} # {}
    <3>1. a = [attr |-> attr, was |-> IF attr \cap {"long", "longlong"} # {} THEN {} ELSE attr]
      BY <1>4, <2>2 DEF AddSize
    <3>2. QED
      BY <1>4, <2>2, <3>1
  <2>3. QED
    BY <2>1, <2>2
<1>5. CASE tok = "short"
  <2> DEFINE b == set_base_sign(attr \cup {"short"}, "unsigned")
  <2>1. "short" \in b
    BY <1>1, <1>2
  <2>2. a = [attr |-> IF attr \cap {"short", "char", "long", "longlong"} = {} THEN b ELSE attr,
             was |-> attr]
    BY <1>5 DEF AddSize
  <2> HIDE DEF b
  <2>3. QED
    BY <1>5, <2>1, <2>2
<1>6. CASE tok = "char"
  <2> DEFINE b == set_base_sign(attr \cup {"char"}, def.sign)
  <2>1. "char" \in b /\ "char" \in AllSizes
    BY <1>1, <1>2
  <2>2. a = [attr |-> IF attr \cap AllSizes = {} THEN b ELSE attr, was |-> attr]
    BY <1>6 DEF AddSize
  <2> HIDE DEF b
  <2>3. QED
    BY <1>6, <2>1, <2>2
<1>7. QED
  BY <1>3, <1>4, <1>5, <1>6 DEF Sizes

\* A specifier is taken without a word when the list goes on like one of C.
LEMMA TakenIffC ==
    ASSUME def \in Defs, "repeated" \notin Faults,
           NEW toks \in Seq(Toks), NEW attr \in SUBSET Attributes, NEW tok \in Toks,
           IsC(toks), Kept(toks, attr), Clean(Append(toks, tok))
    PROVE  IsC(Append(toks, tok)) <=>
              IF tok \in Signs THEN "uspec" \notin attr
              ELSE AddSize(attr, tok).attr # AddSize(attr, tok).was
<1> DEFINE n(x) == Count(toks, x)
           m(x) == Count(Append(toks, tok), x)
<1>1. /\ n("char") \in Nat /\ n("short") \in Nat /\ n("int") \in Nat /\ n("long") \in Nat
      /\ n("signed") \in Nat /\ n("unsigned") \in Nat
  BY CountAppend
<1>2. /\ m("char") = n("char") + (IF tok = "char" THEN 1 ELSE 0)
      /\ m("short") = n("short") + (IF tok = "short" THEN 1 ELSE 0)
      /\ m("int") = n("int") + (IF tok = "int" THEN 1 ELSE 0)
      /\ m("long") = n("long") + (IF tok = "long" THEN 1 ELSE 0)
      /\ m("signed") = n("signed") + (IF tok = "signed" THEN 1 ELSE 0)
      /\ m("unsigned") = n("unsigned") + (IF tok = "unsigned" THEN 1 ELSE 0)
  BY CountAppend
<1>3. /\ n("signed") + n("unsigned") <= 1
      /\ n("char") + n("short") + n("int") <= 1 \/ (n("short") = 1 /\ n("int") = 1 /\ n("char") = 0)
      /\ n("long") > 0 => n("short") + n("char") = 0
      /\ n("long") <= 2
  BY DEF IsC
<1>4. IsC(Append(toks, tok)) <=>
        /\ m("signed") + m("unsigned") <= 1
        /\ m("char") + m("short") + m("int") <= 1 \/ (m("short") = 1 /\ m("int") = 1 /\ m("char") = 0)
        /\ m("long") > 0 => m("short") + m("char") = 0
        /\ m("long") <= 2
  BY DEF IsC
<1>5. m("long") = 0 \/ (m("long") <= 2 /\ m("int") <= 1)
  BY DEF Clean
<1>6. /\ "uspec" \in attr <=> n("signed") + n("unsigned") = 1
      /\ "char" \in attr <=> n("char") = 1
      /\ "short" \in attr <=> n("short") = 1
      /\ "int" \in attr => n("int") = 1
      /\ n("int") = 1 /\ n("long") = 0 => "int" \in attr
      /\ n("long") = 0 <=> "long" \notin attr /\ "longlong" \notin attr
  BY DEF Kept
<1> HIDE DEF n, m
<1>7. CASE tok \in Signs
  <2>1. /\ m("char") = n("char") /\ m("short") = n("short") /\ m("int") = n("int")
        /\ m("long") = n("long")
        /\ m("signed") + m("unsigned") = n("signed") + n("unsigned") + 1
    BY <1>1, <1>2, <1>7 DEF Signs
  <2>2. IsC(Append(toks, tok)) <=> n("signed") + n("unsigned") = 0
    BY <1>1, <1>3, <1>4, <2>1
  <2>3. QED
    BY <1>1, <1>3, <1>6, <1>7, <2>2
<1>8. ASSUME tok \in Sizes
      PROVE  m("signed") + m("unsigned") <= 1 /\ tok \notin Signs
  BY <1>1, <1>2, <1>3, <1>8 DEF Sizes, Signs
<1> DEFINE a == AddSize(attr, tok)
<1>9. ASSUME tok \in Sizes
      PROVE  a.attr # a.was <=>
                 /\ tok = "long" => "char" \notin attr /\ "short" \notin attr
                 /\ tok = "int" => \/ "int" \notin attr /\ "char" \notin attr
                                   \/ "long" \in attr \/ "longlong" \in attr
                 /\ tok = "short" => /\ "char" \notin attr /\ "short" \notin attr
                                     /\ "long" \notin attr /\ "longlong" \notin attr
                 /\ tok = "char" => /\ "char" \notin attr /\ "short" \notin attr /\ "int" \notin attr
                                    /\ "long" \notin attr /\ "longlong" \notin attr
  BY <1>9, AddedIff DEF AllSizes, Sizes
<1> HIDE DEF a
<1>10. CASE tok = "long"
  <2>1. /\ m("char") = n("char") /\ m("short") = n("short") /\ m("int") = n("int")
        /\ m("long") = n("long") + 1
    BY <1>1, <1>2, <1>10
  <2>2. m("long") > 0 /\ m("long") <= 2 /\ m("int") <= 1
    BY <1>1, <1>5, <2>1
  <2>3. IsC(Append(toks, tok)) <=> n("char") = 0 /\ n("short") = 0
    BY <1>1, <1>3, <1>4, <1>8, <1>10, <2>1, <2>2 DEF Sizes
  <2>4. n("char") \in {0, 1} /\ n("short") \in {0, 1}
    BY <1>1, <1>3
  <2>5. QED
    BY <1>6, <1>8, <1>9, <1>10, <2>3, <2>4 DEF Sizes, a
<1>11. CASE tok = "int"
  <2>1. /\ m("char") = n("char") /\ m("short") = n("short") /\ m("int") = n("int") + 1
        /\ m("long") = n("long")
    BY <1>1, <1>2, <1>11
  <2>2. n("char") \in {0, 1} /\ n("short") \in {0, 1} /\ n("int") \in {0, 1}
    BY <1>1, <1>3
  <2>3. IsC(Append(toks, tok)) <=> n("char") = 0 /\ n("int") = 0
    BY <1>1, <1>3, <1>4, <1>8, <1>11, <2>1, <2>2 DEF Sizes
  <2>4. n("long") > 0 => n("char") = 0 /\ n("int") = 0
    BY <1>1, <1>3, <1>5, <2>1, <2>2
  <2>5. QED
    BY <1>1, <1>6, <1>8, <1>9, <1>11, <2>2, <2>3, <2>4 DEF Sizes, a
<1>12. CASE tok = "short"
  <2>1. /\ m("char") = n("char") /\ m("short") = n("short") + 1 /\ m("int") = n("int")
        /\ m("long") = n("long")
    BY <1>1, <1>2, <1>12
  <2>2. n("char") \in {0, 1} /\ n("short") \in {0, 1} /\ n("int") \in {0, 1}
    BY <1>1, <1>3
  <2>3. IsC(Append(toks, tok)) <=> n("char") = 0 /\ n("short") = 0 /\ n("long") = 0
    BY <1>1, <1>3, <1>4, <1>8, <1>12, <2>1, <2>2 DEF Sizes
  <2>4. QED
    BY <1>6, <1>8, <1>9, <1>12, <2>2, <2>3 DEF Sizes, a
<1>13. CASE tok = "char"
  <2>1. /\ m("char") = n("char") + 1 /\ m("short") = n("short") /\ m("int") = n("int")
        /\ m("long") = n("long")
    BY <1>1, <1>2, <1>13
  <2>2. n("char") \in {0, 1} /\ n("short") \in {0, 1} /\ n("int") \in {0, 1}
    BY <1>1, <1>3
  <2>3. IsC(Append(toks, tok)) <=>
            n("char") = 0 /\ n("short") = 0 /\ n("int") = 0 /\ n("long") = 0
    BY <1>1, <1>3, <1>4, <1>8, <1>13, <2>1, <2>2 DEF Sizes
  <2>4. QED
    BY <1>6, <1>8, <1>9, <1>13, <2>2, <2>3 DEF Sizes, a
<1>14. QED
  BY <1>7, <1>10, <1>11, <1>12, <1>13 DEF Toks, Sizes

-----------------------------------------------------------------------------
(* The invariant, whatever the faults.                                      *)

Saids == {"ok", "warning", "error"}
Behinds == [toks : Seq(Toks), ref : Nat, said : Saids]
GoodTypes ==
    /\ t # None => Good(t)
    /\ tdef # None => Good(tdef)
    /\ \A n \in DOMAIN vars : Good(vars[n].t)
\* What was read is what the type being read is made of.
ReadOK ==
    /\ read \in [toks : Seq(Toks), stars : Nat, named : BOOLEAN, of : Behinds \cup {None}]
    /\ t = None => read.toks = << >> /\ read.stars = 0 /\ ~read.named
    /\ t # None /\ ~read.named => read.toks # << >> /\ t.ref = read.stars
    /\ read.named => /\ tdef # None /\ t # None /\ read.toks = << >>
                     /\ t.attr = tdef.attr /\ t.ref = tdef.ref + read.stars
    /\ tdef # None => read.of \in Behinds
KnownKept == t # None /\ ~read.named /\ IsC(read.toks) => Kept(read.toks, t.attr)
DInv == def \in Defs /\ said \in Saids /\ GoodTypes /\ ReadOK /\ KnownKept

LEMMA GoodStays ==
    ASSUME def' = def
    PROVE  \A ty : Good(ty)' <=> Good(ty)
BY DEF Good, Rank, Unsigned

LEMMA InitDInv == Init => DInv
<1> SUFFICES ASSUME Init PROVE DInv
  OBVIOUS
<1>1. def \in Defs
  BY DeclAssumption DEF Init, Defs
<1>2. << >> \in Seq(Toks)
  OBVIOUS
<1>3. GoodTypes
  BY DEF Init, GoodTypes
<1>4. ReadOK
  BY <1>2 DEF Init, ReadOK
<1>5. QED
  BY <1>1, <1>3, <1>4 DEF Init, DInv, KnownKept, Saids

LEMMA WorstIs ==
    ASSUME said \in Saids, NEW r \in Saids
    PROVE  Worst(r) \in Saids /\ (Worst(r) = "ok" <=> said = "ok" /\ r = "ok")
BY DEF Worst, Saids

LEMMA NoneIsNot == ASSUME NEW ty, Good(ty) PROVE ty # None
BY NoneAssumption DEF Good

\* A specifier: the type that it gives.
LEMMA BtypeIs ==
    ASSUME DInv, tdef = None, NEW tok \in Toks, NEW r,
           r = IF t = None THEN [t |-> eppic_newbtype(tok), said |-> "ok"] ELSE eppic_addbtype(t, tok),
           read.stars = 0
    PROVE  /\ Good(r.t) /\ r.t.ref = 0 /\ r.said \in Saids
           /\ t = None => r.said = "ok" /\ r.t.attr = IF tok \in Signs THEN {tok, "uspec"} ELSE {tok}
           /\ t # None => /\ r.t.attr = Grown(t.attr, tok)
                          /\ r.said = "ok" <=> IF tok \in Signs THEN "uspec" \notin t.attr
                                               ELSE AddSize(t.attr, tok).attr # AddSize(t.attr, tok).was
<1>1. CASE t = None
  <2> DEFINE s == eppic_newbtype(tok)
  <2>1. /\ Good(s) /\ s.ref = 0 /\ s.type = "base"
        /\ s.attr = IF tok \in Signs THEN {tok, "uspec"} ELSE {tok}
    BY Zenon, NewbtypeIs DEF DInv
  <2>2. r.t = s /\ r.said = "ok"
    BY <1>1
  <2> HIDE DEF s
  <2>3. QED
    BY <1>1, <2>1, <2>2 DEF Saids
<1>2. CASE t # None
  <2> DEFINE s == eppic_addbtype(t, tok)
  <2>1. Good(t) /\ t.ref = 0
    BY <1>2 DEF DInv, GoodTypes, ReadOK
  <2>2. /\ Good(s.t) /\ s.t.attr = Grown(t.attr, tok)
        /\ s.t.ref = t.ref /\ s.t.type = t.type
        /\ s.said \in {"ok", "warning", "error"}
        /\ s.said = "ok" <=> IF tok \in Signs THEN "uspec" \notin t.attr
                             ELSE AddSize(t.attr, tok).attr # AddSize(t.attr, tok).was
    BY Zenon, <2>1, AddbtypeIs DEF DInv
  <2>3. r = s
    BY <1>2
  <2> HIDE DEF s
  <2>4. QED
    BY <1>2, <2>1, <2>2, <2>3 DEF Saids
<1>3. QED
  BY <1>1, <1>2

LEMMA BtypeDInv == ASSUME DInv, btype PROVE DInv'
<1>1. /\ Reading /\ tdef = None /\ read.stars = 0 /\ vars' = << >>
      /\ def' = def /\ tdef' = tdef
  BY DEF btype
<1>2. PICK tok \in Sizes \cup Signs :
        /\ LET r == IF t = None THEN [t |-> eppic_newbtype(tok), said |-> "ok"] ELSE eppic_addbtype(t, tok)
           IN  t' = r.t /\ said' = Worst(r.said)
        /\ read' = [read EXCEPT !.toks = Append(@, tok)]
  BY DEF btype
<1> DEFINE r == IF t = None THEN [t |-> eppic_newbtype(tok), said |-> "ok"] ELSE eppic_addbtype(t, tok)
<1>3. t' = r.t /\ said' = Worst(r.said) /\ tok \in Toks
  BY <1>2 DEF Toks
<1>4. /\ Good(r.t) /\ r.t.ref = 0 /\ r.said \in Saids
      /\ t = None => r.said = "ok" /\ r.t.attr = IF tok \in Signs THEN {tok, "uspec"} ELSE {tok}
      /\ t # None => r.t.attr = Grown(t.attr, tok)
  BY <1>1, <1>3, BtypeIs
<1> HIDE DEF r
<1>5. ~read.named /\ read.toks \in Seq(Toks) /\ (t = None => read.toks = << >>)
  BY <1>1 DEF DInv, ReadOK
<1>6. /\ read'.toks = Append(read.toks, tok) /\ read'.stars = 0 /\ ~read'.named
      /\ read' \in [toks : Seq(Toks), stars : Nat, named : BOOLEAN, of : Behinds \cup {None}]
  BY <1>1, <1>2, <1>3, <1>5 DEF DInv, ReadOK
<1>7. t' # None /\ Good(t)'
  BY <1>1, <1>3, <1>4, NoneIsNot, GoodStays
<1>8. def' \in Defs /\ said' \in Saids
  BY <1>1, <1>3, <1>4, WorstIs DEF DInv
<1>9. GoodTypes'
  BY <1>1, <1>7 DEF GoodTypes
<1>10. ReadOK'
  BY <1>1, <1>3, <1>4, <1>6, <1>7 DEF ReadOK
<1>11. KnownKept'
  <2> SUFFICES ASSUME IsC(read.toks)' PROVE Kept(read.toks, t.attr)'
    BY DEF KnownKept
  <2>1. IsC(Append(read.toks, tok))
    BY <1>6 DEF IsC, Count
  <2>2. Kept(Append(read.toks, tok), r.t.attr)
    <3>1. CASE t = None
      <4>1. Append(read.toks, tok) = <<tok>>
        <5>1. \A x : Append(<< >>, x) = <<x>>
          OBVIOUS
        <5>2. QED
          BY Zenon, <1>5, <3>1, <5>1
      <4>2. QED
        BY <1>3, <1>4, <3>1, <4>1, KeptNew
    <3>2. CASE t # None
      <4>1. IsC(read.toks)
        BY <1>3, <1>5, <2>1, IsCPrefix
      <4>2. Kept(read.toks, t.attr) /\ Good(t)
        BY <1>5, <3>2, <4>1 DEF DInv, KnownKept, GoodTypes
      <4>3. t.attr \in SUBSET Attributes
        BY <4>2, GoodHas DEF DInv
      <4>4. Kept(Append(read.toks, tok), Grown(t.attr, tok))
        BY <1>3, <1>5, <2>1, <4>2, <4>3, KeptGrown DEF DInv
      <4>5. QED
        BY <1>4, <3>2, <4>4
    <3>3. QED
      BY <3>1, <3>2
  <2>3. QED
    BY <1>3, <1>6, <2>2 DEF Kept, Count
<1>12. QED
  BY <1>8, <1>9, <1>10, <1>11 DEF DInv

LEMMA TypedefNameDInv == ASSUME DInv, typedef_name PROVE DInv'
<1>1. /\ t = None /\ tdef # None /\ t' = tdef /\ vars' = << >>
      /\ read' = [read EXCEPT !.named = TRUE]
      /\ def' = def /\ tdef' = tdef /\ said' = said
  BY DEF typedef_name
<1>2. Good(tdef) /\ tdef.ref \in Nat
  BY <1>1, GoodHas DEF DInv, GoodTypes
<1>3. /\ read'.named /\ read'.toks = << >> /\ read'.stars = 0 /\ read'.of = read.of
      /\ read' \in [toks : Seq(Toks), stars : Nat, named : BOOLEAN, of : Behinds \cup {None}]
  BY <1>1 DEF DInv, ReadOK
<1>4. Good(t)' /\ Good(tdef)'
  BY <1>1, <1>2, GoodStays
<1>5. GoodTypes'
  BY <1>1, <1>4 DEF GoodTypes
<1>6. ReadOK'
  BY <1>1, <1>2, <1>3 DEF DInv, ReadOK
<1>7. KnownKept'
  BY <1>3 DEF KnownKept
<1>8. QED
  BY <1>1, <1>5, <1>6, <1>7 DEF DInv

LEMMA PTRDInv == ASSUME DInv, PTR PROVE DInv'
<1>1. /\ t # None /\ read.stars = 0
      /\ def' = def /\ tdef' = tdef /\ said' = said /\ vars' = vars
  BY DEF PTR
<1>2. PICK n \in 1..MaxRef :
        /\ t' = eppic_pushref(t, n)
        /\ read' = [read EXCEPT !.stars = n]
  BY DEF PTR
<1>3. n \in Nat \ {0} /\ Good(t) /\ t.ref \in Nat
  BY <1>1, DeclAssumption, GoodHas DEF DInv, GoodTypes
<1> DEFINE s == eppic_pushref(t, n)
<1>4. Good(s) /\ s.attr = t.attr /\ s.ref = t.ref + n
  BY Zenon, <1>3, PushrefAdds DEF DInv
<1> HIDE DEF s
<1>5. t' = s
  BY <1>2 DEF s
<1>6. Good(t)' /\ t' # None
  BY <1>1, <1>4, <1>5, NoneIsNot, GoodStays
<1>7. /\ read'.named = read.named /\ read'.toks = read.toks /\ read'.stars = n
      /\ read'.of = read.of
      /\ read' \in [toks : Seq(Toks), stars : Nat, named : BOOLEAN, of : Behinds \cup {None}]
  BY <1>2, <1>3 DEF DInv, ReadOK
<1>8. GoodTypes'
  BY <1>1, <1>6, GoodStays DEF DInv, GoodTypes
<1>9. ReadOK'
  <2>1. read.named => tdef.ref \in Nat
    BY GoodHas DEF DInv, GoodTypes, ReadOK
  <2>2. QED
    BY <1>1, <1>3, <1>4, <1>5, <1>6, <1>7, <2>1 DEF DInv, ReadOK
<1>10. KnownKept'
  BY <1>1, <1>4, <1>5, <1>7 DEF DInv, KnownKept, Kept, IsC, Count
<1>11. QED
  BY <1>1, <1>8, <1>9, <1>10 DEF DInv

LEMMA DeclaratorsAre ==
    ASSUME NEW refs \in Declarators
    PROVE  refs \in Seq(Nat) /\ refs # << >>
BY DeclAssumption DEF Declarators, SeqOf

\* The specifiers of a declaration, and its levels of reference.
LEMMA SpecsAre ==
    ASSUME DInv, t # None, NEW refs \in Seq(Nat), NEW n \in DOMAIN refs
    PROVE  Specs \in Seq(Toks) /\ Behind \in Nat /\ RefOfC(refs, n) \in Nat
<1>1. read.named => read.of \in Behinds
  BY DEF DInv, ReadOK
<1>2. Specs \in Seq(Toks) /\ Behind \in Nat /\ read.stars \in Nat
  BY <1>1 DEF Specs, Behind, Behinds, DInv, ReadOK
<1>3. refs[n] \in Nat
  OBVIOUS
<1>4. QED
  BY <1>2, <1>3 DEF RefOfC

LEMMA VardeclDInv == ASSUME DInv, eppic_vardecl PROVE DInv'
<1>1. /\ t # None /\ t' = None /\ said' = "ok" /\ def' = def /\ tdef' = tdef
      /\ read' = [read EXCEPT !.toks = << >>, !.stars = 0, !.named = FALSE]
  BY DEF eppic_vardecl
<1>2. PICK refs \in Declarators :
        vars' = [n \in DOMAIN refs |->
                    [t |-> Declared(t, refs)[n], toks |-> Specs, ref |-> RefOfC(refs, n), said |-> said]]
  BY DEF eppic_vardecl
<1>3. refs \in Seq(Nat) /\ refs # << >> /\ Good(t)
  BY <1>1, DeclaratorsAre DEF DInv, GoodTypes
<1>4. /\ read'.toks = << >> /\ read'.stars = 0 /\ ~read'.named /\ read'.of = read.of
      /\ read' \in [toks : Seq(Toks), stars : Nat, named : BOOLEAN, of : Behinds \cup {None}]
  <2>1. << >> \in Seq(Toks) /\ 0 \in Nat /\ FALSE \in BOOLEAN
    OBVIOUS
  <2>2. read \in [toks : Seq(Toks), stars : Nat, named : BOOLEAN, of : Behinds \cup {None}]
    BY DEF DInv, ReadOK
  <2> DEFINE r == [read EXCEPT !.toks = << >>, !.stars = 0, !.named = FALSE]
  <2>3. /\ r.toks = << >> /\ r.stars = 0 /\ ~r.named /\ r.of = read.of
        /\ r \in [toks : Seq(Toks), stars : Nat, named : BOOLEAN, of : Behinds \cup {None}]
    BY <2>1, <2>2
  <2> HIDE DEF r
  <2>4. read' = r
    BY <1>1 DEF r
  <2>5. QED
    BY <2>3, <2>4
<1>5. \A n \in DOMAIN refs : Good(Declared(t, refs)[n])
  BY <1>3, DeclaredIs DEF DInv
<1>6. DOMAIN vars' = DOMAIN refs /\ \A n \in DOMAIN refs : vars'[n].t = Declared(t, refs)[n]
  BY <1>2
<1>7. (\A n \in DOMAIN vars : Good(vars[n].t))'
  BY <1>1, <1>5, <1>6, GoodStays
<1>8. GoodTypes'
  BY <1>1, <1>7, GoodStays DEF DInv, GoodTypes
<1>9. ReadOK'
  BY <1>1, <1>4 DEF DInv, ReadOK
<1>10. QED
  BY <1>1, <1>8, <1>9 DEF DInv, KnownKept, Saids

LEMMA TdefDeclDInv == ASSUME DInv, eppic_tdef_decl PROVE DInv'
<1>1. /\ t # None /\ t' = None /\ said' = "ok" /\ def' = def /\ vars' = << >>
  BY DEF eppic_tdef_decl
<1>2. PICK ref \in 0..MaxRef :
        /\ tdef' = Declared(t, <<ref>>)[1]
        /\ read' = [toks |-> << >>, stars |-> 0, named |-> FALSE,
                    of |-> [toks |-> Specs, ref |-> RefOfC(<<ref>>, 1), said |-> said]]
  BY DEF eppic_tdef_decl
<1>3. <<ref>> \in Seq(Nat) /\ <<ref>> # << >> /\ 1 \in DOMAIN <<ref>>
  BY DeclAssumption
<1>4. Good(Declared(t, <<ref>>)[1])
  BY <1>1, <1>3, DeclaredIs DEF DInv, GoodTypes
<1>5. Good(tdef)' /\ tdef' # None
  BY <1>1, <1>2, <1>4, NoneIsNot, GoodStays
<1>6. Specs \in Seq(Toks) /\ RefOfC(<<ref>>, 1) \in Nat /\ said \in Saids
  BY <1>1, <1>3, SpecsAre DEF DInv
<1>7. /\ read'.toks = << >> /\ read'.stars = 0 /\ ~read'.named /\ read'.of \in Behinds
      /\ read' \in [toks : Seq(Toks), stars : Nat, named : BOOLEAN, of : Behinds \cup {None}]
  BY <1>2, <1>6 DEF Behinds
<1>8. GoodTypes'
  BY <1>1, <1>5 DEF GoodTypes
<1>9. ReadOK'
  BY <1>1, <1>7 DEF ReadOK
<1>10. QED
  BY <1>1, <1>8, <1>9 DEF DInv, KnownKept, Saids

LEMMA NextDInv == DInv /\ [Next]_vars_ => DInv'
<1> SUFFICES ASSUME DInv, [Next]_vars_ PROVE DInv'
  OBVIOUS
<1>1. CASE UNCHANGED vars_
  <2>1. /\ def' = def /\ t' = t /\ tdef' = tdef /\ vars' = vars /\ said' = said /\ read' = read
    BY <1>1 DEF vars_
  <2>2. GoodTypes'
    BY <2>1, GoodStays DEF DInv, GoodTypes
  <2>3. ReadOK' /\ KnownKept'
    BY <2>1 DEF DInv, ReadOK, KnownKept, IsC, Kept, Count
  <2>4. QED
    BY <2>1, <2>2, <2>3 DEF DInv
<1>2. QED
  BY <1>1, BtypeDInv, TypedefNameDInv, PTRDInv, VardeclDInv, TdefDeclDInv DEF Next

LEMMA GoodOneSign ==
    ASSUME def \in Defs, NEW ty, Good(ty)
    PROVE  Cardinality(ty.attr \cap Signs) <= 1
<1>1. ty.attr \cap Signs = {} \/ \E s \in Signs : ty.attr \cap Signs = {s}
  BY GoodHas DEF OneSign, Signs
<1>2. CASE ty.attr \cap Signs = {}
  <2>1. Cardinality(ty.attr \cap Signs) = 0
    BY <1>2, FS_EmptySet
  <2>2. QED
    BY <2>1
<1>3. CASE \E s \in Signs : ty.attr \cap Signs = {s}
  <2>1. Cardinality(ty.attr \cap Signs) = 1
    BY <1>3, FS_Singleton
  <2>2. QED
    BY <2>1
<1>4. QED
  BY <1>1, <1>2, <1>3

LEMMA DInvTypeOK == DInv => TypeOK
<1> SUFFICES ASSUME DInv PROVE TypeOK
  OBVIOUS
<1>1. \A ty \in ({t, tdef} \ {None}) \cup {vars[n].t : n \in DOMAIN vars} : Good(ty)
  BY DEF DInv, GoodTypes
<1>2. ASSUME NEW ty, Good(ty)
      PROVE  ty \in Types /\ Cardinality(ty.attr \cap Signs) <= 1 /\ (ty.ref > 0 <=> ty.type = "ref")
  BY <1>2, GoodHas, GoodOneSign DEF DInv
<1>3. t \in Types \cup {None} /\ tdef \in Types \cup {None} /\ \A n \in DOMAIN vars : vars[n].t \in Types
  BY <1>1, <1>2
<1>4. QED
  BY <1>1, <1>2, <1>3 DEF TypeOK, DInv, Saids

(***************************************************************************)
(* Whatever is declared, a type has one sign at most and a level of          *)
(* reference exactly when it is a reference (eppic_addbtype, eppic_pushref,   *)
(* eppic_popref).                                                           *)
(***************************************************************************)
THEOREM DeclTyped == Spec => []TypeOK
<1>1. Spec => []DInv
  BY InitDInv, NextDInv, PTL DEF Spec
<1>2. QED
  BY <1>1, DInvTypeOK, PTL

-----------------------------------------------------------------------------
(* What is reported.                                                        *)

LEMMA EmptyIsC == IsC(<< >>)
BY CountNone DEF IsC

LEMMA ReportedNext ==
    ASSUME "repeated" \notin Faults, DInv, ReportedIffInvalid, [Next]_vars_
    PROVE  ReportedIffInvalid'
<1>1. CASE btype
  <2>1. /\ Reading /\ tdef = None /\ read.stars = 0
    BY <1>1 DEF btype
  <2>2. PICK tok \in Sizes \cup Signs :
          /\ Clean(Append(read.toks, tok))
          /\ LET r == IF t = None THEN [t |-> eppic_newbtype(tok), said |-> "ok"] ELSE eppic_addbtype(t, tok)
             IN  t' = r.t /\ said' = Worst(r.said)
          /\ read' = [read EXCEPT !.toks = Append(@, tok)]
    BY <1>1 DEF btype
  <2> DEFINE r == IF t = None THEN [t |-> eppic_newbtype(tok), said |-> "ok"] ELSE eppic_addbtype(t, tok)
  <2>3. said' = Worst(r.said) /\ tok \in Toks
    BY <2>2 DEF Toks
  <2>4. /\ r.said \in Saids
        /\ t = None => r.said = "ok"
        /\ t # None => (r.said = "ok" <=> IF tok \in Signs THEN "uspec" \notin t.attr
                                          ELSE AddSize(t.attr, tok).attr # AddSize(t.attr, tok).was)
    BY <2>1, <2>3, BtypeIs
  <2> HIDE DEF r
  <2>5. ~read.named /\ read.toks \in Seq(Toks) /\ (t = None => read.toks = << >>)
    BY <2>1 DEF DInv, ReadOK
  <2>6. read'.toks = Append(read.toks, tok)
    BY <2>2 DEF DInv, ReadOK
  <2>7. said = "ok" <=> IsC(read.toks)
    BY <2>5 DEF ReportedIffInvalid
  <2>8. said' = "ok" <=> said = "ok" /\ r.said = "ok"
    BY <2>3, <2>4, WorstIs DEF DInv
  <2>9. said' = "ok" <=> IsC(Append(read.toks, tok))
    <3>1. CASE t = None
      <4>1. Append(read.toks, tok) = <<tok>>
        <5>1. \A x : Append(<< >>, x) = <<x>>
          OBVIOUS
        <5>2. QED
          BY Zenon, <2>5, <3>1, <5>1
      <4>2. IsC(Append(read.toks, tok)) /\ IsC(read.toks)
        BY <2>3, <2>5, <3>1, <4>1, KeptNew, EmptyIsC
      <4>3. QED
        BY <2>4, <2>7, <2>8, <3>1, <4>2
    <3>2. CASE t # None /\ IsC(read.toks)
      <4>1. Kept(read.toks, t.attr) /\ Good(t)
        BY <2>5, <3>2 DEF DInv, KnownKept, GoodTypes
      <4>2. t.attr \in SUBSET Attributes
        BY <4>1, GoodHas DEF DInv
      <4>3. IsC(Append(read.toks, tok)) <=>
              IF tok \in Signs THEN "uspec" \notin t.attr
              ELSE AddSize(t.attr, tok).attr # AddSize(t.attr, tok).was
        BY <2>2, <2>3, <2>5, <3>2, <4>1, <4>2, TakenIffC DEF DInv
      <4>4. QED
        BY <2>4, <2>7, <2>8, <3>2, <4>3
    <3>3. CASE ~IsC(read.toks)
      BY <2>3, <2>5, <2>7, <2>8, <3>3, IsCPrefix
    <3>4. QED
      BY <3>1, <3>2, <3>3
  <2>10. QED
    BY <2>6, <2>9 DEF ReportedIffInvalid, IsC, Count
<1>2. CASE typedef_name
  <2>1. read'.named
    BY <1>2 DEF typedef_name, DInv, ReadOK
  <2>2. QED
    BY <2>1 DEF ReportedIffInvalid
<1>3. CASE PTR
  <2>1. read'.named = read.named /\ read'.toks = read.toks /\ said' = said
    BY <1>3 DEF PTR, DInv, ReadOK
  <2>2. QED
    BY <2>1 DEF ReportedIffInvalid, IsC, Count
<1>4. CASE eppic_vardecl \/ eppic_tdef_decl
  <2>1. read'.toks = << >> /\ said' = "ok"
    <3>1. CASE eppic_vardecl
      BY <3>1 DEF eppic_vardecl, DInv, ReadOK
    <3>2. CASE eppic_tdef_decl
      <4>1. said' = "ok" /\ \E of : read' = [toks |-> << >>, stars |-> 0, named |-> FALSE, of |-> of]
        BY <3>2 DEF eppic_tdef_decl
      <4>2. QED
        BY <4>1
    <3>3. QED
      BY <1>4, <3>1, <3>2
  <2>2. IsC(read'.toks)
    BY <2>1, EmptyIsC
  <2>3. QED
    BY <2>1, <2>2 DEF ReportedIffInvalid, IsC, Count
<1>5. CASE UNCHANGED vars_
  BY <1>5 DEF vars_, ReportedIffInvalid, IsC, Count
<1>6. QED
  BY <1>1, <1>2, <1>3, <1>4, <1>5 DEF Next

(***************************************************************************)
(* A list of specifiers, however long, is taken without a word exactly when  *)
(* it is a type of C, unless a specifier is repeated next to long             *)
(* (eppic_addbtype, called by the rules of the grammar for every specifier).  *)
(***************************************************************************)
THEOREM InvalidIsReported ==
    ASSUME "repeated" \notin Faults
    PROVE  Spec => []ReportedIffInvalid
<1>1. Init => ReportedIffInvalid
  BY EmptyIsC DEF Init, ReportedIffInvalid
<1>2. DInv /\ ReportedIffInvalid /\ [Next]_vars_ => ReportedIffInvalid'
  BY ReportedNext
<1>3. QED
  BY <1>1, <1>2, InitDInv, NextDInv, PTL DEF Spec

-----------------------------------------------------------------------------
(* What C means by a list of specifiers.                                    *)

\* What the attributes say of the sign and of long, without the faults.
MadeAs(toks, attr) ==
    LET n(x) == Count(toks, x)
    IN  /\ n("signed") = 1 => "signed" \in attr /\ "unsigned" \notin attr
        /\ n("unsigned") = 1 => "unsigned" \in attr /\ "signed" \notin attr
        /\ n("signed") + n("unsigned") = 0 =>
              "unsigned" \notin attr /\ ("signed" \in attr => n("char") = 0)
        /\ n("long") > 0 => "int" \notin attr
        /\ n("long") = 1 => /\ "long" \in attr <=> "longlong" \notin attr
                            /\ "longlong" \in attr => def.size = 8
        /\ n("long") = 2 => "longlong" \in attr /\ "long" \notin attr

\* The attributes of a type that is what C means: its sign is settled, and its size.
Means(attr, toks) ==
    /\ attr \cap Signs # {}
    /\ "signed" \in attr <=> SignOfC(toks) = "signed"
    /\ 2 ^ Rank(attr) = BytesOfC(toks)
    /\ attr \cap AllSizes = {} => "uspec" \in attr

LEMMA CountSome ==
    ASSUME NEW toks \in Seq(Toks), toks # << >>
    PROVE  \E x \in Toks : Count(toks, x) # 0
<1>1. 1 \in DOMAIN toks /\ toks[1] \in Toks
  OBVIOUS
<1> DEFINE I == {n \in DOMAIN toks : toks[n] = toks[1]}
<1>2. IsFiniteSet(1..Len(toks)) /\ I \subseteq 1..Len(toks)
  BY FS_Interval
<1>3. IsFiniteSet(I) /\ I # {}
  BY <1>1, <1>2, FS_Subset
<1>4. Cardinality(I) # 0
  BY <1>3, FS_EmptySet
<1>5. QED
  BY <1>1, <1>4 DEF Count

LEMMA MadeNew ==
    ASSUME NEW tok \in Toks
    PROVE  MadeAs(<<tok>>, IF tok \in Signs THEN {tok, "uspec"} ELSE {tok})
BY CountOne DEF MadeAs, Toks, Sizes, Signs

\* A sign that was given, or that goes with an int, stays.
LEMMA GrownSigns ==
    ASSUME def \in Defs, NEW attr \in SUBSET Attributes, NEW tok \in Sizes
    PROVE  LET g == AddSize(attr, tok).attr
           IN  /\ "uspec" \in attr \/ (tok = "short" /\ "int" \in attr) =>
                    \A x \in Signs : x \in g <=> x \in attr
               /\ tok = "int" => \/ \A x \in Signs : x \in g <=> x \in attr
                                 \/ "signed" \in g /\ "unsigned" \notin g
<1> DEFINE g == AddSize(attr, tok).attr
<1>1. \A base, s : base \cap {"uspec", "int"} # {} => set_base_sign(base, s) = base
  BY DEF set_base_sign
<1>2. \A x \in Signs : x \notin AllSizes
  BY DEF Signs, AllSizes, Sizes
<1>3. {"char", "short", "int", "long", "longlong"} \subseteq AllSizes
  BY DEF AllSizes, Sizes
<1>4. CASE tok = "long"
  <2> DEFINE b == set_base_sign(attr, "unsigned")
  <2>1. g \in {attr, (b \cup {"longlong"}) \ {"long"}, b \cup {"long"}}
    BY <1>4 DEF AddSize
  <2>2. "uspec" \in attr => b = attr
    BY <1>1
  <2> HIDE DEF b, g
  <2>3. "uspec" \in attr => \A x \in Signs : x \in g <=> x \in attr
    BY <1>2, <1>3, <2>1, <2>2
  <2>4. QED
    BY <1>4, <2>3 DEF g
<1>5. CASE tok = "int"
  <2> DEFINE b == set_base_sign(attr, "signed")
  <2>1. g \in {attr, b \cup {"int"}}
    BY <1>5 DEF AddSize
  <2>2. b = IF attr \cap {"uspec", "int"} = {} THEN (attr \ Signs) \cup {"signed"} ELSE attr
    BY DEF set_base_sign
  <2>3. "int" \notin Signs /\ "uspec" \notin Signs /\ Signs = {"signed", "unsigned"}
    BY DEF Signs
  <2> HIDE DEF b, g
  <2>4. /\ "uspec" \in attr => \A x \in Signs : x \in g <=> x \in attr
        /\ \/ \A x \in Signs : x \in g <=> x \in attr
           \/ "signed" \in g /\ "unsigned" \notin g
    BY <2>1, <2>2, <2>3
  <2>5. QED
    BY <1>5, <2>4 DEF g
<1>6. CASE tok \in {"short", "char"}
  <2> DEFINE a == attr \cup {tok}
             b == set_base_sign(a, IF tok = "short" THEN "unsigned" ELSE def.sign)
  <2>1. g \in {attr, b}
    BY <1>6 DEF AddSize
  <2>2. "uspec" \in attr \/ (tok = "short" /\ "int" \in attr) => b = a
    BY <1>1
  <2>3. tok \notin Signs /\ tok # "int"
    BY <1>6 DEF Signs
  <2> HIDE DEF b, g
  <2>4. "uspec" \in attr \/ (tok = "short" /\ "int" \in attr) =>
            \A x \in Signs : x \in g <=> x \in attr
    BY <2>1, <2>2, <2>3
  <2>5. QED
    BY <2>3, <2>4 DEF g
<1>7. QED
  BY <1>4, <1>5, <1>6 DEF Sizes

LEMMA GrownLong ==
    ASSUME def \in Defs, NEW attr \in SUBSET Attributes, NEW tok \in Sizes
    PROVE  LET g == AddSize(attr, tok).attr
           IN  /\ tok = "long" /\ "char" \notin attr /\ "short" \notin attr =>
                    /\ "long" \in g <=> "long" \notin attr /\ def.size # 8
                    /\ "longlong" \in g <=> "longlong" \in attr \/ "long" \in attr \/ def.size = 8
               /\ tok # "long" => \A x \in {"long", "longlong"} : x \in g <=> x \in attr
<1> DEFINE g == AddSize(attr, tok).attr
<1>1. \A base, s, x : s \in Signs /\ x \notin Signs => (x \in set_base_sign(base, s) <=> x \in base)
  BY SignOnly
<1>2. /\ def.sign \in Signs /\ "signed" \in Signs /\ "unsigned" \in Signs
      /\ "long" \notin Signs /\ "longlong" \notin Signs
  BY DEF Defs, Signs
<1>3. CASE tok = "long" /\ "char" \notin attr /\ "short" \notin attr
  <2> DEFINE b == set_base_sign(attr, "unsigned")
  <2>1. g = IF "long" \in b \/ def.size = 8 THEN (b \cup {"longlong"}) \ {"long"}
            ELSE b \cup {"long"}
    BY <1>3 DEF AddSize
  <2>2. ("long" \in b <=> "long" \in attr) /\ ("longlong" \in b <=> "longlong" \in attr)
    BY <1>1, <1>2
  <2> HIDE DEF b, g
  <2>3. /\ "long" \in g <=> "long" \notin attr /\ def.size # 8
        /\ "longlong" \in g <=> "longlong" \in attr \/ "long" \in attr \/ def.size = 8
    BY <2>1, <2>2
  <2>4. QED
    BY <1>3, <2>3 DEF g
<1>4. CASE tok # "long"
  <2> DEFINE b == set_base_sign(attr, "signed")
             c == set_base_sign(attr \cup {"short"}, "unsigned")
             d == set_base_sign(attr \cup {"char"}, def.sign)
  <2>1. g \in {attr, b \cup {"int"}, c, d}
    BY <1>4 DEF AddSize, Sizes
  <2>2. \A x \in {"long", "longlong"} : (x \in b <=> x \in attr) /\ (x \in c <=> x \in attr)
                                        /\ (x \in d <=> x \in attr)
    BY <1>1, <1>2
  <2> HIDE DEF b, c, d, g
  <2>3. \A x \in {"long", "longlong"} : x \in g <=> x \in attr
    BY <2>1, <2>2
  <2>4. QED
    BY <1>4, <2>3 DEF g
<1>5. QED
  BY <1>3, <1>4

\* No int comes in front of a long.
LEMMA NoIntBefore ==
    ASSUME "intLong" \notin Faults, NEW toks \in Seq(Toks), Clean(Append(toks, "long"))
    PROVE  Count(toks, "int") = 0
<1> DEFINE l == Append(toks, "long")
<1>1. \A k, j \in DOMAIN l : k < j => ~(l[k] = "int" /\ l[j] = "long")
  BY DEF Clean
<1>2. Len(toks) + 1 \in DOMAIN l /\ l[Len(toks) + 1] = "long"
  OBVIOUS
<1>3. \A k \in DOMAIN toks : k \in DOMAIN l /\ k < Len(toks) + 1 /\ l[k] = toks[k]
  OBVIOUS
<1> HIDE DEF l
<1>4. \A k \in DOMAIN toks : toks[k] # "int"
  BY <1>1, <1>2, <1>3
<1>5. QED
  BY <1>4, CountZero

\* Without a sign, a list that goes on with a size had an int, or the size is int:
\* C knows no other.
LEMMA UnsignedGoesOn ==
    ASSUME "longLong" \notin Faults, "intLong" \notin Faults,
           NEW toks \in Seq(Toks), toks # << >>, NEW tok \in Sizes,
           IsC(Append(toks, tok)), Clean(Append(toks, tok)),
           Count(toks, "signed") + Count(toks, "unsigned") = 0
    PROVE  \/ tok = "int"
           \/ tok = "short" /\ Count(toks, "int") = 1 /\ Count(toks, "long") = 0
<1> DEFINE n(x) == Count(toks, x)
           m(x) == Count(Append(toks, tok), x)
<1>1. \A x : n(x) \in Nat /\ m(x) = n(x) + (IF x = tok THEN 1 ELSE 0)
  <2>1. tok \in Toks
    BY DEF Toks
  <2>2. QED
    BY <2>1, CountAppend
<1>2. PICK x \in Toks : n(x) # 0
  BY CountSome
<1>3. n("signed") = 0 /\ n("unsigned") = 0
  <2>1. n("signed") \in Nat /\ n("unsigned") \in Nat
    BY <1>1
  <2>2. n("signed") + n("unsigned") = 0
    OBVIOUS
  <2> HIDE DEF n
  <2>3. QED
    BY <2>1, <2>2
<1>4. x \in Sizes /\ n(x) > 0
  <2>1. x # "signed" /\ x # "unsigned"
    BY <1>2, <1>3
  <2>2. n(x) \in Nat
    BY <1>1
  <2> HIDE DEF n
  <2>3. QED
    BY <1>2, <2>1, <2>2 DEF Toks, Signs
<1>5. IsC(toks)
  BY IsCPrefix DEF Toks
<1>6. CASE tok = "long"
  <2>1. m("long") = n("long") + 1 /\ m("char") = n("char") /\ m("short") = n("short")
        /\ m("signed") + m("unsigned") = 0
    <3>1. /\ m("long") = n("long") + 1 /\ m("char") = n("char") + 0 /\ m("short") = n("short") + 0
          /\ m("signed") = n("signed") + 0 /\ m("unsigned") = n("unsigned") + 0
      BY <1>1, <1>6
    <3>2. n("char") \in Nat /\ n("short") \in Nat
      BY <1>1
    <3> HIDE DEF n, m
    <3>3. QED
      BY <1>3, <3>1, <3>2
  <2>2. m("long") # 2
    BY <2>1 DEF Clean
  <2>3. n("long") = 0 /\ n("char") = 0 /\ n("short") = 0
    <3>1. m("long") <= 2 /\ (m("long") > 0 => m("short") + m("char") = 0)
      BY DEF IsC
    <3>2. n("long") \in Nat /\ n("char") \in Nat /\ n("short") \in Nat
      BY <1>1
    <3> HIDE DEF n, m
    <3>3. QED
      BY <2>1, <2>2, <3>1, <3>2
  <2>4. n("int") = 0
    BY <1>6, NoIntBefore
  <2>5. QED
    BY <1>4, <2>3, <2>4 DEF Sizes
<1>7. CASE tok \in {"short", "char"}
  <2>1. m(tok) = n(tok) + 1 /\ \A y \in Sizes : y # tok => m(y) = n(y)
    BY <1>1, <1>7
  <2>2. /\ m("char") + m("short") + m("int") <= 1 \/ (m("short") = 1 /\ m("int") = 1 /\ m("char") = 0)
        /\ m("long") > 0 => m("short") + m("char") = 0
    BY DEF IsC
  <2>3. /\ n("short") \in Nat /\ n("char") \in Nat /\ n("int") \in Nat /\ n("long") \in Nat
    BY <1>1
  <2>4. CASE tok = "short"
    <3>1. m("short") = n("short") + 1 /\ m("char") = n("char") /\ m("int") = n("int")
          /\ m("long") = n("long")
      BY <1>1, <2>4
    <3> HIDE DEF n, m
    <3>2. n("long") = 0 /\ n("char") = 0 /\ n("short") = 0 /\ n("int") <= 1
      BY <2>2, <2>3, <3>1
    <3>3. QED
      BY <1>4, <2>3, <2>4, <3>2 DEF Sizes, n
  <2>5. CASE tok = "char"
    <3>1. m("short") = n("short") /\ m("char") = n("char") + 1 /\ m("int") = n("int")
          /\ m("long") = n("long")
      BY <1>1, <2>5
    <3> HIDE DEF n, m
    <3>2. n("long") = 0 /\ n("char") = 0 /\ n("short") = 0 /\ n("int") = 0
      BY <2>2, <2>3, <3>1
    <3>3. QED
      BY <1>4, <3>2 DEF Sizes
  <2>6. QED
    BY <1>7, <2>4, <2>5
<1>8. QED
  BY <1>6, <1>7 DEF Sizes

LEMMA MadeGrown ==
    ASSUME def \in Defs, "longLong" \notin Faults, "intLong" \notin Faults,
           NEW toks \in Seq(Toks), toks # << >>, NEW attr \in SUBSET Attributes, NEW tok \in Toks,
           Kept(toks, attr), MadeAs(toks, attr),
           IsC(Append(toks, tok)), Clean(Append(toks, tok))
    PROVE  MadeAs(Append(toks, tok), Grown(attr, tok))
<1> DEFINE n(x) == Count(toks, x)
           m(x) == Count(Append(toks, tok), x)
<1>1. \A x : n(x) \in Nat /\ m(x) = n(x) + (IF x = tok THEN 1 ELSE 0)
  BY CountAppend
<1>2. IsC(toks)
  BY IsCPrefix
<1>3. /\ n("signed") \in Nat /\ n("unsigned") \in Nat /\ n("long") \in Nat /\ n("char") \in Nat
      /\ m("signed") \in Nat /\ m("unsigned") \in Nat /\ m("long") \in Nat
      /\ n("short") \in Nat /\ n("int") \in Nat
  BY <1>1
<1>4. /\ m("signed") + m("unsigned") <= 1 /\ m("long") <= 2
      /\ m("long") > 0 => m("short") + m("char") = 0
      /\ m("char") + m("short") + m("int") <= 1 \/ (m("short") = 1 /\ m("int") = 1 /\ m("char") = 0)
  BY DEF IsC
<1>5. CASE tok \in Signs
  <2>1. Grown(attr, tok) = (attr \ Signs) \cup {tok, "uspec"}
    BY <1>5 DEF Grown
  <2>2. /\ m("long") = n("long")
        /\ \/ tok = "signed" /\ m("signed") = 1 /\ m("unsigned") = 0
           \/ tok = "unsigned" /\ m("unsigned") = 1 /\ m("signed") = 0
    BY <1>1, <1>3, <1>4, <1>5 DEF Signs
  <2>3. \A x \in AllSizes : x \in Grown(attr, tok) <=> x \in attr
    BY <1>5, <2>1 DEF Signs, AllSizes, Sizes
  <2>4. \A x \in Signs : x \in Grown(attr, tok) <=> x = tok
    BY <1>5, <2>1 DEF Signs
  <2>5. QED
    BY <2>2, <2>3, <2>4 DEF MadeAs, AllSizes, Sizes, Signs
<1>6. CASE tok \in Sizes
  <2> DEFINE g == AddSize(attr, tok).attr
  <2>1. Grown(attr, tok) = g
    BY <1>6 DEF Grown, Signs, Sizes
  <2>2. m("signed") = n("signed") /\ m("unsigned") = n("unsigned")
    BY <1>1, <1>6 DEF Sizes
  <2>3. /\ "uspec" \in attr \/ (tok = "short" /\ "int" \in attr) =>
                    \A x \in Signs : x \in g <=> x \in attr
        /\ tok = "int" => \/ \A x \in Signs : x \in g <=> x \in attr
                          \/ "signed" \in g /\ "unsigned" \notin g
    BY <1>6, GrownSigns
  <2>4. /\ tok = "long" /\ "char" \notin attr /\ "short" \notin attr =>
                    /\ "long" \in g <=> "long" \notin attr /\ def.size # 8
                    /\ "longlong" \in g <=> "longlong" \in attr \/ "long" \in attr \/ def.size = 8
        /\ tok # "long" => \A x \in {"long", "longlong"} : x \in g <=> x \in attr
    BY <1>6, GrownLong
  <2>5. "int" \in g <=> \/ "int" \in attr
                        \/ tok = "int" /\ attr \cap {"char", "long", "longlong"} = {}
    BY <1>6, GrownHas
  <2>6. /\ "uspec" \in attr <=> n("signed") + n("unsigned") = 1
        /\ "char" \in attr <=> n("char") = 1
        /\ "short" \in attr <=> n("short") = 1
        /\ "int" \in attr => n("int") = 1
        /\ n("int") = 1 /\ n("long") = 0 => "int" \in attr
        /\ n("long") = 0 <=> "long" \notin attr /\ "longlong" \notin attr
    BY DEF Kept
  <2>7. /\ n("signed") = 1 => "signed" \in attr /\ "unsigned" \notin attr
        /\ n("unsigned") = 1 => "unsigned" \in attr /\ "signed" \notin attr
        /\ n("signed") + n("unsigned") = 0 =>
              "unsigned" \notin attr /\ ("signed" \in attr => n("char") = 0)
        /\ n("long") > 0 => "int" \notin attr
        /\ n("long") = 1 => /\ "long" \in attr <=> "longlong" \notin attr
                            /\ "longlong" \in attr => def.size = 8
        /\ n("long") = 2 => "longlong" \in attr /\ "long" \notin attr
    BY DEF MadeAs
  <2>8. n("signed") + n("unsigned") = 0 =>
           tok = "int" \/ (tok = "short" /\ n("int") = 1 /\ n("long") = 0)
    BY <1>6, UnsignedGoesOn
  <2>9. n("signed") + n("unsigned") \in {0, 1}
    BY <1>2, <1>3 DEF IsC
  <2> HIDE DEF g
  <2>10. m("char") = n("char") + (IF tok = "char" THEN 1 ELSE 0)
         /\ m("short") = n("short") + (IF tok = "short" THEN 1 ELSE 0)
         /\ m("int") = n("int") + (IF tok = "int" THEN 1 ELSE 0)
         /\ m("long") = n("long") + (IF tok = "long" THEN 1 ELSE 0)
    BY <1>1
  <2>11. tok = "long" => n("int") = 0
    BY NoIntBefore
  <2>12. (m("signed") = 1 => "signed" \in g /\ "unsigned" \notin g)
         /\ (m("unsigned") = 1 => "unsigned" \in g /\ "signed" \notin g)
         /\ (m("signed") + m("unsigned") = 0 =>
               "unsigned" \notin g /\ ("signed" \in g => m("char") = 0))
    <3>1. CASE n("signed") + n("unsigned") = 1
      <4>1. \A x \in Signs : x \in g <=> x \in attr
        BY <2>3, <2>6, <3>1
      <4> HIDE DEF n, m
      <4>2. QED
        BY <2>2, <2>7, <3>1, <4>1 DEF Signs
    <3>2. CASE n("signed") + n("unsigned") = 0 /\ tok = "int"
      <4> HIDE DEF n, m
      <4>1. n("signed") = 0 /\ n("unsigned") = 0
        BY <1>3, <3>2
      <4>2. m("int") = n("int") + 1 /\ m("char") = n("char") /\ m("short") = n("short")
        BY <1>3, <2>10, <3>2
      <4>3. m("char") = 0
        BY <1>3, <1>4, <4>2
      <4>4. "unsigned" \notin g
        BY <2>3, <2>7, <3>2 DEF Signs
      <4>5. QED
        BY <2>2, <4>1, <4>3, <4>4
    <3>3. CASE n("signed") + n("unsigned") = 0 /\ tok = "short" /\ n("int") = 1 /\ n("long") = 0
      <4> HIDE DEF n, m
      <4>1. n("signed") = 0 /\ n("unsigned") = 0
        BY <1>3, <3>3
      <4>2. m("char") = n("char")
        BY <1>3, <2>10, <3>3
      <4>3. \A x \in Signs : x \in g <=> x \in attr
        BY <2>3, <2>6, <3>3
      <4>4. QED
        BY <2>2, <2>7, <3>3, <4>1, <4>2, <4>3 DEF Signs
    <3>4. QED
      BY <2>8, <2>9, <3>1, <3>2, <3>3
  <2>13. (m("long") > 0 => "int" \notin g)
         /\ (m("long") = 1 => /\ "long" \in g <=> "longlong" \notin g
                              /\ "longlong" \in g => def.size = 8)
         /\ (m("long") = 2 => "longlong" \in g /\ "long" \notin g)
    <3>1. CASE tok = "long"
      <4> HIDE DEF n, m
      <4>1. m("long") = n("long") + 1 /\ m("char") = n("char") /\ m("short") = n("short")
        BY <1>3, <2>10, <3>1
      <4>2. n("char") = 0 /\ n("short") = 0 /\ n("int") = 0 /\ n("long") \in {0, 1}
        BY <1>3, <1>4, <2>11, <3>1, <4>1
      <4>3. "char" \notin attr /\ "short" \notin attr /\ "int" \notin attr
        BY <2>6, <4>2
      <4>4. "int" \notin g
        BY <2>5, <3>1, <4>3
      <4>5. /\ "long" \in g <=> "long" \notin attr /\ def.size # 8
            /\ "longlong" \in g <=> "longlong" \in attr \/ "long" \in attr \/ def.size = 8
        BY <2>4, <3>1, <4>3
      <4>6. CASE n("long") = 0
        <5>1. "long" \notin attr /\ "longlong" \notin attr
          BY <2>6, <4>6
        <5>2. m("long") = 1
          BY <4>1, <4>6
        <5>3. QED
          BY <4>4, <4>5, <5>1, <5>2
      <4>7. CASE n("long") = 1
        <5>1. m("long") = 2
          BY <4>1, <4>7
        <5>2. ("long" \in attr <=> "longlong" \notin attr) /\ ("longlong" \in attr => def.size = 8)
          BY <2>7, <4>7
        <5>3. QED
          BY <4>4, <4>5, <5>1, <5>2
      <4>8. QED
        BY <4>2, <4>6, <4>7
    <3>2. CASE tok # "long"
      <4> HIDE DEF n, m
      <4>1. m("long") = n("long")
        BY <1>3, <2>10, <3>2
      <4>2. n("long") > 0 => "int" \notin g
        BY <1>3, <2>5, <2>6, <2>7
      <4>3. ("long" \in g <=> "long" \in attr) /\ ("longlong" \in g <=> "longlong" \in attr)
        BY <2>4, <3>2
      <4>4. QED
        BY <2>7, <4>1, <4>2, <4>3
    <3>3. QED
      BY <3>1, <3>2
  <2>14. MadeAs(Append(toks, tok), g)
    BY <2>12, <2>13 DEF MadeAs
  <2>15. QED
    BY <2>1, <2>14
<1>7. QED
  BY <1>5, <1>6 DEF Toks

LEMMA RankIs ==
    ASSUME def \in Defs, NEW attr
    PROVE  /\ "char" \in attr => 2 ^ Rank(attr) = 1
           /\ "char" \notin attr /\ "short" \in attr => 2 ^ Rank(attr) = 2
           /\ "char" \notin attr /\ "short" \notin attr =>
                2 ^ Rank(attr) = IF "long" \in attr THEN def.size
                                 ELSE IF "longlong" \in attr /\ "int" \notin attr THEN 8 ELSE 4
<1>1. 2^0 = 1 /\ 2^1 = 2 /\ 2^2 = 4 /\ 2^3 = 8
  OBVIOUS
<1>2. /\ "char" \in attr => Rank(attr) = 0
      /\ "char" \notin attr /\ "short" \in attr => Rank(attr) = 1
      /\ "char" \notin attr /\ "short" \notin attr =>
            Rank(attr) = IF "long" \in attr THEN IF def.size = 4 THEN 2 ELSE 3
                         ELSE IF "longlong" \in attr /\ "int" \notin attr THEN 3 ELSE 2
  BY DEF Rank
<1>3. def.size = 4 \/ def.size = 8
  BY DEF Defs
<1> DEFINE r == Rank(attr)
<1> HIDE DEF r
<1>4. \A k : k = 0 => 2^k = 1
  BY <1>1
<1>5. \A k : k = 1 => 2^k = 2
  BY <1>1
<1>6. \A k : k = 2 => 2^k = 4
  BY <1>1
<1>7. \A k : k = 3 => 2^k = 8
  BY <1>1
<1>8. CASE "char" \in attr
  BY Zenon, <1>2, <1>4, <1>8
<1>9. CASE "char" \notin attr /\ "short" \in attr
  BY Zenon, <1>2, <1>5, <1>9
<1>10. CASE "char" \notin attr /\ "short" \notin attr /\ "long" \in attr
  BY Zenon, <1>2, <1>3, <1>6, <1>7, <1>10
<1>11. CASE "char" \notin attr /\ "short" \notin attr /\ "long" \notin attr
  BY Zenon, <1>2, <1>6, <1>7, <1>11
<1>12. QED
  BY Zenon, <1>8, <1>9, <1>10, <1>11

\* Once its sign is settled, what was made of a list is what C means by it.
LEMMA MadeMeans ==
    ASSUME def \in Defs, NEW toks \in Seq(Toks), toks # << >>, IsC(toks),
           NEW attr, Kept(toks, attr), MadeAs(toks, attr),
           NEW b, b = IF attr \cap Signs # {} THEN attr
                      ELSE attr \cup {IF "char" \in attr THEN def.sign ELSE "signed"}
    PROVE  Means(b, toks)
<1> DEFINE n(x) == Count(toks, x)
<1>1. \A x : n(x) \in Nat
  BY CountAppend DEF Toks, Sizes
<1>2. /\ n("char") \in Nat /\ n("short") \in Nat /\ n("int") \in Nat /\ n("long") \in Nat
      /\ n("signed") \in Nat /\ n("unsigned") \in Nat
  BY <1>1
<1>3. /\ n("signed") + n("unsigned") <= 1
      /\ n("char") + n("short") + n("int") <= 1 \/ (n("short") = 1 /\ n("int") = 1 /\ n("char") = 0)
      /\ n("long") > 0 => n("short") + n("char") = 0
      /\ n("long") <= 2
  BY DEF IsC
<1>4. /\ "uspec" \in attr <=> n("signed") + n("unsigned") = 1
      /\ "char" \in attr <=> n("char") = 1
      /\ "short" \in attr <=> n("short") = 1
      /\ "int" \in attr => n("int") = 1
      /\ n("int") = 1 /\ n("long") = 0 => "int" \in attr
      /\ n("long") = 0 <=> "long" \notin attr /\ "longlong" \notin attr
  BY DEF Kept
<1>5. /\ n("signed") = 1 => "signed" \in attr /\ "unsigned" \notin attr
      /\ n("unsigned") = 1 => "unsigned" \in attr /\ "signed" \notin attr
      /\ n("signed") + n("unsigned") = 0 =>
            "unsigned" \notin attr /\ ("signed" \in attr => n("char") = 0)
      /\ n("long") > 0 => "int" \notin attr
      /\ n("long") = 1 => /\ "long" \in attr <=> "longlong" \notin attr
                          /\ "longlong" \in attr => def.size = 8
      /\ n("long") = 2 => "longlong" \in attr /\ "long" \notin attr
  BY DEF MadeAs
<1>6. \A x : x \notin Signs => (x \in b <=> x \in attr)
  BY DEF Signs, Defs
<1>7. b \cap Signs # {}
  BY DEF Signs, Defs
<1>8. SignOfC(toks) = IF n("unsigned") > 0 THEN "unsigned"
                      ELSE IF n("char") > 0 /\ n("signed") = 0 THEN def.sign ELSE "signed"
  BY DEF SignOfC
<1>9. BytesOfC(toks) = IF n("char") > 0 THEN 1 ELSE IF n("short") > 0 THEN 2
                       ELSE IF n("long") = 2 THEN 8 ELSE IF n("long") = 1 THEN def.size ELSE 4
  <2>1. BytesOfC(toks) = CASE n("char") > 0 -> 1
                           [] n("short") > 0 -> 2
                           [] n("char") + n("short") = 0 ->
                                IF n("long") = 2 THEN 8 ELSE IF n("long") = 1 THEN def.size ELSE 4
    BY DEF BytesOfC
  <2>2. n("char") \in Nat /\ n("short") \in Nat /\ ~(n("char") > 0 /\ n("short") > 0)
    BY <1>2, <1>3
  <2> HIDE DEF n
  <2>3. QED
    BY <2>1, <2>2
<1>10. \E x \in Toks : n(x) # 0
  BY CountSome
<1>11. n("char") \in {0, 1} /\ n("short") \in {0, 1} /\ n("int") \in {0, 1} /\ n("long") \in {0, 1, 2}
  BY <1>2, <1>3
<1> HIDE DEF n
<1>12. "signed" \in b <=> SignOfC(toks) = "signed"
  <2>1. CASE n("signed") = 1 /\ n("unsigned") = 0
    BY <1>5, <1>8, <2>1 DEF Signs
  <2>2. CASE n("unsigned") = 1 /\ n("signed") = 0
    BY <1>5, <1>8, <2>2 DEF Signs
  <2>3. CASE n("signed") = 0 /\ n("unsigned") = 0
    <3>1. "unsigned" \notin attr /\ ("signed" \in attr => n("char") = 0)
      BY <1>5, <2>3
    <3>2. SignOfC(toks) = IF n("char") = 1 THEN def.sign ELSE "signed"
      BY <1>8, <1>11, <2>3
    <3>3. CASE "signed" \in attr
      BY <3>1, <3>2, <3>3 DEF Signs
    <3>4. CASE "signed" \notin attr
      <4>1. b = attr \cup {IF n("char") = 1 THEN def.sign ELSE "signed"}
        BY <1>4, <3>1, <3>4 DEF Signs
      <4>2. QED
        BY <3>2, <3>4, <4>1
    <3>5. QED
      BY <3>3, <3>4
  <2>4. QED
    BY <1>2, <1>3, <2>1, <2>2, <2>3
<1>13. 2 ^ Rank(b) = BytesOfC(toks)
  <2>1. \A x \in {"char", "short", "int", "long", "longlong"} : x \in b <=> x \in attr
    BY <1>6 DEF Signs
  <2>2. /\ "char" \in b => 2 ^ Rank(b) = 1
        /\ "char" \notin b /\ "short" \in b => 2 ^ Rank(b) = 2
        /\ "char" \notin b /\ "short" \notin b =>
             2 ^ Rank(b) = IF "long" \in b THEN def.size
                           ELSE IF "longlong" \in b /\ "int" \notin b THEN 8 ELSE 4
    BY Zenon, RankIs
  <2> DEFINE z == 2 ^ Rank(b)
  <2> HIDE DEF z
  <2>3. /\ "char" \in attr => z = 1
        /\ "char" \notin attr /\ "short" \in attr => z = 2
        /\ "char" \notin attr /\ "short" \notin attr =>
             z = IF "long" \in attr THEN def.size
                 ELSE IF "longlong" \in attr /\ "int" \notin attr THEN 8 ELSE 4
    BY Zenon, <2>1, <2>2 DEF z
  <2>4. z = BytesOfC(toks)
    <3>1. CASE n("char") = 1
      BY <1>4, <1>9, <2>3, <3>1
    <3>2. CASE n("char") = 0 /\ n("short") = 1
      BY <1>4, <1>9, <2>3, <3>2
    <3>3. CASE n("char") = 0 /\ n("short") = 0 /\ n("long") = 0
      BY <1>4, <1>9, <2>3, <3>3
    <3>4. CASE n("char") = 0 /\ n("short") = 0 /\ n("long") = 1
      BY <1>4, <1>5, <1>9, <2>3, <3>4
    <3>5. CASE n("char") = 0 /\ n("short") = 0 /\ n("long") = 2
      BY <1>4, <1>5, <1>9, <2>3, <3>5
    <3>6. QED
      BY <1>11, <3>1, <3>2, <3>3, <3>4, <3>5
  <2>5. QED
    BY Zenon, <2>4 DEF z
<1>14. b \cap AllSizes = {} => "uspec" \in b
  <2> SUFFICES ASSUME b \cap AllSizes = {} PROVE "uspec" \in b
    OBVIOUS
  <2>1. \A x \in {"char", "short", "int", "long", "longlong"} : x \notin attr
    BY <1>6 DEF Signs, AllSizes, Sizes
  <2>2. n("char") = 0 /\ n("short") = 0 /\ n("int") = 0 /\ n("long") = 0
    BY <1>4, <1>11, <2>1
  <2>3. n("signed") # 0 \/ n("unsigned") # 0
    BY <1>10, <2>2 DEF Toks, Sizes, Signs
  <2>4. n("signed") + n("unsigned") = 1
    BY <1>2, <1>3, <2>3
  <2>5. QED
    BY <1>4, <1>6, <2>4 DEF Signs
<1>15. QED
  BY <1>7, <1>12, <1>13, <1>14 DEF Means

\* A type that means what C does goes on doing so once its size is settled.
LEMMA MeansSettled ==
    ASSUME def \in Defs, NEW toks, NEW attr, Means(attr, toks)
    PROVE  Means(Settled(attr), toks)
<1>1. CASE attr \cap AllSizes # {}
  BY <1>1 DEF Settled, Means
<1>2. CASE attr \cap AllSizes = {}
  <2> DEFINE g == attr \cup {"int"}
  <2>1. Settled(attr) = g
    BY <1>2 DEF Settled, Means, set_base_sign
  <2>2. Rank(g) = Rank(attr)
    BY <1>2 DEF Rank, AllSizes, Sizes
  <2>3. /\ attr \cap Signs # {} => g \cap Signs # {}
        /\ "signed" \in g <=> "signed" \in attr
        /\ "uspec" \in attr => "uspec" \in g
    OBVIOUS
  <2>4. 2 ^ Rank(g) = 2 ^ Rank(attr)
    BY Zenon, <2>2
  <2> HIDE DEF g
  <2>5. Means(g, toks)
    <3>1. "uspec" \in attr
      BY Zenon, <1>2 DEF Means
    <3>2. QED
      BY Zenon, <2>3, <2>4, <3>1 DEF Means
  <2>6. QED
    BY Zenon, <2>1, <2>5
<1>3. QED
  BY <1>1, <1>2

\* Such a type is the one that C gives.
LEMMA MeansTyped ==
    ASSUME def \in Defs, NEW toks, NEW ty, Good(ty), Means(ty.attr, toks)
    PROVE  Typed(ty, toks, ty.ref)
<1> DEFINE a == ty.attr
           r == Rank(a)
           z == 2 ^ r
<1>1. r \in 0..3 /\ \A q \in 0..3 : 2 ^ q = z => q = r
  BY Zenon, Ranks
<1>2. z = BytesOfC(toks)
  BY Zenon DEF Means
<1>3. (CHOOSE q \in 0..3 : 2 ^ q = BytesOfC(toks)) = r
  <2> HIDE DEF r
  <2>1. 2 ^ r = BytesOfC(toks) /\ \A q \in 0..3 : 2 ^ q = BytesOfC(toks) => q = r
    BY Zenon, <1>1, <1>2
  <2> DEFINE P(q) == 2 ^ q = BytesOfC(toks)
  <2>2. P(r) /\ \A q \in 0..3 : P(q) => q = r
    BY Zenon, <2>1
  <2> HIDE DEF P
  <2>3. (CHOOSE q \in 0..3 : P(q)) = r
    BY <1>1, <2>2
  <2>4. QED
    BY Zenon, <2>3 DEF P
<1>4. Unsigned(a) <=> SignOfC(toks) # "signed"
  BY DEF Means, Unsigned, Good, OneSign, Signs
<1>5. ty.idx = 2 * r + (IF Unsigned(a) THEN 1 ELSE 0) /\ ty.size = z
  BY Zenon DEF Good
<1> HIDE DEF r, z
<1>6. ty.idx = IndexOfC(toks)
  BY <1>3, <1>4, <1>5 DEF IndexOfC
<1>7. ty.size = BytesOfC(toks)
  BY Zenon, <1>2, <1>5
<1>8. "signed" \in ty.attr <=> SignOfC(toks) = "signed"
  BY Zenon DEF Means
<1>9. /\ ty.type = IF ty.ref = 0 THEN "base" ELSE "ref"
      /\ ty.ref > 0 => ty.rtype = "base"
  BY GoodHas
<1>10. QED
  BY Zenon, <1>6, <1>7, <1>8, <1>9 DEF Typed

-----------------------------------------------------------------------------
(* Variables have the types that C gives them.                              *)

NoFaults == Faults \cap {"longLong", "intLong", "pointer", "pointerTypedef"} = {}

KnownMade == t # None /\ ~read.named /\ IsC(read.toks) => MadeAs(read.toks, t.attr)
TdefMeans == tdef # None => /\ tdef.ref = read.of.ref
                            /\ IsC(read.of.toks) => Means(tdef.attr, read.of.toks)
VarsMean == \A n \in DOMAIN vars : /\ vars[n].t.ref = vars[n].ref
                                   /\ IsC(vars[n].toks) => Means(vars[n].t.attr, vars[n].toks)
CInv == KnownMade /\ TdefMeans /\ VarsMean

LEMMA MeaningStays ==
    ASSUME def' = def
    PROVE  /\ \A attr, toks : MadeAs(toks, attr)' <=> MadeAs(toks, attr)
           /\ \A attr, toks : Means(attr, toks)' <=> Means(attr, toks)
<1>1. \A attr, toks : MadeAs(toks, attr)' <=> MadeAs(toks, attr)
  BY DEF MadeAs, Count
<1>2. \A attr : Rank(attr)' = Rank(attr)
  BY DEF Rank
<1>3. \A toks : SignOfC(toks)' = SignOfC(toks) /\ BytesOfC(toks)' = BytesOfC(toks)
  BY DEF SignOfC, BytesOfC, Count
<1>4. \A attr, toks : Means(attr, toks)' <=> Means(attr, toks)
  BY Zenon, <1>2, <1>3 DEF Means
<1>5. QED
  BY <1>1, <1>4

LEMMA IsCStays == \A toks : IsC(toks)' <=> IsC(toks)
BY DEF IsC, Count

LEMMA InitCInv == Init => CInv
BY DEF Init, CInv, KnownMade, TdefMeans, VarsMean

LEMMA BtypeCInv == ASSUME NoFaults, DInv, CInv, btype PROVE CInv'
<1>1. /\ Reading /\ tdef = None /\ read.stars = 0 /\ vars' = << >>
      /\ def' = def /\ tdef' = tdef
  BY DEF btype
<1>2. PICK tok \in Sizes \cup Signs :
        /\ Clean(Append(read.toks, tok))
        /\ LET r == IF t = None THEN [t |-> eppic_newbtype(tok), said |-> "ok"] ELSE eppic_addbtype(t, tok)
           IN  t' = r.t /\ said' = Worst(r.said)
        /\ read' = [read EXCEPT !.toks = Append(@, tok)]
  BY DEF btype
<1> DEFINE r == IF t = None THEN [t |-> eppic_newbtype(tok), said |-> "ok"] ELSE eppic_addbtype(t, tok)
<1>3. t' = r.t /\ tok \in Toks
  BY <1>2 DEF Toks
<1>4. /\ t = None => r.t.attr = IF tok \in Signs THEN {tok, "uspec"} ELSE {tok}
      /\ t # None => r.t.attr = Grown(t.attr, tok)
  BY <1>1, <1>3, BtypeIs
<1> HIDE DEF r
<1>5. ~read.named /\ read.toks \in Seq(Toks) /\ (t = None <=> read.toks = << >>)
  BY <1>1 DEF DInv, ReadOK
<1>6. read'.toks = Append(read.toks, tok)
  BY <1>2 DEF DInv, ReadOK
<1>7. KnownMade'
  <2> SUFFICES ASSUME IsC(read.toks)' PROVE MadeAs(read.toks, t.attr)'
    BY DEF KnownMade
  <2>1. IsC(Append(read.toks, tok))
    BY <1>6, IsCStays
  <2>2. MadeAs(Append(read.toks, tok), r.t.attr)
    <3>1. CASE t = None
      <4>1. Append(read.toks, tok) = <<tok>>
        <5>1. \A x : Append(<< >>, x) = <<x>>
          OBVIOUS
        <5>2. QED
          BY Zenon, <1>5, <3>1, <5>1
      <4>2. QED
        BY <1>3, <1>4, <3>1, <4>1, MadeNew
    <3>2. CASE t # None
      <4>1. IsC(read.toks)
        BY <1>3, <1>5, <2>1, IsCPrefix
      <4>2. Kept(read.toks, t.attr) /\ MadeAs(read.toks, t.attr) /\ Good(t) /\ read.toks # << >>
        BY <1>5, <3>2, <4>1 DEF DInv, CInv, KnownKept, KnownMade, GoodTypes
      <4>3. t.attr \in SUBSET Attributes
        BY <4>2, GoodHas DEF DInv
      <4>4. "longLong" \notin Faults /\ "intLong" \notin Faults
        BY DEF NoFaults
      <4>5. MadeAs(Append(read.toks, tok), Grown(t.attr, tok))
        BY <1>2, <1>3, <1>5, <2>1, <4>2, <4>3, <4>4, MadeGrown DEF DInv
      <4>6. QED
        BY <1>4, <3>2, <4>5
    <3>3. QED
      BY <3>1, <3>2
  <2>3. QED
    BY <1>1, <1>3, <1>6, <2>2, MeaningStays
<1>8. QED
  BY <1>1, <1>7 DEF CInv, TdefMeans, VarsMean

LEMMA TypedefNameCInv == ASSUME DInv, CInv, typedef_name PROVE CInv'
<1>1. vars' = << >> /\ def' = def /\ tdef' = tdef
  BY DEF typedef_name
<1>2. read'.named /\ read'.of = read.of
  BY DEF typedef_name, DInv, ReadOK
<1>3. TdefMeans'
  BY <1>1, <1>2, IsCStays, MeaningStays DEF CInv, TdefMeans
<1>4. QED
  BY <1>1, <1>2, <1>3 DEF CInv, KnownMade, VarsMean

LEMMA PTRCInv == ASSUME DInv, CInv, PTR PROVE CInv'
<1>1. t # None /\ def' = def /\ tdef' = tdef /\ vars' = vars
  BY DEF PTR
<1>2. PICK n \in 1..MaxRef :
        /\ t' = eppic_pushref(t, n)
        /\ read' = [read EXCEPT !.stars = n]
  BY DEF PTR
<1>3. n \in Nat \ {0} /\ Good(t)
  BY <1>1, DeclAssumption DEF DInv, GoodTypes
<1>4. t'.attr = t.attr
  <2> DEFINE s == eppic_pushref(t, n)
  <2>1. Good(s) /\ s.attr = t.attr /\ s.ref = t.ref + n
    BY Zenon, <1>3, PushrefAdds DEF DInv
  <2> HIDE DEF s
  <2>2. QED
    BY <1>2, <2>1 DEF s
<1>5. read'.named = read.named /\ read'.toks = read.toks /\ read'.of = read.of
  BY <1>2 DEF DInv, ReadOK
<1>6. KnownMade'
  BY <1>1, <1>4, <1>5, IsCStays, MeaningStays DEF CInv, KnownMade
<1>7. TdefMeans' /\ VarsMean'
  BY <1>1, <1>5, IsCStays, MeaningStays DEF CInv, TdefMeans, VarsMean
<1>8. QED
  BY <1>6, <1>7 DEF CInv

\* What a declarator gets.
LEMMA DeclaredMeans ==
    ASSUME NoFaults, DInv, CInv, t # None, NEW refs \in Seq(Nat), refs # << >>,
           MayDeclare(refs), NEW n \in DOMAIN refs
    PROVE  LET s == Declared(t, refs)[n]
           IN  /\ s.ref = RefOfC(refs, n)
               /\ IsC(Specs) => Means(s.attr, Specs)
<1> DEFINE s == Declared(t, refs)[n]
<1>1. Good(t) /\ t.ref \in Nat /\ refs[1] \in Nat /\ refs[n] \in Nat
  BY GoodHas DEF DInv, GoodTypes
<1>2. /\ s.ref = IF n = 1 THEN refs[1] + t.ref ELSE refs[n]
      /\ s.attr = IF refs[1] + t.ref = 0 THEN Settled(t.attr) ELSE t.attr
  BY <1>1, DeclaredIs DEF DInv
<1>3. read.stars \in Nat /\ n \in Nat /\ Len(refs) \in Nat /\ n \in 1..Len(refs)
  BY DEF DInv, ReadOK
<1> HIDE DEF s
<1>4. s.ref = RefOfC(refs, n)
  <2>1. CASE read.named
    <3>1. tdef # None /\ t.ref = tdef.ref + read.stars /\ tdef.ref = read.of.ref
      BY <2>1 DEF DInv, ReadOK, CInv, TdefMeans
    <3>2. tdef.ref \in Nat /\ Behind = tdef.ref
      BY <2>1, <3>1, GoodHas DEF DInv, GoodTypes, Behind
    <3>3. n # 1 => tdef.ref = 0
      BY <1>3, <2>1 DEF MayDeclare, NoFaults
    <3>4. QED
      BY <1>1, <1>2, <1>3, <3>1, <3>2, <3>3 DEF RefOfC
  <2>2. CASE ~read.named
    <3>1. t.ref = read.stars /\ Behind = 0
      BY <2>2 DEF DInv, ReadOK, Behind
    <3>2. RefOfC(refs, n) = refs[n] + (IF n = 1 THEN read.stars ELSE 0)
      BY <1>1, <3>1 DEF RefOfC
    <3>3. CASE n = 1
      BY <1>1, <1>2, <1>3, <3>1, <3>2, <3>3
    <3>4. CASE n # 1
      BY <1>1, <1>2, <3>2, <3>4
    <3>5. QED
      BY <3>3, <3>4
  <2>3. QED
    BY <2>1, <2>2
<1>5. ASSUME IsC(Specs) PROVE Means(s.attr, Specs)
  <2>1. CASE read.named
    <3>1. Specs = read.of.toks /\ t.attr = tdef.attr /\ tdef # None
      BY <2>1 DEF Specs, DInv, ReadOK
    <3>2. Means(t.attr, Specs)
      BY <1>5, <3>1 DEF CInv, TdefMeans
    <3>3. Means(Settled(t.attr), Specs)
      BY <3>2, MeansSettled DEF DInv
    <3>4. QED
      BY <1>2, <3>2, <3>3
  <2>2. CASE ~read.named
    <3> DEFINE b == IF t.attr \cap Signs # {} THEN t.attr
                    ELSE t.attr \cup {IF "char" \in t.attr THEN def.sign ELSE "signed"}
    <3>1. Specs = read.toks /\ read.toks \in Seq(Toks) /\ read.toks # << >>
      BY <2>2 DEF Specs, DInv, ReadOK
    <3>2. Kept(read.toks, t.attr) /\ MadeAs(read.toks, t.attr)
      BY <1>5, <2>2, <3>1 DEF DInv, KnownKept, CInv, KnownMade
    <3>3. Settled(b) = Settled(t.attr)
      BY DEF Settled, Signs, Defs, DInv
    <3>4. refs[1] + t.ref # 0 => b = t.attr
      BY <1>1, <1>3 DEF MayDeclare, NoFaults, Signed
    <3> HIDE DEF b
    <3>5. Means(b, Specs)
      BY <1>5, <3>1, <3>2, MadeMeans DEF DInv, b
    <3>6. Means(Settled(b), Specs)
      BY <3>5, MeansSettled DEF DInv
    <3>7. QED
      BY <1>2, <3>3, <3>4, <3>5, <3>6
  <2>3. QED
    BY <2>1, <2>2
<1>6. QED
  BY <1>4, <1>5 DEF s

LEMMA VardeclCInv == ASSUME NoFaults, DInv, CInv, eppic_vardecl PROVE CInv'
<1>1. t # None /\ t' = None /\ def' = def /\ tdef' = tdef
  BY DEF eppic_vardecl
<1>2. PICK refs \in Declarators :
        /\ MayDeclare(refs)
        /\ vars' = [n \in DOMAIN refs |->
                    [t |-> Declared(t, refs)[n], toks |-> Specs, ref |-> RefOfC(refs, n), said |-> said]]
  BY DEF eppic_vardecl
<1>3. refs \in Seq(Nat) /\ refs # << >>
  BY DeclaratorsAre
<1>4. read'.of = read.of
  BY DEF eppic_vardecl, DInv, ReadOK
<1>5. DOMAIN vars' = DOMAIN refs
      /\ \A n \in DOMAIN refs : /\ vars'[n].t = Declared(t, refs)[n]
                                /\ vars'[n].toks = Specs /\ vars'[n].ref = RefOfC(refs, n)
  BY <1>2
<1>6. VarsMean'
  <2>1. ASSUME NEW n \in DOMAIN refs
        PROVE  /\ vars'[n].t.ref = vars'[n].ref
               /\ IsC(vars'[n].toks) => Means(vars'[n].t.attr, vars'[n].toks)
    <3> DEFINE s == Declared(t, refs)[n]
    <3>1. s.ref = RefOfC(refs, n) /\ (IsC(Specs) => Means(s.attr, Specs))
      BY <1>1, <1>2, <1>3, DeclaredMeans
    <3> HIDE DEF s
    <3>2. QED
      BY <1>5, <3>1 DEF s
  <2>2. QED
    BY <1>1, <1>5, <2>1, IsCStays, MeaningStays DEF VarsMean
<1>7. TdefMeans'
  BY <1>1, <1>4, IsCStays, MeaningStays DEF CInv, TdefMeans
<1>8. QED
  BY <1>1, <1>6, <1>7 DEF CInv, KnownMade

LEMMA TdefDeclCInv == ASSUME NoFaults, DInv, CInv, eppic_tdef_decl PROVE CInv'
<1>1. t # None /\ t' = None /\ def' = def /\ vars' = << >>
  BY DEF eppic_tdef_decl
<1>2. PICK ref \in 0..MaxRef :
        /\ MayDeclare(<<ref>>)
        /\ tdef' = Declared(t, <<ref>>)[1]
        /\ read' = [toks |-> << >>, stars |-> 0, named |-> FALSE,
                    of |-> [toks |-> Specs, ref |-> RefOfC(<<ref>>, 1), said |-> said]]
  BY DEF eppic_tdef_decl
<1>3. <<ref>> \in Seq(Nat) /\ <<ref>> # << >> /\ 1 \in DOMAIN <<ref>>
  BY DeclAssumption
<1> DEFINE s == Declared(t, <<ref>>)[1]
<1>4. s.ref = RefOfC(<<ref>>, 1) /\ (IsC(Specs) => Means(s.attr, Specs))
  BY <1>1, <1>2, <1>3, DeclaredMeans
<1>5. tdef' = s /\ read'.of.ref = RefOfC(<<ref>>, 1) /\ read'.of.toks = Specs
  BY <1>2
<1> HIDE DEF s
<1>6. TdefMeans'
  BY <1>1, <1>4, <1>5, IsCStays, MeaningStays DEF TdefMeans
<1>7. QED
  BY <1>1, <1>6 DEF CInv, KnownMade, VarsMean

LEMMA NextCInv == ASSUME NoFaults, DInv, CInv, [Next]_vars_ PROVE CInv'
<1>1. CASE UNCHANGED vars_
  <2>1. def' = def /\ t' = t /\ tdef' = tdef /\ vars' = vars /\ read' = read
    BY <1>1 DEF vars_
  <2>2. QED
    BY <2>1, IsCStays, MeaningStays DEF CInv, KnownMade, TdefMeans, VarsMean
<1>2. QED
  BY <1>1, BtypeCInv, TypedefNameCInv, PTRCInv, VardeclCInv, TdefDeclCInv DEF Next

LEMMA CInvDeclaredAsC == DInv /\ CInv => DeclaredAsC
<1> SUFFICES ASSUME DInv, CInv, NEW n \in DOMAIN vars, IsC(vars[n].toks)
             PROVE  Typed(vars[n].t, vars[n].toks, vars[n].ref)
  BY DEF DeclaredAsC
<1>1. Good(vars[n].t) /\ vars[n].t.ref = vars[n].ref /\ Means(vars[n].t.attr, vars[n].toks)
  BY DEF DInv, GoodTypes, CInv, VarsMean
<1>2. Typed(vars[n].t, vars[n].toks, vars[n].t.ref)
  BY <1>1, MeansTyped DEF DInv
<1>3. QED
  BY <1>1, <1>2

(***************************************************************************)
(* Every variable has the size, the sign and the levels of reference that C   *)
(* gives it, its attributes agreeing with its index, for lists of specifiers  *)
(* and declarators of any length, on images of both word sizes, as long as    *)
(* the four kinds of declarations that the code gets wrong are left out       *)
(* (eppic_addbtype, eppic_vardecl, eppic_pushref, eppic_popref).              *)
(***************************************************************************)
THEOREM VariablesAreAsDeclared ==
    ASSUME Faults \cap {"longLong", "intLong", "pointer", "pointerTypedef"} = {}
    PROVE  Spec => []DeclaredAsC
<1>1. DInv /\ CInv /\ [Next]_vars_ => CInv'
  BY NextCInv DEF NoFaults
<1>2. QED
  BY <1>1, InitDInv, NextDInv, InitCInv, CInvDeclaredAsC, PTL DEF Spec

=============================================================================
