-------------------------------- MODULE EppicExpr --------------------------------
(***************************************************************************)
(* Evaluation of the expressions of a script over numbers: eppic_exeop over    *)
(* the values of EppicValue.  `cur' is the value of the expression so far, an   *)
(* action applies one more operator to it and to a variable; next to it `spec'   *)
(* has the value and the type that C gives the same expression, and `cvars' what  *)
(* C would have in the variables.                                            *)
(*                                                                         *)
(* Faults names the uses that are not those of C:                            *)
(*   narrow     operands below int are not promoted                          *)
(*   operand    the type of a condition is not int, that of a shift not that   *)
(*              of its left operand                                          *)
(*   computed   what is computed has the sign of the image's default type     *)
(*              where it is converted, or negated                            *)
(*   negation   - makes an unsigned number signed                            *)
(*   flip       ~ of a number wider than a word                              *)
(*   suffix     the suffixes of a constant are lost                          *)
(*   strings    <= and >= of strings are < and >                             *)
(*   default    a default before case 0 is taken for it                      *)
(*   overflow   the smallest number of a type, divided by -1, is not looked for  *)
(* A shift by a number of bits that its type does not have means nothing in C,   *)
(* and is not in the model.                                                   *)
(***************************************************************************)
EXTENDS EppicValue

CONSTANTS Vars,       \* names of variables
          DeclTypes,  \* the types they may be declared with
          Numbers,    \* numbers: of constants, and the first of variables
          CaseLists,  \* switch statements: sequences of sets of labels
          Strings,    \* strings, as numbers in the order of strcmp
          MaxOps,     \* bound: the first operand and the operators of an expression
          MaxStmts,   \* bound: expressions
          Faults,
          None

ASSUME ExprAssumption == None \notin Vars /\ \A cl \in CaseLists : \A n \in DOMAIN cl : cl[n] # {}

VARIABLES vars,   \* variable -> value
          cur,    \* the value so far, or None
          spec,   \* what C makes of the same expression: type and number
          cvars,  \* what C has in the variables
          end,    \* "run", "error": reported, "trap": the machine stops
          ops, stmts
vars_ == <<vars, cur, spec, cvars, end, ops, stmts>>

C(idx, n) == [idx |-> idx, n |-> n]

Init == /\ \E ty \in [Vars -> DeclTypes], n \in [Vars -> Numbers] :
                /\ cvars = [x \in Vars |-> C(ty[x], Conv(n[x], ty[x]))]
                /\ vars = [x \in Vars |-> Base(ty[x], ty[x], Low(n[x], Bytes(ty[x])))]
        /\ cur = None /\ spec = None /\ end = "run" /\ ops = 0 /\ stmts = 0

-----------------------------------------------------------------------------
(* Where the interpreter computes as C does.                                *)

But(fault, asC) == fault \in Faults \/ asC
SameType(v, c) == But("operand", v.idx = c.idx)
Wide(v) == But("narrow", v.idx >= IntIdx)
\* The two signs a value has agree, or do not matter for a number like this.
Kept(v, size) ==
    But("computed", \/ v.size >= size
                    \/ IsSigned(v.attr) <=> IsSigned(v.idx)
                    \/ Low(Number(v), v.size) < Pow(v.size) \div 2)
Defined(op, c, d) ==
    /\ ~Undefined(op, c.idx, d.n)
    /\ But("overflow", Traps(op, c.n, c.idx, d.n, d.idx) => Conv(d.n, Common(c.idx, d.idx)) = 0)

Running == end = "run"
Starts == Running /\ cur = None /\ stmts < MaxStmts
Goes == Running /\ cur # None /\ ops < MaxOps
Becomes(v, c) == cur' = v /\ spec' = c /\ ops' = ops + 1
Pure == UNCHANGED <<vars, cvars, end, stmts>>

-----------------------------------------------------------------------------
(* Operands: eppic_exevar clones the value of a variable.                   *)

eppic_exevar(x) ==
    /\ Starts /\ Becomes(vars[x], cvars[x]) /\ Pure
eppic_exenumber(n, u, ll) ==
    LET type == eppic_newnum(u, ll)
        v == eppic_exenum(type, n)
    IN  /\ Starts /\ But("suffix", v.idx = type)
        /\ Becomes(v, C(type, n)) /\ Pure

-----------------------------------------------------------------------------
(* Operators.                                                               *)

COperate(op, c, d) == C(ResultType(op, c.idx, d.idx), COp(op, c.n, c.idx, d.n, d.idx))
Operate(op, v1, v2) == IF op \in Relations THEN eppic_docomp(op, v1, v2) ELSE eppic_baseop(op, v1, v2, eppic_newval)

Fails(op, v1, v2) == ByZero(op, v2) \/ Traps(op, Number(v1), v1.idx, Number(v2), v2.idx)
Fail(op, v2) ==
    /\ end' = (IF ByZero(op, v2) THEN "error" ELSE "trap")
    /\ UNCHANGED <<vars, cvars, cur, spec, ops, stmts>>

Binary(op, v1, c1, v2, c2) ==
    /\ Goes /\ SameType(v1, c1) /\ SameType(v2, c2) /\ Defined(op, c1, c2)
    /\ op \in Relations \/ Wide(Higher(v1, v2))
    /\ op \in Shifts => But("operand", IsSigned(Promoted(v1.idx)) => IsSigned(Higher(v1, v2).idx))
    /\ \/ Fails(op, v1, v2) /\ Fail(op, v2)
       \/ ~Fails(op, v1, v2) /\ Becomes(Operate(op, v1, v2), COperate(op, c1, c2)) /\ Pure
BinaryOp == \E op \in Arithmetic \cup Shifts \cup Relations, x \in Vars :
                \/ Binary(op, cur, spec, vars[x], cvars[x])
                \/ Binary(op, vars[x], cvars[x], cur, spec)

Negate ==
    /\ Goes /\ SameType(cur, spec) /\ Wide(cur)
    /\ But("negation", IsSigned(cur.idx)) /\ But("computed", cur.attr = cur.idx)
    /\ Becomes(UMINUS(cur), COperate("SUB", C(IntIdx, 0), spec)) /\ Pure
Flip ==
    /\ Goes /\ SameType(cur, spec) /\ Wide(cur) /\ But("flip", cur.size <= DefSize)
    /\ Becomes(FLIP(cur), COperate("XOR", C(IntIdx, -1), spec)) /\ Pure

\* Conditions: the result is of the default type, and that of C is an int.
Condition(p, q) == Becomes(eppic_makebtype(Truth(p)), C(IntIdx, Truth(q))) /\ Pure
NOT == Goes /\ Condition(~eppic_bool(cur), spec.n = 0)
AndOr == /\ Goes
         /\ \E x \in Vars :
                \/ Condition(eppic_bool(cur) /\ eppic_bool(vars[x]), spec.n # 0 /\ cvars[x].n # 0)
                \/ Condition(eppic_bool(cur) \/ eppic_bool(vars[x]), spec.n # 0 \/ cvars[x].n # 0)
Choice == \* cur ? x : y
    /\ Goes
    /\ \E x, y \in Vars :
        /\ Kept(vars[x], 8) /\ But("operand", vars[x].idx = vars[y].idx)
        /\ Becomes(IF eppic_bool(cur) THEN vars[x] ELSE vars[y], IF spec.n # 0 THEN cvars[x] ELSE cvars[y])
        /\ Pure

CStrings(op, s, r) == COp(op, s, IntIdx, r, IntIdx)
NotStrings == \* !(s op r)
    /\ Starts
    /\ \E op \in Relations, s, r \in Strings :
        /\ But("strings", op \in {"LE", "GE"} => s # r)
        /\ Condition(~eppic_bool(eppic_docomp_str(op, s, r)), CStrings(op, s, r) = 0)

Cast ==
    /\ Goes
    /\ \E to \in Indices, v \in {eppic_newval} \cup {vars[x] : x \in Vars} :
        /\ Kept(cur, Bytes(to))
        /\ cur' \in eppic_execast(cur, Base(to, to, 0))
        /\ spec' = C(to, Conv(spec.n, to)) /\ ops' = ops + 1 /\ Pure

-----------------------------------------------------------------------------
(* Assignments.                                                             *)

\* v is assigned to x: the value of the whole is what x is then.
AssignTo(x, v, c) ==
    /\ Kept(v, vars[x].size)
    /\ \E w \in eppic_chkandconvert(vars[x], v) : vars' = [vars EXCEPT ![x] = w] /\ cur' = w
    /\ cvars' = [cvars EXCEPT ![x].n = Conv(c.n, cvars[x].idx)]
\* x = cur
Assign(x) ==
    /\ Goes /\ AssignTo(x, cur, spec)
    /\ spec' = cvars'[x] /\ ops' = ops + 1 /\ UNCHANGED <<end, stmts>>
\* x op= cur: getop, the operation, and the assignment.
AssignOp(op, x) ==
    /\ Goes /\ SameType(cur, spec) /\ Defined(op, cvars[x], spec)
    /\ \/ Fails(op, vars[x], cur) /\ Fail(op, cur)
       \/ /\ ~Fails(op, vars[x], cur)
          /\ AssignTo(x, Operate(op, vars[x], cur), COperate(op, cvars[x], spec))
          /\ spec' = cvars'[x] /\ ops' = ops + 1 /\ UNCHANGED <<end, stmts>>
\* ++x, --x, x++ and x--: eppic_setfct stores the number with its type.
Step(x, by, post) ==
    LET new == eppic_transfer(vars[x], unival(vars[x]) + by)
        c == C(cvars[x].idx, Conv(cvars[x].n + by, cvars[x].idx))
    IN  /\ Starts
        /\ vars' = [vars EXCEPT ![x] = new] /\ cvars' = [cvars EXCEPT ![x] = c]
        /\ cur' = IF post THEN eppic_transfer(new, unival(vars[x])) ELSE new
        /\ spec' = IF post THEN cvars[x] ELSE c
        /\ ops' = ops + 1 /\ UNCHANGED <<end, stmts>>

EndStatement ==
    /\ Running /\ cur # None
    /\ cur' = None /\ spec' = None /\ ops' = 0 /\ stmts' = stmts + 1
    /\ UNCHANGED <<vars, cvars, end>>

Next == \/ \E x \in Vars : eppic_exevar(x) \/ Assign(x)
        \/ \E n \in Numbers, u, ll \in BOOLEAN : n >= 0 /\ eppic_exenumber(n, u, ll)
        \/ BinaryOp \/ Negate \/ Flip \/ NOT \/ AndOr \/ Choice \/ NotStrings \/ Cast
        \/ \E op \in Arithmetic \cup Shifts, x \in Vars : AssignOp(op, x)
        \/ \E x \in Vars, by \in {1, -1}, post \in BOOLEAN : Step(x, by, post)
        \/ EndStatement
Spec == Init /\ [][Next]_vars_

-----------------------------------------------------------------------------
Values == [type : {"base"}, ref : {0}, idx : Indices, size : {1, 2, 4, 8}, attr : Indices, void : {FALSE},
           raw : 0 .. Pow(8) - 1]

\* Variables and what is computed are values of eight indices, whose bytes are those of
\* the union (value_t).
TypeOK ==
    /\ \A x \in Vars : vars[x] \in Values
    /\ cur \in Values \cup {None}
    /\ end \in {"run", "error", "trap"}

(***************************************************************************)
(* An expression has the value that C gives it: README, "All standard C      *)
(* operators are supported for interger types" (eppic_exeop, eppic_baseop,     *)
(* eppic_transval); and it is true where that is not 0 (eppic_bool).          *)
(***************************************************************************)
ValueIsC == cur # None => Number(cur) = spec.n /\ (eppic_bool(cur) <=> spec.n # 0)

(***************************************************************************)
(* A variable holds what C would have stored in it, as seen by operators      *)
(* (its index), by conversions (its attributes) and by its size: an assignment *)
(* converts, and does not change its type (eppic_chkandconvert, eppic_transval). *)
(***************************************************************************)
VarsAreC ==
    \A x \in Vars :
        LET v == vars[x]
        IN  /\ v.idx = cvars[x].idx /\ v.attr = v.idx /\ v.size = Bytes(v.idx)
            /\ Number(v) = cvars[x].n

\* The case that C goes to for a number of type idx.
CLabels(cl, n, idx) == {Conv(l, idx) : l \in cl[n] \ {Default}}
Usable(cl, idx) ==
    /\ \A n \in DOMAIN cl : \A l \in cl[n] \ {Default} : Conv(l, idx) = l
    /\ But("default", \A m, n \in DOMAIN cl : Default \in cl[m] /\ 0 \in cl[n] => n <= m)
CCase(cl, c) ==
    LET hit == {n \in DOMAIN cl : c.n \in CLabels(cl, n, Promoted(c.idx))}
        default == {n \in DOMAIN cl : Default \in cl[n]}
    IN  CASE hit # {} -> Min(hit)
          [] hit = {} /\ default # {} -> Min(default)
          [] hit = {} /\ default = {} -> 0

(***************************************************************************)
(* A switch enters the case that has the number, whatever its type, the        *)
(* default if none has, wherever that is in the list, and no case otherwise     *)
(* (eppic_docase; a case is kept as an unsigned long long: eppic_caseval).     *)
(***************************************************************************)
SwitchIsC ==
    cur # None =>
        \A cl \in CaseLists :
            Usable(cl, Promoted(spec.idx)) => eppic_docase(unival(cur), cl) = CCase(cl, spec)

(***************************************************************************)
(* No division by zero stops the machine: it is found before it is made,       *)
(* whatever the types of the operands and what they were converted from         *)
(* (eppic_exeop).  The other division that the machine cannot do, of the          *)
(* smallest number by -1, is not found: the fault overflow.                     *)
(***************************************************************************)
NeverTraps == end # "trap"
=============================================================================
