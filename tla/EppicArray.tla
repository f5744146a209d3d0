------------------------------- MODULE EppicArray -------------------------------
(***************************************************************************)
(* Dynamic arrays: reference counts, and the values that hold arrays while  *)
(* statements, calls and for-in loops run.                                 *)
(*                                                                         *)
(* Every value of eppic owns a pointer to an array (value_t.arr), empty for *)
(* most; a value is modelled by that pointer alone.  Copying a value shares *)
(* the array.                                                              *)
(***************************************************************************)
EXTENDS Integers, Sequences, SequencesExt, FiniteSetsExt

CONSTANTS Globals,      \* variables of the file, as model values
          Paths,        \* what an expression may index with: sequences of indices
          ResultPaths,  \* those it may index a function's result with
          MaxArrays,    \* bound: arrays allocated at a time
          MaxFrames,    \* bound: calls, blocks and loops open at a time
          MaxLost,      \* bound: values jumped over
          Faults,       \* what the runs without faults leave out:
                        \*   sharedStore: a store into an array several values hold
                        \*   selfStore: of these, a store of an array into itself
                        \*   tempStore: a store to what went with a temporary: an element
                        \*   of an array that only a function's result held, or a local
                        \*   that the function returned
          None          \* a null arr

ASSUME ArrayAssumption ==
    /\ MaxArrays \in Nat /\ MaxFrames \in Nat /\ MaxLost \in Nat
    /\ Faults \subseteq {"sharedStore", "selfStore", "tempStore"}
    /\ None \notin Nat /\ Globals \cap Nat = {}

VARIABLES heap,    \* the arrays that are allocated, and whether a freed or null one was used
          vars,    \* the array of each variable; a local's name is its frame's index
          stack,   \* calls, blocks and for-in loops, outermost first
          lost     \* the values that were jumped over before they were freed

vars_ == <<heap, vars, stack, lost>>

Live == DOMAIN heap.arrs
Without(f, x) == [y \in DOMAIN f \ {x} |-> f[y]]
Trapped(h) == [h EXCEPT !.trap = TRUE]

-----------------------------------------------------------------------------
(* Arrays.  An element has an index, the array of its index value and the    *)
(* array of its value.                                                      *)

Fresh(h) == Min((1..Cardinality(DOMAIN h.arrs) + 1) \ DOMAIN h.arrs)
\* eppic_setarray, and the count of n that the caller gives.  AllocUncounted is a
\* faulty variant.
AllocUncounted(h, n) == [h EXCEPT !.arrs = [a \in DOMAIN @ \cup {Fresh(h)} |->
                                    IF a = Fresh(h) THEN [ref |-> 0, elts |-> << >>] ELSE @[a]]]
Alloc(h, n) == [h EXCEPT !.arrs = [a \in DOMAIN @ \cup {Fresh(h)} |->
                                    IF a = Fresh(h) THEN [ref |-> n, elts |-> << >>] ELSE @[a]]]

RECURSIVE Ref(_, _, _, _), RefElems(_, _, _, _, _), FreeElems(_, _, _)
FreeElems(h, es, depth) ==
    IF es = << >> THEN h
    ELSE FreeElems(Ref(Ref(h, es[1].key, -1, depth), es[1].val, -1, depth), Tail(es), depth)

\* The recursion into the values of the elements; one whose array is freed by it
\* is left without.
RefElems(h, a, i, inc, depth) ==
    IF h.trap \/ a \notin DOMAIN h.arrs \/ i > Len(h.arrs[a].elts) THEN h
    ELSE LET sub == h.arrs[a].elts[i].val
             g == Ref(h, sub, inc, depth)
         IN  RefElems(IF sub # None /\ ~g.trap /\ sub \notin DOMAIN g.arrs
                      THEN [g EXCEPT !.arrs[a].elts[i].val = None] ELSE g,
                      a, i + 1, inc, depth)

\* `depth' runs out on an array that contains itself, where the code's recursion
\* runs out of stack.
Ref(h, a, inc, depth) ==
    IF h.trap \/ a = None THEN h
    ELSE IF a \notin DOMAIN h.arrs \/ depth = 0 THEN Trapped(h)
    ELSE LET n == h.arrs[a].ref + inc
         IN  IF n = 0 THEN FreeElems([h EXCEPT !.arrs = Without(@, a)], h.arrs[a].elts, depth - 1)
             ELSE RefElems([h EXCEPT !.arrs[a].ref = n], a, 1, inc, depth - 1)
\* RefArrayFlat is a faulty variant.
RefArrayFlat(h, a, inc) ==
    IF inc = 1 /\ a \in DOMAIN h.arrs THEN [h EXCEPT !.arrs[a].ref = @ + 1]
    ELSE Ref(h, a, inc, MaxArrays + 1)
eppic_refarray(h, a, inc) == Ref(h, a, inc, MaxArrays + 1)
Hold(h, a) == eppic_refarray(h, a, 1)
Drop(h, a) == eppic_refarray(h, a, -1)


asarray(h, v) == v \in DOMAIN h.arrs /\ h.arrs[v].elts # << >>

\* A copy of the value vs over the value v: what v's array is then.  DupForgets and
\* DupOverrides are faulty variants.
DupForgets(h, v, vs) == IF asarray(h, v) THEN [h |-> h, v |-> v] ELSE [h |-> Drop(h, v), v |-> vs]
DupOverrides(h, v, vs) == [h |-> Drop(Hold(h, vs), v), v |-> vs]
eppic_dupval(h, v, vs) ==
    IF asarray(h, v) THEN [h |-> h, v |-> v]
    ELSE [h |-> Drop(Hold(h, vs), v), v |-> vs]
CantOverride(h, v, vs) == asarray(h, v) /\ asarray(h, vs)

Position(h, a, i) == {n \in DOMAIN h.arrs[a].elts : h.arrs[a].elts[n].idx = i}

\* The element of index i is there, made if need be; a new element's value gets as
\* many references as the array.  GetArrValOne is a faulty variant.
NewElem(h, a, i, n) ==
    LET k == Fresh(h)
        g == Alloc(h, 1)
        v == Fresh(g)
    IN  [Alloc(g, n) EXCEPT !.arrs[a].elts = Append(@, [idx |-> i, key |-> k, val |-> v])]
GetArrValOne(h, a, i) == IF Position(h, a, i) = {} THEN NewElem(h, a, i, 1) ELSE h
eppic_getarrval(h, a, i) ==
    IF Position(h, a, i) = {} THEN NewElem(h, a, i, h.arrs[a].ref) ELSE h


\* eppic_addarrelem, of a value that the caller gives away.
eppic_addarrelem(h, a, i) ==
    LET g == eppic_getarrval(h, a, i)
        n == Min(Position(g, a, i))
        f == Drop(g, g.arrs[a].elts[n].val)
    IN  [Alloc(f, 1) EXCEPT !.arrs[a].elts[n].val = Fresh(f)]

-----------------------------------------------------------------------------
(* Expressions.  A term is a variable or a function's result, indexed by a   *)
(* path.  Evaluation gives the heap, the array v of the value, with a        *)
(* reference for that temporary value, and the place `at' where a store to   *)
(* the value goes (value_t.setval): a variable, an element, nowhere, or what *)
(* has been freed.                                                         *)

Nowhere == [k |-> "none"]
Freed == [k |-> "freed"]
Where(h, p) == IF p.k = "elem" /\ p.a \notin DOMAIN h.arrs THEN Freed ELSE p

\* The temporary value that is indexed goes when the element's value is copied.
\* ExeIndexFreesFirst is a faulty variant.
ExeIndexFreesFirst(e, i) ==
    IF e.v \notin DOMAIN e.h.arrs THEN [e EXCEPT !.h = Trapped(@)]
    ELSE LET g == eppic_getarrval(e.h, e.v, i)
             n == Min(Position(g, e.v, i))
             v == g.arrs[e.v].elts[n].val
             h == Hold(Drop(g, e.v), v)
         IN  [h |-> h, v |-> v, at |-> Where(h, [k |-> "elem", a |-> e.v, n |-> n])]
eppic_exeindex(e, i) ==
    IF e.v \notin DOMAIN e.h.arrs THEN [e EXCEPT !.h = Trapped(@)]
    ELSE LET g == eppic_getarrval(e.h, e.v, i)
             n == Min(Position(g, e.v, i))
             v == g.arrs[e.v].elts[n].val
             h == Drop(Hold(g, v), e.v)
         IN  [h |-> h, v |-> v, at |-> Where(h, [k |-> "elem", a |-> e.v, n |-> n])]
Index(e, path) == FoldLeft(LAMBDA d, i : IF d.h.trap THEN d ELSE eppic_exeindex(d, i), e, path)

eppic_exevar(h, x) ==
    [h |-> Hold(h, vars[x]), v |-> vars[x], at |-> [k |-> "var", x |-> x]]

\* What is assigned, passed or returned: a number, a term, or an array that a
\* builtin of the host makes, or an element of one.
Values(xs) ==
    [k : {"number"}] \cup [k : {"made"}, path : ResultPaths] \cup [k : {"term"}, x : xs, path : Paths]
RValue(h, r) ==
    CASE r.k = "number" -> [h |-> Alloc(h, 1), v |-> Fresh(h), at |-> Nowhere]
      [] r.k = "made" ->
            Index([h |-> eppic_addarrelem(Alloc(h, 1), Fresh(h), 2), v |-> Fresh(h), at |-> Nowhere],
                  r.path)
      [] r.k = "term" -> Index(eppic_exevar(h, r.x), r.path)

-----------------------------------------------------------------------------
(* Frames.  "call" and "block" own a local variable.  "in" is a for-in loop:  *)
(* its variable x, the temporaries v and av of eppic_walkarray, the element  *)
(* `at' it is at.  "left" is an assignment whose left side is known, "store"  *)
(* one whose value v is known too.  These and a call have a target `to': the  *)
(* place p, and the temporary values held for it.  A call's result is        *)
(* indexed by `path', and is then a value, or a left side (`left').          *)

Top == Len(stack)
Frame(n) == stack[n]
Calls == {n \in DOMAIN stack : Frame(n).k = "call"}
Visible == Globals \cup {n \in DOMAIN vars \ Globals : \A m \in Calls : m <= n}
Locals(n) == {m \in DOMAIN vars \ Globals : m > n}

Holds(f) ==
    CASE f.k = "in" -> <<f.v, f.av>>
      [] f.k \in {"call", "left"} -> f.to.held
      [] f.k = "store" -> <<f.v>> \o f.to.held
      [] f.k = "block" -> << >>
HeldBy(fs) == FlattenSeq([i \in DOMAIN fs |-> Holds(fs[i])])

InAssignment == Top > 0 /\ Frame(Top).k = "left"
Running ==
    /\ ~heap.trap
    /\ Top > 0 => Frame(Top).k # "store"
    /\ Len(lost) <= MaxLost
AtStatement == Running /\ ~InAssignment
\* The bound on what a statement leaves allocated.
Fits(h) == Cardinality(DOMAIN h.arrs) <= MaxArrays

\* A jump to frame n: eppic_setsvlev frees the lists of the blocks above, but not
\* what the loops and assignments above m hold.
LocalsFreed(n, h) == FoldSet(LAMBDA x, g : Drop(g, vars[x]), h, Locals(n))
CutVars(n, m) ==
    /\ vars' = [x \in DOMAIN vars \ Locals(n) |-> vars[x]]
    /\ lost' = lost \o HeldBy(SubSeq(stack, m + 1, Top))
CutTo(n, m, h) == heap' = LocalsFreed(n, h) /\ CutVars(n, m)

\* The faults: an array that several values hold, an array inside itself.
RECURSIVE Within(_, _, _)
Within(h, v, depth) ==
    IF v = None \/ depth = 0 THEN {}
    ELSE {v} \cup UNION {Within(h, h.arrs[v].elts[n].val, depth - 1) : n \in DOMAIN h.arrs[v].elts}
MayStore(h, p, v) ==
    /\ "sharedStore" \in Faults \/ h.arrs[p.a].ref = 1
    /\ "selfStore" \in Faults \/ p.a \notin Within(h, v, MaxArrays)

-----------------------------------------------------------------------------
Init ==
    /\ vars = [x \in Globals |-> CHOOSE i \in 1..Cardinality(Globals) : SetToSeq(Globals)[i] = x]
    /\ heap = [arrs |-> [a \in 1..Cardinality(Globals) |-> [ref |-> 1, elts |-> << >>]],
               trap |-> FALSE]
    /\ stack = << >>
    /\ lost = << >>

\* Left sides of an assignment, with the heap once they are evaluated: eppic_exeop
\* evaluates the left side first, unless it is a variable.  One that is no lvalue is
\* an error.
Target(r) ==
    IF r.k = "term" /\ r.path = << >>
    THEN [h |-> heap, to |-> [p |-> [k |-> "var", x |-> r.x], held |-> << >>]]
    ELSE LET e == RValue(heap, r)
         IN  [h |-> e.h, to |-> [p |-> e.at, held |-> <<e.v>>]]
MayAssign(p) == p # Nowhere /\ ("tempStore" \in Faults \/ p # Freed)
Targets ==
    IF InAssignment THEN {[h |-> heap, to |-> Frame(Top).to]}
    ELSE {t \in {Target(r) : r \in Values(Visible)} : t.h.trap \/ MayAssign(t.to.p)}
Discard == [h |-> heap, to |-> [p |-> Nowhere, held |-> << >>]]

\* The frames under the one that is pushed.
Under == IF InAssignment THEN Front(stack) ELSE stack
Push(f) == stack' = Append(Under, f)

\* x[path] = r
Assign ==
    /\ Running
    /\ \E t \in Targets, r \in Values(Visible) :
        \E e \in {RValue(t.h, r)} :
            /\ Fits(e.h) /\ heap' = e.h
            /\ Push([k |-> "store", to |-> t.to, v |-> e.v])
    /\ UNCHANGED <<vars, lost>>

ValueAt(p) == IF p.k = "var" THEN vars[p.x] ELSE heap.arrs[p.a].elts[p.n].val
DropAll(h, vs) == FoldLeft(Drop, h, vs)

\* The assignment itself: eppic_chkandconvert or eppic_setfct, then the temporaries
\* are freed.
Finish(to) ==
    LET v == Frame(Top).v
        d == eppic_dupval(heap, ValueAt(to.p), v)
    IN  /\ CASE to.p.k = "none" ->
                    /\ heap' = Drop(heap, v)
                    /\ UNCHANGED vars
             [] to.p.k = "var" ->
                    /\ heap' = DropAll(d.h, Append(to.held, v))
                    /\ vars' = [vars EXCEPT ![to.p.x] = d.v]
             [] to.p.k = "elem" ->
                    /\ MayStore(heap, to.p, v)
                    /\ heap' = DropAll([d.h EXCEPT !.arrs[to.p.a].elts[to.p.n].val = d.v],
                                       Append(to.held, v))
                    /\ UNCHANGED vars
        /\ stack' = Front(stack)
        /\ UNCHANGED lost
eppic_setfct ==
    /\ ~heap.trap
    /\ Top > 0 /\ Frame(Top).k = "store"
    /\ \E to \in {Frame(Top).to} :
        IF Where(heap, to.p) = Freed
        THEN /\ heap' = Trapped(heap)
             /\ UNCHANGED <<vars, stack, lost>>
        ELSE IF to.p # Nowhere /\ CantOverride(heap, ValueAt(to.p), Frame(Top).v)
        THEN CutTo(0, 0, heap) /\ stack' = << >>
        ELSE Finish(to)

\* f(r), x = f(r)[path], x[path] = f(r): the parameter is a copy of the argument.  Or
\* f(r)[path] is the left side of an assignment.  (A bound: an element of a result is
\* assigned to variables only.)
eppic_execmcfunc ==
    /\ Running
    /\ Len(Under) < MaxFrames
    /\ \E t \in Targets \cup (IF InAssignment THEN {} ELSE {Discard}), r \in Values(Visible) :
        \E e \in {RValue(t.h, r)}, x \in {Len(Under) + 1}, path \in ResultPaths, left \in BOOLEAN :
            /\ left => t = Discard
            /\ left \/ path = << >> \/ (t # Discard /\ t.to.held = << >>)
            /\ Fits(e.h) /\ heap' = e.h
            /\ vars' = [y \in DOMAIN vars \cup {x} |-> IF y = x THEN e.v ELSE vars[y]]
            /\ Push([k |-> "call", to |-> t.to, path |-> path, left |-> left])
    /\ UNCHANGED lost

\* What is returned outlives the locals, but not as a place to store to.
Outlives(n, e) ==
    LET h == LocalsFreed(n, e.h)
    IN  [h |-> h, v |-> e.v,
         at |-> IF e.at.k = "var" /\ e.at.x \in Locals(n) THEN Freed ELSE Where(h, e.at)]
Return ==
    /\ AtStatement
    /\ Calls # {}
    /\ \E r \in Values(Visible) : \E c \in {Max(Calls)} :
        \E e \in {RValue(heap, r)} : \E i \in {Index(Outlives(c - 1, e), Frame(c).path)} :
            /\ Fits(e.h) /\ Fits(i.h) /\ heap' = i.h
            /\ CutVars(c - 1, c)
            /\ Frame(c).left => i.h.trap \/ MayAssign(i.at)
            /\ stack' = Append(SubSeq(stack, 1, c - 1),
                    IF Frame(c).left
                    THEN [k |-> "left", to |-> [p |-> i.at, held |-> <<i.v>>]]
                    ELSE [k |-> "store", to |-> Frame(c).to, v |-> i.v])

\* A block's variables are copies of the declared ones, with an array of their own.
eppic_dupvlist ==
    /\ AtStatement
    /\ Top < MaxFrames
    /\ Fits(Alloc(heap, 1)) /\ heap' = Alloc(heap, 1)
    /\ vars' = [x \in DOMAIN vars \cup {Top + 1} |-> IF x = Top + 1 THEN Fresh(heap) ELSE vars[x]]
    /\ Push([k |-> "block"])
    /\ UNCHANGED lost
ExitBlock ==
    /\ AtStatement
    /\ Top > 0 /\ Frame(Top).k = "block"
    /\ heap' = Drop(heap, vars[Top])
    /\ vars' = Without(vars, Top)
    /\ stack' = Front(stack)
    /\ UNCHANGED lost

\* for(x in y[path]), or in what a builtin makes.
eppic_walkarray ==
    /\ AtStatement
    /\ Top < MaxFrames
    /\ \E x \in Visible, r \in Values(Visible) :
        \E e \in {RValue(Hold(heap, vars[x]), r)} :
            /\ Fits(e.h) /\ heap' = e.h
            /\ Push([k |-> "in", x |-> x, v |-> vars[x], av |-> e.v, at |-> 0])
    /\ UNCHANGED <<vars, lost>>
InLoop == AtStatement /\ Top > 0 /\ Frame(Top).k = "in"
Elements(f) == IF f.av \in Live THEN heap.arrs[f.av].elts ELSE << >>
NextElement ==
    /\ InLoop
    /\ \E f \in {Frame(Top)} :
        /\ f.at < Len(Elements(f))
        /\ \E key \in {Elements(f)[f.at + 1].key} :
            IF CantOverride(heap, vars[f.x], key) THEN CutTo(0, 0, heap) /\ stack' = << >>
            ELSE \E d \in {eppic_dupval(heap, vars[f.x], key)} :
                    /\ heap' = d.h
                    /\ vars' = [vars EXCEPT ![f.x] = d.v]
                    /\ stack' = [stack EXCEPT ![Top].at = f.at + 1]
                    /\ UNCHANGED lost
EndLoop ==
    /\ InLoop
    /\ \E f \in {Frame(Top)} :
        /\ f.at >= Len(Elements(f))
        /\ heap' = Drop(Drop(heap, f.v), f.av)
    /\ stack' = Front(stack)
    /\ UNCHANGED <<vars, lost>>
Break ==
    /\ AtStatement
    /\ \E n \in {m \in DOMAIN stack : Frame(m).k = "in" /\ \A c \in Calls : c < m} :
        /\ \A m \in n + 1 .. Top : Frame(m).k # "in"
        /\ CutTo(n - 1, n - 1, heap)
        /\ stack' = SubSeq(stack, 1, n - 1)

Next ==
    \/ Assign \/ eppic_setfct \/ eppic_execmcfunc \/ Return
    \/ eppic_dupvlist \/ ExitBlock
    \/ eppic_walkarray \/ NextElement \/ EndLoop \/ Break

Spec == Init /\ [][Next]_vars_

-----------------------------------------------------------------------------
Arrays == Nat \cup {None}

\* Every array in use has its type.
TypeOK ==
    /\ Live \subseteq Nat
    /\ \A a \in Live :
        /\ heap.arrs[a].ref \in Nat \ {0}
        /\ \A n \in DOMAIN heap.arrs[a].elts :
            heap.arrs[a].elts[n].key \in Arrays /\ heap.arrs[a].elts[n].val \in Arrays
    /\ DOMAIN vars = Globals \cup {n \in DOMAIN stack : Frame(n).k \in {"call", "block"}}
    /\ \A x \in DOMAIN vars : vars[x] \in Arrays
    /\ \A i \in DOMAIN lost : lost[i] \in Arrays

(***************************************************************************)
(* An array has one reference for each value that holds it, and as many for *)
(* an element as the array the element is in: nothing is freed while a value *)
(* can reach it, and everything is when the last one goes, but for the       *)
(* values a jump passed over (eppic_var.c, eppic_refarray).                  *)
(***************************************************************************)
Holders(a) ==
    LET held == HeldBy(stack) \o lost
    IN  Cardinality({x \in DOMAIN vars : vars[x] = a}) + Cardinality({i \in DOMAIN held : held[i] = a})
InElements(a, b) ==
    LET es == heap.arrs[b].elts
    IN  heap.arrs[b].ref * Cardinality({n \in DOMAIN es : es[n].val = a})
            + Cardinality({n \in DOMAIN es : es[n].key = a})
RefsArePaths ==
    \A a \in Live : heap.arrs[a].ref = Holders(a) + MapThenSumSet(LAMBDA b : InElements(a, b), Live)

(***************************************************************************)
(* A value that can be reached has its array, so that it can be indexed      *)
(* (eppic_valindex does not look whether there is one).                      *)
(***************************************************************************)
ElementsHaveArrays ==
    /\ \A x \in DOMAIN vars : vars[x] \in Live
    /\ \A a \in Live : \A n \in DOMAIN heap.arrs[a].elts : heap.arrs[a].elts[n].val \in Live

(***************************************************************************)
(* While a function runs, the element its value will be stored to stays, and *)
(* stays the one that was named: value_t.setval is a pointer into the array.  *)
(***************************************************************************)
PendingStoresLive ==
    \A n \in DOMAIN stack :
        Frame(n).k \in {"left", "call", "store"} =>
            LET p == Frame(n).to.p
            IN  /\ p # Freed
                /\ p.k = "var" => p.x \in DOMAIN vars
                /\ p.k = "elem" => p.a \in Live /\ p.n \in DOMAIN heap.arrs[p.a].elts

\* No freed array is used, no null one indexed, and no count runs down a cycle.
NeverTraps == ~heap.trap

\* Whatever a script can reach is an array, and nothing else is ever used.
OnlyArraysUsed == ElementsHaveArrays /\ NeverTraps
=============================================================================
