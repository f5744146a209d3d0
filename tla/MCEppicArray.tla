------------------------------ MODULE MCEppicArray ------------------------------
(***************************************************************************)
(* Model-checking instances of EppicArray, and the view they are explored    *)
(* under: states that differ only in which array has which identity are one. *)
(***************************************************************************)
EXTENDS EppicArray

MCPaths == {<< >>, <<1>>, <<1, 1>>}
MCResultPaths == {<< >>, <<1>>}

\* The arrays in the order they are reached from the values that are held.
RECURSIVE Reached(_, _)
Reached(todo, seen) ==
    IF todo = << >> THEN seen
    ELSE IF Head(todo) \notin Live \/ Contains(seen, Head(todo)) THEN Reached(Tail(todo), seen)
    ELSE LET es == heap.arrs[Head(todo)].elts
         IN  Reached(Tail(todo) \o FlattenSeq([n \in DOMAIN es |-> <<es[n].key, es[n].val>>]),
                     Append(seen, Head(todo)))

Variables == SetToSeq(Globals) \o SelectSeq([n \in 1..MaxFrames + 1 |-> n], LAMBDA n : n \in DOMAIN vars)
View ==
    LET roots == [n \in DOMAIN Variables |-> vars[Variables[n]]] \o HeldBy(stack)
        order == Reached(roots \o lost \o SetToSortSeq(Live, <), << >>)
        name == [a \in ToSet(order) |-> CHOOSE n \in DOMAIN order : order[n] = a]
        new(a) == IF a \in DOMAIN name THEN name[a] ELSE None
        place(p) == IF p.k # "elem" THEN p ELSE <<new(p.a), p.n>>
        target(to) == <<place(to.p), [n \in DOMAIN to.held |-> new(to.held[n])]>>
        frame(f) == CASE f.k = "in" -> <<f.k, f.x, new(f.v), new(f.av), f.at>>
                      [] f.k = "call" -> <<f.k, target(f.to), f.path, f.left>>
                      [] f.k = "left" -> <<f.k, target(f.to)>>
                      [] f.k = "store" -> <<f.k, target(f.to), new(f.v)>>
                      [] f.k = "block" -> <<f.k>>
        array(a) == <<heap.arrs[a].ref,
                      [n \in DOMAIN heap.arrs[a].elts |->
                          <<heap.arrs[a].elts[n].idx, new(heap.arrs[a].elts[n].key),
                            new(heap.arrs[a].elts[n].val)>>]>>
    IN  <<heap.trap, [n \in DOMAIN order |-> array(order[n])], [x \in DOMAIN vars |-> new(vars[x])],
          [n \in DOMAIN stack |-> frame(stack[n])], [n \in DOMAIN lost |-> new(lost[n])]>>
=============================================================================
