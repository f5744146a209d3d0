------------------------- MODULE EppicFilesCommands -------------------------
(***************************************************************************)
(* The command table of crash follows the files.  The callbacks of           *)
(* eppic_setcallback see one global name after the other, and only names;    *)
(* what they register is right when the names of the files allow it          *)
(* (WholeCommands, RoomForCommands in EppicFiles).  The invariant: the table *)
(* has no repetitions and its rows are the extension's own commands and      *)
(* those of the files that are loaded or that a load is about to replace;    *)
(* no such file has a command of an own name.  The callbacks of one file are *)
(* followed name by name, from the least name at which a claim about the     *)
(* table so far would fail.                                                 *)
(***************************************************************************)
EXTENDS EppicFilesProofs, FiniteSetTheorems

Distinct(s) == \A i, j \in DOMAIN s : s[i] = s[j] => i = j

LEMMA DropsFirst ==
    ASSUME NEW S, NEW s \in Seq(S), Distinct(s), NEW e
    PROVE  LET r == RemoveFirst(s, e)
           IN  r \in Seq(S) /\ Distinct(r) /\ Range(r) = Range(s) \ {e}
<1> DEFINE I == {i \in 1..Len(s) : s[i] = e}
           r == RemoveFirst(s, e)
<1>1. /\ DOMAIN s = 1..Len(s) /\ Len(s) \in Nat
      /\ Range(s) = {s[i] : i \in DOMAIN s}
  BY DEF Range
<1>2. CASE I = {}
  <2>1. r = s
    BY <1>2 DEF RemoveFirst
  <2>2. QED
    BY <1>1, <1>2, <2>1
<1>3. CASE I # {}
  <2> DEFINE n == Min(I)
  <2>1. r = RemoveAt(s, n)
    BY <1>3 DEF RemoveFirst, SelectInSeq
  <2>2. n \in I
    <3>1. I \in SUBSET Nat
      OBVIOUS
    <3> HIDE DEF I
    <3>2. QED
      BY <1>3, <3>1, LeastPosition
  <2>3. n \in 1..Len(s) /\ s[n] = e
    BY <2>2
  <2> HIDE DEF r, n, I
  <2>4. /\ r \in Seq(S) /\ Len(r) = Len(s) - 1
        /\ Range(r) = {s[i] : i \in 1..Len(s) \ {n}}
    BY <2>1, <2>3, RemovedRange
  <2>5. \A i \in 1..Len(s) - 1 : r[i] = IF i < n THEN s[i] ELSE s[i + 1]
    BY <2>1, <2>3, RemovedAt
  <2>6. ASSUME NEW i \in DOMAIN r, NEW j \in DOMAIN r, r[i] = r[j] PROVE i = j
    <3> DEFINE from(k) == IF k < n THEN k ELSE k + 1
    <3>1. i \in 1..Len(s) - 1 /\ j \in 1..Len(s) - 1 /\ n \in 1..Len(s)
      BY <2>3, <2>4
    <3>2. from(i) \in 1..Len(s) /\ from(j) \in 1..Len(s) /\ (from(i) = from(j) => i = j)
      BY <1>1, <3>1
    <3>3. r[i] = s[from(i)] /\ r[j] = s[from(j)]
      BY <2>5, <3>1
    <3>4. from(i) = from(j)
      BY <1>1, <2>6, <3>2, <3>3 DEF Distinct
    <3>5. QED
      BY <3>2, <3>4
  <2>7. Range(r) = Range(s) \ {e}
    BY <1>1, <2>3, <2>4 DEF Distinct
  <2>8. QED
    BY <2>4, <2>6, <2>7 DEF Distinct, r
<1>4. QED
  BY <1>2, <1>3

LEMMA Appends ==
    ASSUME NEW S, NEW s \in Seq(S), Distinct(s), NEW e \in S, e \notin Range(s)
    PROVE  LET r == Append(s, e)
           IN  r \in Seq(S) /\ Distinct(r) /\ Range(r) = Range(s) \cup {e}
<1> DEFINE r == Append(s, e)
<1>1. /\ DOMAIN s = 1..Len(s) /\ Len(s) \in Nat
      /\ Range(s) = {s[i] : i \in DOMAIN s}
  BY DEF Range
<1>2. /\ r \in Seq(S) /\ DOMAIN r = 1..Len(s) + 1
      /\ r[Len(s) + 1] = e /\ \A i \in 1..Len(s) : r[i] = s[i]
  BY <1>1
<1> HIDE DEF r
<1>3. 1..Len(s) + 1 = 1..Len(s) \cup {Len(s) + 1}
  BY <1>1
<1>4. Range(r) = Range(s) \cup {e}
  BY <1>1, <1>2, <1>3 DEF Range
<1>5. ASSUME NEW i \in DOMAIN r, NEW j \in DOMAIN r, r[i] = r[j] PROVE i = j
  <2>1. \A k \in 1..Len(s) : r[k] # e
    BY <1>1, <1>2
  <2>2. CASE i \in 1..Len(s) /\ j \in 1..Len(s)
    BY <1>1, <1>2, <1>5, <2>2 DEF Distinct
  <2>3. CASE i = Len(s) + 1 \/ j = Len(s) + 1
    BY <1>2, <1>3, <1>5, <2>1, <2>3
  <2>4. QED
    BY <1>2, <1>3, <2>2, <2>3
<1>6. QED
  BY <1>2, <1>4, <1>5 DEF Distinct, r

\* A sequence without repetitions is no longer than its range, and shorter than any
\* larger set.
LEMMA HasRoom ==
    ASSUME NEW S, IsFiniteSet(S), NEW s \in Seq(S), Distinct(s), NEW e \in S, e \notin Range(s)
    PROVE  Len(s) < Cardinality(S)
<1>1. /\ DOMAIN s = 1..Len(s) /\ Len(s) \in Nat /\ s \in [1..Len(s) -> S]
      /\ Range(s) = {s[i] : i \in DOMAIN s}
  BY DEF Range
<1>2. s \in Injection(1..Len(s), S)
  BY <1>1 DEF Distinct, Injection, IsInjective
<1>3. s \notin Surjection(1..Len(s), S)
  BY <1>1 DEF Surjection
<1>4. /\ IsFiniteSet(1..Len(s)) /\ Cardinality(1..Len(s)) <= Cardinality(S)
      /\ Cardinality(1..Len(s)) = Cardinality(S) <=> s \in Surjection(1..Len(s), S)
  BY <1>2, FS_Injection
<1>5. Cardinality(1..Len(s)) = Len(s)
  <2>1. 1 \in Int /\ Len(s) \in Int
    BY <1>1
  <2>2. Cardinality(1..Len(s)) = IF 1 > Len(s) THEN 0 ELSE Len(s) - 1 + 1
    BY <2>1, FS_Interval, Zenon
  <2>3. QED
    BY <1>1, <2>2
<1>6. Cardinality(S) \in Nat
  BY FS_CardinalityType
<1>7. QED
  BY <1>1, <1>3, <1>4, <1>5, <1>6


\* A function is told to the host with its help and usage functions in sight.
Full(name, visible) ==
    /\ name[2] = ""
    /\ <<name[1], "_help">> \in visible /\ <<name[1], "_usage">> \in visible

\* The commands that the callbacks of the last k functions are about.
Told(names, visible, k) ==
    {names[i][1] : i \in {j \in DOMAIN names : j > Len(names) - k /\ Full(names[j], visible)}}
AllTold(names, visible) == Told(names, visible, Len(names))

\* The callbacks one by one.
Steps(f, n, t, visible, names, load) ==
    f = [k \in 0..n |->
            IF k = 0 THEN t
            ELSE reg_callback(f[k - 1], visible, names[Len(names) + 1 - k], load)]

LEMMA Least ==
    ASSUME NEW I \in SUBSET Nat, I # {}
    PROVE  \E i \in I : \A j \in I : i <= j
BY LeastPosition

\* The function that eppic_docallback defines by recursion exists.
LEMMA StepsExist ==
    ASSUME NEW t, NEW visible, NEW names, NEW load
    PROVE  \A n \in Nat : \E f : Steps(f, n, t, visible, names, load)
<1> DEFINE P(n) == \E f : Steps(f, n, t, visible, names, load)
           Bad == {n \in Nat : ~P(n)}
<1>1. SUFFICES ASSUME Bad # {} PROVE FALSE
  OBVIOUS
<1>2. PICK n \in Bad : \A m \in Bad : n <= m
  <2>1. Bad \in SUBSET Nat
    OBVIOUS
  <2> HIDE DEF Bad
  <2>2. QED
    BY <1>1, <2>1, Least
<1>3. n \in Nat /\ ~P(n)
  OBVIOUS
<1>4. CASE n = 0
  <2> DEFINE g == [k \in 0..0 |-> t]
  <2>1. Steps(g, 0, t, visible, names, load)
    BY DEF Steps
  <2>2. QED
    BY <1>3, <1>4, <2>1
<1>5. CASE n # 0
  <2>1. n - 1 \in Nat /\ ~(n <= n - 1)
    BY <1>3, <1>5
  <2>2. PICK f : Steps(f, n - 1, t, visible, names, load)
    BY <1>2, <2>1
  <2> DEFINE g == [k \in 0..n |->
                    IF k = 0 THEN t
                    ELSE reg_callback(f[k - 1], visible, names[Len(names) + 1 - k], load)]
  <2>3. \A k \in 0..n - 1 : g[k] = f[k]
    <3>1. TAKE k \in 0..n - 1
    <3>2. k \in 0..n
      BY <1>3
    <3>3. f[k] = IF k = 0 THEN t
                 ELSE reg_callback(f[k - 1], visible, names[Len(names) + 1 - k], load)
      BY <2>2 DEF Steps
    <3>4. QED
      BY <3>2, <3>3
  <2>4. \A k \in 0..n : k # 0 => g[k - 1] = f[k - 1]
    <3>1. TAKE k \in 0..n
    <3>2. k # 0 => k - 1 \in 0..n - 1
      BY <1>3
    <3>3. QED
      BY <2>3, <3>2
  <2>5. g = [k \in 0..n |->
                IF k = 0 THEN t
                ELSE reg_callback(g[k - 1], visible, names[Len(names) + 1 - k], load)]
    <3> HIDE DEF g
    <3>1. g = [k \in 0..n |->
                IF k = 0 THEN t
                ELSE reg_callback(f[k - 1], visible, names[Len(names) + 1 - k], load)]
      BY DEF g
    <3>2. QED
      BY <2>4, <3>1
  <2> HIDE DEF g
  <2>6. Steps(g, n, t, visible, names, load)
    BY <2>5 DEF Steps
  <2>7. QED
    BY <1>3, <2>6
<1>6. QED
  BY <1>4, <1>5

Run(f, t, visible, names, load) ==
    /\ f[0] = t
    /\ f[Len(names)] = eppic_docallback(t, visible, names, load)
    /\ \A k \in 0..Len(names) : k # 0 =>
            f[k] = reg_callback(f[k - 1], visible, names[Len(names) + 1 - k], load)

LEMMA CallbackSteps ==
    ASSUME NEW t, NEW visible, NEW names, Len(names) \in Nat, NEW load
    PROVE  \E f : Run(f, t, visible, names, load)
<1> DEFINE f == CHOOSE f : f = [k \in 0..Len(names) |->
                    IF k = 0 THEN t
                    ELSE reg_callback(f[k - 1], visible, names[Len(names) + 1 - k], load)]
<1>1. Steps(f, Len(names), t, visible, names, load)
  <2>1. \E g : Steps(g, Len(names), t, visible, names, load)
    BY StepsExist
  <2>2. PICK g : g = [k \in 0..Len(names) |->
                    IF k = 0 THEN t
                    ELSE reg_callback(g[k - 1], visible, names[Len(names) + 1 - k], load)]
    BY <2>1 DEF Steps
  <2>3. f = [k \in 0..Len(names) |->
                    IF k = 0 THEN t
                    ELSE reg_callback(f[k - 1], visible, names[Len(names) + 1 - k], load)]
    BY <2>2, Zenon
  <2> HIDE DEF f
  <2>4. QED
    BY <2>3 DEF Steps
<1>2. eppic_docallback(t, visible, names, load) = f[Len(names)]
  BY DEF eppic_docallback
<1> HIDE DEF f
<1>3. \A k \in 0..Len(names) :
        f[k] = IF k = 0 THEN t
               ELSE reg_callback(f[k - 1], visible, names[Len(names) + 1 - k], load)
  BY <1>1 DEF Steps
<1>4. Run(f, t, visible, names, load)
  <2>1. f[0] = t
    BY <1>3
  <2>2. QED
    BY <1>2, <1>3, <2>1 DEF Run
<1>5. QED
  BY <1>4

LEMMA ToldOneMore ==
    ASSUME NEW names, Len(names) \in Nat, DOMAIN names = 1..Len(names), NEW visible,
           NEW k \in 1..Len(names)
    PROVE  LET m == Len(names) + 1 - k
           IN
           /\ m \in DOMAIN names
           /\ Told(names, visible, k) =
                Told(names, visible, k - 1) \cup
                (IF Full(names[m], visible) THEN {names[m][1]} ELSE {})
<1> DEFINE m == Len(names) + 1 - k
<1>1. m \in 1..Len(names) /\ m \in DOMAIN names
  OBVIOUS
<1>2. \A j \in DOMAIN names : j > Len(names) - k <=> (j = m \/ j > Len(names) - (k - 1))
  OBVIOUS
<1> HIDE DEF m
<1>3. Told(names, visible, k) =
        Told(names, visible, k - 1) \cup
        (IF Full(names[m], visible) THEN {names[m][1]} ELSE {})
  BY <1>1, <1>2, Zenon DEF Told
<1>4. QED
  BY <1>1, <1>3 DEF m

\* A table of names in S, each once: those of the set.
TableOf(t, S, set) == t \in Seq(S) /\ Distinct(t) /\ Range(t) = set

LEMMA UnloadTells ==
    ASSUME NEW S, NEW t \in Seq(S), Distinct(t), NEW visible,
           NEW names, Len(names) \in Nat, DOMAIN names = 1..Len(names)
    PROVE  TableOf(eppic_docallback(t, visible, names, FALSE), S,
                   Range(t) \ AllTold(names, visible))
<1>1. PICK f : Run(f, t, visible, names, FALSE)
  BY CallbackSteps, Zenon
<1> DEFINE P(k) == /\ f[k] \in Seq(S) /\ Distinct(f[k])
                   /\ Range(f[k]) = Range(t) \ Told(names, visible, k)
           Bad == {k \in 0..Len(names) : ~P(k)}
<1>2. Bad = {}
  <2>1. SUFFICES ASSUME Bad # {} PROVE FALSE
    OBVIOUS
  <2>2. PICK k \in Bad : \A j \in Bad : k <= j
    <3>1. Bad \in SUBSET Nat
      OBVIOUS
    <3> HIDE DEF Bad
    <3>2. QED
      BY <2>1, <3>1, Least
  <2>3. k \in 0..Len(names) /\ ~P(k)
    OBVIOUS
  <2>4. k # 0
    <3>1. P(0)
      <4>1. Told(names, visible, 0) = {}
        BY DEF Told
      <4>2. QED
        BY <1>1, <4>1 DEF Run
    <3>2. QED
      BY <2>3, <3>1
  <2> DEFINE m == Len(names) + 1 - k
  <2>5. k \in 1..Len(names) /\ k - 1 \in 0..Len(names) /\ ~ (k <= k - 1)
    BY <2>3, <2>4
  <2>6. P(k - 1)
    BY <2>2, <2>5
  <2> HIDE DEF Bad, m
  <2>7. f[k] = reg_callback(f[k - 1], visible, names[m], FALSE)
    BY <1>1, <2>3, <2>4 DEF m, Run
  <2>8. Told(names, visible, k) =
            Told(names, visible, k - 1) \cup
            (IF Full(names[m], visible) THEN {names[m][1]} ELSE {})
    BY Zenon, <2>5, ToldOneMore DEF m
  <2>9. f[k] = IF Full(names[m], visible) THEN RemoveFirst(f[k - 1], names[m][1]) ELSE f[k - 1]
    BY <2>7, Zenon DEF reg_callback, Full, rm_eppic_cmd
  <2>10. P(k)
    BY <2>6, <2>8, <2>9, DropsFirst
  <2>11. QED
    BY <2>3, <2>10
<1>3. P(Len(names))
  BY <1>2
<1>4. QED
  BY <1>1, <1>3 DEF AllTold, Run, TableOf


\* No function is told twice.
NamedOnce(names) ==
    /\ \A i \in DOMAIN names : names[i] \in STRING \X STRING
    /\ \A i, j \in DOMAIN names : names[i] = names[j] => i = j

LEMMA LoadTells ==
    ASSUME NEW S, IsFiniteSet(S), Cardinality(S) <= MaxCmds,
           NEW t \in Seq(S), Distinct(t), NEW visible,
           NEW names, Len(names) \in Nat, DOMAIN names = 1..Len(names), NamedOnce(names),
           AllTold(names, visible) \cap Range(t) = {},
           AllTold(names, visible) \ NativeNames \subseteq S, MaxCmds \in Nat
    PROVE  TableOf(eppic_docallback(t, visible, names, TRUE), S,
                   Range(t) \cup (AllTold(names, visible) \ NativeNames))
<1>1. PICK f : Run(f, t, visible, names, TRUE)
  BY CallbackSteps, Zenon
<1> DEFINE P(k) == /\ f[k] \in Seq(S) /\ Distinct(f[k])
                   /\ Range(f[k]) = Range(t) \cup (Told(names, visible, k) \ NativeNames)
           Bad == {k \in 0..Len(names) : ~P(k)}
<1>2. Bad = {}
  <2>1. SUFFICES ASSUME Bad # {} PROVE FALSE
    OBVIOUS
  <2>2. PICK k \in Bad : \A j \in Bad : k <= j
    <3>1. Bad \in SUBSET Nat
      OBVIOUS
    <3> HIDE DEF Bad
    <3>2. QED
      BY <2>1, <3>1, Least
  <2>3. k \in 0..Len(names) /\ ~P(k)
    OBVIOUS
  <2>4. k # 0
    <3>1. P(0)
      <4>1. Told(names, visible, 0) = {}
        BY DEF Told
      <4>2. QED
        BY <1>1, <4>1 DEF Run
    <3>2. QED
      BY <2>3, <3>1
  <2> DEFINE m == Len(names) + 1 - k
             e == names[m][1]
  <2>5. k \in 1..Len(names) /\ k - 1 \in 0..Len(names) /\ ~ (k <= k - 1)
    BY <2>3, <2>4
  <2>6. P(k - 1)
    BY <2>2, <2>5
  <2> HIDE DEF Bad
  <2>7. m \in DOMAIN names /\ m \in 1..Len(names)
    BY <2>5
  <2>8. Full(names[m], visible) => e \notin Told(names, visible, k - 1)
    <3>1. SUFFICES ASSUME Full(names[m], visible), NEW j \in DOMAIN names,
                          j > Len(names) - (k - 1), Full(names[j], visible), names[j][1] = e
                   PROVE  FALSE
      BY DEF Told
    <3>2. names[j][2] = names[m][2] /\ names[j][1] = names[m][1]
      BY <3>1 DEF Full
    <3>3. names[j] \in STRING \X STRING /\ names[m] \in STRING \X STRING
      BY <2>7 DEF NamedOnce
    <3>4. names[j] = names[m]
      BY <3>2, <3>3
    <3>5. j = m
      BY <2>7, <3>4 DEF NamedOnce
    <3>6. QED
      BY <2>5, <3>1, <3>5
  <2>9. Full(names[m], visible) => e \in AllTold(names, visible)
    <3>1. m > Len(names) - Len(names)
      BY <2>7
    <3>2. QED
      BY <2>7, <3>1 DEF AllTold, Told
  <2> HIDE DEF m, e
  <2>10.
        f[k] = reg_callback(f[k - 1], visible, names[m], TRUE)
    BY <1>1, <2>3, <2>4 DEF m, Run
  <2>11.
        Told(names, visible, k) =
            Told(names, visible, k - 1) \cup
            (IF Full(names[m], visible) THEN {e} ELSE {})
    BY Zenon, <2>5, ToldOneMore DEF m, e
  <2>12.
        f[k] = IF Full(names[m], visible) THEN add_eppic_cmd(f[k - 1], e) ELSE f[k - 1]
    BY <2>10, Zenon DEF reg_callback, Full, e
  <2>13. CASE ~Full(names[m], visible) \/ e \in NativeNames
    <3>1. f[k] = f[k - 1]
      BY <2>12, <2>13 DEF add_eppic_cmd
    <3>2. Told(names, visible, k) \ NativeNames = Told(names, visible, k - 1) \ NativeNames
      BY <2>11, <2>13
    <3>3. QED
      BY <2>3, <2>6, <3>1, <3>2
  <2>14. CASE Full(names[m], visible) /\ e \notin NativeNames
    <3>1. e \in S /\ e \notin Range(f[k - 1])
      BY <2>6, <2>8, <2>9, <2>14
    <3>2. Len(f[k - 1]) < Cardinality(S)
      BY <2>6, <3>1, HasRoom
    <3>3. Len(f[k - 1]) \in Nat /\ Cardinality(S) \in Nat
      BY <2>6, FS_CardinalityType
    <3>4. f[k] = Append(f[k - 1], e)
      BY <2>12, <2>14, <3>2, <3>3 DEF add_eppic_cmd
    <3>5. /\ f[k] \in Seq(S) /\ Distinct(f[k])
          /\ Range(f[k]) = Range(f[k - 1]) \cup {e}
      BY <2>6, <3>1, <3>4, Appends
    <3>6. QED
      BY <2>3, <2>6, <2>11, <2>14, <3>5
  <2>15. QED
    BY <2>13, <2>14
<1>3. P(Len(names))
  BY <1>2
<1>4. QED
  BY <1>1, <1>3 DEF AllTold, Run, TableOf


-----------------------------------------------------------------------------
(* Files and the commands they define.                                     *)

NamesOf(S) == UNION {GlobalNames(fd.text) : fd \in S}

\* Whole files that have no global function in common.
Apart(S) ==
    /\ AllWhole(S)
    /\ \A fd, other \in S : fd # other => GlobalNames(fd.text) \cap GlobalNames(other.text) = {}

LEMMA FuncNamesTyped ==
    ASSUME FilesAssumption, NEW fd \in Fdatas, fd.inserted <= Len(fd.text.funcs)
    PROVE  /\ Len(FuncNames(fd)) = fd.inserted /\ Len(FuncNames(fd)) \in Nat
           /\ DOMAIN FuncNames(fd) = 1..Len(FuncNames(fd))
           /\ \A i \in DOMAIN FuncNames(fd) :
                /\ i \in DOMAIN fd.text.funcs /\ FuncNames(fd)[i] = fd.text.funcs[i].name
                /\ FuncNames(fd)[i] \in STRING \X STRING
                /\ FuncNames(fd)[i] \in FileNames(fd)
                /\ FuncNames(fd)[i] \in GlobalNames(fd.text) \cup StaticNames(fd.text)
<1> DEFINE funcs == fd.text.funcs
           names == FuncNames(fd)
<1>1. funcs \in Seq([name : STRING \X STRING, local : BOOLEAN]) /\ fd.inserted \in Nat
  BY DEF FilesAssumption, Fdatas
<1>2. names = [i \in 1..fd.inserted |-> funcs[i].name]
  BY DEF FuncNames
<1>3. /\ Len(funcs) \in Nat /\ DOMAIN funcs = 1..Len(funcs)
      /\ \A i \in DOMAIN funcs : funcs[i].name \in STRING \X STRING
  <2> DEFINE Func == [name : STRING \X STRING, local : BOOLEAN]
  <2>1. funcs \in Seq(Func) /\ \A f \in Func : f.name \in STRING \X STRING
    BY <1>1
  <2> HIDE DEF funcs, Func
  <2>2. \A i \in DOMAIN funcs : funcs[i] \in Func
    BY <2>1
  <2>3. QED
    BY <2>1, <2>2
<1>4. FileNames(fd) = {funcs[i].name : i \in DOMAIN funcs}
  BY DEF FileNames
<1>5. \A i \in DOMAIN funcs : funcs[i].name \in GlobalNames(fd.text) \cup StaticNames(fd.text)
  BY DEF GlobalNames, StaticNames
<1> HIDE DEF funcs, names
<1>6. Len(names) = fd.inserted /\ DOMAIN names = 1..fd.inserted
  BY <1>1, <1>2
<1>7. ASSUME NEW i \in DOMAIN names
      PROVE  i \in DOMAIN funcs /\ names[i] = funcs[i].name
  <2>1. fd.inserted <= Len(funcs)
    BY DEF funcs
  <2>2. QED
    BY <1>1, <1>2, <1>3, <1>6, <1>7, <2>1
<1>8. QED
  BY <1>1, <1>3, <1>4, <1>5, <1>6, <1>7 DEF funcs, names

LEMMA WholeNames ==
    ASSUME FilesAssumption, NEW fd \in Fdatas, fd.inserted = Len(fd.text.funcs)
    PROVE  /\ GlobalFuncs(fd) = GlobalNames(fd.text)
           /\ \A name \in GlobalNames(fd.text) :
                \E i \in DOMAIN FuncNames(fd) : FuncNames(fd)[i] = name
           /\ fd.text.ok => NamedOnce(FuncNames(fd))
           /\ Commands(fd) \ NativeNames \subseteq AllCommands
<1> DEFINE funcs == fd.text.funcs
           names == FuncNames(fd)
<1>1. /\ funcs \in Seq([name : STRING \X STRING, local : BOOLEAN])
      /\ fd.inserted \in Nat /\ fd.text \in Texts
  BY DEF FilesAssumption, Fdatas
<1>2. DOMAIN funcs = 1..fd.inserted
  BY <1>1
<1>3. GlobalFuncs(fd) = GlobalNames(fd.text)
  BY <1>2 DEF GlobalFuncs, GlobalNames
<1>4. names = [i \in 1..fd.inserted |-> funcs[i].name]
  BY DEF FuncNames
<1>5. \A name \in GlobalNames(fd.text) : \E i \in DOMAIN names : names[i] = name
  BY <1>2, <1>4 DEF GlobalNames
<1>6. ASSUME fd.text.ok PROVE NamedOnce(names)
  <2>1. \A i, j \in DOMAIN funcs : funcs[i].name = funcs[j].name => i = j
    BY <1>1, <1>6, OnceAssumption
  <2>2. fd.inserted <= Len(fd.text.funcs)
    BY <1>1
  <2>3. \A i \in DOMAIN names :
            i \in DOMAIN funcs /\ names[i] = funcs[i].name /\ names[i] \in STRING \X STRING
    BY <2>2, FuncNamesTyped
  <2> HIDE DEF funcs, names
  <2>4. QED
    BY <2>1, <2>3 DEF NamedOnce
<1>7. Commands(fd) \ NativeNames \subseteq AllCommands
  BY <1>1 DEF Commands, CommandBases, AllCommands
<1>8. QED
  BY <1>3, <1>5, <1>6, <1>7

LEMMA ListApart ==
    ASSUME FilesAssumption, NEW list, GoodList(list), AllWhole(Range(list))
    PROVE  Apart(Range(list)) /\ Visible(list) = NamesOf(Range(list))
<1>1. Range(list) = {list[k] : k \in DOMAIN list}
  BY DEF Range
<1>2. \A fd \in Range(list) : GlobalFuncs(fd) = GlobalNames(fd.text)
  BY WholeNames DEF AllWhole
<1>3. \A fd, other \in Range(list) : fd # other =>
        GlobalNames(fd.text) \cap GlobalNames(other.text) = {}
  BY <1>1, <1>2 DEF GoodList, Separate
<1>4. Visible(list) = NamesOf(Range(list))
  BY <1>1, <1>2 DEF Visible, NamesOf
<1>5. QED
  BY <1>3, <1>4 DEF Apart

LEMMA PairOf ==
    ASSUME NEW A, NEW B, NEW x \in A \X B
    PROVE  x = <<x[1], x[2]>>
OBVIOUS

\* A function with help and usage functions in sight is its file's command.
LEMMA TellsOwn ==
    ASSUME FilesAssumption, WholeCommands, NEW S, Apart(S),
           NEW fd \in Fdatas, NEW name \in GlobalNames(fd.text) \cup StaticNames(fd.text),
           Full(name, NamesOf(S)), name \in STRING \X STRING
    PROVE  /\ name \in GlobalNames(fd.text) /\ name = <<name[1], "">>
           /\ \E other \in S : name[1] \in Commands(other)
<1> DEFINE base == name[1]
<1>1. name = <<base, "">>
  <2>1. name[2] = "" /\ name \in STRING \X STRING
    BY DEF Full
  <2>2. name = <<name[1], name[2]>>
    BY PairOf
  <2>3. QED
    BY <2>1, <2>2
<1>2. PICK g \in S, h \in S : /\ <<base, "_help">> \in GlobalNames(g.text)
                              /\ <<base, "_usage">> \in GlobalNames(h.text)
  BY DEF Full, NamesOf
<1>3. g.text \in Texts /\ h.text \in Texts /\ fd.text \in Texts
  BY DEF Apart, AllWhole, Fdatas
<1>4. \A text \in Texts : \A suffix \in {"_help", "_usage"} :
        <<base, suffix>> \in GlobalNames(text) =>
            /\ <<base, "">> \in GlobalNames(text)
            /\ <<base, "">> \notin StaticNames(fd.text)
  <2>1. SUFFICES ASSUME NEW text \in Texts, NEW suffix \in {"_help", "_usage"},
                        <<base, suffix>> \in GlobalNames(text)
                 PROVE  <<base, "">> \in GlobalNames(text) \ StaticNames(fd.text)
    OBVIOUS
  <2> DEFINE n == <<base, suffix>>
  <2>2. n[1] = base /\ n[2] = suffix /\ n \in GlobalNames(text)
    BY <2>1
  <2> HIDE DEF n, base
  <2>3. n[2] \in {"_help", "_usage"}
    BY <2>2
  <2>4. <<n[1], "">> \in GlobalNames(text) \ StaticNames(fd.text)
    BY <1>3, <2>2, <2>3 DEF WholeCommands
  <2>5. QED
    BY <2>2, <2>4
<1>5. /\ <<base, "">> \in GlobalNames(g.text) /\ <<base, "">> \in GlobalNames(h.text)
      /\ <<base, "">> \notin StaticNames(fd.text)
  BY <1>2, <1>3, <1>4
<1>6. g = h
  BY <1>5 DEF Apart
<1>7. base \in CommandsOf(GlobalNames(g.text))
  <2>1. base \in {n[1] : n \in GlobalNames(g.text)}
    <3>1. <<base, "">>[1] = base
      OBVIOUS
    <3>2. QED
      BY <1>5, <3>1
  <2>2. \A suffix \in {"", "_help", "_usage"} : <<base, suffix>> \in GlobalNames(g.text)
    BY <1>2, <1>5, <1>6
  <2>3. QED
    BY <2>1, <2>2 DEF CommandsOf
<1>8. QED
  BY <1>1, <1>5, <1>7 DEF Commands


-----------------------------------------------------------------------------
(* The table of commands follows the files.                                *)

\* What the table holds for files S: the extension's own commands and theirs.
Entries(S) == ((UNION {Commands(fd) : fd \in S}) \ NativeNames) \cup OwnNames

\* No file makes a command of an own name.
OwnApart(S) == \A fd \in S : Commands(fd) \cap OwnNames = {}

TableMatches == TableOf(table, AllCommands, Entries(Held))

\* What keeps the commands of the old version in place when the load fails, and
\* the new one from missing them when it succeeds.
LoadFits ==
    loading # Idle =>
        /\ loading.old # NoFile => Commands(loading.old) \subseteq Commands(loading.fd)
        /\ Compiles(loading.fd, Tail(fall)) => Commands(loading.fd) \cap OwnNames = {}
        /\ \/ Compiles(loading.fd, Tail(fall))
           \/ \A i \in DOMAIN table :
                table[i] \in OwnNames \/ <<table[i], "">> \notin FileNames(loading.fd)

CmdInv ==
    /\ TableMatches
    /\ LoadFits
    /\ OwnApart(Held)
    /\ \A fd \in Held : fd.text.ok

LEMMA HeldApart ==
    ASSUME FilesAssumption, BInv
    PROVE  Apart(Held) /\ Held \subseteq Fdatas
<1>1. GoodList(fall) /\ OldFits /\ AllWhole(Standing)
  BY Parts DEF BInv
<1>2. CASE loading = Idle
  <2>1. Held = Range(fall) /\ Standing = Range(fall)
    BY <1>2, StandingIdle DEF Held
  <2>2. QED
    BY <1>1, <2>1, ListApart DEF Apart, AllWhole
<1>3. CASE loading # Idle
  <2> DEFINE t == Tail(fall)
             old == loading.old
  <2>1. GoodList(t) /\ Standing = Range(t)
    BY <1>3, StandingTail DEF BInv
  <2>2. Apart(Standing)
    BY <1>1, <2>1, ListApart
  <2>3. CASE old = NoFile
    <3>1. Held = Standing
      BY <1>3, <2>3 DEF Held
    <3>2. QED
      BY <2>2, <3>1 DEF Apart, AllWhole
  <2>4. CASE old # NoFile
    <3>1. Held = Standing \cup {old} /\ AllWhole({old})
      BY <1>3, <2>4 DEF Held, BInv
    <3>2. \A k \in DOMAIN t : GlobalFuncs(old) \cap GlobalFuncs(t[k]) = {}
      BY <1>1, <1>3, <2>4 DEF OldFits
    <3>3. \A fd \in Standing : GlobalFuncs(old) \cap GlobalFuncs(fd) = {}
      BY <2>1, <3>2 DEF Range
    <3>4. \A fd \in Standing \cup {old} : GlobalFuncs(fd) = GlobalNames(fd.text)
      BY <2>2, <3>1, WholeNames DEF Apart, AllWhole
    <3>5. \A fd \in Standing : GlobalNames(old.text) \cap GlobalNames(fd.text) = {}
      BY <3>3, <3>4
    <3> HIDE DEF old, t
    <3>6. QED
      BY <2>2, <3>1, <3>5 DEF Apart, AllWhole
  <2>5. QED
    BY <2>3, <2>4
<1>4. QED
  BY <1>2, <1>3

\* A command of two files held is impossible; a command's function is its file's.
LEMMA CommandOwner ==
    ASSUME NEW S, Apart(S), NEW fd \in S, NEW other \in S, NEW base \in Commands(fd),
           <<base, "">> \in GlobalNames(other.text)
    PROVE  fd = other
<1>1. <<base, "">> \in GlobalNames(fd.text)
  BY DEF Commands, CommandsOf
<1>2. QED
  BY <1>1 DEF Apart

LEMMA CommandFull ==
    ASSUME NEW fd, NEW S, fd \in S, NEW base \in Commands(fd)
    PROVE  Full(<<base, "">>, NamesOf(S)) /\ <<base, "">> \in GlobalNames(fd.text)
BY DEF Commands, CommandsOf, Full, NamesOf

\* The commands that the callbacks of a file are about, in the sight of files S.
LEMMA FileTold ==
    ASSUME FilesAssumption, WholeCommands, NEW S, Apart(S),
           NEW fd \in Fdatas, fd.inserted <= Len(fd.text.funcs),
           NEW base \in AllTold(FuncNames(fd), NamesOf(S))
    PROVE  /\ <<base, "">> \in GlobalNames(fd.text) /\ <<base, "">> \in FileNames(fd)
           /\ \E other \in S : base \in Commands(other)
<1> DEFINE names == FuncNames(fd)
<1>1. \A i \in DOMAIN names :
        /\ names[i] \in STRING \X STRING /\ names[i] \in FileNames(fd)
        /\ names[i] \in GlobalNames(fd.text) \cup StaticNames(fd.text)
  BY FuncNamesTyped
<1> HIDE DEF names
<1>2. PICK i \in DOMAIN names : base = names[i][1] /\ Full(names[i], NamesOf(S))
  BY DEF AllTold, Told, names
<1>3. /\ names[i] \in GlobalNames(fd.text) /\ names[i] = <<names[i][1], "">>
      /\ \E other \in S : names[i][1] \in Commands(other)
  BY <1>1, <1>2, TellsOwn
<1>4. QED
  BY <1>1, <1>2, <1>3

LEMMA OwnTold ==
    ASSUME FilesAssumption, NEW fd \in Fdatas, fd.inserted = Len(fd.text.funcs), NEW visible,
           NEW name \in GlobalNames(fd.text), Full(name, visible)
    PROVE  name[1] \in AllTold(FuncNames(fd), visible)
<1> DEFINE names == FuncNames(fd)
<1>1. fd.inserted <= Len(fd.text.funcs)
  <2>1. /\ fd.text.funcs \in Seq([name : STRING \X STRING, local : BOOLEAN])
        /\ fd.inserted \in Nat
    BY DEF FilesAssumption, Fdatas
  <2>2. QED
    BY <2>1
<1>2. Len(names) \in Nat /\ DOMAIN names = 1..Len(names)
  BY <1>1, FuncNamesTyped
<1>3. PICK i \in DOMAIN names : names[i] = name
  BY WholeNames
<1> HIDE DEF names
<1>4. i > Len(names) - Len(names)
  BY <1>2
<1>5. QED
  BY <1>3, <1>4 DEF AllTold, Told, names

\* What the load or the unload of a file that no command of the table comes from does.
LEMMA TellsNothing ==
    ASSUME FilesAssumption, TableMatches, NEW visible, NEW fd \in Fdatas,
           fd.inserted <= Len(fd.text.funcs),
           AllTold(FuncNames(fd), visible) \cap Range(table) = {}
    PROVE  TableOf(eppic_docallback(table, visible, FuncNames(fd), FALSE), AllCommands,
                   Range(table))
<1>1. Len(FuncNames(fd)) \in Nat /\ DOMAIN FuncNames(fd) = 1..Len(FuncNames(fd))
  BY FuncNamesTyped
<1>2. table \in Seq(AllCommands) /\ Distinct(table)
  BY DEF TableMatches, TableOf
<1>3. TableOf(eppic_docallback(table, visible, FuncNames(fd), FALSE), AllCommands,
              Range(table) \ AllTold(FuncNames(fd), visible))
  BY Zenon, <1>1, <1>2, UnloadTells
<1>4. Range(table) \ AllTold(FuncNames(fd), visible) = Range(table)
  OBVIOUS
<1>5. QED
  BY <1>3, <1>4

\* Files come and go without the table when the commands held stay the same.
LEMMA SameTable ==
    ASSUME TableMatches, Held' = Held, table' = table
    PROVE  TableMatches'
BY DEF TableMatches

LEMMA TableKept ==
    ASSUME TableMatches, Entries(Held') = Entries(Held),
           TableOf(table', AllCommands, Range(table))
    PROVE  TableMatches'
BY DEF TableMatches, TableOf

LEMMA BeginKeepsCommands ==
    ASSUME FilesAssumption, Faults \cap {"brokenCommand", "dropCommand", "ownCommand"} = {},
           BInv, CmdInv, NEW path \in Files, BeginLoad(path),
           Begins(path, Fdata(nloads, path, disk[path]), eppic_findfile(path))
    PROVE  CmdInv'
<1> DEFINE old == eppic_findfile(path)
           fd == Fdata(nloads, path, disk[path])
           u == Unlinked(path)
<1>1. /\ loading = Idle /\ loading' # Idle /\ loading'.fd = fd /\ loading'.old = old
      /\ Standing' = Others(path)
      /\ \/ old = NoFile /\ Others(path) = Standing
         \/ old # NoFile /\ old \in Standing /\ old.path = path
      /\ fd \in Fdatas /\ fd.path = path
  BY DEF Begins
<1>2. table' = table /\ fall' = <<fd>> \o u
  BY DEF BeginLoad, Link
<1>3. /\ Compiles(fd, u) \/ \A i \in DOMAIN table :
            table[i] \in OwnNames \/ <<table[i], "">> \notin FileNames(fd)
      /\ Compiles(fd, u) => Commands(fd) \cap OwnNames = {}
      /\ old # NoFile => Commands(old) \subseteq Commands(fd)
  BY <1>1 DEF BeginLoad, Expected
<1>4. Tail(fall') = u
  <2>1. u \in Seq(Fdatas)
    BY UnlinkedGood, Parts DEF BInv, GoodList
  <2> HIDE DEF u, fd
  <2>2. QED
    BY <1>1, <1>2, <2>1
<1> HIDE DEF old, fd, u
<1>5. Held' = Held
  <2>1. Held = Standing /\ Held' = Others(path) \cup ({old} \ {NoFile})
    BY <1>1 DEF Held
  <2>2. CASE old = NoFile
    BY <1>1, <2>1, <2>2
  <2>3. CASE old # NoFile
    <3>1. \A one \in Standing : one \notin Others(path) => one = old
      BY <1>1, Taken DEF old
    <3>2. QED
      BY <1>1, <2>1, <2>3, <3>1 DEF Others
  <2>4. QED
    BY <2>2, <2>3
<1>6. LoadFits'
  BY <1>1, <1>2, <1>3, <1>4 DEF LoadFits
<1>7. QED
  BY <1>2, <1>5, <1>6, SameTable DEF CmdInv


\* The table names commands of the files held.
LEMMA InTable ==
    ASSUME TableMatches, NEW base
    PROVE  base \in Range(table) <=>
                \/ base \in OwnNames
                \/ base \notin NativeNames /\ \E fd \in Held : base \in Commands(fd)
BY DEF TableMatches, TableOf, Entries

\* A file that is not one of those in sight tells nothing of their commands, unless
\* its functions are theirs.
LEMMA ForeignTold ==
    ASSUME FilesAssumption, WholeCommands, NEW S, Apart(S),
           NEW fd \in Fdatas, fd.inserted = Len(fd.text.funcs),
           NEW seen, Apart(seen), NEW other \in S, fd \in S,
           NEW base \in Commands(other), base \in AllTold(FuncNames(fd), NamesOf(seen))
    PROVE  other = fd
<1>1. fd.inserted <= Len(fd.text.funcs)
  <2>1. /\ fd.text.funcs \in Seq([name : STRING \X STRING, local : BOOLEAN])
        /\ fd.inserted \in Nat
    BY DEF FilesAssumption, Fdatas
  <2>2. QED
    BY <2>1
<1>2. <<base, "">> \in GlobalNames(fd.text)
  BY Zenon, <1>1, FileTold
<1>3. QED
  BY Zenon, <1>2, CommandOwner

LEMMA GoesKeepsCommands ==
    ASSUME FilesAssumption, WholeCommands, Faults \cap {"unreadable", "dropCommand"} = {},
           BInv, CmdInv, NEW path \in Files, LoadUnread(path) \/ eppic_unload(path), Goes(path)
    PROVE  CmdInv'
<1> DEFINE fd == eppic_findfile(path)
           u == Unlinked(path)
<1>1. /\ loading = Idle /\ loading' = Idle /\ Standing' = Others(path)
      /\ Held = Standing /\ Held' = Others(path) /\ Others(path) \subseteq Standing
  BY DEF Goes, Held, Others
<1>2. GoodList(fall) /\ Standing = Range(fall)
  BY <1>1, StandingIdle, Parts DEF BInv
<1>3. \/ fd = NoFile /\ \A other \in Standing : other.path # path
      \/ fd # NoFile /\ fd \in Standing /\ fd.path = path
  BY <1>2, Found
<1>4. LoadFits' /\ OwnApart(Held') /\ (\A one \in Held' : one.text.ok) /\ TableMatches
  BY <1>1 DEF LoadFits, OwnApart, CmdInv
<1>5. CASE LoadUnread(path)
  <2>1. fd = NoFile /\ table' = table
    BY <1>5 DEF LoadUnread
  <2>2. Held' = Held
    BY <1>1, <1>3, <2>1 DEF Others
  <2>3. QED
    BY <1>4, <2>1, <2>2, SameTable DEF CmdInv
<1>6. CASE eppic_unload(path)
  <2>1. /\ fd # NoFile /\ Commands(fd) = {}
        /\ table' = eppic_docallback(table, Visible(u), FuncNames(fd), FALSE)
    BY <1>6 DEF eppic_unload, Callback
  <2>2. GoodList(u) /\ Range(u) = Others(path)
    BY <1>2, UnlinkedGood, UnlinkedRange DEF Others
  <2> HIDE DEF fd, u
  <2>3. Apart(Held) /\ Held \subseteq Fdatas /\ AllWhole(Held)
    BY HeldApart DEF Apart
  <2>4. Apart(Others(path)) /\ Visible(u) = NamesOf(Others(path))
    <3>1. AllWhole(Range(u))
      BY <1>1, <2>2, <2>3 DEF AllWhole
    <3>2. QED
      BY <2>2, <3>1, ListApart
  <2>5. fd \in Held /\ fd \in Fdatas /\ fd.inserted = Len(fd.text.funcs)
    BY <1>1, <1>3, <2>1, <2>3 DEF AllWhole
  <2>6. fd.inserted <= Len(fd.text.funcs)
    <3>1. /\ fd.text.funcs \in Seq([name : STRING \X STRING, local : BOOLEAN])
          /\ fd.inserted \in Nat
      BY <2>5 DEF FilesAssumption, Fdatas
    <3>2. QED
      BY <2>5, <3>1
  <2>7. AllTold(FuncNames(fd), NamesOf(Others(path))) \cap Range(table) = {}
    <3>1. SUFFICES ASSUME NEW base \in AllTold(FuncNames(fd), NamesOf(Others(path))),
                          base \in Range(table)
                   PROVE  FALSE
      OBVIOUS
    <3>2. PICK one \in Others(path) : base \in Commands(one)
      BY Zenon, <2>4, <2>5, <2>6, <3>1, FileTold
    <3>3. base \notin OwnNames
      BY <1>1, <3>2 DEF CmdInv, OwnApart
    <3>4. PICK other \in Held : base \in Commands(other)
      BY <1>4, <3>1, <3>3, InTable
    <3>5. other = fd
      BY Zenon, <2>3, <2>4, <2>5, <3>1, <3>4, ForeignTold
    <3>6. QED
      BY <2>1, <3>4, <3>5
  <2>8. TableOf(table', AllCommands, Range(table))
    BY <1>4, <2>1, <2>4, <2>5, <2>6, <2>7, TellsNothing
  <2>9. Entries(Held') = Entries(Held)
    <3>1. \A one \in Held : one \in Held' \/ one = fd
      BY <1>1, Taken DEF fd
    <3>2. QED
      BY <1>1, <2>1, <3>1 DEF Entries
  <2>10. QED
    BY <1>4, <2>8, <2>9, TableKept DEF CmdInv
<1>7. QED
  BY <1>5, <1>6

LEMMA FailKeepsCommands ==
    ASSUME FilesAssumption, WholeCommands, BInv, BInv', CmdInv,
           FailParse, Ends({loading.old} \ {NoFile})
    PROVE  CmdInv'
<1> DEFINE old == loading.old
           fd == loading.fd
           list == IF old = NoFile THEN Tail(fall) ELSE <<old>> \o Tail(fall)
<1>1. /\ loading # Idle /\ loading' = Idle /\ ~Compiles(fd, Tail(fall)) /\ fall' = list
      /\ \E k \in 0..Len(fd.text.funcs) :
            \/ table' = table
            \/ table' = Callback(table, list, [fd EXCEPT !.inserted = k], FALSE)
  BY DEF FailParse
<1>2. fd \in Fdatas /\ fd.text \in Texts
  BY <1>1, StandingTail DEF BInv, Fdatas
<1>3. Standing' = Standing \cup ({old} \ {NoFile}) /\ Held' = Held
  BY <1>1 DEF Ends, Held
<1>4. LoadFits' /\ OwnApart(Held') /\ (\A one \in Held' : one.text.ok) /\ TableMatches
  BY <1>1, <1>3 DEF LoadFits, CmdInv
<1>5. \A i \in DOMAIN table : table[i] \in OwnNames \/ <<table[i], "">> \notin FileNames(fd)
  BY <1>1 DEF CmdInv, LoadFits
<1>6. \A base \in Range(table) : base \in OwnNames \/ <<base, "">> \notin FileNames(fd)
  BY <1>5 DEF Range
<1>7. CASE table' = table
  BY <1>3, <1>4, <1>7, SameTable DEF CmdInv
<1>8. ASSUME NEW k \in 0..Len(fd.text.funcs),
             table' = Callback(table, list, [fd EXCEPT !.inserted = k], FALSE)
      PROVE  CmdInv'
  <2> DEFINE part == [fd EXCEPT !.inserted = k]
             visible == Visible(list)
  <2>1. table' = eppic_docallback(table, visible, FuncNames(part), FALSE)
    BY <1>8 DEF Callback
  <2>2. /\ fd.text.funcs \in Seq([name : STRING \X STRING, local : BOOLEAN])
        /\ Len(fd.text.funcs) \in Nat /\ k \in Nat /\ k <= Len(fd.text.funcs)
    <3>1. fd.text.funcs \in Seq([name : STRING \X STRING, local : BOOLEAN])
      BY <1>2 DEF FilesAssumption
    <3> HIDE DEF fd
    <3>2. QED
      BY <3>1
  <2>3. part \in Fdatas /\ part.text = fd.text /\ part.inserted = k
    <3> HIDE DEF fd
    <3>1. QED
      BY <1>2, <2>2 DEF Fdatas
  <2>4. FileNames(part) = FileNames(fd)
    BY <2>3 DEF FileNames
  <2> HIDE DEF part, fd
  <2> HIDE DEF list
  <2>5. Apart(Held') /\ visible = NamesOf(Held')
    <3>1. GoodList(fall') /\ AllWhole(Standing') /\ Standing' = Range(fall')
      <4>1. IInv' /\ AllWhole(Standing)'
        BY DEF BInv
      <4>2. GoodList(fall')
        BY <4>1 DEF IInv
      <4>3. Standing' = Range(fall')
        BY <1>1 DEF Standing, BeingLoaded
      <4>4. QED
        BY <4>1, <4>2, <4>3 DEF AllWhole
    <3>2. Held' = Standing'
      BY <1>1 DEF Held
    <3>3. QED
      BY <1>1, <3>1, <3>2, ListApart
  <2> HIDE DEF visible
  <2>6. part.inserted <= Len(part.text.funcs)
    BY <2>2, <2>3
  <2>7. AllTold(FuncNames(part), visible) \cap Range(table) = {}
    <3>1. SUFFICES ASSUME NEW base \in AllTold(FuncNames(part), visible),
                          base \in Range(table)
                   PROVE  FALSE
      OBVIOUS
    <3>2. /\ <<base, "">> \in FileNames(part)
          /\ \E other \in Held' : base \in Commands(other)
      BY Zenon, <2>3, <2>5, <2>6, <3>1, FileTold
    <3>3. base \notin OwnNames
      BY <1>4, <3>2 DEF OwnApart
    <3>4. QED
      BY <1>6, <2>4, <3>1, <3>2, <3>3 DEF fd
  <2>8. TableOf(table', AllCommands, Range(table))
    BY Zenon, <1>4, <2>1, <2>3, <2>6, <2>7, TellsNothing
  <2>9. Entries(Held') = Entries(Held)
    BY <1>3
  <2>10. QED
    BY <1>4, <2>8, <2>9, TableKept DEF CmdInv
<1>9. QED
  BY <1>1, <1>7, <1>8


\* The old version's commands leave the table, but for those of files that stay.
LEMMA OldLeaves ==
    ASSUME FilesAssumption, WholeCommands, BInv, CmdInv, loading # Idle,
           NEW new \in Fdatas, new.text = loading.fd.text,
           NEW now, now = Standing \cup {new}, Apart(now), OwnApart(now),
           NEW told,
           told = IF loading.old = NoFile THEN table
                  ELSE eppic_docallback(table, NamesOf(now), FuncNames(loading.old), FALSE)
    PROVE  TableOf(told, AllCommands, Entries(Standing))
<1> DEFINE old == loading.old
           set == AllTold(FuncNames(old), NamesOf(now))
<1>1. /\ TableMatches /\ Held = Standing \cup ({old} \ {NoFile})
      /\ Apart(Held) /\ Held \subseteq Fdatas /\ AllWhole(Held)
  BY HeldApart DEF CmdInv, Held, Apart
<1>2. CASE old = NoFile
  <2>1. Held = Standing
    BY <1>1, <1>2
  <2>2. QED
    BY <1>1, <1>2, <2>1 DEF TableMatches
<1>3. CASE old # NoFile
  <2>1. old \in Held /\ old \in Fdatas /\ old.inserted = Len(old.text.funcs)
    BY <1>1, <1>3 DEF AllWhole
  <2>2. old.inserted <= Len(old.text.funcs)
    <3>1. /\ old.text.funcs \in Seq([name : STRING \X STRING, local : BOOLEAN])
          /\ old.inserted \in Nat
      BY <2>1 DEF FilesAssumption, Fdatas
    <3> HIDE DEF old
    <3>2. QED
      BY <2>1, <3>1
  <2>3. Len(FuncNames(old)) \in Nat /\ DOMAIN FuncNames(old) = 1..Len(FuncNames(old))
    BY <2>1, <2>2, FuncNamesTyped
  <2>4. Commands(old) \subseteq Commands(new)
    BY <1>3 DEF CmdInv, LoadFits, Commands
  <2>5. told = eppic_docallback(table, NamesOf(now), FuncNames(old), FALSE)
    BY <1>3
  <2>6. table \in Seq(AllCommands) /\ Distinct(table) /\ Range(table) = Entries(Held)
    BY <1>1 DEF TableMatches, TableOf
  <2> HIDE DEF old, set
  <2>7. TableOf(told, AllCommands, Entries(Held) \ set)
    <3>1. TableOf(eppic_docallback(table, NamesOf(now), FuncNames(old), FALSE), AllCommands,
                  Range(table) \ AllTold(FuncNames(old), NamesOf(now)))
      BY Zenon, <2>3, <2>6, UnloadTells
    <3>2. QED
      BY <2>5, <2>6, <3>1 DEF set
  <2>8. \A base \in Commands(old) : base \in set
    <3>1. SUFFICES ASSUME NEW base \in Commands(old) PROVE base \in set
      OBVIOUS
    <3> DEFINE name == <<base, "">>
    <3>2. name \in GlobalNames(old.text) /\ base \in Commands(new) /\ name[1] = base
      BY <2>4, CommandFull
    <3>3. Full(name, NamesOf(now))
      BY Zenon, <3>2, CommandFull
    <3> HIDE DEF name
    <3>4. name[1] \in AllTold(FuncNames(old), NamesOf(now))
      BY Zenon, <2>1, <3>2, <3>3, OwnTold
    <3>5. QED
      BY <3>2, <3>4 DEF set
  <2>9. \A other \in Standing : other # old => Commands(other) \cap set = {}
    <3>1. SUFFICES ASSUME NEW other \in Standing, NEW base \in Commands(other), base \in set
                   PROVE  other = old
      OBVIOUS
    <3>2. other \in Held
      BY <1>1
    <3>3. QED
      BY Zenon, <1>1, <2>1, <3>1, <3>2, ForeignTold DEF set
  <2>10. old \notin Standing
    BY <1>3 DEF BInv, OwnIds, Coming, old
  <2>11. set \cap OwnNames = {}
    <3>1. SUFFICES ASSUME NEW base \in set PROVE base \notin OwnNames
      OBVIOUS
    <3>2. \E one \in now : base \in Commands(one)
      BY Zenon, <2>1, <2>2, <3>1, FileTold DEF set
    <3>3. QED
      BY <3>2 DEF OwnApart
  <2>12. Entries(Held) \ set = Entries(Standing)
    <3>1. Held = Standing \cup {old}
      BY <1>1, <1>3 DEF old
    <3>2. \A base : base \in Entries(Held) \ set <=>
                /\ base \notin set
                /\ \/ base \in OwnNames
                   \/ /\ base \notin NativeNames
                      /\ \E one \in Standing \cup {old} : base \in Commands(one)
      BY <3>1 DEF Entries
    <3>3. \A base : base \in Entries(Standing) <=>
                \/ base \in OwnNames
                \/ base \notin NativeNames /\ \E one \in Standing : base \in Commands(one)
      BY DEF Entries
    <3>4. \A one \in Standing : one # old
      BY <2>10
    <3>5. QED
      BY <2>8, <2>9, <2>11, <3>2, <3>3, <3>4
  <2>13. QED
    BY <2>7, <2>12
<1>4. QED
  BY <1>2, <1>3


\* The new version's commands join it, each once.
LEMMA NewJoins ==
    ASSUME FilesAssumption, WholeCommands, RoomForCommands, NEW rest,
           NEW new \in Fdatas, new.inserted = Len(new.text.funcs), new.text.ok, new \notin rest,
           NEW now, now = rest \cup {new}, Apart(now), OwnApart({new}),
           NEW told, TableOf(told, AllCommands, Entries(rest))
    PROVE  TableOf(eppic_docallback(told, NamesOf(now), FuncNames(new), TRUE),
                   AllCommands, Entries(now))
<1> DEFINE names == FuncNames(new)
           set == AllTold(names, NamesOf(now))
<1>1. new.inserted <= Len(new.text.funcs)
  <2>1. /\ new.text.funcs \in Seq([name : STRING \X STRING, local : BOOLEAN])
        /\ new.inserted \in Nat
    BY DEF FilesAssumption, Fdatas
  <2>2. QED
    BY <2>1
<1>2. Len(names) \in Nat /\ DOMAIN names = 1..Len(names) /\ NamedOnce(names)
  BY <1>1, FuncNamesTyped, WholeNames
<1>3. set = Commands(new)
  <2>1. ASSUME NEW base \in set PROVE base \in Commands(new)
    <3>1. /\ <<base, "">> \in GlobalNames(new.text)
          /\ \E other \in now : base \in Commands(other)
      BY Zenon, <1>1, <2>1, FileTold
    <3>2. PICK other \in now : base \in Commands(other)
      BY <3>1
    <3>3. new \in now
      OBVIOUS
    <3>4. other = new
      BY Zenon, <3>1, <3>2, <3>3, CommandOwner
    <3>5. QED
      BY <3>2, <3>4
  <2>2. ASSUME NEW base \in Commands(new) PROVE base \in set
    <3> DEFINE name == <<base, "">>
    <3>1. name \in GlobalNames(new.text) /\ name[1] = base
      BY <2>2, CommandFull
    <3>2. new \in now
      OBVIOUS
    <3>3. Full(name, NamesOf(now))
      BY Zenon, <2>2, <3>2, CommandFull
    <3> HIDE DEF name, set
    <3>4. name[1] \in AllTold(names, NamesOf(now))
      BY Zenon, <3>1, <3>3, OwnTold
    <3>5. QED
      BY <3>1, <3>4 DEF set
  <2>3. QED
    BY <2>1, <2>2
<1>4. set \cap Entries(rest) = {}
  <2>1. ASSUME NEW other \in rest, NEW base \in Commands(other), base \in set PROVE FALSE
    <3>1. other \in now /\ new \in now
      OBVIOUS
    <3>2. other = new
      BY Zenon, <2>1, <3>1, ForeignTold
    <3>3. QED
      BY <3>2
  <2> HIDE DEF set
  <2>2. set \cap OwnNames = {}
    BY <1>3 DEF OwnApart
  <2>3. QED
    BY <2>1, <2>2 DEF Entries
<1>5. /\ set \ NativeNames \subseteq AllCommands
      /\ Entries(now) = Entries(rest) \cup (set \ NativeNames)
  <2>1. Commands(new) \ NativeNames \subseteq AllCommands
    BY WholeNames
  <2> HIDE DEF set
  <2>2. QED
    BY <1>3, <2>1 DEF Entries
<1>6. told \in Seq(AllCommands) /\ Distinct(told) /\ Range(told) = Entries(rest)
  BY DEF TableOf
<1>7. AllTold(names, NamesOf(now)) \cap Range(told) = {}
  BY <1>4, <1>6
<1>8. /\ IsFiniteSet(AllCommands) /\ Cardinality(AllCommands) <= MaxCmds /\ MaxCmds \in Nat
  BY DEF RoomForCommands, FilesAssumption
<1>9. AllTold(names, NamesOf(now)) \ NativeNames \subseteq AllCommands
  BY <1>5
<1> HIDE DEF names, set
<1>10.
      TableOf(eppic_docallback(told, NamesOf(now), names, TRUE), AllCommands,
              Range(told) \cup (AllTold(names, NamesOf(now)) \ NativeNames))
  BY Zenon, <1>2, <1>6, <1>7, <1>8, <1>9, LoadTells
<1>11.
      Range(told) \cup (AllTold(names, NamesOf(now)) \ NativeNames) = Entries(now)
  BY <1>5, <1>6 DEF set
<1>12. QED
  BY <1>10, <1>11 DEF names

LEMMA InstallKeepsCommands ==
    ASSUME FilesAssumption, WholeCommands, RoomForCommands, BInv, BInv', CmdInv,
           Install, Ends({Stamped(loading.fd, clock)})
    PROVE  CmdInv'
<1> DEFINE new == Stamped(loading.fd, clock)
           old == loading.old
           now == Standing \cup {new}
           told == IF old = NoFile THEN table
                   ELSE eppic_docallback(table, NamesOf(now), FuncNames(old), FALSE)
<1>1. /\ loading # Idle /\ loading' = Idle /\ loading.fd.text.ok
      /\ fall' = <<new>> \o Tail(fall)
      /\ LET before == IF old = NoFile THEN table
                       ELSE Callback(table, fall', old, FALSE)
         IN  table' = Callback(before, fall', new, TRUE)
  BY DEF Install, Parsed, Compiles, Stamped
<1>2. /\ Standing' = now /\ Held' = now
      /\ new \in Fdatas /\ new.inserted = Len(new.text.funcs)
  BY <1>1 DEF Ends, Held, AllWhole
<1>3. new.text = loading.fd.text /\ new.path = loading.fd.path
  <2>1. loading.fd \in Fdatas
    BY <1>1, StandingTail DEF BInv
  <2>2. QED
    BY <2>1 DEF Stamped, Whole, Fdatas
<1>4. GoodList(fall') /\ AllWhole(Standing') /\ Standing' = Range(fall')
  <2>1. IInv' /\ AllWhole(Standing)'
    BY DEF BInv
  <2>2. GoodList(fall')
    BY <2>1 DEF IInv
  <2>3. Standing' = Range(fall')
    BY <1>1 DEF Standing, BeingLoaded
  <2>4. QED
    BY <2>1, <2>2, <2>3 DEF AllWhole
<1>5. Apart(now) /\ Visible(fall') = NamesOf(now)
  <2>1. Apart(Range(fall')) /\ Visible(fall') = NamesOf(Range(fall'))
    BY <1>4, ListApart
  <2>2. QED
    BY <1>2, <1>4, <2>1
<1>6. table' = eppic_docallback(told, NamesOf(now), FuncNames(new), TRUE)
  BY <1>1, <1>5 DEF Callback
<1>7. new \notin Standing
  BY <1>1, <1>3 DEF Standing, BeingLoaded
<1>8. OwnApart(now) /\ OwnApart({new})
  <2>1. Compiles(loading.fd, Tail(fall)) /\ Commands(new) = Commands(loading.fd)
    BY <1>3 DEF Install, Parsed, Commands
  <2>2. Commands(new) \cap OwnNames = {}
    BY <1>1, <2>1 DEF CmdInv, LoadFits
  <2>3. OwnApart(Standing)
    BY DEF CmdInv, OwnApart, Held
  <2>4. QED
    BY <2>2, <2>3 DEF OwnApart
<1>9. TableOf(told, AllCommands, Entries(Standing))
  <2> HIDE DEF new, now
  <2>1. now = Standing \cup {new}
    BY DEF now
  <2>2. QED
    BY <1>1, <1>2, <1>3, <1>5, <1>8, <2>1, OldLeaves DEF new
<1>10. TableOf(table', AllCommands, Entries(now))
  <2> HIDE DEF new, told
  <2>1. new.text.ok
    BY <1>1, <1>3 DEF new
  <2>2. QED
    BY Zenon, <1>2, <1>5, <1>6, <1>7, <1>9, <1>8, <2>1, NewJoins DEF now
<1>11. \A fd \in Held' : fd.text.ok
  <2>1. \A fd \in Standing : fd.text.ok
    BY DEF CmdInv, Held
  <2> HIDE DEF new
  <2>2. new.text.ok
    BY <1>1, <1>3 DEF new
  <2>3. QED
    BY <1>2, <2>1, <2>2
<1> HIDE DEF new, now
<1>12. TableMatches'
  BY <1>2, <1>10 DEF TableMatches
<1>13. QED
  BY <1>1, <1>2, <1>11, <1>12, <1>8 DEF CmdInv, LoadFits

LEMMA CmdStep ==
    ASSUME FilesAssumption, WholeCommands, RoomForCommands,
           Faults \cap {"dupGlobal", "unreadable", "brokenCommand", "dropCommand", "ownCommand"} = {},
           BInv, BInv', VarsApart, GlobsMatch, CmdInv, [Next]_vars
    PROVE  CmdInv'
<1>1. ASSUME NEW path \in Files, BeginLoad(path),
             Begins(path, Fdata(nloads, path, disk[path]), eppic_findfile(path))
      PROVE  CmdInv'
  BY <1>1, BeginKeepsCommands
<1>2. ASSUME NEW path \in Files, LoadUnread(path) \/ eppic_unload(path), Goes(path)
      PROVE  CmdInv'
  BY <1>2, GoesKeepsCommands
<1>3. CASE Install /\ Ends({Stamped(loading.fd, clock)})
  BY <1>3, InstallKeepsCommands
<1>4. CASE InstallJumpsOut
  <2>1. loading.fd \in Coming /\ Duplicates(globs, loading.fd)
    BY <1>4 DEF InstallJumpsOut, Parsed, Coming
  <2>2. QED
    BY <2>1, NoDuplicates
<1>5. CASE FailParse /\ Ends({loading.old} \ {NoFile})
  BY <1>5, FailKeepsCommands
<1>6. CASE /\ Stays
           /\ \/ CallFunction \/ ReturnFunction \/ Tick \/ \E path \in Files : Edit(path)
              \/ UNCHANGED vars
  <2>1. table' = table /\ loading' = loading /\ fall' = fall /\ Standing' = Standing
    BY <1>6 DEF Stays, CallFunction, ReturnFunction, Tick, Edit, vars
  <2>2. Held' = Held
    BY <2>1 DEF Held
  <2>3. LoadFits' /\ OwnApart(Held') /\ \A fd \in Held' : fd.text.ok
    BY <2>1, <2>2 DEF CmdInv, LoadFits, Compiles, Conflicts
  <2>4. QED
    BY <2>1, <2>2, <2>3, SameTable DEF CmdInv
<1>7. QED
  BY <1>1, <1>2, <1>3, <1>4, <1>5, <1>6, StepSorted

(***************************************************************************)
(* CommandsRegistered: the callbacks of eppic_newfile and eppic_freefile     *)
(* keep crash's table equal to the extension's own commands and those of the *)
(* loaded files, through reloads and failed loads.  They look for help and   *)
(* usage functions in every file, and a full table drops a command: hence    *)
(* the two conditions on the texts; a name of the extension's own is not     *)
(* refused: hence "ownCommand".  A file that unloads itself, or changes      *)
(* while it is loaded, does no harm.                                        *)
(***************************************************************************)
THEOREM CommandsFollowFiles ==
    ASSUME Faults \cap {"dupGlobal", "unreadable", "brokenCommand", "dropCommand", "ownCommand"} = {},
           WholeCommands, RoomForCommands
    PROVE  Spec => []CommandsRegistered
<1> DEFINE CInv == BInv /\ VarsApart /\ GlobsMatch /\ CmdInv
<1>1. Init => CInv
  <2>1. SUFFICES ASSUME Init PROVE CInv
    OBVIOUS
  <2>2. BInv /\ Standing = {} /\ Coming = {} /\ loading = Idle
    BY <2>1, BInvInit, FilesAssumption DEF Init
  <2>3. fall = << >> /\ globs = << >> /\ table = OwnCommands
    BY <2>1 DEF Init
  <2>4. VarsApart /\ GlobsMatch
    BY <2>2, <2>3 DEF VarsApart, GlobsMatch, Range
  <2>5. Held = {}
    BY <2>2 DEF Held
  <2>6. TableMatches
    <3>1. /\ OwnCommands \in Seq(STRING) /\ Distinct(OwnCommands)
          /\ OwnNames = {OwnCommands[i] : i \in DOMAIN OwnCommands}
      BY OwnAssumption DEF Distinct, OwnNames, Range
    <3>2. OwnCommands \in Seq(AllCommands)
      BY <3>1 DEF AllCommands
    <3>3. Entries(Held) = Range(OwnCommands)
      BY <2>5 DEF Entries, OwnNames
    <3>4. QED
      BY <2>3, <3>1, <3>2, <3>3 DEF TableMatches, TableOf
  <2>7. QED
    BY <2>2, <2>4, <2>5, <2>6 DEF CmdInv, LoadFits, OwnApart
<1>2. CInv /\ [Next]_vars => CInv'
  <2>1. SUFFICES ASSUME CInv, [Next]_vars PROVE CInv'
    OBVIOUS
  <2>2. BInv' /\ VarsApart' /\ GlobsMatch'
    BY <2>1, BInvStep, VarsStep, GlobsStep, FilesAssumption
  <2>3. CmdInv'
    BY <2>1, <2>2, CmdStep, FilesAssumption
  <2>4. QED
    BY <2>2, <2>3
<1>3. CInv => CommandsRegistered
  <2>1. SUFFICES ASSUME CInv PROVE CommandsRegistered
    OBVIOUS
  <2>2. Range(table) = {table[i] : i \in DOMAIN table} /\ TableMatches
    BY <2>1 DEF Range, CmdInv
  <2>3. ASSUME NEW base \in OwnNames PROVE \E i \in DOMAIN table : table[i] = base
    BY <2>2, InTable
  <2>4. ASSUME loading = Idle
        PROVE  /\ Held = Range(fall) /\ Range(fall) = {fall[k] : k \in DOMAIN fall}
               /\ \A fd \in Held : GlobalFuncs(fd) = GlobalNames(fd.text)
    <3>1. Held = Range(fall) /\ Apart(Held)
      BY <2>1, <2>4, StandingIdle, HeldApart, Parts, FilesAssumption DEF Held, BInv
    <3>2. QED
      BY <3>1, WholeNames, FilesAssumption DEF Apart, AllWhole, Range
  <2>5. ASSUME loading = Idle, NEW k \in DOMAIN fall,
               NEW base \in CommandsOf(GlobalFuncs(fall[k])) \ NativeNames
        PROVE  \E i \in DOMAIN table : table[i] = base
    <3>1. fall[k] \in Held /\ base \in Commands(fall[k])
      BY <2>4, <2>5 DEF Commands
    <3>2. base \in Range(table)
      BY <2>2, <3>1, InTable
    <3>3. QED
      BY <2>2, <3>2
  <2>6. ASSUME loading = Idle, NEW i \in DOMAIN table, table[i] \notin OwnNames
        PROVE  <<table[i], "">> \in Visible(fall)
    <3>1. table[i] \in Range(table)
      BY <2>2
    <3>2. PICK fd \in Held : table[i] \in Commands(fd)
      BY <2>2, <2>6, <3>1, InTable
    <3>3. <<table[i], "">> \in GlobalFuncs(fd)
      BY <2>4, <2>6, <3>2, CommandFull
    <3>4. QED
      BY <2>4, <2>6, <3>3 DEF Visible
  <2>7. \A i, j \in DOMAIN table : table[i] = table[j] => i = j
    BY <2>2 DEF TableMatches, TableOf, Distinct
  <2>8. QED
    BY <2>3, <2>5, <2>6, <2>7 DEF CommandsRegistered
<1>4. QED
  BY <1>1, <1>2, <1>3, PTL DEF Spec

=============================================================================
