-------------------------- MODULE EppicFilesProofs --------------------------
(***************************************************************************)
(* Proofs about EppicFiles for every set of paths, texts and faults, and   *)
(* every bound: the types, and that whatever fails half way, a path is on  *)
(* the list of files once and a global function has one definition; then    *)
(* what loads and unloads keep, and that they implement FileRegistry.        *)
(***************************************************************************)
EXTENDS EppicFiles, SequenceTheorems, WellFoundedInduction, TLAPS

\* No function is counted that the text does not have.
Complete(fd) == fd \in Fdatas /\ fd.inserted <= Len(fd.text.funcs)

GoodList(list) ==
    /\ list \in Seq(Fdatas)
    /\ \A k \in DOMAIN list : Complete(list[k])
    /\ Separate(list)

\* While a file is parsed it has no function yet, and the version it replaces
\* could be put back in its place.
OldFits ==
    loading # Idle =>
        /\ fall # << >> /\ loading.fd = fall[1]
        /\ loading.old # NoFile =>
            /\ Complete(loading.old)
            /\ loading.old.path = loading.fd.path
            /\ \A k \in DOMAIN Tail(fall) :
                GlobalFuncs(loading.old) \cap GlobalFuncs(Tail(fall)[k]) = {}

IInv == TypeOK /\ GoodList(fall) /\ OldFits

-----------------------------------------------------------------------------
(* Lists.                                                                  *)

\* RemoveAt closes the gap.
LEMMA RemovedAt ==
    ASSUME NEW S, NEW s \in Seq(S), NEW n \in 1..Len(s)
    PROVE  /\ RemoveAt(s, n) \in Seq(S)
           /\ Len(RemoveAt(s, n)) = Len(s) - 1
           /\ \A i \in 1..Len(s) - 1 :
                RemoveAt(s, n)[i] = IF i < n THEN s[i] ELSE s[i + 1]
<1> DEFINE a == SubSeq(s, 1, n - 1)
           b == SubSeq(s, n + 1, Len(s))
           r == a \o b
<1>0. Len(s) \in Nat /\ n \in Nat
  OBVIOUS
<1>1. /\ a \in Seq(S) /\ Len(a) = n - 1
      /\ \A i \in 1..n - 1 : a[i] = s[i]
  <2>1. /\ a \in Seq(S)
        /\ Len(a) = IF 1 <= n - 1 THEN n - 1 - 1 + 1 ELSE 0
        /\ \A i \in 1..n - 1 - 1 + 1 : a[i] = s[1 + i - 1]
    BY SubSeqProperties
  <2>2. QED
    BY <2>1
<1>2. /\ b \in Seq(S) /\ Len(b) = Len(s) - n
      /\ \A i \in 1..Len(s) - n : b[i] = s[n + i]
  <2>1. /\ b \in Seq(S)
        /\ Len(b) = IF n + 1 <= Len(s) THEN Len(s) - (n + 1) + 1 ELSE 0
        /\ \A i \in 1..Len(s) - (n + 1) + 1 : b[i] = s[(n + 1) + i - 1]
    BY SubSeqProperties
  <2>2. QED
    BY <2>1
<1>3. /\ r \in Seq(S) /\ Len(r) = Len(a) + Len(b)
      /\ \A i \in 1..Len(a) + Len(b) :
            r[i] = IF i <= Len(a) THEN a[i] ELSE b[i - Len(a)]
  BY <1>1, <1>2, ConcatProperties
<1>4. RemoveAt(s, n) = r
  BY DEF RemoveAt
<1> HIDE DEF a, b, r
<1>5. Len(r) = Len(s) - 1
  BY <1>0, <1>1, <1>2, <1>3
<1>6. ASSUME NEW i \in 1..Len(s) - 1
      PROVE  r[i] = IF i < n THEN s[i] ELSE s[i + 1]
  <2>1. i \in Nat
    OBVIOUS
  <2>2. CASE i < n
    BY <1>0, <1>1, <1>2, <1>3, <2>1, <2>2
  <2>3. CASE i >= n
    <3>1. r[i] = b[i - (n - 1)] /\ i - (n - 1) \in 1..Len(s) - n
      <4>1. /\ i \in 1..Len(a) + Len(b) /\ ~ (i <= Len(a))
            /\ i - Len(a) = i - (n - 1) /\ i - (n - 1) \in 1..Len(s) - n
        BY <1>0, <1>1, <1>2, <2>1, <2>3
      <4>2. r[i] = b[i - Len(a)]
        BY <1>3, <4>1
      <4>3. QED
        BY <4>1, <4>2
    <3>2. b[i - (n - 1)] = s[n + (i - (n - 1))]
      BY <1>2, <3>1
    <3>3. n + (i - (n - 1)) = i + 1 /\ ~ (i < n)
      BY <1>0, <2>1, <2>3
    <3>4. QED
      BY <3>1, <3>2, <3>3
  <2>4. QED
    BY <1>0, <2>1, <2>2, <2>3
<1>7. QED
  BY <1>3, <1>4, <1>5, <1>6

\* SelectInSeq has a position to return: the least of the matching ones.
LEMMA LeastPosition ==
    ASSUME NEW I \in SUBSET Nat, I # {}
    PROVE  Min(I) \in I /\ \A i \in I : Min(I) <= i
<1> DEFINE R == {p \in Nat \X Nat : p[1] < p[2]}
<1>1. OpToRel(<, Nat) = R
  BY Zenon DEF OpToRel
<1>2. IsWellFoundedOn(R, Nat)
  BY Zenon, <1>1, NatLessThanWellFounded
<1>3. PICK x \in I : \A y \in I : ~ (<<y, x>> \in R)
  <2> HIDE DEF R
  <2>1. QED
    BY <1>2, WFMin
<1>4. \A y \in I : x <= y
  <2>1. TAKE y \in I
  <2>2. x \in Nat /\ y \in Nat
    OBVIOUS
  <2>3. y < x => <<y, x>> \in R
    BY <2>2
  <2>4. QED
    BY <1>3, <2>2, <2>3
<1>5. QED
  BY <1>4 DEF Min

\* eppic_findfile stops at the first file of that path, or finds none.
LEMMA FirstFile ==
    ASSUME fall \in Seq(Fdatas), NEW path
    PROVE  \/ First(path) = 0 /\ \A k \in DOMAIN fall : fall[k].path # path
           \/ First(path) \in DOMAIN fall /\ fall[First(path)].path = path
<1> DEFINE I == {k \in 1..Len(fall) : fall[k].path = path}
<1>1. First(path) = IF I # {} THEN Min(I) ELSE 0
  BY DEF First, SelectInSeq
<1>2. I \in SUBSET Nat
  OBVIOUS
<1>3. I # {} => Min(I) \in I
  <2> HIDE DEF I
  <2>1. QED
    BY <1>2, LeastPosition
<1>4. QED
  BY <1>1, <1>3

\* What the unlink leaves: files of the list, in a good list, none of that path.
LEMMA UnlinkedGood ==
    ASSUME GoodList(fall), NEW path
    PROVE  /\ GoodList(Unlinked(path))
           /\ \A i \in DOMAIN Unlinked(path) :
                /\ Unlinked(path)[i].path # path
                /\ \E j \in DOMAIN fall : /\ Unlinked(path)[i] = fall[j]
                                          /\ j # First(path)
<1> DEFINE u == Unlinked(path)
           n == First(path)
<1>1. \/ n = 0 /\ \A k \in DOMAIN fall : fall[k].path # path
      \/ n \in DOMAIN fall /\ fall[n].path = path
  BY FirstFile DEF GoodList
<1>2. u = IF \E i \in 1..Len(fall) : fall[i].path = path
          THEN RemoveAt(fall, n) ELSE fall
  BY DEF Unlinked, RemoveFirstMatch, First
<1> HIDE DEF u, n
<1>3. fall \in Seq(Fdatas) /\ DOMAIN fall = 1..Len(fall) /\ Len(fall) \in Nat
  BY DEF GoodList
<1>4. CASE n = 0
  <2>1. u = fall
    BY <1>1, <1>2, <1>3, <1>4
  <2>2. QED
    BY <1>1, <1>3, <1>4, <2>1 DEF u, n
<1>5. CASE n # 0
  <2>1. n \in 1..Len(fall) /\ fall[n].path = path /\ u = RemoveAt(fall, n)
    BY <1>1, <1>2, <1>3, <1>5
  <2>2. /\ u \in Seq(Fdatas) /\ Len(u) = Len(fall) - 1
        /\ \A i \in 1..Len(u) : u[i] = IF i < n THEN fall[i] ELSE fall[i + 1]
    BY <1>3, <2>1, RemovedAt
  <2>3. ASSUME NEW i \in DOMAIN u
        PROVE  \E j \in DOMAIN fall :
                    u[i] = fall[j] /\ j # n /\ j = IF i < n THEN i ELSE i + 1
    <3>1. i \in 1..Len(u) /\ i \in Nat
      BY <2>2
    <3>2. CASE i < n
      BY <1>3, <2>1, <2>2, <3>1, <3>2
    <3>3. CASE ~ (i < n)
      BY <1>3, <2>1, <2>2, <3>1, <3>3
    <3>4. QED
      BY <3>2, <3>3
  <2>4. \A k, l \in DOMAIN fall : k # l =>
            /\ fall[k].path # fall[l].path
            /\ GlobalFuncs(fall[k]) \cap GlobalFuncs(fall[l]) = {}
    BY DEF GoodList, Separate
  <2>5. \A i \in DOMAIN u : u[i].path # path /\ Complete(u[i])
    <3>1. TAKE i \in DOMAIN u
    <3>2. PICK j \in DOMAIN fall : u[i] = fall[j] /\ j # n
      BY <2>3
    <3>3. fall[j].path # fall[n].path
      BY <1>3, <2>1, <2>4, <3>2
    <3>4. QED
      BY <2>1, <3>2, <3>3 DEF GoodList
  <2>6. Separate(u)
    <3>1. SUFFICES ASSUME NEW k \in DOMAIN u, NEW l \in DOMAIN u, k # l
                   PROVE  /\ u[k].path # u[l].path
                          /\ GlobalFuncs(u[k]) \cap GlobalFuncs(u[l]) = {}
      BY DEF Separate
    <3>2. PICK i \in DOMAIN fall : u[k] = fall[i] /\ i = IF k < n THEN k ELSE k + 1
      BY <2>3
    <3>3. PICK j \in DOMAIN fall : u[l] = fall[j] /\ j = IF l < n THEN l ELSE l + 1
      BY <2>3
    <3>4. k \in Nat /\ l \in Nat /\ n \in Nat
      BY <1>3, <2>1, <2>2
    <3>5. i # j
      BY <3>1, <3>2, <3>3, <3>4
    <3>6. QED
      BY <2>4, <3>2, <3>3, <3>5
  <2>7. QED
    BY <2>2, <2>3, <2>5, <2>6 DEF GoodList, u, n
<1>6. QED
  BY <1>4, <1>5

\* A file of a new path whose functions are new may become the first one.
LEMMA LinkGood ==
    ASSUME NEW list, GoodList(list), NEW fd, Complete(fd),
           \A k \in DOMAIN list :
                /\ list[k].path # fd.path
                /\ GlobalFuncs(list[k]) \cap GlobalFuncs(fd) = {}
    PROVE  /\ GoodList(<<fd>> \o list)
           /\ <<fd>> \o list # << >>
           /\ (<<fd>> \o list)[1] = fd
           /\ Tail(<<fd>> \o list) = list
<1> DEFINE new == <<fd>> \o list
<1>1. list \in Seq(Fdatas) /\ fd \in Fdatas /\ Len(list) \in Nat
  BY DEF GoodList, Complete
<1>2. <<fd>> \in Seq(Fdatas) /\ Len(<<fd>>) = 1 /\ <<fd>>[1] = fd
  BY <1>1
<1>3. /\ new \in Seq(Fdatas) /\ Len(new) = 1 + Len(list)
      /\ \A i \in 1..1 + Len(list) : new[i] = IF i <= 1 THEN <<fd>>[i] ELSE list[i - 1]
  BY <1>1, <1>2, ConcatProperties
<1> HIDE DEF new
<1>4. DOMAIN new = 1..Len(new) /\ DOMAIN list = 1..Len(list)
  BY <1>1, <1>3
<1>5. new # << >> /\ new[1] = fd
  BY <1>1, <1>2, <1>3
<1>6. \A i \in DOMAIN new : i # 1 => i - 1 \in DOMAIN list /\ new[i] = list[i - 1]
  BY <1>1, <1>3, <1>4
<1>7. \A i \in DOMAIN new : Complete(new[i])
  BY <1>5, <1>6 DEF GoodList
<1>8. Separate(new)
  <2>1. SUFFICES ASSUME NEW k \in DOMAIN new, NEW l \in DOMAIN new, k # l
                 PROVE  /\ new[k].path # new[l].path
                        /\ GlobalFuncs(new[k]) \cap GlobalFuncs(new[l]) = {}
    BY DEF Separate
  <2>2. CASE k = 1
    BY <1>5, <1>6, <2>1, <2>2
  <2>3. CASE l = 1
    BY <1>5, <1>6, <2>1, <2>3
  <2>4. CASE k # 1 /\ l # 1
    <3>1. /\ k - 1 \in DOMAIN list /\ l - 1 \in DOMAIN list /\ k - 1 # l - 1
          /\ new[k] = list[k - 1] /\ new[l] = list[l - 1]
      BY <1>4, <1>6, <2>1, <2>4
    <3>2. QED
      BY <3>1 DEF GoodList, Separate
  <2>5. QED
    BY <2>2, <2>3, <2>4
<1>9. Tail(new) = list
  BY <1>1, <1>2, ConcatSimplifications DEF new
<1>10. QED
  BY <1>3, <1>5, <1>7, <1>8, <1>9 DEF GoodList, new

\* What is behind the file being parsed.
LEMMA TailGood ==
    ASSUME GoodList(fall), fall # << >>
    PROVE  /\ GoodList(Tail(fall))
           /\ fall[1] \in Fdatas
           /\ \A k \in DOMAIN Tail(fall) : Tail(fall)[k].path # fall[1].path
<1> DEFINE t == Tail(fall)
<1>1. fall \in Seq(Fdatas) /\ Len(fall) \in Nat /\ Len(fall) >= 1
  BY EmptySeq DEF GoodList
<1>2. /\ t \in Seq(Fdatas) /\ Len(t) = Len(fall) - 1
      /\ \A i \in 1..Len(t) : t[i] = fall[i + 1]
  BY <1>1, HeadTailProperties
<1> HIDE DEF t
<1>3. DOMAIN fall = 1..Len(fall) /\ DOMAIN t = 1..Len(t)
  BY <1>1, <1>2
<1>4. \A i \in DOMAIN t : i + 1 \in DOMAIN fall /\ i + 1 # 1 /\ t[i] = fall[i + 1]
  BY <1>1, <1>2, <1>3
<1>5. 1 \in DOMAIN fall /\ fall[1] \in Fdatas
  BY <1>1, <1>3
<1>6. \A k, l \in DOMAIN fall : k # l =>
        /\ fall[k].path # fall[l].path
        /\ GlobalFuncs(fall[k]) \cap GlobalFuncs(fall[l]) = {}
  BY DEF GoodList, Separate
<1>7. \A k \in DOMAIN t : Complete(t[k]) /\ t[k].path # fall[1].path
  BY <1>4, <1>5, <1>6 DEF GoodList
<1>8. Separate(t)
  <2>1. SUFFICES ASSUME NEW k \in DOMAIN t, NEW l \in DOMAIN t, k # l
                 PROVE  /\ t[k].path # t[l].path
                        /\ GlobalFuncs(t[k]) \cap GlobalFuncs(t[l]) = {}
    BY DEF Separate
  <2>2. k + 1 # l + 1
    BY <1>2, <1>3, <2>1
  <2>3. QED
    BY <1>4, <1>6, <2>2
<1>9. QED
  BY <1>2, <1>5, <1>7, <1>8 DEF GoodList, t

\* A file that has been installed at that time.
Stamped(fd, time) == [Whole(fd) EXCEPT !.time = time]

\* Installed whole, a file that had no conflict has no function of another one.
LEMMA WholeSeparate ==
    ASSUME FilesAssumption, NEW list, NEW fd \in Fdatas, NEW time \in 0..MaxClock,
           Conflicts(fd, list) = {}
    PROVE  /\ Complete(Stamped(fd, time)) /\ Complete(Whole(fd))
           /\ Stamped(fd, time).path = fd.path /\ Whole(fd).path = fd.path
           /\ \A k \in DOMAIN list :
                /\ GlobalFuncs(list[k]) \cap GlobalFuncs(Stamped(fd, time)) = {}
                /\ GlobalFuncs(list[k]) \cap GlobalFuncs(Whole(fd)) = {}
<1> DEFINE whole == Stamped(fd, time)
           funcs == fd.text.funcs
<1>1. funcs \in Seq([name : STRING \X STRING, local : BOOLEAN])
  BY DEF FilesAssumption, Fdatas
<1>2. Len(funcs) \in Nat /\ DOMAIN funcs = 1..Len(funcs)
  BY <1>1
<1>3. /\ Whole(fd) \in Fdatas /\ whole \in Fdatas
      /\ whole.path = fd.path /\ Whole(fd).path = fd.path
      /\ whole.text = fd.text /\ Whole(fd).text = fd.text
      /\ whole.inserted = Len(funcs) /\ Whole(fd).inserted = Len(funcs)
  BY <1>2 DEF Stamped, Whole, Fdatas
<1>4. /\ GlobalFuncs(whole) =
            {funcs[i].name : i \in {j \in 1..Len(funcs) : ~funcs[j].local}}
      /\ GlobalFuncs(whole) = GlobalFuncs(Whole(fd))
  BY <1>3 DEF GlobalFuncs
<1>5. ASSUME NEW k \in DOMAIN list
      PROVE  GlobalFuncs(list[k]) \cap GlobalFuncs(whole) = {}
  <2>1. SUFFICES ASSUME NEW name \in GlobalFuncs(whole), name \in GlobalFuncs(list[k])
                 PROVE  FALSE
    OBVIOUS
  <2>2. PICK i \in DOMAIN funcs : ~funcs[i].local /\ funcs[i].name = name
    BY <1>2, <1>4
  <2>3. name \in Visible(list)
    BY <2>1 DEF Visible
  <2>4. i \in Conflicts(fd, list)
    BY <2>2, <2>3 DEF Conflicts
  <2>5. QED
    BY <2>4
<1>6. Complete(whole) /\ Complete(Whole(fd))
  BY <1>2, <1>3 DEF Complete
<1> HIDE DEF funcs
<1>7. QED
  BY <1>3, <1>4, <1>5, <1>6

GlobSets == [id : 0..MaxLoads, vars : {text.gvars : text \in Texts}]

\* Sets of globals come and go whole.
LEMMA GlobsTyped ==
    ASSUME NEW gs \in Seq(GlobSets)
    PROVE  /\ \A id : eppic_rm_globals(gs, id) \in Seq(GlobSets)
           /\ \A fd \in Fdatas : eppic_add_globals(gs, fd) \in Seq(GlobSets)
<1>1. ASSUME NEW id PROVE eppic_rm_globals(gs, id) \in Seq(GlobSets)
  <2> DEFINE I == {k \in 1..Len(gs) : gs[k].id = id}
  <2>1. eppic_rm_globals(gs, id) =
            IF I # {} THEN RemoveAt(gs, Min(I)) ELSE gs
    BY DEF eppic_rm_globals, RemoveFirstMatch, SelectInSeq
  <2>2. I \in SUBSET Nat /\ I \subseteq 1..Len(gs)
    OBVIOUS
  <2>3. I # {} => Min(I) \in 1..Len(gs)
    <3> HIDE DEF I
    <3>1. QED
      BY <2>2, LeastPosition
  <2>4. I # {} => RemoveAt(gs, Min(I)) \in Seq(GlobSets)
    <3> HIDE DEF I
    <3>1. QED
      BY <2>3, RemovedAt
  <2>5. QED
    BY <2>1, <2>4
<1>2. ASSUME NEW fd \in Fdatas PROVE eppic_add_globals(gs, fd) \in Seq(GlobSets)
  <2>1. [id |-> fd.id, vars |-> fd.text.gvars] \in GlobSets
    BY DEF Fdatas, GlobSets
  <2>2. QED
    BY <2>1 DEF eppic_add_globals
<1>3. QED
  BY <1>1, <1>2

-----------------------------------------------------------------------------
(* The invariant.                                                          *)

LEMMA InitHolds == ASSUME FilesAssumption, Init PROVE IInv
<1>1. fall = << >> /\ globs = << >> /\ running = << >> /\ loading = Idle
  BY DEF Init
<1>2. GoodList(fall)
  BY <1>1 DEF GoodList, Separate
<1>3. TypeOK
  BY <1>1 DEF Init, TypeOK, FilesAssumption
<1>4. QED
  BY <1>1, <1>2, <1>3 DEF IInv, OldFits

\* The part of TypeOK that the list and the load have no part in.
Rest ==
    /\ disk \in [Files -> Texts \cup {Absent, Unreadable}]
    /\ mtime \in [Files -> 0..MaxClock] /\ clock \in 1..MaxClock
    /\ globs \in Seq(GlobSets)
    /\ running \in Seq(0..MaxLoads)
    /\ Len(running) <= MaxRunning
    /\ nloads \in 0..MaxLoads

LEMMA Parts == ASSUME IInv PROVE Rest /\ GoodList(fall) /\ OldFits
BY DEF IInv, TypeOK, Rest, GlobSets

LEMMA Together ==
    ASSUME Rest', GoodList(fall'),
           loading' # Idle =>
                /\ fall' # << >> /\ loading'.fd = fall'[1]
                /\ loading'.old # NoFile =>
                    /\ Complete(loading'.old)
                    /\ loading'.old.path = loading'.fd.path
                    /\ \A k \in DOMAIN Tail(fall') :
                        GlobalFuncs(loading'.old) \cap GlobalFuncs(Tail(fall')[k]) = {}
    PROVE  IInv'
<1>1. OldFits'
  BY DEF OldFits, Complete, GlobalFuncs
<1>2. GoodList(fall)'
  BY DEF GoodList, Complete, Separate, GlobalFuncs
<1>3. /\ fall' \in Seq(Fdatas)
      /\ \A k \in DOMAIN fall' : fall'[k].inserted <= Len(fall'[k].text.funcs)
  BY DEF GoodList, Complete
<1>4. TypeOK'
  BY <1>3 DEF Rest, TypeOK, GlobSets
<1>5. QED
  BY <1>1, <1>2, <1>4 DEF IInv

\* The old version that a load takes off the list fits where it was.
LEMMA OldVersion ==
    ASSUME GoodList(fall), NEW path, eppic_findfile(path) # NoFile
    PROVE  LET old == eppic_findfile(path)
           IN  /\ Complete(old) /\ old.path = path
               /\ \A k \in DOMAIN Unlinked(path) :
                    GlobalFuncs(old) \cap GlobalFuncs(Unlinked(path)[k]) = {}
<1> DEFINE n == First(path)
<1>1. n \in DOMAIN fall /\ fall[n].path = path /\ eppic_findfile(path) = fall[n]
  BY FirstFile DEF GoodList, eppic_findfile
<1>2. ASSUME NEW k \in DOMAIN Unlinked(path)
      PROVE  GlobalFuncs(fall[n]) \cap GlobalFuncs(Unlinked(path)[k]) = {}
  <2>1. PICK j \in DOMAIN fall : Unlinked(path)[k] = fall[j] /\ j # n
    BY UnlinkedGood
  <2>2. QED
    BY <1>1, <2>1 DEF GoodList, Separate
<1>3. Complete(fall[n])
  BY <1>1 DEF GoodList
<1>4. QED
  BY <1>1, <1>2, <1>3

LEMMA BeginLoadHolds ==
    ASSUME FilesAssumption, IInv, NEW path \in Files, loading = Idle, BeginLoad(path)
    PROVE  IInv'
<1> DEFINE old == eppic_findfile(path)
           fd == Fdata(nloads, path, disk[path])
           u == Unlinked(path)
<1>1. /\ fall' = <<fd>> \o u
      /\ globs' = IF old = NoFile THEN globs ELSE eppic_rm_globals(globs, old.id)
      /\ loading' = [fd |-> fd, old |-> old]
      /\ nloads' = nloads + 1 /\ nloads < MaxLoads /\ disk[path] \in Texts
      /\ UNCHANGED <<disk, mtime, clock, running, table>>
  BY DEF BeginLoad, Link
<1>2. Rest /\ GoodList(fall)
  BY Parts
<1>3. /\ Complete(fd) /\ fd.path = path /\ fd.inserted = 0
  <2>1. nloads \in 0..MaxLoads /\ MaxLoads \in Nat /\ MaxClock \in Nat
    BY <1>2 DEF Rest, FilesAssumption
  <2>2. fd \in Fdatas /\ fd.path = path /\ fd.inserted = 0 /\ fd.text = disk[path]
    BY <1>1, <2>1 DEF Fdata, Fdatas
  <2>3. Len(fd.text.funcs) \in Nat
    BY <1>1, <2>2 DEF FilesAssumption
  <2>4. QED
    BY <2>2, <2>3 DEF Complete
<1>4. GlobalFuncs(fd) = {}
  BY <1>3 DEF GlobalFuncs
<1>5. GoodList(u) /\ \A k \in DOMAIN u : u[k].path # path
  BY <1>2, UnlinkedGood
<1> HIDE DEF fd, u
<1>6. /\ GoodList(fall') /\ fall' # << >> /\ fall'[1] = fd /\ Tail(fall') = u
  BY <1>1, <1>3, <1>4, <1>5, LinkGood
<1>7. old # NoFile =>
        /\ Complete(old) /\ old.path = path
        /\ \A k \in DOMAIN u : GlobalFuncs(old) \cap GlobalFuncs(u[k]) = {}
  BY <1>2, OldVersion DEF u
<1> HIDE DEF old
<1>8. loading'.fd = fd /\ loading'.old = old
  BY <1>1
<1>9. Rest'
  <2>1. globs' \in Seq(GlobSets)
    BY <1>1, <1>2, GlobsTyped DEF Rest
  <2>2. nloads' \in 0..MaxLoads
    BY <1>1, <1>2 DEF Rest, FilesAssumption
  <2>3. QED
    BY <1>1, <1>2, <2>1, <2>2 DEF Rest
<1>10. QED
  BY <1>3, <1>6, <1>7, <1>8, <1>9, Together

\* An action that leaves the list and the load alone keeps their part.
LEMMA ListUnchanged ==
    ASSUME IInv, Rest', fall' = fall, loading' = loading
    PROVE  IInv'
<1>1. GoodList(fall) /\ OldFits
  BY Parts
<1>2. QED
  BY <1>1, Together DEF OldFits

\* Without a load under way, only the list has to be good.
LEMMA ListReplaced ==
    ASSUME Rest', GoodList(fall'), loading' = Idle
    PROVE  IInv'
BY Together

LEMMA LoadUnreadHolds ==
    ASSUME IInv, NEW path \in Files, loading = Idle, LoadUnread(path)
    PROVE  IInv'
<1>1. Rest /\ GoodList(fall)
  BY Parts
<1>2. Rest'
  BY <1>1 DEF LoadUnread, Rest
<1>3. GoodList(fall') /\ loading' = Idle
  BY <1>1, UnlinkedGood DEF LoadUnread
<1>4. QED
  BY <1>2, <1>3, ListReplaced

LEMMA UnloadHolds ==
    ASSUME IInv, NEW path \in Files, eppic_unload(path)
    PROVE  IInv'
<1>1. Rest /\ GoodList(fall)
  BY Parts
<1>2. globs' \in Seq(GlobSets)
  BY <1>1, GlobsTyped DEF eppic_unload, Rest
<1>3. Rest'
  BY <1>1, <1>2 DEF eppic_unload, Rest
<1>4. GoodList(fall') /\ loading' = Idle
  BY <1>1, UnlinkedGood DEF eppic_unload
<1>5. QED
  BY <1>3, <1>4, ListReplaced

LEMMA InstallHolds ==
    ASSUME FilesAssumption, IInv, Install
    PROVE  IInv'
<1> DEFINE fd == Stamped(loading.fd, clock)
           list == Tail(fall)
<1>1. Rest /\ GoodList(fall) /\ OldFits
  BY Parts
<1>2. /\ loading # Idle /\ Conflicts(loading.fd, list) = {}
      /\ fall' = <<fd>> \o list
      /\ globs' = eppic_add_globals(globs, fd)
      /\ loading' = Idle
      /\ UNCHANGED <<disk, mtime, clock, running, nloads>>
  BY DEF Install, Parsed, Compiles, Stamped
<1>3. fall # << >> /\ loading.fd = fall[1]
  BY <1>1, <1>2 DEF OldFits
<1>4. /\ GoodList(list) /\ loading.fd \in Fdatas
      /\ \A k \in DOMAIN list : list[k].path # loading.fd.path
  BY <1>1, <1>3, TailGood
<1>5. clock \in 0..MaxClock
  BY <1>1 DEF Rest, FilesAssumption
<1>6. /\ Complete(fd) /\ fd.path = loading.fd.path
      /\ \A k \in DOMAIN list : GlobalFuncs(list[k]) \cap GlobalFuncs(fd) = {}
  <2> DEFINE new == loading.fd
             now == clock
  <2>1. new \in Fdatas /\ now \in 0..MaxClock /\ Conflicts(new, list) = {}
    BY <1>2, <1>4, <1>5
  <2> HIDE DEF new, now, list
  <2>2. /\ Complete(Stamped(new, now)) /\ Stamped(new, now).path = new.path
        /\ \A k \in DOMAIN list :
            GlobalFuncs(list[k]) \cap GlobalFuncs(Stamped(new, now)) = {}
    BY <2>1, WholeSeparate
  <2>3. QED
    BY <2>2 DEF new, now
<1> HIDE DEF fd, list
<1>7. GoodList(fall')
  BY <1>2, <1>4, <1>6, LinkGood
<1>8. globs' \in Seq(GlobSets)
  BY <1>1, <1>2, <1>6, GlobsTyped DEF Rest, Complete
<1>9. Rest'
  BY <1>1, <1>2, <1>8 DEF Rest
<1>10. QED
  BY <1>2, <1>7, <1>9, ListReplaced

LEMMA InstallJumpsOutHolds ==
    ASSUME FilesAssumption, IInv, InstallJumpsOut
    PROVE  IInv'
<1> DEFINE fd == Whole(loading.fd)
           list == Tail(fall)
<1>1. Rest /\ GoodList(fall) /\ OldFits
  BY Parts
<1>2. /\ loading # Idle /\ Conflicts(loading.fd, list) = {}
      /\ fall' = <<fd>> \o list
      /\ loading' = Idle /\ running' = << >>
      /\ UNCHANGED <<disk, mtime, clock, globs, table, nloads>>
  BY DEF InstallJumpsOut, Parsed, Compiles
<1>3. fall # << >> /\ loading.fd = fall[1]
  BY <1>1, <1>2 DEF OldFits
<1>4. /\ GoodList(list) /\ loading.fd \in Fdatas
      /\ \A k \in DOMAIN list : list[k].path # loading.fd.path
  BY <1>1, <1>3, TailGood
<1>5. 0 \in 0..MaxClock
  BY DEF FilesAssumption
<1>6. /\ Complete(fd) /\ fd.path = loading.fd.path
      /\ \A k \in DOMAIN list : GlobalFuncs(list[k]) \cap GlobalFuncs(fd) = {}
  BY <1>2, <1>4, <1>5, WholeSeparate
<1> HIDE DEF fd, list
<1>7. GoodList(fall')
  BY <1>2, <1>4, <1>6, LinkGood
<1>8. Rest'
  BY <1>1, <1>2 DEF Rest, FilesAssumption
<1>9. QED
  BY <1>2, <1>7, <1>8, ListReplaced

LEMMA FailParseHolds ==
    ASSUME FilesAssumption, IInv, FailParse
    PROVE  IInv'
<1> DEFINE old == loading.old
           list == Tail(fall)
<1>1. Rest /\ GoodList(fall) /\ OldFits
  BY Parts
<1>2. /\ loading # Idle
      /\ fall' = IF old = NoFile THEN list ELSE <<old>> \o list
      /\ \/ globs' = globs
         \/ old # NoFile /\ globs' = eppic_add_globals(globs, old)
      /\ running' = << >> \/ running' = running
      /\ loading' = Idle
      /\ UNCHANGED <<disk, mtime, clock, nloads>>
  BY DEF FailParse
<1>3. /\ fall # << >> /\ loading.fd = fall[1]
      /\ old # NoFile =>
            /\ Complete(old) /\ old.path = loading.fd.path
            /\ \A k \in DOMAIN list : GlobalFuncs(old) \cap GlobalFuncs(list[k]) = {}
  BY <1>1, <1>2 DEF OldFits
<1>4. GoodList(list) /\ \A k \in DOMAIN list : list[k].path # loading.fd.path
  BY <1>1, <1>3, TailGood
<1> HIDE DEF old, list
<1>5. GoodList(fall')
  <2>1. CASE old = NoFile
    BY <1>2, <1>4, <2>1
  <2>2. CASE old # NoFile
    <3>1. \A k \in DOMAIN list : /\ list[k].path # old.path
                                 /\ GlobalFuncs(list[k]) \cap GlobalFuncs(old) = {}
      BY <1>3, <1>4, <2>2
    <3>2. GoodList(<<old>> \o list)
      BY <1>3, <1>4, <2>2, <3>1, LinkGood
    <3>3. QED
      BY <1>2, <2>2, <3>2
  <2>3. QED
    BY <2>1, <2>2
<1>6. globs' \in Seq(GlobSets)
  BY <1>1, <1>2, <1>3, GlobsTyped DEF Rest, Complete
<1>7. running' \in Seq(0..MaxLoads) /\ Len(running') <= MaxRunning
  <2>1. << >> \in Seq(0..MaxLoads) /\ Len(<< >>) = 0 /\ 0 <= MaxRunning
    BY DEF FilesAssumption
  <2>2. running \in Seq(0..MaxLoads) /\ Len(running) <= MaxRunning
    BY <1>1 DEF Rest
  <2>3. CASE running' = << >>
    BY <2>1, <2>3
  <2>4. CASE running' = running
    BY <2>2, <2>4
  <2>5. QED
    BY <1>2, <2>3, <2>4
<1>8. Rest'
  BY <1>1, <1>2, <1>6, <1>7 DEF Rest
<1>9. QED
  BY <1>2, <1>5, <1>8, ListReplaced

LEMMA CallHolds ==
    ASSUME FilesAssumption, IInv, CallFunction \/ ReturnFunction
    PROVE  IInv'
<1>1. Rest /\ GoodList(fall)
  BY Parts
<1>2. running \in Seq(0..MaxLoads) /\ Len(running) \in Nat /\ Len(running) <= MaxRunning
  BY <1>1 DEF Rest
<1>3. MaxRunning \in Nat
  BY DEF FilesAssumption
<1>4. running' \in Seq(0..MaxLoads) /\ Len(running') <= MaxRunning
  <2>1. CASE CallFunction
    <3>1. PICK k \in DOMAIN fall : running' = Append(running, fall[k].id)
      BY <2>1 DEF CallFunction
    <3>2. fall[k].id \in 0..MaxLoads
      BY <1>1 DEF GoodList, Complete, Fdatas
    <3>3. running' \in Seq(0..MaxLoads) /\ Len(running') = Len(running) + 1
      BY <1>2, <3>1, <3>2, AppendProperties
    <3>4. QED
      BY <1>2, <1>3, <2>1, <3>3 DEF CallFunction
  <2>2. CASE ReturnFunction
    <3>1. running' = SubSeq(running, 1, Len(running) - 1) /\ Len(running) > 0
      BY <1>2, <2>2, EmptySeq DEF ReturnFunction
    <3>2. running' \in Seq(0..MaxLoads) /\ Len(running') = Len(running) - 1
      <4> DEFINE n == Len(running) - 1
      <4>1. n \in Int /\ n >= 0 /\ \A i \in 1..n : i \in 1..Len(running)
        BY <1>2, <3>1
      <4>2. /\ SubSeq(running, 1, n) \in Seq(0..MaxLoads)
            /\ Len(SubSeq(running, 1, n)) = IF 1 <= n THEN n - 1 + 1 ELSE 0
        BY <1>2, <4>1, SubSeqProperties
      <4> HIDE DEF n
      <4>3. Len(SubSeq(running, 1, n)) = n
        BY <4>1, <4>2
      <4>4. QED
        BY <3>1, <4>2, <4>3 DEF n
    <3>3. QED
      BY <1>2, <1>3, <3>2
  <2>3. QED
    BY <2>1, <2>2
<1>5. /\ UNCHANGED <<disk, mtime, clock, globs, nloads>>
      /\ fall' = fall /\ loading' = loading
  BY DEF CallFunction, ReturnFunction
<1>6. Rest'
  BY <1>1, <1>4, <1>5 DEF Rest
<1>7. QED
  BY <1>5, <1>6, ListUnchanged

LEMMA WorldHolds ==
    ASSUME FilesAssumption, IInv, (\E path \in Files : Edit(path)) \/ Tick
    PROVE  IInv'
<1>1. Rest
  BY Parts
<1>2. Rest'
  <2>1. CASE \E path \in Files : Edit(path)
    <3>1. PICK path \in Files, text \in Texts \cup {Absent, Unreadable} :
            /\ disk' = [disk EXCEPT ![path] = text]
            /\ mtime' = [mtime EXCEPT ![path] = IF text = Unreadable THEN @ ELSE clock]
            /\ UNCHANGED <<clock, globs, running, nloads>>
      BY <2>1 DEF Edit
    <3>2. clock \in 0..MaxClock
      BY <1>1 DEF Rest, FilesAssumption
    <3>3. /\ disk' \in [Files -> Texts \cup {Absent, Unreadable}]
          /\ mtime' \in [Files -> 0..MaxClock]
      BY <1>1, <3>1, <3>2 DEF Rest
    <3>4. QED
      BY <1>1, <3>1, <3>3 DEF Rest
  <2>2. CASE Tick
    BY <1>1, <2>2 DEF Tick, Rest, FilesAssumption
  <2>3. QED
    BY <2>1, <2>2
<1>3. fall' = fall /\ loading' = loading
  BY DEF Edit, Tick
<1>4. QED
  BY <1>2, <1>3, ListUnchanged

LEMMA NextHolds ==
    ASSUME FilesAssumption, IInv, [Next]_vars
    PROVE  IInv'
<1>1. ASSUME NEW path \in Files, eppic_load(path) \/ eppic_depend(path)
      PROVE  IInv'
  <2>1. loading = Idle /\ (BeginLoad(path) \/ LoadUnread(path))
    BY <1>1 DEF eppic_load, eppic_depend
  <2>2. QED
    BY <2>1, BeginLoadHolds, LoadUnreadHolds
<1>2. CASE UNCHANGED vars
  <2>1. Rest
    BY Parts
  <2>2. Rest' /\ fall' = fall /\ loading' = loading
    BY <1>2, <2>1 DEF vars, Rest
  <2>3. QED
    BY <2>2, ListUnchanged
<1>3. CASE Next
  BY <1>1, <1>3, UnloadHolds, InstallHolds, InstallJumpsOutHolds, FailParseHolds,
     CallHolds, WorldHolds DEF Next
<1>4. QED
  BY <1>2, <1>3

-----------------------------------------------------------------------------
(* The theorems.                                                           *)

\* The strengthened invariant holds in every state of every behaviour.
THEOREM FilesInvariant == Spec => []IInv
<1>1. Init => IInv
  BY FilesAssumption, InitHolds
<1>2. IInv /\ [Next]_vars => IInv'
  BY FilesAssumption, NextHolds
<1>3. QED
  BY <1>1, <1>2, PTL DEF Spec

\* TypeOK, for every set of faults and every bound: every action of the loader
\* leaves lists of complete fdata and of sets of globals.
THEOREM FilesTyped == Spec => []TypeOK
<1>1. IInv => TypeOK
  BY DEF IInv
<1>2. QED
  BY <1>1, FilesInvariant, PTL

\* OneDefinition, for every set of faults: whatever loads, unloads, edits and
\* failed loads do, no path is on the list (eppic_findfile, eppic_newfile) twice
\* and eppic_getfbyname has one global function to find under each name.
THEOREM DefinitionsStaySingle == Spec => []OneDefinition
<1>1. IInv => OneDefinition
  BY DEF IInv, GoodList, OneDefinition
<1>2. QED
  BY <1>1, FilesInvariant, PTL

(***************************************************************************)
(* What a load, an unload and a failed load promise to the scripts that run. *)
(* Each theorem names the faults it does not survive and holds for every     *)
(* other one.                                                               *)
(*                                                                         *)
(* The proofs speak of the loaded files as a set, Standing: the list without *)
(* the file being parsed.  A load takes the old version out of it, and its  *)
(* end puts the new one in, or the old one back.                            *)
(***************************************************************************)

Standing == {fd \in Range(fall) : ~BeingLoaded(fd.path)}

\* The fdata of which the load under way will leave one, if any.
Coming == IF loading = Idle THEN {} ELSE {loading.fd} \cup ({loading.old} \ {NoFile})

AllWhole(S) == \A fd \in S : fd \in Fdatas /\ fd.inserted = Len(fd.text.funcs)

\* Loaded files, and the versions a load holds, have identities of their own.
OwnIds ==
    /\ \A fd \in Standing \cup Coming : fd.id < nloads
    /\ \A fd, other \in Standing : fd.id = other.id => fd = other
    /\ \A fd \in Standing, new \in Coming : fd.id # new.id

BInv ==
    /\ IInv
    /\ AllWhole(Standing)
    /\ loading # Idle /\ loading.old # NoFile => AllWhole({loading.old})
    /\ OwnIds

\* Two files that may be loaded together declare no common global.
VarsApart ==
    /\ \A fd, other \in Standing : fd # other => fd.text.gvars \cap other.text.gvars = {}
    /\ \A fd \in Standing, new \in Coming : fd.text.gvars \cap new.text.gvars = {}

\* What the time of the load says of the file.
UpToDate(fd) ==
    disk[fd.path] \in Texts /\ mtime[fd.path] <= fd.time => disk[fd.path] = fd.text
AllUpToDate ==
    /\ \A fd \in Standing : UpToDate(fd)
    /\ loading # Idle => /\ disk[loading.fd.path] = loading.fd.text
                         /\ loading.old # NoFile => UpToDate(loading.old)

RunsStanding == \A i \in DOMAIN running : \E fd \in Standing : fd.id = running[i]

GlobalSet(fd) == [id |-> fd.id, vars |-> fd.text.gvars]
GlobsMatch ==
    /\ Len(globs) = Len(fall) - (IF loading = Idle THEN 0 ELSE 1)
    /\ \A i, j \in DOMAIN globs : i # j => globs[i].id # globs[j].id
    /\ Range(globs) = {GlobalSet(fd) : fd \in Standing}

-----------------------------------------------------------------------------
(* The list as a set.                                                      *)

LEMMA Found ==
    ASSUME GoodList(fall)
    PROVE  /\ Range(fall) \subseteq Fdatas
           /\ \A fd \in Range(fall) : eppic_findfile(fd.path) = fd
           /\ \A path :
                LET fd == eppic_findfile(path)
                IN  \/ fd = NoFile /\ \A other \in Range(fall) : other.path # path
                    \/ fd # NoFile /\ fd \in Range(fall) /\ fd.path = path
<1>1. fall \in Seq(Fdatas) /\ Range(fall) = {fall[k] : k \in DOMAIN fall}
  BY DEF GoodList, Range
<1>2. Range(fall) \subseteq Fdatas
  BY <1>1
<1>3. ASSUME NEW path
      PROVE  \/ /\ eppic_findfile(path) = NoFile
                /\ \A other \in Range(fall) : other.path # path
             \/ /\ eppic_findfile(path) # NoFile
                /\ eppic_findfile(path) \in Range(fall) /\ eppic_findfile(path).path = path
  <2>1. \/ First(path) = 0 /\ \A k \in DOMAIN fall : fall[k].path # path
        \/ First(path) \in DOMAIN fall /\ fall[First(path)].path = path
    BY <1>1, FirstFile
  <2>2. First(path) \in DOMAIN fall => First(path) # 0
    BY <1>1
  <2>3. QED
    BY <1>1, <1>2, <2>1, <2>2, NullsAssumption DEF eppic_findfile
<1>4. ASSUME NEW fd \in Range(fall) PROVE eppic_findfile(fd.path) = fd
  <2>1. PICK k \in DOMAIN fall : fd = fall[k]
    BY <1>1
  <2>2. PICK l \in DOMAIN fall : eppic_findfile(fd.path) = fall[l] /\ fall[l].path = fd.path
    BY <1>1, <1>3
  <2>3. k = l
    BY <2>1, <2>2 DEF GoodList, Separate
  <2>4. QED
    BY <2>1, <2>2, <2>3
<1>5. QED
  BY <1>2, <1>3, <1>4

LEMMA RemovedRange ==
    ASSUME NEW S, NEW s \in Seq(S), NEW n \in 1..Len(s)
    PROVE  /\ RemoveAt(s, n) \in Seq(S) /\ Len(RemoveAt(s, n)) = Len(s) - 1
           /\ Range(RemoveAt(s, n)) = {s[i] : i \in 1..Len(s) \ {n}}
<1> DEFINE r == RemoveAt(s, n)
<1>1. /\ r \in Seq(S) /\ Len(r) = Len(s) - 1
      /\ \A i \in 1..Len(s) - 1 : r[i] = IF i < n THEN s[i] ELSE s[i + 1]
  BY RemovedAt
<1> HIDE DEF r
<1>2. /\ Len(s) \in Nat /\ n \in 1..Len(s)
      /\ Range(r) = {r[i] : i \in 1..Len(s) - 1}
  BY <1>1 DEF Range
<1>3. ASSUME NEW i \in 1..Len(s) \ {n} PROVE s[i] \in Range(r)
  <2>1. CASE i < n
    BY <1>1, <1>2, <2>1
  <2>2. CASE i > n
    <3>1. i - 1 \in 1..Len(s) - 1 /\ ~ (i - 1 < n) /\ (i - 1) + 1 = i
      BY <1>2, <2>2
    <3>2. r[i - 1] = s[i]
      BY <1>1, <3>1
    <3>3. QED
      BY <1>2, <3>1, <3>2
  <2>3. QED
    BY <2>1, <2>2
<1>4. ASSUME NEW i \in 1..Len(s) - 1 PROVE r[i] \in {s[j] : j \in 1..Len(s) \ {n}}
  <2>1. CASE i < n
    BY <1>1, <1>2, <2>1
  <2>2. CASE ~ (i < n)
    <3>1. i + 1 \in 1..Len(s) \ {n} /\ r[i] = s[i + 1]
      BY <1>1, <1>2, <2>2
    <3>2. QED
      BY <3>1
  <2>3. QED
    BY <2>1, <2>2
<1>5. QED
  BY <1>1, <1>2, <1>3, <1>4 DEF r

LEMMA UnlinkedRange ==
    ASSUME GoodList(fall), NEW path
    PROVE  /\ Range(Unlinked(path)) = {fd \in Range(fall) : fd.path # path}
           /\ Len(Unlinked(path)) =
                IF eppic_findfile(path) = NoFile THEN Len(fall) ELSE Len(fall) - 1
<1> DEFINE n == First(path)
<1>1. /\ fall \in Seq(Fdatas) /\ DOMAIN fall = 1..Len(fall)
      /\ Range(fall) = {fall[k] : k \in DOMAIN fall}
  BY DEF GoodList, Range
<1>2. \/ n = 0 /\ \A k \in DOMAIN fall : fall[k].path # path
      \/ n \in DOMAIN fall /\ fall[n].path = path
  BY <1>1, FirstFile
<1>3. Unlinked(path) =
        IF \E i \in 1..Len(fall) : fall[i].path = path THEN RemoveAt(fall, n) ELSE fall
  BY DEF Unlinked, RemoveFirstMatch, First
<1>4. eppic_findfile(path) = NoFile <=> n = 0
  BY <1>1, <1>2, NullsAssumption DEF eppic_findfile
<1> HIDE DEF n
<1>5. CASE n = 0
  BY <1>1, <1>2, <1>3, <1>4, <1>5
<1>6. CASE n # 0
  <2>1. n \in 1..Len(fall) /\ fall[n].path = path /\ Unlinked(path) = RemoveAt(fall, n)
    BY <1>1, <1>2, <1>3, <1>6
  <2>2. /\ Len(Unlinked(path)) = Len(fall) - 1
        /\ Range(Unlinked(path)) = {fall[i] : i \in 1..Len(fall) \ {n}}
    BY <1>1, <2>1, RemovedRange
  <2>3. \A k \in 1..Len(fall) : fall[k].path = path <=> k = n
    BY <1>1, <2>1 DEF GoodList, Separate
  <2>4. QED
    BY <1>1, <1>4, <1>6, <2>2, <2>3
<1>7. QED
  BY <1>5, <1>6

LEMMA LinkRange ==
    ASSUME NEW S, NEW list \in Seq(S), NEW x \in S
    PROVE  /\ Range(<<x>> \o list) = {x} \cup Range(list)
           /\ Len(<<x>> \o list) = Len(list) + 1
<1>1. <<x>> \in Seq(S) /\ Len(<<x>>) = 1 /\ Range(<<x>>) = {x}
  BY DEF Range
<1>2. Range(<<x>> \o list) = Range(<<x>>) \cup Range(list)
  <2>1. <<x>> \in Seq(S)
    BY <1>1
  <2>2. QED
    BY <2>1, RangeConcatenation
<1>3. Len(<<x>> \o list) = Len(<<x>>) + Len(list)
  BY <1>1, ConcatProperties
<1>4. QED
  BY <1>1, <1>2, <1>3

LEMMA StandingIdle == loading = Idle => Standing = Range(fall) /\ Coming = {}
BY DEF Standing, BeingLoaded, Coming

\* Behind the file being parsed are the standing ones.
LEMMA StandingTail ==
    ASSUME IInv, loading # Idle
    PROVE  /\ GoodList(Tail(fall)) /\ Standing = Range(Tail(fall))
           /\ Len(Tail(fall)) = Len(fall) - 1
           /\ Range(fall) = {loading.fd} \cup Standing
           /\ loading.fd \in Fdatas
<1> DEFINE t == Tail(fall)
<1>1. GoodList(fall) /\ fall # << >> /\ loading.fd = fall[1]
  BY Parts DEF OldFits
<1>2. /\ GoodList(t) /\ fall[1] \in Fdatas
      /\ \A k \in DOMAIN t : t[k].path # fall[1].path
  BY <1>1, TailGood
<1>3. fall \in Seq(Fdatas) /\ Len(fall) \in Nat /\ Len(fall) >= 1
  BY <1>1, EmptySeq DEF GoodList
<1>4. /\ t \in Seq(Fdatas) /\ Len(t) = Len(fall) - 1
      /\ \A i \in 1..Len(t) : t[i] = fall[i + 1]
  BY <1>3, HeadTailProperties
<1> HIDE DEF t
<1>5. /\ Range(fall) = {fall[k] : k \in 1..Len(fall)}
      /\ Range(t) = {t[k] : k \in 1..Len(t)} /\ DOMAIN t = 1..Len(t)
  BY <1>3, <1>4 DEF Range
<1>6. Range(fall) = {fall[1]} \cup Range(t)
  <2>1. ASSUME NEW k \in 1..Len(fall), k # 1 PROVE fall[k] \in Range(t)
    <3>1. k - 1 \in 1..Len(t) /\ (k - 1) + 1 = k
      BY <1>3, <1>4, <2>1
    <3>2. t[k - 1] = fall[k]
      BY <1>4, <3>1
    <3>3. QED
      BY <1>5, <3>1, <3>2
  <2>2. ASSUME NEW k \in 1..Len(t) PROVE t[k] \in Range(fall)
    <3>1. k + 1 \in 1..Len(fall)
      BY <1>3, <1>4
    <3>2. QED
      BY <1>4, <1>5, <3>1
  <2>3. fall[1] \in Range(fall)
    BY <1>3, <1>5
  <2>4. QED
    BY <1>5, <2>1, <2>2, <2>3
<1>7. Standing = Range(t)
  BY <1>1, <1>2, <1>5, <1>6 DEF Standing, BeingLoaded
<1>8. QED
  BY <1>1, <1>2, <1>4, <1>6, <1>7 DEF t

-----------------------------------------------------------------------------
(* What the steps do to the set.                                           *)

Alike(fd, other) == fd.id = other.id /\ fd.path = other.path /\ fd.text = other.text

Others(path) == {fd \in Standing : fd.path # path}

Begins(path, fd, old) ==
    /\ loading = Idle /\ loading' # Idle
    /\ loading'.fd = fd /\ loading'.old = old
    /\ Standing' = Others(path) /\ Coming' = {fd} \cup ({old} \ {NoFile})
    /\ fd \in Fdatas /\ fd.id = nloads /\ fd.path = path /\ fd.text = disk[path]
    /\ old = eppic_findfile(path)
    /\ \/ old = NoFile /\ Others(path) = Standing
       \/ old # NoFile /\ old \in Standing /\ old.path = path
    /\ nloads' = nloads + 1
    /\ Len(fall') = IF old = NoFile THEN Len(fall) + 1 ELSE Len(fall)

Goes(path) ==
    /\ loading = Idle /\ loading' = Idle
    /\ Standing' = Others(path) /\ Coming' = {}
    /\ nloads' = nloads

Ends(new) ==
    /\ loading # Idle /\ loading' = Idle
    /\ Standing' = Standing \cup new /\ Coming' = {}
    /\ nloads' = nloads
    /\ AllWhole(new) /\ \A fd, other \in new : fd = other
    /\ \A fd \in new : \E one \in Coming : Alike(fd, one)
    /\ Len(fall') = IF new = {} THEN Len(fall) - 1 ELSE Len(fall)

Stays ==
    /\ fall' = fall /\ loading' = loading /\ nloads' = nloads
    /\ Standing' = Standing /\ Coming' = Coming

LEMMA BeginLoadBegins ==
    ASSUME FilesAssumption, BInv, NEW path \in Files, loading = Idle, BeginLoad(path)
    PROVE  Begins(path, Fdata(nloads, path, disk[path]), eppic_findfile(path))
<1> DEFINE old == eppic_findfile(path)
           fd == Fdata(nloads, path, disk[path])
           u == Unlinked(path)
<1>1. /\ fall' = <<fd>> \o u /\ nloads' = nloads + 1
      /\ loading' = [fd |-> fd, old |-> old]
      /\ nloads < MaxLoads /\ disk[path] \in Texts
  BY DEF BeginLoad, Link
<1>2. GoodList(fall) /\ Rest
  BY Parts DEF BInv
<1>3. fd \in Fdatas /\ fd.id = nloads /\ fd.path = path /\ fd.text = disk[path]
  BY <1>1, <1>2 DEF Fdata, Fdatas, Rest, FilesAssumption
<1>4. \/ old = NoFile /\ \A other \in Range(fall) : other.path # path
      \/ old # NoFile /\ old \in Range(fall) /\ old.path = path
  BY <1>2, Found
<1>5. Range(fall) \subseteq Fdatas
  BY <1>2, Found
<1>6. /\ u \in Seq(Fdatas) /\ Range(u) = {other \in Range(fall) : other.path # path}
      /\ Len(u) = IF old = NoFile THEN Len(fall) ELSE Len(fall) - 1
  BY <1>2, UnlinkedGood, UnlinkedRange DEF GoodList
<1>7. Len(fall) \in Nat
  BY <1>2 DEF GoodList
<1>8. Standing = Range(fall)
  BY StandingIdle
<1> HIDE DEF fd, old, u
<1>9. Range(fall') = {fd} \cup Range(u) /\ Len(fall') = Len(u) + 1
  BY <1>1, <1>3, <1>6, LinkRange
<1>10. loading' # Idle /\ loading'.fd = fd /\ loading'.old = old
  BY <1>1, <1>3, <1>4, <1>5, NullsAssumption
<1>11. Standing' = Others(path)
  BY <1>3, <1>6, <1>8, <1>9, <1>10 DEF Standing, BeingLoaded, Others
<1>12. Coming' = {fd} \cup ({old} \ {NoFile})
  BY <1>10 DEF Coming
<1>13. \/ old = NoFile /\ Others(path) = Standing
       \/ old # NoFile /\ old \in Standing /\ old.path = path
  BY <1>4, <1>8 DEF Others
<1>14. Len(fall') = IF old = NoFile THEN Len(fall) + 1 ELSE Len(fall)
  BY <1>6, <1>7, <1>9
<1>15. QED
  BY <1>1, <1>3, <1>10, <1>11, <1>12, <1>13, <1>14 DEF Begins, fd, old

LEMMA FileGoes ==
    ASSUME BInv, NEW path, loading = Idle, LoadUnread(path) \/ eppic_unload(path)
    PROVE  Goes(path)
<1>1. GoodList(fall)
  BY Parts DEF BInv
<1>2. fall' = Unlinked(path) /\ loading' = Idle /\ nloads' = nloads
  BY DEF LoadUnread, eppic_unload
<1>3. Standing' = Range(Unlinked(path)) /\ Standing = Range(fall) /\ Coming' = {}
  BY <1>2, StandingIdle DEF Standing, BeingLoaded, Coming
<1>4. QED
  BY <1>1, <1>2, <1>3, UnlinkedRange DEF Goes, Others

\* However the load ends, its file or the old version is first on the list, or none.
LEMMA LoadEnds ==
    ASSUME BInv, loading # Idle, loading' = Idle, nloads' = nloads, NEW fd,
           AllWhole({fd}), \E one \in Coming : Alike(fd, one)
    PROVE  /\ fall' = <<fd>> \o Tail(fall) => Ends({fd})
           /\ fall' = Tail(fall) => Ends({})
<1> DEFINE t == Tail(fall)
<1>1. GoodList(t) /\ Standing = Range(t) /\ Len(t) = Len(fall) - 1
  BY StandingTail DEF BInv
<1>2. Standing' = Range(fall') /\ Coming' = {}
  BY DEF Standing, BeingLoaded, Coming
<1>3. t \in Seq(Fdatas) /\ fd \in Fdatas /\ Len(fall) \in Int
  <2>1. GoodList(fall)
    BY Parts DEF BInv
  <2>2. QED
    BY <1>1, <2>1 DEF GoodList, AllWhole
<1> HIDE DEF t
<1>4. Range(<<fd>> \o t) = {fd} \cup Range(t) /\ Len(<<fd>> \o t) = Len(t) + 1
  BY <1>3, LinkRange
<1>5. ASSUME fall' = <<fd>> \o t PROVE Ends({fd})
  BY <1>1, <1>2, <1>3, <1>4, <1>5 DEF Ends, AllWhole
<1>6. ASSUME fall' = t PROVE Ends({})
  BY <1>1, <1>2, <1>3, <1>6 DEF Ends, AllWhole
<1>7. QED
  BY <1>5, <1>6 DEF t

LEMMA WholeAlike ==
    ASSUME FilesAssumption, NEW fd \in Fdatas, NEW time \in 0..MaxClock
    PROVE  /\ AllWhole({Stamped(fd, time)}) /\ Alike(Stamped(fd, time), fd)
           /\ Stamped(fd, time).time = time
           /\ AllWhole({Whole(fd)}) /\ Alike(Whole(fd), fd) /\ Whole(fd).time = fd.time
<1>1. Len(fd.text.funcs) \in Nat /\ fd.text \in Texts
  BY DEF Fdatas, FilesAssumption
<1>2. QED
  BY <1>1 DEF Stamped, Whole, Fdatas, AllWhole, Alike

LEMMA InstallEnds ==
    ASSUME FilesAssumption, BInv, Install
    PROVE  Ends({Stamped(loading.fd, clock)})
<1>1. /\ loading # Idle /\ loading' = Idle /\ nloads' = nloads
      /\ fall' = <<Stamped(loading.fd, clock)>> \o Tail(fall)
  BY DEF Install, Parsed, Stamped
<1>2. loading.fd \in Fdatas /\ loading.fd \in Coming /\ clock \in 0..MaxClock
  BY <1>1, StandingTail, Parts DEF BInv, Coming, Rest, FilesAssumption
<1>3. QED
  BY <1>1, <1>2, LoadEnds, WholeAlike

LEMMA InstallJumpsOutEnds ==
    ASSUME FilesAssumption, BInv, InstallJumpsOut
    PROVE  Ends({Whole(loading.fd)})
<1>1. /\ loading # Idle /\ loading' = Idle /\ nloads' = nloads
      /\ fall' = <<Whole(loading.fd)>> \o Tail(fall)
  BY DEF InstallJumpsOut, Parsed
<1>2. loading.fd \in Fdatas /\ loading.fd \in Coming /\ clock \in 0..MaxClock
  BY <1>1, StandingTail, Parts DEF BInv, Coming, Rest, FilesAssumption
<1>3. QED
  BY <1>1, <1>2, LoadEnds, WholeAlike

LEMMA FailParseEnds ==
    ASSUME FilesAssumption, BInv, FailParse
    PROVE  Ends({loading.old} \ {NoFile})
<1>1. /\ loading # Idle /\ loading' = Idle /\ nloads' = nloads
      /\ fall' = IF loading.old = NoFile THEN Tail(fall) ELSE <<loading.old>> \o Tail(fall)
  BY DEF FailParse
<1>2. CASE loading.old = NoFile
  <2>1. loading.fd \in Fdatas /\ loading.fd \in Coming /\ clock \in 0..MaxClock
    BY <1>1, StandingTail, Parts DEF BInv, Coming, Rest, FilesAssumption
  <2>2. AllWhole({Whole(loading.fd)}) /\ Alike(Whole(loading.fd), loading.fd)
    BY <2>1, WholeAlike
  <2>3. Ends({})
    BY <1>1, <1>2, <2>1, <2>2, LoadEnds
  <2>4. QED
    BY <1>2, <2>3
<1>3. CASE loading.old # NoFile
  <2>1. AllWhole({loading.old}) /\ loading.old \in Coming
    BY <1>1, <1>3 DEF BInv, Coming
  <2>2. Alike(loading.old, loading.old)
    BY DEF Alike
  <2>3. Ends({loading.old})
    BY <1>1, <1>3, <2>1, <2>2, LoadEnds
  <2>4. {loading.old} \ {NoFile} = {loading.old}
    BY <1>3
  <2>5. QED
    BY <2>3, <2>4
<1>4. QED
  BY <1>2, <1>3

LEMMA OthersStay ==
    ASSUME fall' = fall, loading' = loading, nloads' = nloads
    PROVE  Stays
BY DEF Stays, Standing, BeingLoaded, Coming

\* Every step begins a load, drops a file, ends a load or leaves the files alone.
LEMMA StepSorted ==
    ASSUME FilesAssumption, BInv, [Next]_vars
    PROVE  \/ \E path \in Files :
                /\ BeginLoad(path)
                /\ Begins(path, Fdata(nloads, path, disk[path]), eppic_findfile(path))
           \/ \E path \in Files : (LoadUnread(path) \/ eppic_unload(path)) /\ Goes(path)
           \/ Install /\ Ends({Stamped(loading.fd, clock)})
           \/ InstallJumpsOut /\ Ends({Whole(loading.fd)})
           \/ FailParse /\ Ends({loading.old} \ {NoFile})
           \/ /\ Stays
              /\ \/ CallFunction \/ ReturnFunction \/ Tick \/ \E path \in Files : Edit(path)
                 \/ UNCHANGED vars
<1>1. ASSUME NEW path \in Files, eppic_load(path) \/ eppic_depend(path) \/ eppic_unload(path)
      PROVE  \/ /\ BeginLoad(path)
                /\ Begins(path, Fdata(nloads, path, disk[path]), eppic_findfile(path))
             \/ (LoadUnread(path) \/ eppic_unload(path)) /\ Goes(path)
  <2>1. loading = Idle /\ (BeginLoad(path) \/ LoadUnread(path) \/ eppic_unload(path))
    BY <1>1 DEF eppic_load, eppic_depend, eppic_unload
  <2>2. QED
    BY <2>1, BeginLoadBegins, FileGoes
<1>2. ASSUME CallFunction \/ ReturnFunction \/ Tick \/ (\E path \in Files : Edit(path))
             \/ UNCHANGED vars
      PROVE  Stays
  <2>1. fall' = fall /\ loading' = loading /\ nloads' = nloads
    BY <1>2 DEF CallFunction, ReturnFunction, Tick, Edit, vars
  <2>2. QED
    BY <2>1, OthersStay
<1>3. CASE Next
  BY <1>1, <1>2, <1>3, InstallEnds, InstallJumpsOutEnds, FailParseEnds DEF Next
<1>4. CASE UNCHANGED vars
  BY <1>2, <1>4
<1>5. QED
  BY <1>3, <1>4

LEMMA FourForms ==
    ASSUME FilesAssumption, BInv, [Next]_vars
    PROVE  \/ \E path \in Files : \E fd, old : Begins(path, fd, old)
           \/ \E path \in Files : Goes(path)
           \/ \E new : Ends(new)
           \/ Stays
BY StepSorted

-----------------------------------------------------------------------------
(* Whole files with identities of their own.                               *)

LEMMA BInvInit == ASSUME FilesAssumption, Init PROVE BInv /\ Standing = {} /\ Coming = {}
<1>1. IInv /\ loading = Idle /\ fall = << >>
  BY InitHolds DEF Init
<1>2. Standing = {} /\ Coming = {}
  BY <1>1, StandingIdle DEF Range
<1>3. QED
  BY <1>1, <1>2 DEF BInv, AllWhole, OwnIds

LEMMA IdsStep ==
    ASSUME FilesAssumption, BInv, [Next]_vars
    PROVE  OwnIds'
<1>1. OwnIds /\ AllWhole(Standing) /\ nloads \in Nat /\ Standing \subseteq Fdatas
  BY Parts DEF BInv, AllWhole, Rest
<1>2. \A fd \in Fdatas : fd.id \in Nat
  BY DEF Fdatas, FilesAssumption
<1>3. ASSUME NEW path \in Files, NEW fd, NEW old, Begins(path, fd, old) PROVE OwnIds'
  <2>1. /\ Standing' = Others(path) /\ Coming' = {fd} \cup ({old} \ {NoFile})
        /\ fd.id = nloads /\ nloads' = nloads + 1
        /\ old # NoFile => old \in Standing /\ old.path = path
    BY <1>3 DEF Begins
  <2>2. Others(path) \subseteq Standing /\ \A other \in Others(path) : other.path # path
    BY DEF Others
  <2>3. \A one \in Standing' \cup Coming' : one.id < nloads'
    BY <1>1, <1>2, <2>1, <2>2 DEF OwnIds
  <2>4. ASSUME NEW other \in Standing', NEW new \in Coming' PROVE other.id # new.id
    <3>1. other \in Standing /\ other.id < nloads /\ other.id \in Nat
      BY <1>1, <1>2, <2>1, <2>2 DEF OwnIds
    <3>2. CASE new = fd
      BY <1>1, <2>1, <3>1, <3>2
    <3>3. CASE new = old /\ old # NoFile
      BY <1>1, <2>1, <2>2, <3>1, <3>3 DEF OwnIds
    <3>4. QED
      BY <2>1, <3>2, <3>3
  <2>5. QED
    BY <1>1, <2>1, <2>2, <2>3, <2>4 DEF OwnIds
<1>4. ASSUME NEW path \in Files, Goes(path) PROVE OwnIds'
  BY <1>1, <1>4 DEF Goes, Others, OwnIds
<1>5. ASSUME NEW new, Ends(new) PROVE OwnIds'
  BY <1>1, <1>5 DEF Ends, Alike, OwnIds
<1>6. ASSUME Stays PROVE OwnIds'
  BY <1>1, <1>6 DEF Stays, OwnIds
<1>7. QED
  BY <1>3, <1>4, <1>5, <1>6, FourForms

LEMMA BInvStep ==
    ASSUME FilesAssumption, BInv, [Next]_vars
    PROVE  BInv'
<1>1. IInv' /\ OwnIds'
  BY NextHolds, IdsStep DEF BInv
<1>2. AllWhole(Standing) /\ (loading # Idle /\ loading.old # NoFile => AllWhole({loading.old}))
  BY DEF BInv
<1>3. /\ AllWhole(Standing)'
      /\ loading' # Idle /\ loading'.old # NoFile => AllWhole({loading'.old})
  <2>1. ASSUME NEW path \in Files, NEW fd, NEW old, Begins(path, fd, old)
        PROVE  AllWhole(Standing') /\ (loading'.old # NoFile => AllWhole({loading'.old}))
    BY <1>2, <2>1 DEF Begins, Others, AllWhole
  <2>2. ASSUME NEW path \in Files, Goes(path) PROVE AllWhole(Standing') /\ loading' = Idle
    BY <1>2, <2>2 DEF Goes, Others, AllWhole
  <2>3. ASSUME NEW new, Ends(new) PROVE AllWhole(Standing') /\ loading' = Idle
    BY <1>2, <2>3 DEF Ends, AllWhole
  <2>4. ASSUME Stays PROVE AllWhole(Standing') /\ loading' = loading
    BY <1>2, <2>4 DEF Stays
  <2>5. QED
    BY <1>2, <2>1, <2>2, <2>3, <2>4, FourForms DEF AllWhole
<1>4. QED
  BY <1>1, <1>3 DEF BInv, AllWhole

LEMMA BInvHolds == Spec => []BInv
<1>1. Init => BInv
  BY FilesAssumption, BInvInit
<1>2. BInv /\ [Next]_vars => BInv'
  BY FilesAssumption, BInvStep
<1>3. QED
  BY <1>1, <1>2, PTL DEF Spec

-----------------------------------------------------------------------------
(* A load never takes a file away.                                         *)

LEMMA HasStanding ==
    BInv => \A path : Has(path) <=>
                        \/ \E fd \in Standing : fd.path = path
                        \/ BeingLoaded(path) /\ loading.old # NoFile
<1>1. SUFFICES ASSUME BInv, NEW path
               PROVE  Has(path) <=> \/ \E fd \in Standing : fd.path = path
                                    \/ BeingLoaded(path) /\ loading.old # NoFile
  OBVIOUS
<1>2. GoodList(fall)
  BY <1>1, Parts DEF BInv
<1>3. CASE BeingLoaded(path)
  BY <1>3 DEF Has, Standing
<1>4. CASE ~BeingLoaded(path)
  <2>1. \/ eppic_findfile(path) = NoFile /\ \A other \in Range(fall) : other.path # path
        \/ /\ eppic_findfile(path) # NoFile
           /\ eppic_findfile(path) \in Range(fall) /\ eppic_findfile(path).path = path
    BY <1>2, Found
  <2>2. QED
    BY <1>4, <2>1 DEF Has, Standing
<1>5. QED
  BY <1>3, <1>4

LEMMA HasStandingNext ==
    BInv' => (\A path : Has(path) <=>
                        \/ \E fd \in Standing : fd.path = path
                        \/ BeingLoaded(path) /\ loading.old # NoFile)'
BY HasStanding, PTL

LEMMA KeepsLoaded ==
    ASSUME FilesAssumption, "unreadable" \notin Faults, BInv, [Next]_vars,
           NEW path \in Files, Has(path), ~eppic_unload(path)
    PROVE  Has(path)'
<1>1. BInv'
  BY BInvStep
<1>2. Has(path)' <=> \/ \E fd \in Standing' : fd.path = path
                     \/ BeingLoaded(path)' /\ loading'.old # NoFile
  BY <1>1, HasStandingNext
<1>3. BeingLoaded(path)' <=> loading' # Idle /\ loading'.fd.path = path
  BY DEF BeingLoaded
<1>4. \/ \E fd \in Standing : fd.path = path
      \/ loading # Idle /\ loading.old # NoFile /\ loading.fd.path = path
  BY HasStanding DEF BeingLoaded
<1> DEFINE Kept == \/ \E fd \in Standing' : fd.path = path
                   \/ loading' # Idle /\ loading'.fd.path = path /\ loading'.old # NoFile
<1>5. ASSUME NEW other \in Files, NEW fd, NEW old, Begins(other, fd, old) PROVE Kept
  BY <1>4, <1>5 DEF Begins, Others
<1>6. ASSUME NEW other \in Files, LoadUnread(other) \/ eppic_unload(other), Goes(other)
      PROVE  Kept
  <2>1. loading = Idle /\ Standing' = Others(other) /\ GoodList(fall) /\ Standing = Range(fall)
    BY <1>6, StandingIdle, Parts DEF Goes, BInv
  <2>2. CASE other = path
    <3>1. eppic_findfile(path) = NoFile
      BY <1>6, <2>2 DEF LoadUnread
    <3>2. \A fd \in Standing : fd.path # path
      BY <2>1, <3>1, Found
    <3>3. QED
      BY <1>4, <2>1, <3>2
  <2>3. CASE other # path
    BY <1>4, <2>1, <2>3 DEF Others
  <2>4. QED
    BY <2>2, <2>3
<1>7. ASSUME NEW fd, Ends({fd}), fd.path = loading.fd.path PROVE Kept
  BY <1>4, <1>7 DEF Ends
<1>8. ASSUME Install \/ InstallJumpsOut PROVE Kept
  <2>1. loading # Idle
    BY <1>8 DEF Install, InstallJumpsOut, Parsed
  <2>2. loading.fd \in Fdatas /\ clock \in 0..MaxClock
    BY <2>1, StandingTail, Parts DEF BInv, Rest, FilesAssumption
  <2>3. /\ Stamped(loading.fd, clock).path = loading.fd.path
        /\ Whole(loading.fd).path = loading.fd.path
    BY <2>2, WholeAlike DEF Alike
  <2>4. QED
    BY <1>7, <1>8, <2>3, InstallEnds, InstallJumpsOutEnds
<1>9. ASSUME Ends({loading.old} \ {NoFile}) PROVE Kept
  <2>1. Standing' = Standing \cup ({loading.old} \ {NoFile}) /\ loading # Idle
    BY <1>9 DEF Ends
  <2>2. loading.old # NoFile => loading.old.path = loading.fd.path
    BY <2>1, Parts DEF BInv, OldFits
  <2>3. Standing \subseteq Standing' /\ (loading.old # NoFile => loading.old \in Standing')
    BY <2>1
  <2>4. QED
    BY <1>4, <2>1, <2>2, <2>3
<1>10. ASSUME Stays PROVE Kept
  BY <1>4, <1>10 DEF Stays
<1>11. Kept
  BY <1>5, <1>6, <1>8, <1>9, <1>10, StepSorted
<1>12. QED
  BY <1>2, <1>3, <1>11

(***************************************************************************)
(* LoadedUntilUnload: whatever becomes of a load, compiled, refused, broken  *)
(* off by a jump or begun again, the path it replaces keeps a version on the *)
(* list or in the hands of the load, until eppic_deletefile takes it.  Only  *)
(* a file that is found and cannot be read is lost: eppic_newfile unlinks    *)
(* the old version before it pushes the file.                               *)
(***************************************************************************)
THEOREM LoadedFilesStay ==
    ASSUME "unreadable" \notin Faults
    PROVE  Spec => LoadedUntilUnload
<1>1. BInv /\ [Next]_vars =>
        [\A path \in Files : Has(path) /\ ~eppic_unload(path) => Has(path)']_vars
  BY FilesAssumption, KeepsLoaded
<1>2. QED
  BY <1>1, BInvHolds, PTL DEF Spec, LoadedUntilUnload

-----------------------------------------------------------------------------
(* What a file that is running, or up to date, is protected from.          *)

\* The file that a load or an unload takes out is the one eppic_findfile finds.
LEMMA Taken ==
    ASSUME BInv, loading = Idle, NEW path, NEW fd \in Standing, fd \notin Others(path)
    PROVE  fd.path = path /\ fd = eppic_findfile(path) /\ eppic_findfile(path) # NoFile
<1>1. GoodList(fall) /\ Standing = Range(fall)
  BY StandingIdle, Parts DEF BInv
<1>2. fd.path = path
  BY DEF Others
<1>3. QED
  BY <1>1, <1>2, Found, NullsAssumption

LEMMA RunsStep ==
    ASSUME FilesAssumption, Faults \cap {"selfUnload", "unreadable"} = {},
           BInv, RunsStanding, [Next]_vars
    PROVE  RunsStanding'
<1> DEFINE Left(S) == \A i \in DOMAIN running : \E fd \in S : fd.id = running[i]
<1>1. Left(Standing) /\ running \in Seq(0..MaxLoads) /\ Len(running) \in Nat
  BY Parts DEF RunsStanding, BInv, Rest
<1>2. ASSUME running' = running, Left(Standing') PROVE RunsStanding'
  BY <1>2 DEF RunsStanding
<1>3. ASSUME running' = << >> PROVE RunsStanding'
  BY <1>3 DEF RunsStanding
<1>4. ASSUME NEW path \in Files, loading = Idle,
             eppic_findfile(path) # NoFile => ~Runs(eppic_findfile(path))
      PROVE  Left(Others(path))
  <2>1. SUFFICES ASSUME NEW i \in DOMAIN running
                 PROVE  \E fd \in Others(path) : fd.id = running[i]
    OBVIOUS
  <2>2. PICK fd \in Standing : fd.id = running[i]
    BY <1>1
  <2>3. CASE fd \notin Others(path)
    BY <1>4, <2>2, <2>3, Taken DEF Runs
  <2>4. QED
    BY <2>2, <2>3
<1>5. ASSUME NEW path \in Files, BeginLoad(path),
             Begins(path, Fdata(nloads, path, disk[path]), eppic_findfile(path))
      PROVE  RunsStanding'
  <2>1. eppic_findfile(path) # NoFile => ~Runs(eppic_findfile(path))
    BY <1>5 DEF BeginLoad, Expected
  <2>2. loading = Idle /\ Standing' = Others(path) /\ running' = running
    BY <1>5 DEF Begins, BeginLoad
  <2>3. QED
    BY <1>2, <1>4, <2>1, <2>2
<1>6. ASSUME NEW path \in Files, LoadUnread(path) \/ eppic_unload(path), Goes(path)
      PROVE  RunsStanding'
  <2>1. eppic_findfile(path) # NoFile => ~Runs(eppic_findfile(path))
    BY <1>6 DEF LoadUnread, eppic_unload
  <2>2. loading = Idle /\ Standing' = Others(path) /\ running' = running
    BY <1>6 DEF Goes, LoadUnread, eppic_unload
  <2>3. QED
    BY <1>2, <1>4, <2>1, <2>2
<1>7. ASSUME NEW new, Ends(new), running' = running \/ running' = << >>
      PROVE  RunsStanding'
  <2>1. Standing \subseteq Standing'
    BY <1>7 DEF Ends
  <2>2. QED
    BY <1>1, <1>2, <1>3, <1>7, <2>1
<1>8. CASE CallFunction /\ Stays
  <2>1. PICK k \in DOMAIN fall : running' = Append(running, fall[k].id)
    BY <1>8 DEF CallFunction
  <2>2. fall[k] \in Standing' /\ fall[k].id \in 0..MaxLoads
    <3>1. loading = Idle /\ Standing' = Standing /\ GoodList(fall)
      BY <1>8, Parts DEF CallFunction, Stays, BInv
    <3>2. fall[k] \in Range(fall) /\ fall[k] \in Fdatas
      BY <3>1 DEF Range, GoodList
    <3>3. QED
      BY <3>1, <3>2, StandingIdle DEF Fdatas
  <2>3. /\ Len(running') = Len(running) + 1 /\ running' \in Seq(0..MaxLoads)
        /\ \A i \in 1..Len(running) : running'[i] = running[i]
        /\ running'[Len(running) + 1] = fall[k].id
    BY <1>1, <2>1, <2>2, AppendProperties
  <2>4. ASSUME NEW i \in DOMAIN running' PROVE \E fd \in Standing' : fd.id = running'[i]
    <3>1. i \in 1..Len(running) \/ i = Len(running) + 1
      BY <1>1, <2>3
    <3>2. Standing' = Standing /\ DOMAIN running = 1..Len(running)
      BY <1>1, <1>8 DEF Stays
    <3>3. CASE i \in 1..Len(running)
      BY <1>1, <2>3, <3>2, <3>3
    <3>4. CASE i = Len(running) + 1
      BY <2>2, <2>3, <3>4
    <3>5. QED
      BY <3>1, <3>3, <3>4
  <2>5. QED
    BY <2>4 DEF RunsStanding
<1>9. CASE ReturnFunction /\ Stays
  <2> DEFINE n == Len(running) - 1
  <2>1. running' = SubSeq(running, 1, n) /\ n \in Nat
    BY <1>1, <1>9, EmptySeq DEF ReturnFunction
  <2>2. \A i \in 1..n : i \in 1..Len(running)
    BY <1>1, <2>1
  <2>3. /\ running' \in Seq(0..MaxLoads) /\ Len(running') = IF 1 <= n THEN n - 1 + 1 ELSE 0
        /\ \A i \in 1..n - 1 + 1 : running'[i] = running[1 + i - 1]
    BY <1>1, <2>1, <2>2, SubSeqProperties
  <2>4. DOMAIN running' = 1..n /\ \A i \in 1..n : i \in DOMAIN running /\ running'[i] = running[i]
    BY <1>1, <2>1, <2>2, <2>3
  <2>5. QED
    BY <1>1, <1>9, <2>4 DEF RunsStanding, Stays
<1>10. CASE Stays /\ (Tick \/ (\E path \in Files : Edit(path)) \/ UNCHANGED vars)
  BY <1>1, <1>2, <1>10 DEF Stays, Tick, Edit, vars
<1>11. QED
  BY <1>5, <1>6, <1>7, <1>8, <1>9, <1>10, StepSorted
     DEF Install, InstallJumpsOut, FailParse

(***************************************************************************)
(* RunningIsLoaded: eppic_freefile frees no file whose functions execute,    *)
(* if no script loads or unloads a file that runs.  The new version is not   *)
(* called before the old one is freed, and a jump out of a load ends every    *)
(* function; a file that cannot be read is unlinked even while it runs.       *)
(***************************************************************************)
THEOREM RunningStaysLoaded ==
    ASSUME Faults \cap {"selfUnload", "unreadable"} = {}
    PROVE  Spec => []RunningIsLoaded
<1> DEFINE RInv == BInv /\ RunsStanding
<1>1. Init => RInv
  BY FilesAssumption, BInvInit DEF Init, RunsStanding
<1>2. RInv /\ [Next]_vars => RInv'
  BY FilesAssumption, BInvStep, RunsStep
<1>3. RInv => RunningIsLoaded
  <2>1. Standing \subseteq Range(fall)
    BY DEF Standing
  <2>2. QED
    BY <2>1 DEF RunsStanding, RunningIsLoaded, Range
<1>4. QED
  BY <1>1, <1>2, <1>3, PTL DEF Spec

LEMMA FreshStep ==
    ASSUME FilesAssumption, "sameSecond" \notin Faults, BInv, AllUpToDate, [Next]_vars
    PROVE  AllUpToDate'
<1>1. /\ \A fd \in Standing : UpToDate(fd)
      /\ loading # Idle => /\ disk[loading.fd.path] = loading.fd.text
                           /\ loading.old # NoFile => UpToDate(loading.old)
  BY DEF AllUpToDate
<1>2. Rest /\ GoodList(fall) /\ OldFits
  BY Parts DEF BInv
<1>3. ASSUME disk' = disk, mtime' = mtime, NEW fd PROVE UpToDate(fd)' <=> UpToDate(fd)
  BY <1>3 DEF UpToDate
<1>4. ASSUME NEW path \in Files, NEW fd, NEW old, Begins(path, fd, old),
             disk' = disk, mtime' = mtime
      PROVE  AllUpToDate'
  <2>1. /\ Standing' \subseteq Standing /\ loading'.fd = fd /\ loading'.old = old
        /\ fd.text = disk[fd.path]
        /\ old # NoFile => old \in Standing
    BY <1>4 DEF Begins, Others
  <2>2. QED
    BY <1>1, <1>3, <1>4, <2>1 DEF AllUpToDate
<1>5. ASSUME NEW path \in Files, Goes(path), disk' = disk, mtime' = mtime
      PROVE  AllUpToDate'
  BY <1>1, <1>3, <1>5 DEF Goes, Others, AllUpToDate
<1>6. ASSUME NEW new, Ends(new), disk' = disk, mtime' = mtime, \A fd \in new : UpToDate(fd)
      PROVE  AllUpToDate'
  BY <1>1, <1>3, <1>6 DEF Ends, AllUpToDate
<1>7. CASE Install \/ InstallJumpsOut
  <2>1. loading # Idle /\ disk' = disk /\ mtime' = mtime
    BY <1>7 DEF Install, InstallJumpsOut, Parsed
  <2>2. loading.fd \in Fdatas /\ clock \in 0..MaxClock
    BY <1>2, <2>1, StandingTail DEF BInv, Rest, FilesAssumption
  <2>3. UpToDate(Stamped(loading.fd, clock)) /\ UpToDate(Whole(loading.fd))
    <3>1. ASSUME NEW fd, Alike(fd, loading.fd) PROVE UpToDate(fd)
      BY <1>1, <2>1, <3>1 DEF Alike, UpToDate
    <3>2. Alike(Stamped(loading.fd, clock), loading.fd) /\ Alike(Whole(loading.fd), loading.fd)
      BY <2>2, WholeAlike
    <3>3. QED
      BY <3>1, <3>2
  <2>4. QED
    BY <1>6, <1>7, <2>1, <2>3, InstallEnds, InstallJumpsOutEnds
<1>8. CASE FailParse
  <2>1. loading # Idle /\ disk' = disk /\ mtime' = mtime
    BY <1>8 DEF FailParse
  <2>2. \A fd \in {loading.old} \ {NoFile} : UpToDate(fd)
    BY <1>1, <2>1
  <2>3. QED
    BY <1>6, <1>8, <2>1, <2>2, FailParseEnds
<1>9. ASSUME NEW path \in Files, Edit(path), Stays PROVE AllUpToDate'
  <2>1. /\ ~BeingLoaded(path)
        /\ eppic_findfile(path) # NoFile => clock > eppic_findfile(path).time
    BY <1>9 DEF Edit
  <2>2. PICK text \in Texts \cup {Absent, Unreadable} :
            /\ disk' = [disk EXCEPT ![path] = text]
            /\ mtime' = [mtime EXCEPT ![path] = IF text = Unreadable THEN @ ELSE clock]
    BY <1>9 DEF Edit
  <2>3. DOMAIN disk = Files /\ DOMAIN mtime = Files /\ clock \in Nat
    BY <1>2 DEF Rest, FilesAssumption
  <2>4. \A other \in Files \ {path} : disk'[other] = disk[other] /\ mtime'[other] = mtime[other]
    BY <2>2, <2>3
  <2>5. ASSUME NEW fd, fd.path \in Files \ {path}, UpToDate(fd) PROVE UpToDate(fd)'
    BY <2>4, <2>5 DEF UpToDate
  <2>6. ASSUME NEW fd \in Standing PROVE UpToDate(fd)'
    <3>1. fd \in Fdatas /\ fd \in Range(fall) /\ fd.time \in Nat /\ fd.path \in Files
      BY <1>2, Found DEF Standing, Fdatas, FilesAssumption
    <3>2. CASE fd.path # path
      BY <1>1, <2>5, <3>1, <3>2
    <3>3. CASE fd.path = path
      <4>1. clock > fd.time
        BY <1>2, <2>1, <3>1, <3>3, Found, NullsAssumption
      <4>2. disk'[path] \in Texts => mtime'[path] = clock
        BY <2>2, <2>3 DEF FilesAssumption
      <4>3. QED
        BY <2>3, <3>1, <3>3, <4>1, <4>2 DEF UpToDate
    <3>4. QED
      BY <3>2, <3>3
  <2>7. ASSUME loading # Idle, NEW fd, NEW old, fd = loading.fd, old = loading.old
        PROVE  disk'[fd.path] = fd.text /\ (old # NoFile => UpToDate(old)')
    <3>1. fd.path \in Files \ {path}
      BY <2>1, <2>7, StandingTail DEF BeingLoaded, BInv, Fdatas
    <3>2. old # NoFile => old.path = fd.path
      BY <1>2, <2>7 DEF OldFits
    <3>3. QED
      BY <1>1, <2>4, <2>5, <2>7, <3>1, <3>2
  <2>8. loading' = loading /\ Standing' = Standing
    BY <1>9 DEF Stays
  <2>9. QED
    BY <2>6, <2>7, <2>8 DEF AllUpToDate
<1>10. CASE Stays /\ (CallFunction \/ ReturnFunction \/ Tick \/ UNCHANGED vars)
  <2>1. disk' = disk /\ mtime' = mtime /\ Standing' = Standing /\ loading' = loading
    BY <1>10 DEF CallFunction, ReturnFunction, Tick, vars, Stays
  <2>2. QED
    BY <1>1, <1>3, <2>1 DEF AllUpToDate
<1>11. QED
  BY <1>4, <1>5, <1>7, <1>8, <1>9, <1>10, StepSorted
     DEF BeginLoad, LoadUnread, eppic_unload

(***************************************************************************)
(* DependIsFresh: what eppic_isnew takes for up to date is what the file     *)
(* says, although the time that eppic_newfile records is that of the end of  *)
(* the load; provided that no file changes while it is loaded, nor within     *)
(* the second of its load.  A load that a jump ends records no time at all    *)
(* and is repeated.                                                         *)
(***************************************************************************)
THEOREM DependStaysFresh ==
    ASSUME "sameSecond" \notin Faults
    PROVE  Spec => []DependIsFresh
<1> DEFINE FInv == BInv /\ AllUpToDate
<1>1. Init => FInv
  BY FilesAssumption, BInvInit DEF Init, AllUpToDate
<1>2. FInv /\ [Next]_vars => FInv'
  BY FilesAssumption, BInvStep, FreshStep
<1>3. FInv => DependIsFresh
  <2>1. SUFFICES ASSUME BInv, AllUpToDate, loading = Idle, NEW k \in DOMAIN fall,
                        disk[fall[k].path] \in Texts, ~eppic_isnew(fall[k])
                 PROVE  disk[fall[k].path] = fall[k].text
    BY DEF DependIsFresh
  <2>2. fall[k] \in Standing /\ fall[k] \in Fdatas
    <3>1. GoodList(fall) /\ Standing = Range(fall)
      BY <2>1, StandingIdle, Parts DEF BInv
    <3>2. QED
      BY <3>1 DEF Range, GoodList
  <2>3. mtime[fall[k].path] \in Nat /\ fall[k].time \in Nat
    BY <2>1, <2>2, Parts, FilesAssumption DEF BInv, Rest, Fdatas, FilesAssumption
  <2>4. disk[fall[k].path] # Absent
    BY <2>1, FilesAssumption DEF FilesAssumption
  <2>5. mtime[fall[k].path] <= fall[k].time
    BY <2>1, <2>3, <2>4 DEF eppic_isnew
  <2>6. QED
    BY <2>1, <2>2, <2>5 DEF AllUpToDate, UpToDate
<1>4. QED
  BY <1>1, <1>2, <1>3, PTL DEF Spec

-----------------------------------------------------------------------------
(* The sets of globals follow the files.                                   *)

LEMMA VarsStep ==
    ASSUME FilesAssumption, "dupGlobal" \notin Faults, BInv, VarsApart, [Next]_vars
    PROVE  VarsApart'
<1> DEFINE Apart(fd, other) == fd.text.gvars \cap other.text.gvars = {}
<1>1. /\ \A fd, other \in Standing : fd # other => Apart(fd, other)
      /\ \A fd \in Standing, new \in Coming : Apart(fd, new)
  BY DEF VarsApart
<1>2. ASSUME NEW path \in Files, BeginLoad(path),
             Begins(path, Fdata(nloads, path, disk[path]), eppic_findfile(path))
      PROVE  VarsApart'
  <2> DEFINE fd == Fdata(nloads, path, disk[path])
             old == eppic_findfile(path)
  <2>1. /\ Standing' = Others(path) /\ Coming' = {fd} \cup ({old} \ {NoFile})
        /\ old # NoFile => old \in Standing /\ old.path = path
        /\ loading = Idle /\ fd.path = path
    BY <1>2 DEF Begins
  <2>2. \A other \in Others(path) : Apart(other, fd)
    <3>1. \A k \in DOMAIN Unlinked(path) : Apart(Unlinked(path)[k], fd)
      BY <1>2, <2>1 DEF BeginLoad, Expected
    <3>2. GoodList(fall) /\ Others(path) = Range(Unlinked(path))
      BY <2>1, StandingIdle, UnlinkedRange, Parts DEF Others, BInv
    <3>3. QED
      BY <3>1, <3>2 DEF Range
  <2> HIDE DEF fd, old
  <2>3. \A other \in Others(path), new \in {fd} \cup ({old} \ {NoFile}) : Apart(other, new)
    BY <1>1, <2>1, <2>2 DEF Others
  <2>4. QED
    BY <1>1, <2>1, <2>3 DEF VarsApart, Others
<1>3. ASSUME NEW path \in Files, Goes(path) PROVE VarsApart'
  BY <1>1, <1>3 DEF Goes, Others, VarsApart
<1>4. ASSUME NEW new, Ends(new) PROVE VarsApart'
  BY <1>1, <1>4 DEF Ends, Alike, VarsApart
<1>5. ASSUME Stays PROVE VarsApart'
  BY <1>5 DEF Stays, VarsApart
<1>6. QED
  BY <1>2, <1>3, <1>4, <1>5, StepSorted

\* Sets of globals with identities of their own.
OwnSets(gs) ==
    /\ gs \in Seq(GlobSets)
    /\ \A i, j \in DOMAIN gs : i # j => gs[i].id # gs[j].id

\* eppic_rm_globals takes out the set of that file, and no other.
LEMMA RmGlobals ==
    ASSUME NEW gs, OwnSets(gs), NEW n \in DOMAIN gs
    PROVE  LET rest == eppic_rm_globals(gs, gs[n].id)
           IN  /\ OwnSets(rest) /\ Len(rest) = Len(gs) - 1
               /\ Range(rest) = Range(gs) \ {gs[n]}
<1> DEFINE I == {i \in 1..Len(gs) : gs[i].id = gs[n].id}
           rest == eppic_rm_globals(gs, gs[n].id)
<1>1. /\ gs \in Seq(GlobSets) /\ DOMAIN gs = 1..Len(gs) /\ Len(gs) \in Nat
      /\ Range(gs) = {gs[i] : i \in DOMAIN gs}
  BY DEF OwnSets, Range
<1>2. I = {n}
  BY <1>1 DEF OwnSets
<1>3. rest = RemoveAt(gs, Min(I))
  BY <1>1 DEF eppic_rm_globals, RemoveFirstMatch, SelectInSeq
<1>4. Min(I) = n
  <2>1. I \in SUBSET Nat /\ I # {}
    BY <1>1, <1>2
  <2> HIDE DEF I
  <2>2. Min(I) \in I
    BY <2>1, LeastPosition
  <2>3. QED
    BY <1>2, <2>2
<1> HIDE DEF rest, I
<1>5. /\ rest \in Seq(GlobSets) /\ Len(rest) = Len(gs) - 1
      /\ Range(rest) = {gs[i] : i \in 1..Len(gs) \ {n}}
      /\ \A i \in 1..Len(gs) - 1 : rest[i] = IF i < n THEN gs[i] ELSE gs[i + 1]
  <2>1. n \in 1..Len(gs) /\ rest = RemoveAt(gs, n)
    BY <1>1, <1>3, <1>4
  <2>2. gs \in Seq(GlobSets)
    BY <1>1
  <2>3. /\ rest \in Seq(GlobSets) /\ Len(rest) = Len(gs) - 1
        /\ Range(rest) = {gs[i] : i \in 1..Len(gs) \ {n}}
    BY <2>1, <2>2, RemovedRange
  <2>4. \A i \in 1..Len(gs) - 1 : rest[i] = IF i < n THEN gs[i] ELSE gs[i + 1]
    BY <2>1, <2>2, RemovedAt
  <2>5. QED
    BY <2>3, <2>4
<1>6. ASSUME NEW i \in DOMAIN rest, NEW j \in DOMAIN rest, i # j PROVE rest[i].id # rest[j].id
  <2> DEFINE from(k) == IF k < n THEN k ELSE k + 1
  <2>1. i \in 1..Len(gs) - 1 /\ j \in 1..Len(gs) - 1 /\ n \in 1..Len(gs)
    BY <1>1, <1>5
  <2>2. /\ from(i) \in 1..Len(gs) /\ from(j) \in 1..Len(gs) /\ from(i) # from(j)
    BY <1>1, <1>6, <2>1
  <2>3. rest[i] = gs[from(i)] /\ rest[j] = gs[from(j)]
    BY <1>5, <2>1
  <2>4. QED
    BY <1>1, <2>2, <2>3 DEF OwnSets
<1>7. \A i \in DOMAIN gs : gs[i] = gs[n] <=> i = n
  BY DEF OwnSets
<1>8. Range(rest) = Range(gs) \ {gs[n]}
  BY <1>1, <1>5, <1>7
<1>9. OwnSets(rest)
  BY <1>5, <1>6 DEF OwnSets
<1>10. QED
  BY <1>5, <1>8, <1>9 DEF rest

\* A file's set joins those of the other files.
LEMMA AddedGlobals ==
    ASSUME NEW gs, OwnSets(gs), NEW set \in GlobSets, \A i \in DOMAIN gs : gs[i].id # set.id
    PROVE  /\ OwnSets(<<set>> \o gs) /\ Len(<<set>> \o gs) = Len(gs) + 1
           /\ Range(<<set>> \o gs) = {set} \cup Range(gs)
<1> DEFINE new == <<set>> \o gs
<1>1. gs \in Seq(GlobSets) /\ Len(gs) \in Nat /\ DOMAIN gs = 1..Len(gs)
  BY DEF OwnSets
<1>2. <<set>> \in Seq(GlobSets) /\ Len(<<set>>) = 1 /\ <<set>>[1] = set
  OBVIOUS
<1>3. /\ new \in Seq(GlobSets) /\ Len(new) = 1 + Len(gs)
      /\ \A i \in 1..1 + Len(gs) : new[i] = IF i <= 1 THEN <<set>>[i] ELSE gs[i - 1]
  BY <1>1, <1>2, ConcatProperties
<1>4. Range(new) = {set} \cup Range(gs)
  BY <1>1, LinkRange
<1> HIDE DEF new
<1>5. /\ DOMAIN new = 1..Len(gs) + 1 /\ new[1] = set
      /\ \A i \in DOMAIN new : i # 1 => i - 1 \in DOMAIN gs /\ new[i] = gs[i - 1]
  BY <1>1, <1>2, <1>3
<1>6. ASSUME NEW i \in DOMAIN new, NEW j \in DOMAIN new, i # j PROVE new[i].id # new[j].id
  <2>1. CASE i = 1 \/ j = 1
    BY <1>5, <1>6, <2>1
  <2>2. CASE i # 1 /\ j # 1
    <3>1. i - 1 # j - 1
      BY <1>5, <1>6
    <3>2. QED
      BY <1>5, <2>2, <3>1 DEF OwnSets
  <2>3. QED
    BY <2>1, <2>2
<1>7. QED
  BY <1>1, <1>3, <1>4, <1>6 DEF OwnSets, new

LEMMA SetsOwn ==
    ASSUME BInv, GlobsMatch
    PROVE  /\ OwnSets(globs) /\ Range(globs) = {globs[i] : i \in DOMAIN globs}
           /\ \A i \in DOMAIN globs : \E fd \in Standing : globs[i] = GlobalSet(fd)
           /\ \A fd \in Standing : \E i \in DOMAIN globs : globs[i] = GlobalSet(fd)
           /\ \A fd \in Fdatas : GlobalSet(fd) \in GlobSets
<1>1. globs \in Seq(GlobSets) /\ Range(globs) = {globs[i] : i \in DOMAIN globs}
  BY Parts DEF BInv, Rest, Range
<1>2. \A fd \in Fdatas : GlobalSet(fd) \in GlobSets
  BY DEF GlobalSet, GlobSets, Fdatas
<1>3. QED
  BY <1>1, <1>2 DEF OwnSets, GlobsMatch

\* No global of a file that a load may leave is declared twice.
LEMMA NoDuplicates ==
    ASSUME BInv, VarsApart, GlobsMatch, NEW fd \in Coming
    PROVE  ~Duplicates(globs, fd)
<1>1. \A i \in DOMAIN globs : fd.text.gvars \cap globs[i].vars = {}
  BY SetsOwn DEF VarsApart, GlobalSet
<1>2. QED
  BY <1>1 DEF Duplicates, VarsOf

LEMMA SetTaken ==
    ASSUME BInv, GlobsMatch, loading = Idle, NEW path, NEW fd \in Standing, fd.path = path,
           globs' = eppic_rm_globals(globs, fd.id), Standing' = Others(path),
           Len(fall') = Len(fall) - (IF loading' = Idle THEN 1 ELSE 0)
    PROVE  GlobsMatch'
<1>1. PICK n \in DOMAIN globs : globs[n] = GlobalSet(fd)
  BY SetsOwn
<1>2. globs[n].id = fd.id
  BY <1>1 DEF GlobalSet
<1>3. /\ OwnSets(globs') /\ Len(globs') = Len(globs) - 1
      /\ Range(globs') = Range(globs) \ {globs[n]}
  BY <1>2, SetsOwn, RmGlobals
<1>4. Others(path) = Standing \ {fd}
  BY Taken DEF Others
<1>5. Range(globs') = {GlobalSet(other) : other \in Standing'}
  <2>1. \A other \in Standing : GlobalSet(other) = GlobalSet(fd) => other = fd
    BY DEF BInv, OwnIds, GlobalSet
  <2>2. Range(globs) = {GlobalSet(other) : other \in Standing}
    BY DEF GlobsMatch
  <2>3. QED
    BY <1>1, <1>3, <1>4, <2>1, <2>2
<1>6. Len(globs) = Len(fall) /\ Len(fall) \in Int
  BY Parts DEF GlobsMatch, BInv, GoodList
<1>7. Len(globs') = Len(fall') - (IF loading' = Idle THEN 0 ELSE 1)
  BY <1>3, <1>6
<1>8. QED
  BY <1>3, <1>5, <1>7 DEF GlobsMatch, OwnSets, GlobalSet

LEMMA SetJoins ==
    ASSUME BInv, GlobsMatch, NEW fd, Ends({fd}), globs' = eppic_add_globals(globs, fd)
    PROVE  GlobsMatch'
<1>1. /\ fd \in Fdatas /\ loading # Idle /\ loading' = Idle
      /\ Standing' = Standing \cup {fd} /\ Len(fall') = Len(fall)
  BY DEF Ends, AllWhole
<1>2. \A other \in Standing : other.id # fd.id
  BY DEF Ends, Alike, BInv, OwnIds
<1>3. globs' = <<GlobalSet(fd)>> \o globs
  BY DEF eppic_add_globals, GlobalSet
<1>4. \A i \in DOMAIN globs : globs[i].id # GlobalSet(fd).id
  BY <1>2, SetsOwn DEF GlobalSet
<1>5. /\ OwnSets(globs') /\ Len(globs') = Len(globs) + 1
      /\ Range(globs') = {GlobalSet(fd)} \cup Range(globs)
  BY <1>1, <1>3, <1>4, SetsOwn, AddedGlobals
<1>6. Range(globs') = {GlobalSet(other) : other \in Standing'}
  BY <1>1, <1>5 DEF GlobsMatch
<1>7. Len(globs') = Len(fall')
  <2>1. Len(globs) = Len(fall) - 1 /\ Len(fall) \in Int
    BY <1>1, Parts DEF GlobsMatch, BInv, GoodList
  <2>2. QED
    BY <1>1, <1>5, <2>1
<1>8. QED
  BY <1>1, <1>5, <1>6, <1>7, Parts DEF GlobsMatch, OwnSets, GlobalSet, BInv, GoodList

LEMMA GlobsStep ==
    ASSUME FilesAssumption, "unreadable" \notin Faults,
           BInv, VarsApart, GlobsMatch, [Next]_vars
    PROVE  GlobsMatch'
<1>1. ASSUME fall' = fall, loading' = loading, globs' = globs PROVE GlobsMatch'
  <2>1. Standing' = Standing
    BY <1>1 DEF Standing, BeingLoaded
  <2>2. QED
    BY <1>1, <2>1 DEF GlobsMatch
<1>2. ASSUME NEW path \in Files, BeginLoad(path),
             Begins(path, Fdata(nloads, path, disk[path]), eppic_findfile(path))
      PROVE  GlobsMatch'
  <2> DEFINE old == eppic_findfile(path)
  <2>1. /\ loading = Idle /\ loading' # Idle /\ Standing' = Others(path)
        /\ \/ old = NoFile /\ Others(path) = Standing
           \/ old # NoFile /\ old \in Standing /\ old.path = path
        /\ Len(fall') = IF old = NoFile THEN Len(fall) + 1 ELSE Len(fall)
        /\ globs' = IF old = NoFile THEN globs ELSE eppic_rm_globals(globs, old.id)
    BY <1>2 DEF Begins, BeginLoad
  <2>2. Len(fall) \in Int
    BY Parts DEF BInv, GoodList
  <2> HIDE DEF old
  <2>3. CASE old = NoFile
    BY <2>1, <2>2, <2>3 DEF GlobsMatch
  <2>4. CASE old # NoFile
    BY <2>1, <2>2, <2>4, SetTaken
  <2>5. QED
    BY <2>3, <2>4
<1>3. ASSUME NEW path \in Files, LoadUnread(path) \/ eppic_unload(path), Goes(path)
      PROVE  GlobsMatch'
  <2> DEFINE old == eppic_findfile(path)
  <2>1. /\ loading = Idle /\ loading' = Idle /\ Standing' = Others(path)
        /\ GoodList(fall) /\ Len(fall) \in Int
    BY <1>3, Parts DEF Goes, BInv, GoodList
  <2>2. \/ old = NoFile /\ \A fd \in Standing : fd.path # path
        \/ old # NoFile /\ old \in Standing /\ old.path = path
    BY <2>1, Found, StandingIdle
  <2>3. Len(fall') = IF old = NoFile THEN Len(fall) ELSE Len(fall) - 1
    BY <1>3, <2>1, UnlinkedRange DEF LoadUnread, eppic_unload
  <2>4. CASE LoadUnread(path)
    <3>1. old = NoFile /\ globs' = globs
      BY <2>4 DEF LoadUnread
    <3>2. Others(path) = Standing
      BY <2>2, <3>1 DEF Others
    <3>3. QED
      BY <2>1, <2>3, <3>1, <3>2 DEF GlobsMatch
  <2>5. CASE eppic_unload(path)
    <3>1. old # NoFile /\ globs' = eppic_rm_globals(globs, old.id)
      BY <2>5 DEF eppic_unload
    <3> HIDE DEF old
    <3>2. QED
      BY <2>1, <2>2, <2>3, <3>1, SetTaken
  <2>6. QED
    BY <1>3, <2>4, <2>5
<1>4. CASE Install /\ Ends({Stamped(loading.fd, clock)})
  BY <1>4, SetJoins DEF Install, Stamped
<1>5. CASE InstallJumpsOut
  <2>1. loading.fd \in Coming /\ Duplicates(globs, loading.fd)
    BY <1>5 DEF InstallJumpsOut, Parsed, Coming
  <2>2. QED
    BY <2>1, NoDuplicates
<1>6. CASE FailParse /\ Ends({loading.old} \ {NoFile})
  <2>1. loading # Idle
    BY <1>6 DEF FailParse
  <2>2. CASE loading.old = NoFile
    <3>1. globs' = globs /\ Ends({})
      BY <1>6, <2>2 DEF FailParse
    <3>2. Standing' = Standing /\ loading' = Idle /\ Len(fall') = Len(fall) - 1
      BY <3>1 DEF Ends
    <3>3. Len(fall) \in Int
      BY Parts DEF BInv, GoodList
    <3>4. QED
      BY <2>1, <3>1, <3>2, <3>3 DEF GlobsMatch
  <2>3. CASE loading.old # NoFile
    <3>1. ~Duplicates(globs, loading.old)
      BY <2>1, <2>3, NoDuplicates DEF Coming
    <3>2. globs' = eppic_add_globals(globs, loading.old)
      BY <1>6, <2>3, <3>1 DEF FailParse
    <3>3. Ends({loading.old})
      <4>1. {loading.old} \ {NoFile} = {loading.old}
        BY <2>3
      <4>2. QED
        BY <1>6, <4>1
    <3>4. QED
      BY <3>2, <3>3, SetJoins
  <2>4. QED
    BY <2>2, <2>3
<1>7. CASE /\ Stays
           /\ \/ CallFunction \/ ReturnFunction \/ Tick \/ \E path \in Files : Edit(path)
              \/ UNCHANGED vars
  <2>1. globs' = globs
    BY <1>7 DEF CallFunction, ReturnFunction, Tick, Edit, vars
  <2>2. QED
    BY <1>1, <1>7, <2>1 DEF Stays
<1>8. QED
  BY <1>2, <1>3, <1>4, <1>5, <1>6, <1>7, StepSorted

(***************************************************************************)
(* GlobalsOfLoadedFiles: eppic_add_globals and eppic_rm_globals keep the      *)
(* list of sets in step with the list of files through every load that        *)
(* succeeds or fails.  A file that declares a global of another one, and one  *)
(* that is found but cannot be read, break it.                               *)
(***************************************************************************)
THEOREM GlobalsFollowFiles ==
    ASSUME Faults \cap {"dupGlobal", "unreadable"} = {}
    PROVE  Spec => []GlobalsOfLoadedFiles
<1> DEFINE GInv == BInv /\ VarsApart /\ GlobsMatch
<1>1. Init => GInv
  <2>1. SUFFICES ASSUME Init PROVE GInv
    OBVIOUS
  <2>2. BInv /\ Standing = {} /\ Coming = {}
    BY <2>1, FilesAssumption, BInvInit
  <2>3. VarsApart
    BY <2>2 DEF VarsApart
  <2>4. GlobsMatch
    BY <2>1, <2>2 DEF GlobsMatch, Init, Range
  <2>5. QED
    BY <2>2, <2>3, <2>4
<1>2. GInv /\ [Next]_vars => GInv'
  BY FilesAssumption, BInvStep, VarsStep, GlobsStep
<1>3. GInv => GlobalsOfLoadedFiles
  <2>1. SUFFICES ASSUME BInv, VarsApart, GlobsMatch PROVE GlobalsOfLoadedFiles
    OBVIOUS
  <2>2. ASSUME NEW i \in DOMAIN globs, NEW j \in DOMAIN globs, i # j
        PROVE  globs[i].vars \cap globs[j].vars = {}
    <3>1. PICK fd \in Standing : globs[i] = GlobalSet(fd)
      BY <2>1, SetsOwn
    <3>2. PICK other \in Standing : globs[j] = GlobalSet(other)
      BY <2>1, SetsOwn
    <3>3. fd # other
      BY <2>1, <2>2, <3>1, <3>2, SetsOwn DEF OwnSets
    <3>4. QED
      BY <2>1, <3>1, <3>2, <3>3 DEF VarsApart, GlobalSet
  <2>3. ASSUME loading = Idle
        PROVE  /\ {globs[i].id : i \in DOMAIN globs} = {fall[k].id : k \in DOMAIN fall}
               /\ Len(globs) = Len(fall)
    <3>1. Standing = {fall[k] : k \in DOMAIN fall}
      BY <2>3, StandingIdle DEF Range
    <3>2. /\ \A i \in DOMAIN globs : \E fd \in Standing : globs[i] = GlobalSet(fd)
          /\ \A fd \in Standing : \E i \in DOMAIN globs : globs[i] = GlobalSet(fd)
      BY <2>1, SetsOwn
    <3>3. \A fd : GlobalSet(fd).id = fd.id
      BY DEF GlobalSet
    <3>4. Len(globs) = Len(fall)
      BY <2>1, <2>3, Parts DEF GlobsMatch, BInv, GoodList
    <3>5. QED
      BY <3>1, <3>2, <3>3, <3>4
  <2>4. QED
    BY <2>2, <2>3 DEF GlobalsOfLoadedFiles
<1>4. QED
  BY <1>1, <1>2, <1>3, PTL DEF Spec

-----------------------------------------------------------------------------
(* Loads and unloads are atomic.                                           *)

\* The versions in force: of a file being loaded, the one it replaces.
Held == Standing \cup (IF loading = Idle THEN {} ELSE {loading.old} \ {NoFile})

LEMMA InForce ==
    BInv => \A path :
        /\ \A fd \in Held : fd.path = path => TextInForce(path) = fd.text
        /\ (\A fd \in Held : fd.path # path) => TextInForce(path) = NoText
<1>1. SUFFICES ASSUME BInv, NEW path
               PROVE  /\ \A fd \in Held : fd.path = path => TextInForce(path) = fd.text
                      /\ (\A fd \in Held : fd.path # path) => TextInForce(path) = NoText
  OBVIOUS
<1>2. GoodList(fall) /\ OldFits
  BY <1>1, Parts DEF BInv
<1>3. CASE BeingLoaded(path)
  BY <1>2, <1>3 DEF TextInForce, Held, Standing, BeingLoaded, OldFits
<1>4. CASE ~BeingLoaded(path)
  <2>1. \A fd \in Held : fd.path = path => fd \in Standing
    BY <1>2, <1>4 DEF Held, BeingLoaded, OldFits
  <2>2. \A fd \in Range(fall) : fd.path = path => fd \in Standing
    BY <1>4 DEF Standing
  <2>3. Standing \subseteq Held /\ Standing \subseteq Range(fall)
    BY DEF Held, Standing
  <2>4. \A fd \in Range(fall) : eppic_findfile(fd.path) = fd /\ fd # NoFile
    BY <1>2, Found, NullsAssumption
  <2>5. eppic_findfile(path) # NoFile =>
            eppic_findfile(path) \in Range(fall) /\ eppic_findfile(path).path = path
    BY <1>2, Found
  <2>6. QED
    BY <1>4, <2>1, <2>2, <2>3, <2>4, <2>5 DEF TextInForce
<1>5. QED
  BY <1>3, <1>4

LEMMA InForceNext ==
    BInv' => (\A path :
        /\ \A fd \in Held : fd.path = path => TextInForce(path) = fd.text
        /\ (\A fd \in Held : fd.path # path) => TextInForce(path) = NoText)'
BY InForce, PTL

\* The versions in force determine what is loaded.
LEMMA SameText ==
    ASSUME BInv, BInv', NEW path,
           \A fd : fd.path = path => (fd \in Held <=> fd \in Held')
    PROVE  TextInForce(path)' = TextInForce(path)
<1>1. CASE \E fd \in Held : fd.path = path
  BY <1>1, InForce, InForceNext
<1>2. CASE \A fd \in Held : fd.path # path
  BY <1>2, InForce, InForceNext
<1>3. QED
  BY <1>1, <1>2

LEMMA HeldKept ==
    ASSUME BInv, BInv', Held' = Held
    PROVE  Loaded' = Loaded
<1>1. \A path : TextInForce(path)' = TextInForce(path)
  BY SameText
<1>2. QED
  BY <1>1 DEF Loaded

LEMMA HeldGoes ==
    ASSUME FilesAssumption, BInv, BInv', NEW path \in Files, eppic_unload(path), Goes(path)
    PROVE  Registry!Unload(path)
<1>1. Held' = {fd \in Held : fd.path # path}
  BY DEF Goes, Held, Others
<1>2. \A other \in Files \ {path} : TextInForce(other)' = TextInForce(other)
  BY <1>1, SameText
<1>3. TextInForce(path)' = NoText
  BY <1>1, InForceNext
<1>4. Loaded' = [Loaded EXCEPT ![path] = NoText]
  BY <1>2, <1>3 DEF Loaded
<1>5. Loaded[path] # NoText
  <2>1. eppic_findfile(path) \in Range(fall) /\ eppic_findfile(path).path = path
    BY Parts, Found DEF BInv, eppic_unload
  <2>2. eppic_findfile(path) \in Held /\ eppic_findfile(path) \in Fdatas
    BY <2>1, StandingIdle DEF Held, BInv, AllWhole, Goes
  <2>3. TextInForce(path) \in Texts
    BY <2>1, <2>2, InForce DEF Fdatas
  <2>4. QED
    BY <2>3, NullsAssumption DEF Loaded
<1>6. Pending = Idle /\ Pending' = Idle
  BY DEF Goes, Pending
<1>7. QED
  BY <1>4, <1>5, <1>6 DEF Registry!Unload

\* The functions of a whole file are those of its text.
LEMMA WholeFuncs ==
    ASSUME FilesAssumption, NEW fd, AllWhole({fd})
    PROVE  Registry!GlobalFuncs(fd.text) = GlobalFuncs(fd)
<1>1. DOMAIN fd.text.funcs = 1..Len(fd.text.funcs) /\ fd.inserted = Len(fd.text.funcs)
  BY DEF AllWhole, Fdatas, FilesAssumption
<1>2. QED
  BY <1>1 DEF Registry!GlobalFuncs, GlobalFuncs

\* The load under way is the registry's.
LEMMA SamePending ==
    ASSUME FilesAssumption, BInv, loading # Idle
    PROVE  /\ Pending = [path |-> loading.fd.path, text |-> loading.fd.text]
           /\ Pending # Idle /\ loading.fd \in Fdatas
           /\ loading.fd.path \in Files /\ loading.fd.text \in Texts
<1>1. loading.fd \in Fdatas
  BY StandingTail, Parts DEF BInv, Rest, FilesAssumption
<1>2. QED
  BY <1>1, NullsAssumption DEF Pending, Fdatas

\* While a file is parsed, what is loaded under another path stands.
LEMMA HeldStands ==
    ASSUME BInv, loading # Idle, NEW path \in Files \ {loading.fd.path},
           Loaded[path] # NoText
    PROVE  \E other \in Standing : other.path = path /\ Loaded[path] = other.text
<1>1. \A other \in Held : other.path # loading.fd.path => other \in Standing
  BY Parts DEF Held, BInv, OldFits, Standing, BeingLoaded
<1>2. QED
  BY <1>1, InForce DEF Loaded

\* The file that a load leaves is whole, and in conflict with no other one.
LEMMA HeldLoaded ==
    ASSUME FilesAssumption, BInv, BInv', VarsApart, NEW fd, Ends({fd}),
           Alike(fd, loading.fd), fd.text.ok
    PROVE  Registry!EndLoad
<1>1. /\ loading # Idle /\ loading' = Idle /\ Standing' = Standing \cup {fd}
      /\ fd \in Fdatas /\ AllWhole({fd}) /\ fd.path = loading.fd.path
      /\ fd.text = loading.fd.text
  BY DEF Ends, AllWhole, Alike
<1>2. /\ Held' = Standing \cup {fd}
      /\ \A other \in Held : other.path # fd.path => other \in Standing
      /\ \A other \in Standing : other.path # fd.path
  BY <1>1, Parts DEF Held, BInv, OldFits, Standing, BeingLoaded
<1>3. Loaded' = [Loaded EXCEPT ![fd.path] = fd.text]
  <2>1. \A path \in Files \ {fd.path} : TextInForce(path)' = TextInForce(path)
    BY <1>2, SameText DEF Held
  <2>2. TextInForce(fd.path)' = fd.text
    BY <1>2, InForceNext
  <2>3. fd.path \in Files
    BY <1>1 DEF Fdatas
  <2>4. QED
    BY <2>1, <2>2, <2>3 DEF Loaded
<1>4. ASSUME NEW path \in Files \ {fd.path}, Loaded[path] # NoText
      PROVE  /\ Registry!GlobalFuncs(fd.text) \cap Registry!GlobalFuncs(Loaded[path]) = {}
             /\ fd.text.gvars \cap Loaded[path].gvars = {}
  <2>1. PICK other \in Standing : other.path = path /\ Loaded[path] = other.text
    BY <1>1, <1>4, HeldStands
  <2>2. AllWhole({other}) /\ other.path # fd.path
    BY <1>2, <2>1 DEF BInv, AllWhole
  <2>3. GlobalFuncs(fd) \cap GlobalFuncs(other) = {}
    <3>1. PICK k, l \in DOMAIN fall' : fall'[k] = fd /\ fall'[l] = other
      BY <1>1 DEF Standing, Range
    <3>2. k # l
      BY <2>2, <3>1
    <3>3. GlobalFuncs(fall'[k]) \cap GlobalFuncs(fall'[l]) = {}
      BY <3>2 DEF BInv, IInv, GoodList, Separate, GlobalFuncs
    <3>4. QED
      BY <3>1, <3>3
  <2>4. fd.text.gvars \cap other.text.gvars = {}
    BY <1>1 DEF VarsApart, Coming
  <2>5. QED
    BY <1>1, <2>1, <2>2, <2>3, <2>4, WholeFuncs
<1>5. Registry!Compatible(fd.text, fd.path)
  BY <1>4 DEF Registry!Compatible
<1>6. /\ Pending # Idle /\ Pending.path = fd.path /\ Pending.text = fd.text
      /\ Pending' = Idle
  BY <1>1, SamePending DEF Pending
<1>7. QED
  BY <1>3, <1>5, <1>6 DEF Registry!EndLoad, Registry!Loadable

\* A parse that stopped at another file's function has found one that stands.
LEMMA NotLoadable ==
    ASSUME FilesAssumption, BInv, loading # Idle, ~Compiles(loading.fd, Tail(fall))
    PROVE  ~Registry!Loadable
<1> DEFINE fd == loading.fd
<1>1. /\ Pending.path = fd.path /\ Pending.text = fd.text
      /\ fd \in Fdatas /\ fd.text \in Texts
  BY SamePending
<1>2. CASE ~fd.text.ok
  BY <1>1, <1>2 DEF Registry!Loadable
<1>3. CASE fd.text.ok
  <2>1. PICK i \in DOMAIN fd.text.funcs :
            ~fd.text.funcs[i].local /\ fd.text.funcs[i].name \in Visible(Tail(fall))
    BY <1>3 DEF Compiles, Conflicts
  <2>2. PICK k \in DOMAIN Tail(fall) : fd.text.funcs[i].name \in GlobalFuncs(Tail(fall)[k])
    BY <2>1 DEF Visible
  <2> DEFINE other == Tail(fall)[k]
  <2>3. other \in Standing
    BY <2>2, StandingTail DEF BInv, Range
  <2>4. AllWhole({other}) /\ other.path # fd.path /\ other.path \in Files /\ other \in Held
    BY <2>3 DEF BInv, AllWhole, Standing, BeingLoaded, Fdatas, Held
  <2>5. Loaded[other.path] = other.text /\ Loaded[other.path] # NoText
    BY <2>4, InForce, NullsAssumption DEF Loaded, AllWhole, Fdatas
  <2>6. fd.text.funcs[i].name \in Registry!GlobalFuncs(fd.text)
    BY <2>1 DEF Registry!GlobalFuncs
  <2>7. fd.text.funcs[i].name \in Registry!GlobalFuncs(other.text)
    BY <2>2, <2>4, WholeFuncs
  <2>8. ~Registry!Compatible(fd.text, fd.path)
    BY <2>4, <2>5, <2>6, <2>7 DEF Registry!Compatible
  <2>9. QED
    BY <1>1, <2>8 DEF Registry!Loadable
<1>4. QED
  BY <1>2, <1>3

\* What a step does to the registry, and that only an unload lets a file go.
LEMMA RegistryStep ==
    ASSUME FilesAssumption, BInv, BInv', VarsApart, "unreadable" \notin Faults, [Next]_vars
    PROVE  /\ [Registry!RegNext]_<<Loaded, Pending>>
           /\ \A path \in Files : Registry!Unload(path) => eppic_unload(path)
<1> DEFINE Goal == /\ [Registry!RegNext]_<<Loaded, Pending>>
                   /\ \A path \in Files : Registry!Unload(path) => eppic_unload(path)
<1>1. ASSUME Loaded' = Loaded, Registry!RegNext \/ Pending' = Pending PROVE Goal
  BY <1>1 DEF Registry!Unload, Loaded
<1>2. ASSUME NEW path \in Files, BeginLoad(path),
             Begins(path, Fdata(nloads, path, disk[path]), eppic_findfile(path))
      PROVE  Goal
  <2> DEFINE old == eppic_findfile(path)
             fd == Fdata(nloads, path, disk[path])
  <2>1. /\ Held = Standing /\ Held' = Others(path) \cup ({old} \ {NoFile})
        /\ loading = Idle
        /\ \/ old = NoFile /\ Others(path) = Standing
           \/ old # NoFile /\ old \in Standing /\ old.path = path
    BY <1>2 DEF Begins, Held
  <2>2. \A other \in Standing \ Others(path) : other = old
    BY <2>1, Taken
  <2>3. Others(path) \subseteq Standing
    BY DEF Others
  <2>4. Held' = Held
    BY <2>1, <2>2, <2>3
  <2>5. /\ loading' # Idle /\ loading'.fd.path = path /\ loading'.fd.text = disk[path]
        /\ disk[path] \in Texts
    BY <1>2 DEF Begins, BeginLoad
  <2>6. Pending = Idle /\ Pending' = [path |-> path, text |-> disk[path]]
    BY <2>1, <2>5 DEF Pending
  <2>7. Loaded' = Loaded
    BY <2>4, HeldKept
  <2>8. Registry!BeginLoad(path, disk[path])
    BY <2>6, <2>7 DEF Registry!BeginLoad
  <2>9. QED
    BY <1>1, <2>5, <2>7, <2>8 DEF Registry!RegNext
<1>3. ASSUME NEW path \in Files, eppic_unload(path), Goes(path) PROVE Goal
  <2>1. Registry!Unload(path)
    BY <1>3, HeldGoes
  <2>2. ASSUME NEW other \in Files, Registry!Unload(other) PROVE other = path
    BY <2>1, <2>2 DEF Registry!Unload, Loaded
  <2>3. QED
    BY <1>3, <2>1, <2>2 DEF Registry!RegNext
<1>4. ASSUME NEW path \in Files, LoadUnread(path), Goes(path) PROVE Goal
  <2>1. eppic_findfile(path) = NoFile
    BY <1>4 DEF LoadUnread
  <2>2. \A fd \in Range(fall) : fd.path # path
    BY <2>1, Parts, Found, NullsAssumption DEF BInv
  <2>3. Held' = Held
    BY <1>4, <2>2, StandingIdle DEF Goes, Held, Others
  <2>4. Pending' = Pending
    BY <1>4 DEF Goes, Pending
  <2>5. QED
    BY <1>1, <2>3, <2>4, HeldKept
<1>5. ASSUME Install \/ InstallJumpsOut PROVE Goal
  <2>1. loading # Idle /\ loading.fd.text.ok
    BY <1>5 DEF Install, InstallJumpsOut, Parsed, Compiles
  <2>2. loading.fd \in Fdatas /\ clock \in 0..MaxClock
    BY <2>1, StandingTail, Parts DEF BInv, Rest, FilesAssumption
  <2>3. Alike(Stamped(loading.fd, clock), loading.fd) /\ Alike(Whole(loading.fd), loading.fd)
    BY <2>2, WholeAlike
  <2>4. Registry!EndLoad
    BY <1>5, <2>1, <2>3, InstallEnds, InstallJumpsOutEnds, HeldLoaded DEF Alike
  <2>5. \A path \in Files : ~Registry!Unload(path)
    BY <2>1, SamePending DEF Registry!Unload
  <2>6. QED
    BY <2>4, <2>5 DEF Registry!RegNext
<1>6. ASSUME FailParse, Ends({loading.old} \ {NoFile}) PROVE Goal
  <2>1. Held' = Held
    BY <1>6 DEF Ends, Held
  <2>2. loading # Idle /\ ~Compiles(loading.fd, Tail(fall)) /\ Pending' = Idle
    BY <1>6 DEF FailParse, Ends, Pending
  <2>3. Registry!FailLoad
    BY <2>1, <2>2, HeldKept, NotLoadable, SamePending DEF Registry!FailLoad
  <2>4. QED
    BY <1>1, <2>1, <2>3, HeldKept DEF Registry!RegNext
<1>7. ASSUME Stays PROVE Goal
  BY <1>1, <1>7, HeldKept DEF Stays, Held, Pending
<1>8. QED
  BY <1>2, <1>3, <1>4, <1>5, <1>6, <1>7, StepSorted

(***************************************************************************)
(* ImplementsRegistry: eppic_newfile and eppic_deletefile implement a map     *)
(* from paths to texts that a load replaces and an unload drops as a whole,   *)
(* where no two texts define the same global function or global variable.  A  *)
(* load ends well just when its text compiles and collides with no file, and  *)
(* otherwise changes nothing; a file goes only when its unload is asked for.  *)
(***************************************************************************)
THEOREM RegistryImplemented ==
    ASSUME Faults \cap {"dupGlobal", "unreadable"} = {}
    PROVE  Spec => ImplementsRegistry
<1> DEFINE PInv == BInv /\ VarsApart
<1>1. Init => PInv /\ Registry!RegInit
  <2>1. SUFFICES ASSUME Init PROVE PInv /\ Registry!RegInit
    OBVIOUS
  <2>2. BInv /\ Standing = {} /\ Coming = {} /\ loading = Idle
    BY <2>1, FilesAssumption, BInvInit DEF Init
  <2>3. VarsApart
    BY <2>2 DEF VarsApart
  <2>4. Held = {}
    BY <2>2 DEF Held
  <2>5. \A path : TextInForce(path) = NoText
    BY <2>2, <2>4, InForce
  <2>6. QED
    BY <2>2, <2>3, <2>5 DEF Registry!RegInit, Loaded, Pending
<1>2. PInv /\ [Next]_vars => PInv'
  BY FilesAssumption, BInvStep, VarsStep
<1>3. PInv /\ PInv' /\ [Next]_vars => [Registry!RegNext]_(Registry!regVars)
  BY FilesAssumption, RegistryStep DEF Registry!regVars
<1>4. PInv /\ PInv' /\ [Next]_vars =>
          [\A path \in Files : Registry!Unload(path) => eppic_unload(path)]_vars
  BY FilesAssumption, RegistryStep
<1>5. QED
  BY <1>1, <1>2, <1>3, <1>4, PTL
  DEF Spec, ImplementsRegistry, UnloadsAreAsked, Registry!RegSpec

=============================================================================
