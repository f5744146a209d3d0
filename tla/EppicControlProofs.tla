------------------------- MODULE EppicControlProofs -------------------------
(***************************************************************************)
(* Proofs about EppicControl for every bound and every set of faults: the  *)
(* types, that the jump stack mirrors the C stack, so that no jump goes to a *)
(* routine that has returned and no pop meets another routine's entry, and   *)
(* then where the jumps land and whose signal handlers are installed.        *)
(***************************************************************************)
EXTENDS EppicControl, SequenceTheorems, TLAPS

USE DEF NoPath, FreedPath, StalePath

\* Only an eppic_exenode on its way out has given its handler set back.
OnlyEvalsFreed ==
    \A k \in 1..Depth : ctl[k].osa = "freed" => ctl[k].kind = "eval"

IInv == TypeOK /\ JmpsMirrorFrames /\ OnlyEvalsFreed

-----------------------------------------------------------------------------
(* The operators on the arrays.                                            *)

\* eppic_setsvlev changes the contents of svs, never its shape.
LEMMA SetsvlevType ==
    ASSUME NEW s \in [1..MaxScopes -> Scopes], NEW from \in Int, NEW to \in Int
    PROVE  eppic_setsvlev(s, from, to) \in [1..MaxScopes -> Scopes]
<1>1. \A i \in 1..MaxScopes : [s[i] EXCEPT !.live = FALSE] \in Scopes
  BY DEF Scopes
<1>2. QED
  BY <1>1 DEF eppic_setsvlev

\* eppic_addsvs stores a scope in the array it was given.
LEMMA AddScopeType ==
    ASSUME NEW s \in [1..MaxScopes -> Scopes], NEW lev \in Int,
           NEW type \in {"FILE", "STAT", "AUTO", "PARSE"}
    PROVE  AddScope(s, lev, type) \in [1..MaxScopes -> Scopes]
<1>1. Scope(type) \in Scopes
  BY DEF Scope, Scopes
<1>2. QED
  BY <1>1 DEF AddScope

\* A prefix of a sequence: its type, its length and its elements.
LEMMA Prefix ==
    ASSUME NEW S, NEW s \in Seq(S), NEW n \in 0..Len(s)
    PROVE  /\ SubSeq(s, 1, n) \in Seq(S)
           /\ Len(SubSeq(s, 1, n)) = n
           /\ \A i \in 1..n : SubSeq(s, 1, n)[i] = s[i]
<1>1. \A i \in 1..n : s[i] \in S
  OBVIOUS
<1>2. /\ SubSeq(s, 1, n) \in Seq(S)
      /\ Len(SubSeq(s, 1, n)) = IF 1 <= n THEN n - 1 + 1 ELSE 0
      /\ \A i \in 1..n - 1 + 1 : SubSeq(s, 1, n)[i] = s[1 + i - 1]
  <2>1. 1 \in Int /\ n \in Int
    OBVIOUS
  <2>2. QED
    BY <1>1, <2>1, SubSeqProperties
<1>3. QED
  BY <1>2

\* One element more.
LEMMA Appended ==
    ASSUME NEW S, NEW s \in Seq(S), NEW x \in S
    PROVE  /\ Append(s, x) \in Seq(S)
           /\ Len(Append(s, x)) = Len(s) + 1
           /\ \A i \in 1..Len(s) : Append(s, x)[i] = s[i]
           /\ Append(s, x)[Len(s) + 1] = x
OBVIOUS

-----------------------------------------------------------------------------
(* The two stacks grow and shrink together.                                *)

\* Dropping an entry and everything above it, and the frames from its owner up,
\* keeps the stacks in step: what eppic_dojmp and eppic_popjmp do.
LEMMA MirrorsCut ==
    ASSUME NEW c \in Seq(Frames), NEW j \in Seq(Jumps), Mirrors(c, j),
           NEW t \in 2..Len(j)
    PROVE  Mirrors(SubSeq(c, 1, j[t].env - 1), SubSeq(j, 1, t - 1))
<1> DEFINE e == j[t].env
           c2 == SubSeq(c, 1, e - 1)
           j2 == SubSeq(j, 1, t - 1)
<1>1. e \in 1..Len(c) /\ Len(c) \in Nat /\ Len(j) \in Nat
  BY DEF Mirrors
<1>2. Len(c2) = e - 1 /\ \A k \in 1..e - 1 : c2[k] = c[k]
  BY <1>1, Prefix, e - 1 \in 0..Len(c)
<1>3. Len(j2) = t - 1 /\ \A i \in 1..t - 1 : j2[i] = j[i]
  BY <1>1, Prefix, t - 1 \in 0..Len(j)
<1>4. \A i \in 2..t - 1 : j[i].env < e /\ j[i].env \in 1..Len(c)
  BY <1>1 DEF Mirrors
<1>5. \A i \in 2..t - 1 : j[i].env \in 1..e - 1
  BY <1>1, <1>4
<1> HIDE DEF e, c2, j2
<1>6. Len(j2) > 0 /\ j2[1] = BaseJump
  BY <1>1, <1>3 DEF Mirrors
<1>7. \A i \in 2..Len(j2) :
        /\ j2[i].env \in 1..Len(c2)
        /\ c2[j2[i].env].kind \in ContextKinds
        /\ j2[i].type = JumpType(c2[j2[i].env].kind)
  <2> SUFFICES ASSUME NEW i \in 2..t - 1
               PROVE  /\ j2[i].env \in 1..Len(c2)
                      /\ c2[j2[i].env].kind \in ContextKinds
                      /\ j2[i].type = JumpType(c2[j2[i].env].kind)
    BY <1>3
  <2>1. j2[i] = j[i] /\ c2[j[i].env] = c[j[i].env]
    BY <1>2, <1>3, <1>5
  <2>2. c[j[i].env].kind \in ContextKinds /\ j[i].type = JumpType(c[j[i].env].kind)
    BY <1>1 DEF Mirrors
  <2>3. j2[i].env \in 1..Len(c2)
    BY <1>2, <1>5, <2>1
  <2>4. QED
    BY Zenon, <2>1, <2>2, <2>3
<1>8. \A i, n \in 2..Len(j2) : i < n => j2[i].env < j2[n].env
  <2>1. \A i, n \in 2..Len(j) : i < n => j[i].env < j[n].env
    BY DEF Mirrors
  <2>2. \A i \in 2..Len(j2) : i \in 2..Len(j) /\ j2[i] = j[i]
    BY <1>1, <1>3
  <2>3. QED
    BY Zenon, <2>1, <2>2
<1>9. ASSUME NEW k \in 1..Len(c2), c2[k].kind \in ContextKinds
      PROVE  \E i \in 2..Len(j2) : j2[i].env = k
  <2>1. k \in 1..Len(c) /\ k < e /\ c[k].kind \in ContextKinds
    BY <1>1, <1>2, <1>9
  <2>2. PICK i \in 2..Len(j) : j[i].env = k
    BY <2>1 DEF Mirrors
  <2>3. i < t
    <3>1. CASE i = t
      BY <3>1, <2>1, <2>2, <1>1 DEF e
    <3>2. CASE i > t
      <4>1. j[t].env < j[i].env
        BY <3>2, <1>1 DEF Mirrors
      <4>2. QED
        BY <4>1, <2>1, <2>2, <1>1 DEF e
    <3>3. QED
      BY <3>1, <3>2, <1>1
  <2>4. QED
    BY <2>2, <2>3, <1>1, <1>3
<1>10. QED
  BY <1>6, <1>7, <1>8, <1>9 DEF Mirrors, e, c2, j2

\* A routine that calls setjmp pushes its own entry.
LEMMA MirrorsPush ==
    ASSUME NEW c \in Seq(Frames), NEW j \in Seq(Jumps), Mirrors(c, j),
           NEW f \in Frames, f.kind \in ContextKinds, NEW x \in Jumps,
           x.type = JumpType(f.kind), x.env = Len(c) + 1
    PROVE  Mirrors(Append(c, f), Append(j, x))
<1> DEFINE c2 == Append(c, f)
           j2 == Append(j, x)
<1>1. Len(c) \in Nat /\ Len(j) \in Nat
  OBVIOUS
<1>2. Len(c2) = Len(c) + 1 /\ c2[Len(c) + 1] = f /\ \A k \in 1..Len(c) : c2[k] = c[k]
  BY Appended
<1>3. Len(j2) = Len(j) + 1 /\ j2[Len(j) + 1] = x /\ \A i \in 1..Len(j) : j2[i] = j[i]
  BY Appended
<1> HIDE DEF c2, j2
<1>4. Len(j2) > 0 /\ j2[1] = BaseJump
  BY <1>1, <1>3 DEF Mirrors
<1>5. ASSUME NEW i \in 2..Len(j2)
      PROVE  /\ j2[i].env \in 1..Len(c2)
             /\ c2[j2[i].env].kind \in ContextKinds
             /\ j2[i].type = JumpType(c2[j2[i].env].kind)
  <2>1. CASE i = Len(j) + 1
    BY <2>1, <1>1, <1>2, <1>3
  <2>2. CASE i \in 2..Len(j)
    <3>1. /\ j[i].env \in 1..Len(c)
          /\ c[j[i].env].kind \in ContextKinds
          /\ j[i].type = JumpType(c[j[i].env].kind)
      BY <2>2 DEF Mirrors
    <3>2. j2[i] = j[i] /\ c2[j[i].env] = c[j[i].env]
      BY <2>2, <3>1, <1>1, <1>2, <1>3
    <3>3. QED
      BY <3>1, <3>2, <1>1, <1>2
  <2>3. QED
    BY <2>1, <2>2, <1>1, <1>3
<1>6. ASSUME NEW i \in 2..Len(j2), NEW n \in 2..Len(j2), i < n
      PROVE  j2[i].env < j2[n].env
  <2>1. i \in 2..Len(j) /\ j2[i] = j[i] /\ j[i].env \in 1..Len(c)
    BY <1>1, <1>3, <1>6 DEF Mirrors
  <2>2. CASE n = Len(j) + 1
    BY <2>1, <2>2, <1>1, <1>3
  <2>3. CASE n \in 2..Len(j)
    BY <2>1, <2>3, <1>1, <1>3, <1>6 DEF Mirrors
  <2>4. QED
    BY <2>2, <2>3, <1>1, <1>3
<1>7. ASSUME NEW k \in 1..Len(c2), c2[k].kind \in ContextKinds
      PROVE  \E i \in 2..Len(j2) : j2[i].env = k
  <2>1. CASE k = Len(c) + 1
    <3>1. Len(j) + 1 \in 2..Len(j2)
      BY <1>1, <1>3 DEF Mirrors
    <3>2. QED
      BY <2>1, <3>1, <1>3
  <2>2. CASE k \in 1..Len(c)
    <3>1. PICK i \in 2..Len(j) : j[i].env = k
      BY <2>2, <1>2, <1>7 DEF Mirrors
    <3>2. QED
      BY <3>1, <1>1, <1>3
  <2>3. QED
    BY <2>1, <2>2, <1>1, <1>2
<1>8. QED
  BY <1>4, <1>5, <1>6, <1>7 DEF Mirrors, c2, j2

\* A block owns no entry: opening it leaves the stacks in step.
LEMMA MirrorsOpenBlock ==
    ASSUME NEW c \in Seq(Frames), NEW j \in Seq(Jumps), Mirrors(c, j),
           NEW f \in Frames, f.kind \notin ContextKinds
    PROVE  Mirrors(Append(c, f), j)
<1> DEFINE c2 == Append(c, f)
<1>1. Len(c) \in Nat /\ Len(j) \in Nat
  OBVIOUS
<1>2. Len(c2) = Len(c) + 1 /\ c2[Len(c) + 1] = f /\ \A k \in 1..Len(c) : c2[k] = c[k]
  BY Appended
<1> HIDE DEF c2
<1>3. ASSUME NEW i \in 2..Len(j)
      PROVE  j[i].env \in 1..Len(c2) /\ c2[j[i].env] = c[j[i].env]
  BY <1>1, <1>2 DEF Mirrors
<1>4. ASSUME NEW k \in 1..Len(c2), c2[k].kind \in ContextKinds
      PROVE  \E i \in 2..Len(j) : j[i].env = k
  <2>1. k \in 1..Len(c) /\ c[k].kind \in ContextKinds
    BY <1>1, <1>2, <1>4
  <2>2. QED
    BY <2>1 DEF Mirrors
<1>5. QED
  BY <1>3, <1>4 DEF Mirrors, c2

\* ... and so does closing it.
LEMMA MirrorsCloseBlock ==
    ASSUME NEW c \in Seq(Frames), NEW j \in Seq(Jumps), Mirrors(c, j),
           Len(c) > 0, c[Len(c)].kind \notin ContextKinds
    PROVE  Mirrors(SubSeq(c, 1, Len(c) - 1), j)
<1> DEFINE n == Len(c) - 1
           c2 == SubSeq(c, 1, n)
<1>1. Len(c) \in Nat /\ Len(j) \in Nat /\ n \in 0..Len(c)
  OBVIOUS
<1>2. Len(c2) = n /\ \A k \in 1..n : c2[k] = c[k]
  BY <1>1, Prefix
<1> HIDE DEF c2
<1>3. ASSUME NEW i \in 2..Len(j)
      PROVE  j[i].env \in 1..n
  <2>1. j[i].env \in 1..Len(c) /\ c[j[i].env].kind \in ContextKinds
    BY DEF Mirrors
  <2>2. QED
    BY <2>1, <1>1
<1>4. ASSUME NEW k \in 1..n, c2[k].kind \in ContextKinds
      PROVE  \E i \in 2..Len(j) : j[i].env = k
  BY <1>1, <1>2, <1>4 DEF Mirrors
<1>5. QED
  BY <1>1, <1>2, <1>3, <1>4 DEF Mirrors, c2

\* A frame that keeps its kind of entry may change in every other respect.
LEMMA MirrorsRelabel ==
    ASSUME NEW c \in Seq(Frames), NEW j \in Seq(Jumps), Mirrors(c, j),
           NEW d \in Seq(Frames), Len(d) = Len(c),
           \A k \in 1..Len(c) :
             /\ d[k].kind \in ContextKinds <=> c[k].kind \in ContextKinds
             /\ JumpType(d[k].kind) = JumpType(c[k].kind)
    PROVE  Mirrors(d, j)
BY DEF Mirrors

-----------------------------------------------------------------------------
(* What the invariant says at one moment.                                  *)

\* The entry on top belongs to the frame on top, when that owns one.
LEMMA TopEntry ==
    ASSUME TypeOK, Mirrors(ctl, jmps), Depth > 0, Top.kind \in ContextKinds
    PROVE  /\ Len(jmps) \in 2..Len(jmps)
           /\ jmps[Len(jmps)].env = Depth
           /\ jmps[Len(jmps)].type = JumpType(Top.kind)
<1>1. Depth \in Nat /\ Len(jmps) \in Nat /\ Depth \in 1..Depth
  BY DEF TypeOK, Depth
<1>2. PICK i \in 2..Len(jmps) : jmps[i].env = Depth
  BY <1>1 DEF Mirrors, Depth, Top
<1>3. Len(jmps) \in 2..Len(jmps)
  BY <1>1, <1>2
<1>4. jmps[Len(jmps)].env \in 1..Depth
  BY <1>3 DEF Mirrors, Depth
<1>5. i = Len(jmps)
  <2>1. ~(i < Len(jmps))
    <3>1. SUFFICES ASSUME i < Len(jmps) PROVE FALSE
      OBVIOUS
    <3>2. jmps[i].env < jmps[Len(jmps)].env
      BY <3>1, <1>3 DEF Mirrors
    <3>3. QED
      BY <3>2, <1>1, <1>2, <1>4
  <2>2. QED
    BY <2>1, <1>1
<1>6. QED
  BY <1>2, <1>3, <1>5 DEF Mirrors, Top

\* "Wrong pop!" cannot happen.
LEMMA IInvPops == IInv => PopsMatch
<1>1. SUFFICES ASSUME IInv, At(ContextKinds)
               PROVE  /\ Len(jmps) > 1
                      /\ jmps[Len(jmps)].type = JumpType(Top.kind)
                      /\ jmps[Len(jmps)].env = Depth
  BY DEF PopsMatch
<1>2. TypeOK /\ Mirrors(ctl, jmps) /\ Depth > 0 /\ Top.kind \in ContextKinds
  BY <1>1 DEF IInv, JmpsMirrorFrames, At
<1>3. Len(jmps) \in Nat
  BY <1>2 DEF TypeOK
<1>4. QED
  BY <1>2, <1>3, TopEntry

-----------------------------------------------------------------------------
(* The steps.                                                              *)

\* Frames and entries are what the routines make of their arguments.
LEMMA MadeFrame ==
    ASSUME NEW kind \in Kinds, NEW lev \in 0..MaxScopes,
           NEW osa \in {"app", "eppic", "freed"},
           NEW ocurp \in Paths \cup (1..MaxFrames)
    PROVE  /\ Frame(kind, lev, osa, ocurp) \in Frames
           /\ Frame(kind, lev, osa, ocurp).kind = kind
           /\ Frame(kind, lev, osa, ocurp).osa = osa
BY DEF Frame, Frames

LEMMA MadeJump ==
    ASSUME NEW type \in JumpTypes, NEW lev \in 0..MaxScopes, NEW env \in 0..MaxFrames
    PROVE  /\ Jump(type, lev, env) \in Jumps
           /\ Jump(type, lev, env).type = type
           /\ Jump(type, lev, env).env = env
BY DEF Jump, Jumps

LEMMA MadeBare ==
    /\ NotBare \in Bares /\ NotBare.at = "none"
    /\ \A osa \in {"app", "eppic"} :
        /\ Bare("entering", osa) \in Bares /\ Bare("entering", osa) # NotBare
        /\ Bare("entering", osa).osa = osa
    /\ \A osa \in {"app", "eppic", "freed"} :
        /\ Bare("landed", osa) \in Bares /\ Bare("landed", osa) # NotBare
        /\ Bare("landed", osa).osa = osa
    /\ \A b \in Bares :
        /\ b = NotBare <=> b.at = "none"
        /\ b.osa \in {"app", "eppic", "freed"}
        /\ b.at = "entering" => b.osa \in {"app", "eppic"}
BY DEF Bare, NotBare, Bares

\* eppic_curp gives back a path that some frame, or nobody, owns.
LEMMA RestoredCurp ==
    ASSUME TypeOK, NEW ocurp \in Paths \cup (1..MaxFrames), NEW me
    PROVE  RestoreCurp(ocurp, me) \in Paths \cup (1..MaxFrames)
BY DEF TypeOK, RestoreCurp, Paths

\* Every jump, from whatever level, keeps the invariant.
LEMMA JumpStep ==
    ASSUME ControlAssumption, IInv, ~crashed, NEW type, NEW lev \in 0..MaxScopes,
           NEW s \in [1..MaxScopes -> Scopes],
           eppic_dojmp(type, s, lev)
    PROVE  IInv'
<1>1. TypeOK /\ Mirrors(ctl, jmps) /\ OnlyEvalsFreed
  BY DEF IInv, JmpsMirrorFrames
<1>2. PICK t \in 1..Len(jmps) :
        /\ jmps' = SubSeq(jmps, 1, t - 1)
        /\ svs' = eppic_setsvlev(s, lev, jmps[t].svlev)
        /\ svlev' = jmps[t].svlev
        /\ IF t = 1 THEN NullJump ELSE Land(jmps[t].env)
  BY DEF eppic_dojmp
<1>3. Len(jmps) \in Nat /\ t - 1 \in 0..Len(jmps) /\ jmps[t] \in Jumps
  BY <1>1 DEF TypeOK
<1>4. jmps' \in Seq(Jumps)
  BY <1>1, <1>2, <1>3, Prefix DEF TypeOK
<1>5. svlev' \in 0..MaxScopes
  BY <1>2, <1>3 DEF Jumps
<1>6. svs' \in [1..MaxScopes -> Scopes]
  <2>1. lev \in Int /\ jmps[t].svlev \in Int
    BY <1>2, <1>5
  <2>2. QED
    BY <1>2, <2>1, SetsvlevType
<1>7. CASE t = 1
  <2>1. crashed' = TRUE /\ UNCHANGED <<ctl, handler, curp, bare>>
    BY <1>2, <1>7 DEF NullJump
  <2>2. TypeOK'
    BY <1>1, <1>4, <1>5, <1>6, <2>1 DEF TypeOK, Depth
  <2>3. QED
    BY <1>1, <2>1, <2>2 DEF IInv, JmpsMirrorFrames, OnlyEvalsFreed, Depth
<1>8. CASE t # 1
  <2> DEFINE e == jmps[t].env
  <2>1. t \in 2..Len(jmps) /\ Land(e)
    BY <1>2, <1>3, <1>8
  <2>2. e \in 1..Depth /\ Depth \in Nat /\ ctl[e] \in Frames
    BY <1>1, <2>1 DEF Mirrors, TypeOK, Depth
  <2>3. Mirrors(ctl', jmps')
    BY <1>1, <1>2, <2>1, MirrorsCut DEF TypeOK, Land
  <2>4. /\ ctl' \in Seq(Frames)
        /\ Len(ctl') = e - 1
        /\ \A k \in 1..e - 1 : ctl'[k] = ctl[k]
    BY <1>1, <2>1, <2>2, Prefix, e - 1 \in 0..Depth DEF TypeOK, Land, Depth
  <2>5. handler' \in {"app", "eppic"}
    <3>1. ctl[e].kind = "cmd" => ctl[e].osa \in {"app", "eppic"}
      BY <1>1, <2>2 DEF OnlyEvalsFreed, Frames
    <3>2. QED
      BY <1>1, <2>1, <3>1 DEF TypeOK, Land
  <2>6. curp' \in Paths \cup (1..MaxFrames)
    <3>1. RestoreCurp(ctl[e].ocurp, e) \in Paths \cup (1..MaxFrames)
      BY <1>1, <2>2, RestoredCurp DEF Frames
    <3>2. QED
      BY <1>1, <2>1, <3>1 DEF TypeOK, Land, Paths
  <2>7. crashed' \in BOOLEAN /\ bare' \in Bares
    <3>1. crashed' = crashed /\ crashed \in BOOLEAN
      BY <1>1, <2>1 DEF Land, TypeOK
    <3>2. ctl[e].osa \in {"app", "eppic", "freed"}
      BY <2>2 DEF Frames
    <3>3. QED
      BY <2>1, <3>1, <3>2, MadeBare DEF Land
  <2>8. TypeOK'
    BY <1>1, <1>4, <1>5, <1>6, <2>2, <2>4, <2>5, <2>6, <2>7, ControlAssumption
    DEF TypeOK, Depth, ControlAssumption
  <2>9. OnlyEvalsFreed'
    <3>1. \A k \in 1..e - 1 : k \in 1..Depth /\ ctl'[k] = ctl[k]
      BY <2>2, <2>4
    <3>2. \A k \in 1..e - 1 : ctl'[k].osa = "freed" => ctl'[k].kind = "eval"
      BY <1>1, <3>1 DEF OnlyEvalsFreed
    <3>3. QED
      BY <2>4, <3>2 DEF OnlyEvalsFreed, Depth
  <2>10. QED
    BY <2>3, <2>8, <2>9 DEF IInv, JmpsMirrorFrames
<1>9. QED
  BY <1>7, <1>8

\* The ordinary end of a routine that owns an entry.
LEMMA PopStep ==
    ASSUME ControlAssumption, IInv, At(ContextKinds), NEW type,
           eppic_popjmp(type), PopFrame,
           handler' \in {"app", "eppic"}, curp' \in Paths \cup (1..MaxFrames),
           bare' \in Bares, crashed' = crashed
    PROVE  IInv'
<1>1. TypeOK /\ Mirrors(ctl, jmps) /\ OnlyEvalsFreed /\ Depth > 0
      /\ Top.kind \in ContextKinds
  BY DEF IInv, JmpsMirrorFrames, At
<1>2. Len(jmps) \in 2..Len(jmps) /\ jmps[Len(jmps)].env = Depth
  BY <1>1, TopEntry
<1>3. Depth \in Nat /\ Len(jmps) \in Nat /\ jmps[Len(jmps)] \in Jumps
  BY <1>1, <1>2 DEF TypeOK, Depth
<1>4. Mirrors(ctl', jmps')
  BY <1>1, <1>2, MirrorsCut DEF TypeOK, PopFrame, eppic_popjmp, Depth
<1>5. /\ ctl' \in Seq(Frames)
      /\ Len(ctl') = Depth - 1
      /\ \A k \in 1..Depth - 1 : ctl'[k] = ctl[k]
  BY <1>1, <1>3, Prefix, Depth - 1 \in 0..Depth DEF TypeOK, PopFrame, Depth
<1>6. jmps' \in Seq(Jumps)
  BY <1>1, <1>3, <1>2, Prefix, Len(jmps) - 1 \in 0..Len(jmps) DEF TypeOK, eppic_popjmp
<1>7. svlev' \in 0..MaxScopes
  BY <1>3 DEF Jumps, eppic_popjmp
<1>8. svs' \in [1..MaxScopes -> Scopes]
  <2>1. svlev \in Int /\ jmps[Len(jmps)].svlev \in Int
    BY <1>1, <1>3 DEF TypeOK, Jumps
  <2>2. QED
    BY <1>1, <2>1, SetsvlevType DEF TypeOK, eppic_popjmp
<1>9. TypeOK'
  BY <1>1, <1>3, <1>5, <1>6, <1>7, <1>8, ControlAssumption DEF TypeOK, Depth, ControlAssumption
<1>10. OnlyEvalsFreed'
  BY <1>1, <1>3, <1>5 DEF OnlyEvalsFreed, Depth
<1>11. QED
  BY <1>4, <1>9, <1>10 DEF IInv, JmpsMirrorFrames

\* Opening a context: a frame of a kind that calls setjmp, with its entry.
LEMMA PushStep ==
    ASSUME ControlAssumption, IInv, ~crashed, HasRoom(1),
           NEW f \in Frames, f.kind \in ContextKinds, f.osa # "freed",
           NEW type, type = JumpType(f.kind),
           ctl' = Append(ctl, f), jmps' = Append(jmps, Jump(type, svlev, Depth + 1)),
           svs' \in [1..MaxScopes -> Scopes], svlev' \in 0..MaxScopes,
           handler' \in {"app", "eppic"}, curp' \in Paths \cup (1..MaxFrames),
           bare' \in Bares, crashed' = crashed
    PROVE  IInv'
<1> DEFINE x == Jump(type, svlev, Depth + 1)
<1>1. TypeOK /\ Mirrors(ctl, jmps) /\ OnlyEvalsFreed /\ Depth \in Nat
  BY DEF IInv, JmpsMirrorFrames, TypeOK, Depth
<1>2. Depth + 1 \in 0..MaxFrames
  BY <1>1, ControlAssumption DEF HasRoom, ControlAssumption
<1>3. type \in JumpTypes
  BY DEF JumpType, JumpTypes
<1>4. x \in Jumps /\ x.type = type /\ x.env = Depth + 1
  BY <1>1, <1>2, <1>3, MadeJump DEF TypeOK
<1> HIDE DEF x
<1>5. Mirrors(ctl', jmps')
  BY <1>1, <1>4, MirrorsPush DEF TypeOK, Depth, x
<1>6. ctl' \in Seq(Frames) /\ Len(ctl') = Depth + 1 /\ ctl'[Depth + 1] = f
      /\ \A k \in 1..Depth : ctl'[k] = ctl[k]
  BY <1>1, Appended DEF TypeOK, Depth
<1>7. jmps' \in Seq(Jumps)
  BY <1>1, <1>4, Appended DEF TypeOK, x
<1>8. TypeOK'
  BY <1>1, <1>2, <1>6, <1>7 DEF TypeOK, Depth
<1>9. OnlyEvalsFreed'
  BY <1>1, <1>6 DEF OnlyEvalsFreed, Depth
<1>10. QED
  BY <1>5, <1>8, <1>9 DEF IInv, JmpsMirrorFrames

\* Changes that leave the jump stack alone.
LEMMA KeepStep ==
    ASSUME IInv, UNCHANGED <<jmps, crashed>>, ctl' \in Seq(Frames),
           Len(ctl') <= MaxFrames, Mirrors(ctl, jmps) => Mirrors(ctl', jmps),
           \A k \in 1..Len(ctl') : ctl'[k].osa = "freed" => ctl'[k].kind = "eval",
           svs' \in [1..MaxScopes -> Scopes], svlev' \in 0..MaxScopes, bare' \in Bares,
           handler' \in {"app", "eppic"}, curp' \in Paths \cup (1..MaxFrames)
    PROVE  IInv'
<1>1. TypeOK'
  BY DEF IInv, TypeOK, Depth
<1>2. JmpsMirrorFrames'
  BY DEF IInv, JmpsMirrorFrames
<1>3. OnlyEvalsFreed'
  BY DEF OnlyEvalsFreed, Depth
<1>4. QED
  BY <1>1, <1>2, <1>3 DEF IInv

\* A change of the frame on top that keeps its class of entry.
LEMMA RelabelStep ==
    ASSUME IInv, ~crashed, Depth > 0, NEW f \in Frames,
           f.kind \in ContextKinds <=> Top.kind \in ContextKinds,
           JumpType(f.kind) = JumpType(Top.kind),
           f.osa = "freed" => f.kind = "eval",
           ctl' = [ctl EXCEPT ![Depth] = f], UNCHANGED <<jmps, crashed>>,
           svs' \in [1..MaxScopes -> Scopes], svlev' \in 0..MaxScopes, bare' \in Bares,
           handler' \in {"app", "eppic"}, curp' \in Paths \cup (1..MaxFrames)
    PROVE  IInv'
<1>1. TypeOK /\ Mirrors(ctl, jmps) /\ OnlyEvalsFreed /\ Depth \in Nat /\ Depth = Len(ctl)
  BY DEF IInv, JmpsMirrorFrames, TypeOK, Depth
<1>2. /\ ctl' \in Seq(Frames) /\ Len(ctl') = Depth /\ ctl'[Depth] = f
      /\ \A k \in 1..Depth - 1 : ctl'[k] = ctl[k]
  BY <1>1 DEF TypeOK
<1>3. ASSUME NEW k \in 1..Len(ctl)
      PROVE  /\ ctl'[k].kind \in ContextKinds <=> ctl[k].kind \in ContextKinds
             /\ JumpType(ctl'[k].kind) = JumpType(ctl[k].kind)
             /\ ctl'[k].osa = "freed" => ctl'[k].kind = "eval"
  <2>1. CASE k = Depth
    BY <2>1, <1>2 DEF Top
  <2>2. CASE k \in 1..Depth - 1
    BY <2>2, <1>1, <1>2 DEF OnlyEvalsFreed
  <2>3. QED
    BY <2>1, <2>2, <1>1
<1>4. Mirrors(ctl', jmps)
  BY <1>1, <1>2, <1>3, MirrorsRelabel DEF TypeOK
<1>5. QED
  BY <1>1, <1>2, <1>3, <1>4, KeepStep DEF TypeOK

-----------------------------------------------------------------------------
(* The invariant.                                                          *)

LEMMA IInvInit == Init => IInv
<1>1. SUFFICES ASSUME Init PROVE IInv
  OBVIOUS
<1>2. BaseJump \in Jumps
  BY ControlAssumption DEF BaseJump, Jump, Jumps, ControlAssumption
<1>3. svs \in [1..MaxScopes -> Scopes]
  BY <1>1 DEF Init, DeadParse, Unused, Scopes
<1>4. ctl = << >> /\ jmps = <<BaseJump>> /\ Len(jmps) = 1 /\ Depth = 0
  BY <1>1 DEF Init, Depth
<1>5. TypeOK
  <2>1. ctl \in Seq(Frames) /\ Depth <= MaxFrames
    BY <1>4, ControlAssumption DEF ControlAssumption
  <2>2. jmps \in Seq(Jumps)
    BY <1>2, <1>4
  <2>3. svlev \in 0..MaxScopes /\ curp \in Paths \cup (1..MaxFrames)
    BY <1>1, ControlAssumption DEF Init, ControlAssumption, Paths
  <2>4. QED
    BY <1>1, <1>3, <2>1, <2>2, <2>3, MadeBare DEF Init, TypeOK
<1>6. JmpsMirrorFrames
  BY <1>4 DEF JmpsMirrorFrames, Mirrors, Depth
<1>7. QED
  BY <1>4, <1>5, <1>6 DEF IInv, OnlyEvalsFreed

\* The actions that enter something.
LEMMA EnterKeeps ==
    ASSUME IInv, ~crashed
    PROVE  /\ eppic_runcmd => IInv'
           /\ eppic_exefunc => IInv'
           /\ eppic_docall => IInv'
           /\ BeginEval => IInv'
           /\ \A kind \in {"loop", "switch", "body"} : Open(kind) => IInv'
<1>1. /\ TypeOK /\ Mirrors(ctl, jmps) /\ OnlyEvalsFreed
      /\ Depth \in Nat /\ Depth = Len(ctl) /\ MaxFrames \in Nat /\ MaxScopes \in Nat
  BY ControlAssumption DEF IInv, JmpsMirrorFrames, TypeOK, Depth, ControlAssumption
<1>2. ASSUME NEW e, NEW j, EnterFunction(e, j)
      PROVE  /\ svs' \in [1..MaxScopes -> Scopes] /\ svlev' \in 0..MaxScopes
             /\ curp' = e /\ bare' = bare /\ crashed' = crashed
             /\ jmps' = Append(j, Jump("RETURN", svlev, e))
  <2>1. svlev \in Int /\ svlev + 1 \in 0..MaxScopes
    BY <1>1, <1>2 DEF TypeOK, EnterFunction
  <2>2. AddScope(svs, svlev, "FILE") \in [1..MaxScopes -> Scopes]
    BY <1>1, <2>1, AddScopeType DEF TypeOK
  <2>3. QED
    BY <1>2, <2>1, <2>2 DEF EnterFunction
<1>3. ASSUME NEW ocurp \in Paths \cup (1..MaxFrames)
      PROVE  LET f == Frame("enter", 0, "app", ocurp)
             IN  /\ f \in Frames /\ f.kind = "enter" /\ f.kind \in ContextKinds
                 /\ f.osa # "freed" /\ JumpType(f.kind) = "RETURN"
  <2>1. "enter" \in Kinds /\ "enter" \in ContextKinds /\ JumpType("enter") = "RETURN"
    BY DEF Kinds, ContextKinds, Functions, Guards, JumpType
  <2>2. QED
    BY <1>1, <2>1, MadeFrame
<1>4. ASSUME NEW kind \in {"cmd", "eval"}, NEW osa \in {"app", "eppic"}
      PROVE  LET f == Frame(kind, 0, osa, NoPath)
             IN  /\ f \in Frames /\ f.kind = kind /\ f.kind \in ContextKinds
                 /\ f.osa # "freed" /\ JumpType(f.kind) = "EXIT"
  <2>1. kind \in Kinds /\ kind \in ContextKinds /\ JumpType(kind) = "EXIT"
    BY DEF Kinds, ContextKinds, Guards, JumpType
  <2>2. 0 \in 0..MaxScopes /\ NoPath \in Paths
    BY <1>1 DEF Paths
  <2>3. QED
    BY <2>1, <2>2, MadeFrame
<1>5. ASSUME eppic_runcmd PROVE IInv'
  <2> DEFINE f1 == Frame("cmd", 0, handler, NoPath)
             f2 == Frame("enter", 0, "app", curp)
             x1 == Jump("EXIT", svlev, 1)
             x2 == Jump("RETURN", svlev, 2)
  <2>1. /\ ctl = << >> /\ Depth = 0 /\ HasRoom(2)
        /\ ctl' = <<f1, f2>> /\ handler' = "eppic"
        /\ EnterFunction(2, Append(jmps, x1))
    BY <1>5, <1>1 DEF eppic_runcmd, HostPos
  <2>2. f1 \in Frames /\ f1.kind \in ContextKinds /\ JumpType(f1.kind) = "EXIT"
        /\ f1.osa # "freed"
    BY <1>1, <1>4 DEF TypeOK
  <2>3. f2 \in Frames /\ f2.kind \in ContextKinds /\ JumpType(f2.kind) = "RETURN"
        /\ f2.osa # "freed"
    BY <1>1, <1>3 DEF TypeOK
  <2>4. 2 \in 0..MaxFrames /\ 1 \in 0..MaxFrames
    BY <2>1, <1>1 DEF HasRoom
  <2>5. /\ x1 \in Jumps /\ x1.type = "EXIT" /\ x1.env = 1
        /\ x2 \in Jumps /\ x2.type = "RETURN" /\ x2.env = 2
    BY <1>1, <2>4, MadeJump DEF TypeOK, JumpTypes
  <2> HIDE DEF f1, f2, x1, x2
  <2>6. Mirrors(Append(ctl, f1), Append(jmps, x1))
    <3>1. ctl \in Seq(Frames) /\ jmps \in Seq(Jumps) /\ Mirrors(ctl, jmps)
      BY <1>1 DEF TypeOK
    <3>2. x1.type = JumpType(f1.kind) /\ x1.env = Len(ctl) + 1
      BY <1>1, <2>1, <2>2, <2>5
    <3>3. QED
      BY <2>2, <2>5, <3>1, <3>2, MirrorsPush
  <2>7. /\ Append(ctl, f1) \in Seq(Frames) /\ Len(Append(ctl, f1)) = 1
        /\ Append(jmps, x1) \in Seq(Jumps)
    BY <1>1, <2>1, <2>2, <2>5, Appended DEF TypeOK
  <2>8. Mirrors(Append(Append(ctl, f1), f2), Append(Append(jmps, x1), x2))
    <3>1. x2.type = JumpType(f2.kind) /\ x2.env = Len(Append(ctl, f1)) + 1
      BY <2>3, <2>5, <2>7
    <3>2. QED
      BY <2>3, <2>5, <2>6, <2>7, <3>1, MirrorsPush
  <2>9. ctl' = Append(Append(ctl, f1), f2) /\ jmps' = Append(Append(jmps, x1), x2)
    <3>1. <<f1, f2>> = Append(Append(<< >>, f1), f2)
      OBVIOUS
    <3>2. jmps' = Append(Append(jmps, x1), x2)
      BY <2>1 DEF x2, EnterFunction
    <3>3. QED
      BY <2>1, <3>1, <3>2
  <2>10. ctl' \in Seq(Frames) /\ Len(ctl') = 2 /\ ctl'[1] = f1 /\ ctl'[2] = f2
    BY <2>1, <2>2, <2>3
  <2>11. jmps' \in Seq(Jumps)
    BY <2>5, <2>7, <2>9, Appended
  <2>12. TypeOK'
    <3>1. curp' \in Paths \cup (1..MaxFrames)
      BY <2>1, <2>4, <1>1, <1>2
    <3>2. QED
      BY <1>1, <1>2, <2>1, <2>4, <2>10, <2>11, <3>1 DEF TypeOK, Depth
  <2>13. OnlyEvalsFreed'
    BY <2>2, <2>3, <2>10 DEF OnlyEvalsFreed, Depth
  <2>14. QED
    BY <2>8, <2>9, <2>12, <2>13 DEF IInv, JmpsMirrorFrames
<1>6. ASSUME HasRoom(1), ctl' = Append(ctl, Frame("enter", 0, "app", curp)),
             UNCHANGED handler, EnterFunction(Depth + 1, jmps)
      PROVE  IInv'
  <2>1. Depth + 1 \in 1..MaxFrames
    BY <1>1, <1>6 DEF HasRoom
  <2>2. LET f == Frame("enter", 0, "app", curp)
        IN  f \in Frames /\ f.kind \in ContextKinds /\ f.osa # "freed"
            /\ JumpType(f.kind) = "RETURN"
    BY <1>1, <1>3 DEF TypeOK
  <2>3. QED
    BY <1>1, <1>2, <1>6, <2>1, <2>2, PushStep, ControlAssumption DEF TypeOK
<1>7. ASSUME eppic_exefunc PROVE IInv'
  <2>1. ctl = << >> /\ Depth = 0 /\ Depth + 1 = 1
    BY <1>7, <1>1 DEF eppic_exefunc, HostPos
  <2>2. ctl' = Append(ctl, Frame("enter", 0, "app", curp))
    BY <1>7, <2>1 DEF eppic_exefunc
  <2>3. QED
    BY <1>6, <1>7, <2>1, <2>2 DEF eppic_exefunc
<1>8. ASSUME eppic_docall PROVE IInv'
  BY <1>6, <1>8 DEF eppic_docall
<1>9. ASSUME BeginEval PROVE IInv'
  <2>1. bare.osa \in {"app", "eppic"} /\ bare' \in Bares
    BY <1>1, <1>9, MadeBare DEF BeginEval, TypeOK
  <2>2. LET f == Frame("eval", 0, bare.osa, NoPath)
        IN  f \in Frames /\ f.kind \in ContextKinds /\ f.osa # "freed"
            /\ JumpType(f.kind) = "EXIT"
    BY <1>4, <2>1
  <2>3. QED
    BY <1>1, <1>9, <2>1, <2>2, PushStep, ControlAssumption DEF BeginEval, TypeOK
<1>10. ASSUME NEW kind \in {"loop", "switch", "body"}, Open(kind) PROVE IInv'
  <2>1. /\ Plain(kind) \in Frames /\ Plain(kind).kind = kind
        /\ Plain(kind).osa # "freed"
    <3>1. kind \in Kinds /\ 0 \in 0..MaxScopes /\ NoPath \in Paths
      BY <1>1 DEF Kinds, ContextKinds, Paths
    <3>2. QED
      BY <3>1, MadeFrame DEF Plain
  <2>2. kind \in ContextKinds
    BY DEF ContextKinds
  <2>3. QED
    BY <1>1, <1>10, <2>1, <2>2, PushStep, ControlAssumption DEF Open, TypeOK
<1>11. QED
  BY <1>5, <1>7, <1>8, <1>9, <1>10

\* The steps of eppic_exenode that touch neither stack.
LEMMA BareKeeps ==
    ASSUME IInv, InstallHandlers \/ AbandonEval
    PROVE  IInv'
<1>1. TypeOK /\ UNCHANGED <<ctl, jmps, svs, svlev, curp>>
  BY DEF IInv, InstallHandlers, AbandonEval
<1>2. handler \in {"app", "eppic"} /\ bare \in Bares /\ ~crashed
  BY <1>1 DEF TypeOK, InstallHandlers, AbandonEval, ExprPos, IniPos, At
<1>3. handler' \in {"app", "eppic"} /\ bare' \in Bares /\ crashed' \in BOOLEAN
  <2>1. CASE InstallHandlers
    BY <1>1, <1>2, <2>1, MadeBare DEF InstallHandlers, TypeOK
  <2>2. CASE AbandonEval
    <3>1. bare.osa \in {"app", "eppic", "freed"}
      BY <1>2, <2>2, MadeBare
    <3>2. QED
      BY <1>2, <2>2, <3>1, MadeBare DEF AbandonEval
  <2>3. QED
    BY <2>1, <2>2
<1>4. TypeOK'
  BY <1>1, <1>3 DEF TypeOK, Depth
<1>5. QED
  BY <1>1, <1>2, <1>4 DEF IInv, JmpsMirrorFrames, OnlyEvalsFreed, Depth

\* The actions that go on or leave in the ordinary way.
LEMMA LeaveKeeps ==
    ASSUME IInv, ~crashed
    PROVE  /\ ReturnFromBody => IInv'
           /\ EndCommand => IInv'
           /\ EndEval => IInv'
           /\ \A kind \in {"loop", "switch", "body"} : Close(kind) => IInv'
<1>1. TypeOK /\ Depth \in Nat /\ Depth = Len(ctl) /\ OnlyEvalsFreed
  BY DEF IInv, TypeOK, Depth
<1>2. Depth > 0 => Top \in Frames /\ Depth \in 1..Depth
  BY <1>1 DEF TypeOK, Top
<1>3. ASSUME ReturnFromBody PROVE IInv'
  <2>1. At({"call"}) /\ At(ContextKinds) /\ Depth > 0
    BY <1>3 DEF ReturnFromBody, At, ContextKinds, Functions
  <2>2. curp' \in Paths \cup (1..MaxFrames)
    BY <1>1, <1>2, <1>3, <2>1, RestoredCurp DEF ReturnFromBody, Frames
  <2>3. QED
    BY <1>1, <1>3, <2>1, <2>2, PopStep, ControlAssumption DEF ReturnFromBody, TypeOK
<1>4. ASSUME EndCommand PROVE IInv'
  <2>1. At({"cmd"}) /\ At(ContextKinds) /\ Depth > 0
    BY <1>4 DEF EndCommand, At, ContextKinds, Guards
  <2>2. Top.osa \in {"app", "eppic"}
    BY <1>1, <1>2, <2>1 DEF Frames, At, OnlyEvalsFreed, Top
  <2>3. QED
    BY <1>1, <1>4, <2>1, <2>2, PopStep, ControlAssumption DEF EndCommand, TypeOK
<1>5. ASSUME EndEval PROVE IInv'
  <2>1. At(ContextKinds)
    BY <1>5 DEF EndEval, At, ContextKinds, Guards
  <2>2. QED
    BY <1>1, <1>5, <2>1, PopStep, ControlAssumption DEF EndEval, TypeOK
<1>6. ASSUME NEW kind \in {"loop", "switch", "body"}, Close(kind) PROVE IInv'
  <2>1. At(ContextKinds)
    BY <1>6 DEF Close, At, ContextKinds
  <2>2. QED
    BY <1>1, <1>6, <2>1, PopStep, ControlAssumption DEF Close, TypeOK
<1>7. QED
  BY <1>3, <1>4, <1>5, <1>6

\* The actions that open or close scopes, or give the handlers back.
LEMMA ScopeKeeps ==
    ASSUME IInv, ~crashed
    PROVE  /\ AddParams => IInv'
           /\ AddAutos => IInv'
           /\ RemoveHandlers => IInv'
           /\ EnterBlock => IInv'
           /\ ExitBlock => IInv'
<1>1. /\ TypeOK /\ Mirrors(ctl, jmps) /\ OnlyEvalsFreed
      /\ Depth \in Nat /\ Depth = Len(ctl) /\ MaxFrames \in Nat /\ MaxScopes \in Nat
  BY ControlAssumption DEF IInv, JmpsMirrorFrames, TypeOK, Depth, ControlAssumption
<1>2. Depth > 0 => Top \in Frames /\ Depth \in 1..Depth
  BY <1>1 DEF TypeOK, Top
<1>3. svlev + 1 <= MaxScopes => svlev + 1 \in 0..MaxScopes
  BY <1>1 DEF TypeOK
<1>4. ASSUME NEW type \in {"FILE", "STAT", "AUTO", "PARSE"}
      PROVE  AddScope(svs, svlev, type) \in [1..MaxScopes -> Scopes]
  <2>1. svs \in [1..MaxScopes -> Scopes] /\ svlev \in Int
    BY <1>1 DEF TypeOK
  <2>2. QED
    BY <2>1, AddScopeType
<1>5. ASSUME NEW from \in {"enter", "statics"}, NEW to \in {"call", "block"},
             from = "enter" <=> to = "call", At({from}), svlev + 1 <= MaxScopes,
             ctl' = [ctl EXCEPT ![Depth].kind = to],
             svs' = AddScope(svs, svlev, "AUTO"), svlev' = svlev + 1,
             UNCHANGED <<jmps, handler, curp, bare, crashed>>
      PROVE  IInv'
  <2> DEFINE f == [Top EXCEPT !.kind = to]
  <2>1. Depth > 0 /\ Top.kind = from /\ Top \in Frames /\ to \in Kinds
    BY <1>2, <1>5 DEF At, Kinds, ContextKinds, BlockKinds, Functions
  <2>2. f \in Frames /\ f.kind = to /\ f.osa = Top.osa /\ Top.osa # "freed"
    BY <1>1, <2>1 DEF Frames, OnlyEvalsFreed, Top
  <2>3. ctl' = [ctl EXCEPT ![Depth] = f]
    BY <1>1, <1>5, <2>1 DEF Top, TypeOK
  <2>4. /\ to \in ContextKinds <=> from \in ContextKinds
        /\ JumpType(to) = JumpType(from)
    BY <1>5 DEF ContextKinds, Functions, Guards, JumpType
  <2> HIDE DEF f
  <2>5. QED
    BY <1>1, <1>3, <1>4, <1>5, <2>1, <2>2, <2>3, <2>4, RelabelStep DEF TypeOK
<1>6. ASSUME AddParams PROVE IInv'
  BY <1>5, <1>6 DEF AddParams
<1>7. ASSUME AddAutos PROVE IInv'
  BY <1>5, <1>7 DEF AddAutos
<1>8. ASSUME RemoveHandlers PROVE IInv'
  <2> DEFINE f == [Top EXCEPT !.osa = "freed"]
  <2>1. Depth > 0 /\ Top.kind = "eval" /\ Top \in Frames /\ Top.osa # "freed"
    BY <1>2, <1>8 DEF RemoveHandlers, At, Leaving
  <2>2. f \in Frames /\ f.kind = "eval" /\ handler' \in {"app", "eppic"}
    BY <1>8, <2>1 DEF Frames, RemoveHandlers
  <2>3. ctl' = [ctl EXCEPT ![Depth] = f]
    BY <1>1, <1>8, <2>1 DEF RemoveHandlers, Top, TypeOK
  <2> HIDE DEF f
  <2>4. QED
    BY <1>1, <1>8, <2>1, <2>2, <2>3, RelabelStep DEF RemoveHandlers, TypeOK
<1>9. ASSUME EnterBlock PROVE IInv'
  <2> DEFINE f == Frame("statics", svlev, "app", NoPath)
  <2>1. f \in Frames /\ f.kind = "statics" /\ f.osa = "app"
    <3>1. "statics" \in Kinds /\ NoPath \in Paths
      BY DEF Kinds, BlockKinds, Paths
    <3>2. QED
      BY <1>1, <3>1, MadeFrame DEF TypeOK
  <2>2. f.kind \notin ContextKinds
    BY <2>1 DEF ContextKinds, Functions, Guards
  <2>3. ctl' = Append(ctl, f) /\ Depth + 1 <= MaxFrames
    BY <1>9 DEF EnterBlock, HasRoom
  <2> HIDE DEF f
  <2>4. /\ ctl' \in Seq(Frames) /\ Len(ctl') = Depth + 1 /\ ctl'[Depth + 1] = f
        /\ \A k \in 1..Depth : ctl'[k] = ctl[k]
    BY <1>1, <2>1, <2>3, Appended DEF TypeOK
  <2>5. Mirrors(ctl', jmps)
    BY <1>1, <2>1, <2>2, <2>3, MirrorsOpenBlock DEF TypeOK
  <2>6. \A k \in 1..Len(ctl') : ctl'[k].osa = "freed" => ctl'[k].kind = "eval"
    BY <1>1, <2>1, <2>4 DEF OnlyEvalsFreed
  <2>7. QED
    BY <1>1, <1>3, <1>4, <1>9, <2>3, <2>4, <2>5, <2>6, KeepStep
    DEF EnterBlock, TypeOK
<1>10. ASSUME ExitBlock PROVE IInv'
  <2>1. Depth > 0 /\ Top.kind = "block" /\ Top \in Frames /\ Top.kind \notin ContextKinds
    BY <1>2, <1>10 DEF ExitBlock, At, ContextKinds, Functions, Guards
  <2>2. ctl' = SubSeq(ctl, 1, Depth - 1)
    BY <1>10 DEF ExitBlock, PopFrame
  <2>3. /\ ctl' \in Seq(Frames) /\ Len(ctl') = Depth - 1
        /\ \A k \in 1..Depth - 1 : ctl'[k] = ctl[k]
    BY <1>1, <2>1, <2>2, Prefix, Depth - 1 \in 0..Depth DEF TypeOK
  <2>4. Mirrors(ctl', jmps)
    BY <1>1, <2>1, <2>2, MirrorsCloseBlock DEF TypeOK, Top
  <2>5. \A k \in 1..Len(ctl') : ctl'[k].osa = "freed" => ctl'[k].kind = "eval"
    BY <1>1, <2>3 DEF OnlyEvalsFreed
  <2>6. svlev' \in 0..MaxScopes /\ svs' \in [1..MaxScopes -> Scopes]
    <3>1. Top.lev \in 0..MaxScopes /\ svlev \in Int
      BY <1>1, <2>1 DEF Frames, TypeOK
    <3>2. QED
      BY <1>1, <1>10, <3>1, SetsvlevType DEF ExitBlock, TypeOK
  <2>7. QED
    BY <1>1, <1>10, <2>3, <2>4, <2>5, <2>6, KeepStep DEF ExitBlock, TypeOK
<1>11. QED
  BY <1>6, <1>7, <1>8, <1>9, <1>10

\* The jumps.
LEMMA JumpKeeps ==
    ASSUME IInv, ~crashed
    PROVE  /\ Break => IInv'
           /\ Continue => IInv'
           /\ Return => IInv'
           /\ Exit => IInv'
           /\ Error => IInv'
           /\ Interrupt => IInv'
<1>1. svs \in [1..MaxScopes -> Scopes] /\ svlev \in 0..MaxScopes /\ svlev \in Int
  BY DEF IInv, TypeOK
<1>2. ASSUME NEW type, eppic_dojmp(type, svs, svlev) PROVE IInv'
  BY <1>1, <1>2, JumpStep, ControlAssumption
<1>3. eppic_setsvlev(svs, svlev, 0) \in [1..MaxScopes -> Scopes] /\ 0 \in 0..MaxScopes
  BY <1>1, SetsvlevType, ControlAssumption DEF ControlAssumption
<1>4. ASSUME Error PROVE IInv'
  BY <1>3, <1>4, JumpStep, ControlAssumption DEF Error
<1>5. QED
  BY <1>2, <1>4 DEF Break, Continue, Return, Exit, Interrupt

\* Nothing moves after a crash, and every action before one keeps IInv.
LEMMA IInvStep == IInv /\ [Next]_vars => IInv'
<1>1. SUFFICES ASSUME IInv, [Next]_vars PROVE IInv'
  OBVIOUS
<1>2. CASE UNCHANGED vars
  BY <1>1, <1>2 DEF vars, IInv, TypeOK, JmpsMirrorFrames, OnlyEvalsFreed, Depth
<1>3. CASE Next
  <2>1. ~crashed
    BY <1>3 DEF Next, eppic_runcmd, eppic_exefunc, eppic_docall, AddParams,
       ReturnFromBody, EndCommand, EnterBlock, AddAutos, ExitBlock, EnterLoop,
       EnterSwitch, BeginIteration, EndIteration, ExitLoop, ExitSwitch, Close,
       InstallHandlers, BeginEval, RemoveHandlers, EndEval, AbandonEval, Break, Continue,
       Return, Exit, Error, Interrupt, ExprPos, StmtPos, IniPos, HostPos, At
  <2>2. CASE eppic_runcmd \/ eppic_exefunc \/ eppic_docall \/ BeginEval
             \/ EnterLoop \/ EnterSwitch \/ BeginIteration
    BY <1>1, <2>1, <2>2, EnterKeeps DEF EnterLoop, EnterSwitch, BeginIteration
  <2>3. CASE ReturnFromBody \/ EndCommand \/ EndEval
             \/ EndIteration \/ ExitLoop \/ ExitSwitch
    BY <1>1, <2>1, <2>3, LeaveKeeps DEF EndIteration, ExitLoop, ExitSwitch
  <2>4. CASE AddParams \/ AddAutos \/ RemoveHandlers \/ EnterBlock \/ ExitBlock
    BY <1>1, <2>1, <2>4, ScopeKeeps
  <2>5. CASE Break \/ Continue \/ Return \/ Exit \/ Error \/ Interrupt
    BY <1>1, <2>1, <2>5, JumpKeeps
  <2>6. CASE InstallHandlers \/ AbandonEval
    BY <1>1, <2>6, BareKeeps
  <2>7. QED
    BY <1>3, <2>2, <2>3, <2>4, <2>5, <2>6 DEF Next
<1>4. QED
  BY <1>1, <1>2, <1>3

LEMMA IInvHolds == Spec => []IInv
<1>1. Init => IInv
  BY IInvInit
<1>2. IInv /\ [Next]_vars => IInv'
  BY IInvStep
<1>3. QED
  BY <1>1, <1>2, PTL DEF Spec

-----------------------------------------------------------------------------
(* The theorems.                                                           *)

\* The variables keep their types: among others, svlev stays within svs[] and
\* no routine outside eppic_exenode gives handlers back twice.
THEOREM TypeCorrect == Spec => []TypeOK
<1>1. IInv => TypeOK
  BY DEF IInv
<1>2. QED
  BY <1>1, IInvHolds, PTL

\* The jump stack lists exactly the live routines that called setjmp, in nesting
\* order, whatever the script does: no longjmp goes to a dead stack frame.
THEOREM StacksInStep == Spec => []JmpsMirrorFrames
<1>1. IInv => JmpsMirrorFrames
  BY DEF IInv
<1>2. QED
  BY <1>1, IInvHolds, PTL

\* eppic_popjmp always finds its caller's own entry: "Wrong pop!" is unreachable
\* while scripts run.
THEOREM PopsAlwaysMatch == Spec => []PopsMatch
BY IInvHolds, IInvPops, PTL

(***************************************************************************)
(* Where the jumps of EppicControl land, and whose signal handlers are      *)
(* installed when they do.  The jump stack mirrors the C stack, so the entry *)
(* that eppic_dojmp finds is that of the innermost frame of its kinds; from  *)
(* there on only the frames matter.                                         *)
(***************************************************************************)

\* A handler set that eppic_setexcept installed and eppic_rmexcept has not removed.
Installed(f) == f.kind \in Guards /\ f.osa # "freed"

\* The handlers are eppic's while some set is installed, and each set remembers
\* whose it replaced.
OwnedBy(c, h) ==
    /\ h = "eppic" <=> \E k \in 1..Len(c) : Installed(c[k])
    /\ \A k \in 1..Len(c) : Installed(c[k]) =>
        (c[k].osa = "eppic" <=> \E m \in 1..k - 1 : Installed(c[m]))

\* An eppic_exenode on its way out calls nothing more, and only the host runs
\* commands.
LeavingIsTop(c) == \A k \in 1..Len(c) : c[k].osa = "freed" => k = Len(c)
CommandIsFirst(c) == \A k \in 1..Len(c) : c[k].kind = "cmd" => k = 1

Ordered(c) == LeavingIsTop(c) /\ CommandIsFirst(c)

\* An eppic_exenode with no context is above frames of which none is leaving; the
\* function that called it is still there while it starts.
BareAbove(b, c) ==
    /\ b # NotBare => \A k \in 1..Len(c) : c[k].osa # "freed"
    /\ b.at = "entering" => Len(c) > 0 /\ c[Len(c)].kind # "cmd"

JInv == IInv /\ Ordered(ctl) /\ BareAbove(bare, ctl)

\* The handlers as the frames of ctl see them: such an eppic_exenode has replaced
\* those it holds.
Under == IF bare = NotBare \/ bare.osa = "freed" THEN handler ELSE bare.osa
BareOwned == bare # NotBare /\ bare.osa # "freed" => handler = "eppic"

Owns == OwnedBy(ctl, Under) /\ BareOwned
HInv == JInv /\ (~crashed => Owns)

-----------------------------------------------------------------------------
(* Sequences of frames.                                                     *)

\* One more frame, of a kind that is no command.
LEMMA OrderedPush ==
    ASSUME NEW c \in Seq(Frames), Ordered(c), NEW f \in Frames,
           f.kind # "cmd" \/ c = << >>, f.osa # "freed",
           \A k \in 1..Len(c) : c[k].osa # "freed"
    PROVE  Ordered(Append(c, f))
<1> DEFINE d == Append(c, f)
<1>1. /\ Len(c) \in Nat /\ Len(d) = Len(c) + 1 /\ d[Len(c) + 1] = f
      /\ \A k \in 1..Len(c) : d[k] = c[k]
  BY Appended
<1>2. c = << >> => Len(c) = 0
  OBVIOUS
<1> HIDE DEF d
<1>3. QED
  BY <1>1, <1>2 DEF Ordered, LeavingIsTop, CommandIsFirst, d

\* The frames below some frame.
LEMMA OrderedCut ==
    ASSUME NEW c \in Seq(Frames), Ordered(c), NEW n \in 0..Len(c), n < Len(c)
    PROVE  /\ Ordered(SubSeq(c, 1, n))
           /\ \A k \in 1..n : c[k].osa # "freed"
<1> DEFINE d == SubSeq(c, 1, n)
<1>1. Len(c) \in Nat /\ Len(d) = n /\ \A k \in 1..n : d[k] = c[k]
  BY Prefix
<1>2. \A k \in 1..n : c[k].osa # "freed"
  BY <1>1 DEF Ordered, LeavingIsTop
<1> HIDE DEF d
<1>3. QED
  BY <1>1, <1>2 DEF Ordered, LeavingIsTop, CommandIsFirst, d

\* The frame on top changes.
LEMMA OrderedTop ==
    ASSUME NEW c \in Seq(Frames), Ordered(c), Len(c) > 0,
           NEW d \in Seq(Frames), Len(d) = Len(c),
           \A k \in 1..Len(c) - 1 : d[k] = c[k],
           d[Len(c)].kind = "cmd" => c[Len(c)].kind = "cmd"
    PROVE  Ordered(d)
<1>1. ASSUME NEW k \in 1..Len(d), d[k].osa = "freed" PROVE k = Len(d)
  BY <1>1 DEF Ordered, LeavingIsTop
<1>2. ASSUME NEW k \in 1..Len(d), d[k].kind = "cmd" PROVE k = 1
  BY <1>2 DEF Ordered, CommandIsFirst
<1>3. QED
  BY <1>1, <1>2 DEF Ordered, LeavingIsTop, CommandIsFirst

\* A sequence is its front and its last element.
LEMMA Extended ==
    ASSUME NEW c \in Seq(Frames), NEW d \in Seq(Frames), Len(d) = Len(c) + 1,
           \A k \in 1..Len(c) : d[k] = c[k]
    PROVE  d = Append(c, d[Len(d)]) /\ d[Len(d)] \in Frames
OBVIOUS

\* A frame without handlers opens.
LEMMA OwnedPushPlain ==
    ASSUME NEW c \in Seq(Frames), NEW h, OwnedBy(c, h), NEW f \in Frames,
           ~Installed(f)
    PROVE  OwnedBy(Append(c, f), h)
<1> DEFINE d == Append(c, f)
<1>1. /\ Len(c) \in Nat /\ Len(d) = Len(c) + 1 /\ d[Len(c) + 1] = f
      /\ \A k \in 1..Len(c) : d[k] = c[k]
  BY Appended
<1> HIDE DEF d
<1>2. \A k \in 1..Len(d) : Installed(d[k]) => k \in 1..Len(c) /\ d[k] = c[k]
  BY <1>1
<1>3. (\E k \in 1..Len(d) : Installed(d[k])) <=> (\E k \in 1..Len(c) : Installed(c[k]))
  BY <1>1, <1>2
<1>4. ASSUME NEW k \in 1..Len(c)
      PROVE  (\E m \in 1..k - 1 : Installed(d[m])) <=> (\E m \in 1..k - 1 : Installed(c[m]))
  BY <1>1
<1>5. QED
  BY <1>2, <1>3, <1>4 DEF OwnedBy, d

\* A frame that installs eppic's handlers opens.
LEMMA OwnedPushGuard ==
    ASSUME NEW c \in Seq(Frames), NEW h \in {"app", "eppic"}, OwnedBy(c, h),
           NEW f \in Frames, Installed(f), f.osa = h
    PROVE  OwnedBy(Append(c, f), "eppic")
<1> DEFINE d == Append(c, f)
<1>1. /\ Len(c) \in Nat /\ Len(d) = Len(c) + 1 /\ d[Len(c) + 1] = f
      /\ \A k \in 1..Len(c) : d[k] = c[k]
  BY Appended
<1> HIDE DEF d
<1>2. \E k \in 1..Len(d) : Installed(d[k])
  BY <1>1
<1>3. ASSUME NEW k \in 1..Len(d), Installed(d[k])
      PROVE  d[k].osa = "eppic" <=> \E m \in 1..k - 1 : Installed(d[m])
  <2>1. CASE k = Len(c) + 1
    <3>1. (\E m \in 1..k - 1 : Installed(d[m])) <=> (\E m \in 1..Len(c) : Installed(c[m]))
      BY <1>1, <2>1
    <3>2. QED
      BY <1>1, <2>1, <3>1 DEF OwnedBy
  <2>2. CASE k \in 1..Len(c)
    <3>1. (\E m \in 1..k - 1 : Installed(d[m])) <=> (\E m \in 1..k - 1 : Installed(c[m]))
      BY <1>1, <2>2
    <3>2. QED
      BY <1>1, <1>3, <2>2, <3>1 DEF OwnedBy
  <2>3. QED
    BY <1>1, <2>1, <2>2
<1>4. QED
  BY <1>2, <1>3 DEF OwnedBy, d

\* A cut to a frame that gives its handlers back, or over none that would.
LEMMA OwnedCut ==
    ASSUME NEW c \in Seq(Frames), NEW h, OwnedBy(c, h), NEW e \in 1..Len(c),
           NEW g \in {"app", "eppic"},
           \/ Installed(c[e]) /\ g = c[e].osa
           \/ (\A k \in e..Len(c) : ~Installed(c[k])) /\ g = h
    PROVE  OwnedBy(SubSeq(c, 1, e - 1), g)
<1> DEFINE d == SubSeq(c, 1, e - 1)
<1>1. Len(c) \in Nat /\ Len(d) = e - 1 /\ \A k \in 1..e - 1 : d[k] = c[k]
  BY Prefix, e - 1 \in 0..Len(c)
<1> HIDE DEF d
<1>2. (\E k \in 1..Len(d) : Installed(d[k])) <=> (\E k \in 1..e - 1 : Installed(c[k]))
  BY <1>1
<1>3. g = "eppic" <=> \E k \in 1..e - 1 : Installed(c[k])
  <2>1. CASE Installed(c[e]) /\ g = c[e].osa
    BY <2>1 DEF OwnedBy
  <2>2. CASE (\A k \in e..Len(c) : ~Installed(c[k])) /\ g = h
    <3>1. (\E k \in 1..Len(c) : Installed(c[k])) <=> (\E k \in 1..e - 1 : Installed(c[k]))
      <4>1. \A k \in 1..Len(c) : k \in 1..e - 1 \/ k \in e..Len(c)
        BY <1>1
      <4>2. \A k \in 1..e - 1 : k \in 1..Len(c)
        BY <1>1
      <4>3. QED
        BY <2>2, <4>1, <4>2
    <3>2. QED
      BY <2>2, <3>1 DEF OwnedBy
  <2>3. QED
    BY <2>1, <2>2
<1>4. ASSUME NEW k \in 1..e - 1, Installed(d[k])
      PROVE  d[k].osa = "eppic" <=> \E m \in 1..k - 1 : Installed(d[m])
  <2>1. k \in 1..Len(c) /\ d[k] = c[k] /\ \A m \in 1..k - 1 : d[m] = c[m]
    BY <1>1
  <2>2. QED
    BY <1>4, <2>1 DEF OwnedBy
<1>5. QED
  BY <1>1, <1>2, <1>3, <1>4 DEF OwnedBy, d

\* A frame becomes another that has no handlers either.
LEMMA OwnedRelabel ==
    ASSUME NEW c \in Seq(Frames), NEW h, OwnedBy(c, h),
           NEW d \in Seq(Frames), Len(d) = Len(c),
           \A k \in 1..Len(c) : /\ Installed(d[k]) <=> Installed(c[k])
                                /\ Installed(c[k]) => d[k].osa = c[k].osa
    PROVE  OwnedBy(d, h)
<1>1. Len(c) \in Nat
  OBVIOUS
<1>2. ASSUME NEW k \in 1..Len(c)
      PROVE  (\E m \in 1..k - 1 : Installed(d[m])) <=> (\E m \in 1..k - 1 : Installed(c[m]))
  BY <1>1
<1>3. QED
  BY <1>2 DEF OwnedBy

-----------------------------------------------------------------------------
(* Where eppic_dojmp goes.                                                  *)

\* The kinds of frame that open a context of this type.
KindsOf(type) == {kind \in ContextKinds : JumpType(kind) = type}

LEMMA KindsOfTypes ==
    /\ KindsOf("BREAK") = {"loop", "switch"}
    /\ KindsOf("CONTINUE") = {"body"}
    /\ KindsOf("RETURN") = Functions
    /\ KindsOf("EXIT") = Guards
BY DEF KindsOf, JumpType, ContextKinds, Functions, Guards

\* The innermost frame of these kinds.
Nearest(e, kinds) ==
    /\ e \in 1..Depth /\ ctl[e].kind \in kinds
    /\ \A k \in e + 1..Depth : ctl[k].kind \notin kinds

\* The entry that is found is that of the innermost frame of its kinds, and it is
\* the base entry just when there is no such frame.
LEMMA TargetFrame ==
    ASSUME TypeOK, Mirrors(ctl, jmps), NEW type, NEW t \in 1..Len(jmps),
           IsTarget(t, type)
    PROVE  /\ t # 1 => Nearest(jmps[t].env, KindsOf(type))
           /\ t = 1 => \A k \in 1..Depth : ctl[k].kind \notin KindsOf(type)
<1>1. Len(jmps) \in Nat /\ Depth = Len(ctl) /\ Depth \in Nat
  BY DEF TypeOK, Depth
<1>2. \A i \in t + 1..Len(jmps) : jmps[i].type # type
  BY DEF IsTarget
<1>3. ASSUME NEW k \in 1..Depth, ctl[k].kind \in KindsOf(type)
      PROVE  \E i \in 2..t : jmps[i].env = k
  <2>1. PICK i \in 2..Len(jmps) : jmps[i].env = k
    BY <1>1, <1>3 DEF Mirrors, KindsOf
  <2>2. jmps[i].type = type
    BY <1>3, <2>1 DEF Mirrors, KindsOf
  <2>3. i \notin t + 1..Len(jmps)
    BY <1>2, <2>2
  <2>4. i \in 2..t
    BY <1>1, <2>1, <2>3
  <2>5. QED
    BY <2>1, <2>4
<1>4. CASE t = 1
  <2>1. \A i \in 2..t : FALSE
    BY <1>4
  <2>2. QED
    BY <1>3, <1>4, <2>1
<1>5. CASE t # 1
  <2> DEFINE e == jmps[t].env
  <2>1. t \in 2..Len(jmps) /\ jmps[t].type = type
    BY <1>1, <1>5 DEF IsTarget
  <2>2. e \in 1..Depth /\ ctl[e].kind \in KindsOf(type)
    BY <1>1, <2>1 DEF Mirrors, KindsOf
  <2>3. ASSUME NEW k \in e + 1..Depth PROVE ctl[k].kind \notin KindsOf(type)
    <3>1. k \in 1..Depth /\ e < k
      BY <1>1, <2>2
    <3>2. ASSUME NEW i \in 2..t PROVE jmps[i].env # k
      <4>1. CASE i = t
        BY <4>1, <3>1, <2>2, <1>1
      <4>2. CASE i # t
        <5>1. i \in 2..Len(jmps) /\ i < t
          BY <4>2, <2>1, <1>1
        <5>2. jmps[i].env < e /\ jmps[i].env \in 1..Depth
          BY <5>1, <2>1, <1>1 DEF Mirrors
        <5>3. QED
          BY <5>2, <3>1, <2>2, <1>1
      <4>3. QED
        BY <4>1, <4>2
    <3>3. QED
      BY <1>3, <3>1, <3>2
  <2>4. QED
    BY <1>5, <2>2, <2>3 DEF Nearest
<1>6. QED
  BY <1>4, <1>5

\* What a jump does, in terms of frames: with no frame of its kinds it runs off
\* the stack, otherwise it lands in the innermost.
LEMMA JumpLands ==
    ASSUME IInv, ~crashed, NEW type, NEW s, NEW lev, eppic_dojmp(type, s, lev)
    PROVE  \/ /\ NullJump /\ jmps' = << >> /\ svlev' = 0
              /\ \A k \in 1..Depth : ctl[k].kind \notin KindsOf(type)
           \/ \E t \in 2..Len(jmps) :
                /\ Nearest(jmps[t].env, KindsOf(type))
                /\ Land(jmps[t].env)
                /\ jmps' = SubSeq(jmps, 1, t - 1)
                /\ svs' = eppic_setsvlev(s, lev, jmps[t].svlev)
                /\ svlev' = jmps[t].svlev
<1>1. TypeOK /\ Mirrors(ctl, jmps) /\ Len(jmps) \in Nat
  BY DEF IInv, JmpsMirrorFrames, TypeOK
<1>2. PICK t \in 1..Len(jmps) :
        /\ IsTarget(t, type)
        /\ jmps' = SubSeq(jmps, 1, t - 1)
        /\ svs' = eppic_setsvlev(s, lev, jmps[t].svlev)
        /\ svlev' = jmps[t].svlev
        /\ IF t = 1 THEN NullJump ELSE Land(jmps[t].env)
  BY DEF eppic_dojmp
<1>3. CASE t = 1
  <2>1. jmps' = << >> /\ svlev' = 0
    BY <1>1, <1>2, <1>3 DEF Mirrors, BaseJump, Jump, TypeOK
  <2>2. QED
    BY <1>1, <1>2, <1>3, <2>1, TargetFrame
<1>4. CASE t # 1
  <2>1. t \in 2..Len(jmps)
    BY <1>1, <1>4
  <2>2. Nearest(jmps[t].env, KindsOf(type))
    BY <1>1, <1>2, <1>4, TargetFrame
  <2>3. QED
    BY <1>2, <1>4, <2>1, <2>2
<1>5. QED
  BY <1>3, <1>4

-----------------------------------------------------------------------------
(* What the other actions do to the frames.                                 *)

\* A frame with another kind, or without its handlers, is the same otherwise.
LEMMA FrameChanged ==
    ASSUME NEW f \in Frames, NEW kind \in Kinds
    PROVE  /\ LET g == [f EXCEPT !.kind = kind]
              IN  g \in Frames /\ g.kind = kind /\ g.osa = f.osa /\ g.lev = f.lev
           /\ LET g == [f EXCEPT !.osa = "freed"]
              IN  g \in Frames /\ g.kind = f.kind /\ g.osa = "freed" /\ g.lev = f.lev
BY DEF Frames

Opens ==
    \/ eppic_exefunc \/ eppic_docall \/ EnterBlock \/ EnterLoop \/ EnterSwitch
    \/ BeginIteration \/ BeginEval
Relabels == AddParams \/ AddAutos
Ends ==
    \/ ReturnFromBody \/ EndCommand \/ ExitBlock \/ EndIteration \/ ExitLoop
    \/ ExitSwitch \/ EndEval
Jumping == Break \/ Continue \/ Return \/ Exit \/ Error \/ Interrupt

\* Every frame but a command's opens on top of one that is not leaving.
LEMMA OpensFrame ==
    ASSUME JInv, Opens
    PROVE  \E f \in Frames :
            /\ ctl' = Append(ctl, f) /\ f.kind # "cmd" /\ f.osa # "freed"
            /\ Depth > 0 => Top.osa # "freed"
            /\ IF Installed(f) THEN f.osa = Under /\ handler' = handler /\ bare # NotBare
                                    /\ bare.osa # "freed"
               ELSE bare = NotBare /\ handler' = handler
            /\ bare' = NotBare /\ crashed' = crashed
<1>1. TypeOK /\ OnlyEvalsFreed /\ Depth = Len(ctl) /\ Depth \in Nat /\ MaxScopes \in Nat
  BY ControlAssumption DEF JInv, IInv, TypeOK, Depth, ControlAssumption
<1>2. Depth > 0 => Depth \in 1..Depth /\ (Top.osa = "freed" => Top.kind = "eval")
  BY <1>1 DEF OnlyEvalsFreed, Top
<1>3. ASSUME NEW kind \in Kinds, NEW lev \in 0..MaxScopes,
             NEW ocurp \in Paths \cup (1..MaxFrames), kind \notin Guards
      PROVE  LET f == Frame(kind, lev, "app", ocurp)
             IN  f \in Frames /\ f.kind # "cmd" /\ f.osa # "freed" /\ ~Installed(f)
  BY <1>3, MadeFrame DEF Installed, Guards
<1>4. 0 \in 0..MaxScopes /\ NoPath \in Paths /\ svlev \in 0..MaxScopes
      /\ curp \in Paths \cup (1..MaxFrames) /\ handler \in {"app", "eppic"}
  BY <1>1 DEF TypeOK, Paths
<1>5. CASE eppic_exefunc
  <2>1. ctl = << >> /\ Depth = 0
    BY <1>5, <1>1 DEF eppic_exefunc, HostPos
  <2>2. ctl' = Append(ctl, Frame("enter", 0, "app", curp))
    BY <1>5, <2>1 DEF eppic_exefunc
  <2>3. "enter" \in Kinds /\ "enter" \notin Guards
    BY DEF Kinds, ContextKinds, Functions, Guards
  <2>4. QED
    BY <1>3, <1>4, <1>5, <2>1, <2>2, <2>3 DEF eppic_exefunc, EnterFunction, HostPos
<1>6. CASE eppic_docall
  <2>1. "enter" \in Kinds /\ "enter" \notin Guards
    BY DEF Kinds, ContextKinds, Functions, Guards
  <2>2. Depth > 0 => Top.osa # "freed"
    BY <1>6 DEF eppic_docall, ExprPos, Leaving
  <2>3. QED
    BY <1>3, <1>4, <1>6, <2>1, <2>2 DEF eppic_docall, EnterFunction, ExprPos, At
<1>7. CASE EnterBlock
  <2>1. "statics" \in Kinds /\ "statics" \notin Guards
    BY DEF Kinds, BlockKinds, Guards
  <2>2. Depth > 0 => Top.osa # "freed"
    BY <1>2, <1>7 DEF EnterBlock, ExprPos, Leaving, At
  <2>3. QED
    BY <1>3, <1>4, <1>7, <2>1, <2>2 DEF EnterBlock, ExprPos, At
<1>8. CASE EnterLoop \/ EnterSwitch \/ BeginIteration
  <2>1. bare = NotBare /\ (Depth > 0 => Top.osa # "freed")
    BY <1>2, <1>8 DEF EnterLoop, EnterSwitch, BeginIteration, StmtPos, At
  <2>2. ASSUME NEW kind \in {"loop", "switch", "body"}, Open(kind)
        PROVE  \E f \in Frames :
                /\ ctl' = Append(ctl, f) /\ f.kind # "cmd" /\ f.osa # "freed"
                /\ ~Installed(f) /\ UNCHANGED <<handler, bare, crashed>>
    <3>1. kind \in Kinds /\ kind \notin Guards
      BY DEF Kinds, ContextKinds, Guards
    <3>2. QED
      BY <1>3, <1>4, <2>2, <3>1 DEF Open, Plain
  <2>3. QED
    BY <1>8, <2>1, <2>2 DEF EnterLoop, EnterSwitch, BeginIteration
<1>9. CASE BeginEval
  <2> DEFINE f == Frame("eval", 0, bare.osa, NoPath)
  <2>1. bare.osa \in {"app", "eppic"} /\ bare # NotBare
    BY <1>1, <1>9, MadeBare DEF BeginEval, TypeOK
  <2>2. f \in Frames /\ f.kind = "eval" /\ f.osa = bare.osa /\ Installed(f)
    <3>1. "eval" \in Kinds /\ "eval" \in Guards
      BY DEF Kinds, ContextKinds, Guards
    <3>2. f \in Frames /\ f.kind = "eval" /\ f.osa = bare.osa
      BY <1>4, <2>1, <3>1, MadeFrame
    <3>3. f.osa # "freed"
      BY <2>1, <3>2
    <3>4. QED
      BY <3>1, <3>2, <3>3 DEF Installed
  <2>3. Depth > 0 => Top.osa # "freed"
    BY <1>1, <1>2, <2>1 DEF JInv, BareAbove, Top
  <2>4. ctl' = Append(ctl, f) /\ UNCHANGED <<handler, crashed>> /\ bare' = NotBare
    BY <1>9 DEF BeginEval
  <2>5. bare.osa = Under /\ bare.osa # "freed"
    BY <2>1 DEF Under
  <2> HIDE DEF f
  <2>6. QED
    BY <2>1, <2>2, <2>3, <2>4, <2>5
<1>10. QED
  BY <1>5, <1>6, <1>7, <1>8, <1>9 DEF Opens

\* A function or a block goes on to its automatic scope.
LEMMA RelabelsTop ==
    ASSUME IInv, Relabels
    PROVE  /\ Depth > 0 /\ ctl' \in Seq(Frames) /\ Len(ctl') = Depth
           /\ \A k \in 1..Depth - 1 : ctl'[k] = ctl[k]
           /\ \/ Top.kind = "enter" /\ ctl'[Depth].kind = "call"
              \/ Top.kind = "statics" /\ ctl'[Depth].kind = "block"
           /\ ctl'[Depth].osa = Top.osa /\ ctl'[Depth].lev = Top.lev
           /\ bare = NotBare /\ UNCHANGED <<jmps, handler, bare, crashed>>
           /\ svlev + 1 <= MaxScopes
           /\ svs' = AddScope(svs, svlev, "AUTO") /\ svlev' = svlev + 1
<1>1. TypeOK /\ Depth = Len(ctl) /\ Depth \in Nat
  BY DEF IInv, TypeOK, Depth
<1>2. Depth > 0
  BY DEF Relabels, AddParams, AddAutos, At
<1>3. ctl \in Seq(Frames) /\ ctl[Depth] \in Frames
  BY <1>1, <1>2 DEF TypeOK
<1>4. ASSUME NEW to \in {"call", "block"}, ctl' = [ctl EXCEPT ![Depth].kind = to]
      PROVE  /\ ctl' \in Seq(Frames) /\ Len(ctl') = Depth
             /\ \A k \in 1..Depth - 1 : ctl'[k] = ctl[k]
             /\ ctl'[Depth].kind = to
             /\ ctl'[Depth].osa = Top.osa /\ ctl'[Depth].lev = Top.lev
  <2> DEFINE g == [Top EXCEPT !.kind = to]
  <2>1. to \in Kinds
    BY DEF Kinds, ContextKinds, BlockKinds, Functions
  <2>2. g \in Frames /\ g.kind = to /\ g.osa = Top.osa /\ g.lev = Top.lev
    BY <1>3, <2>1, FrameChanged DEF Top
  <2>3. ctl' = [ctl EXCEPT ![Depth] = g]
    BY <1>4 DEF Top
  <2> HIDE DEF g
  <2>4. QED
    BY <1>1, <1>2, <1>3, <2>2, <2>3
<1>5. CASE AddParams
  BY <1>2, <1>4, <1>5 DEF AddParams, At
<1>6. CASE AddAutos
  BY <1>2, <1>4, <1>6 DEF AddAutos, At
<1>7. QED
  BY <1>5, <1>6 DEF Relabels

\* An eppic_exenode gives its handlers back, and stays for a moment.
LEMMA RemovesTop ==
    ASSUME IInv, RemoveHandlers
    PROVE  /\ Depth > 0 /\ ctl' \in Seq(Frames) /\ Len(ctl') = Depth
           /\ \A k \in 1..Depth - 1 : ctl'[k] = ctl[k]
           /\ Top.kind = "eval" /\ Installed(Top)
           /\ ctl'[Depth].kind = "eval" /\ ctl'[Depth].osa = "freed"
           /\ ctl'[Depth].lev = Top.lev
           /\ handler' = Top.osa
           /\ bare = NotBare /\ UNCHANGED <<jmps, svs, svlev, bare, crashed>>
<1> DEFINE g == [Top EXCEPT !.osa = "freed"]
<1>1. TypeOK /\ Depth = Len(ctl) /\ Depth \in Nat
  BY DEF IInv, TypeOK, Depth
<1>2. Depth > 0 /\ Top.kind = "eval" /\ Installed(Top) /\ "eval" \in Kinds
  BY DEF RemoveHandlers, At, Leaving, Installed, Guards, Kinds, ContextKinds
<1>3. ctl \in Seq(Frames) /\ Top \in Frames
  BY <1>1, <1>2 DEF TypeOK, Top
<1>4. g \in Frames /\ g.kind = Top.kind /\ g.osa = "freed" /\ g.lev = Top.lev
  BY <1>2, <1>3, FrameChanged
<1>5. ctl' = [ctl EXCEPT ![Depth] = g]
  BY DEF RemoveHandlers, Top
<1> HIDE DEF g
<1>6. /\ ctl' \in Seq(Frames) /\ Len(ctl') = Depth /\ ctl'[Depth] = g
      /\ \A k \in 1..Depth - 1 : ctl'[k] = ctl[k]
  BY <1>1, <1>2, <1>3, <1>4, <1>5
<1>7. QED
  BY <1>2, <1>4, <1>6 DEF RemoveHandlers, At

\* A frame ends in the ordinary way; those with handlers give them back.
LEMMA EndsTop ==
    ASSUME IInv, Ends
    PROVE  /\ ~crashed /\ Depth > 0 /\ ctl' = SubSeq(ctl, 1, Depth - 1)
           /\ handler' = IF Installed(Top) THEN Top.osa ELSE handler
           /\ bare = NotBare /\ UNCHANGED <<bare, crashed>>
<1>1. OnlyEvalsFreed /\ Depth \in Nat
  BY DEF IInv, TypeOK, Depth
<1>2. CASE ReturnFromBody
  BY <1>2 DEF ReturnFromBody, PopFrame, At, Installed, Guards
<1>3. CASE EndCommand
  <2>1. Depth > 0 /\ Top.kind = "cmd"
    BY <1>3 DEF EndCommand, At
  <2>2. Installed(Top)
    BY <1>1, <2>1 DEF OnlyEvalsFreed, Installed, Guards, Top
  <2>3. QED
    BY <1>3, <2>1, <2>2 DEF EndCommand, PopFrame, At
<1>4. CASE ExitBlock
  BY <1>4 DEF ExitBlock, PopFrame, At, Installed, Guards
<1>5. CASE EndIteration \/ ExitLoop \/ ExitSwitch
  BY <1>5 DEF EndIteration, ExitLoop, ExitSwitch, Close, PopFrame, At, Installed, Guards
<1>6. CASE EndEval
  BY <1>6 DEF EndEval, Leaving, PopFrame, At, Installed
<1>7. QED
  BY <1>2, <1>3, <1>4, <1>5, <1>6 DEF Ends

\* Next, sorted by what happens to the frames.
LEMMA NextSorted ==
    ASSUME Next
    PROVE  ~crashed /\ (eppic_runcmd \/ Opens \/ Relabels \/ RemoveHandlers \/ Ends
                        \/ InstallHandlers \/ AbandonEval \/ Jumping)
BY DEF Next, Opens, Relabels, Ends, Jumping, eppic_runcmd, eppic_exefunc, eppic_docall,
       AddParams, ReturnFromBody, EndCommand, EnterBlock, AddAutos, ExitBlock, EnterLoop,
       EnterSwitch, BeginIteration, EndIteration, ExitLoop, ExitSwitch, Close, BeginEval,
       InstallHandlers, RemoveHandlers, EndEval, AbandonEval, Break, Continue, Return, Exit,
       Error, Interrupt, ExprPos, StmtPos, IniPos, HostPos, At

-----------------------------------------------------------------------------
(* The order of the frames, whatever the faults.                            *)

\* A command starts on an empty stack.
LEMMA RuncmdFrames ==
    ASSUME IInv, eppic_runcmd
    PROVE  LET f == Frame("cmd", 0, handler, NoPath)
               g == Frame("enter", 0, "app", curp)
           IN  /\ ctl = << >> /\ bare = NotBare /\ bare' = NotBare /\ f \in Frames /\ g \in Frames
               /\ ctl' = Append(Append(ctl, f), g)
               /\ Installed(f) /\ ~Installed(g) /\ f.osa = handler /\ g.osa = "app"
               /\ f.kind = "cmd" /\ g.kind = "enter"
<1> DEFINE f == Frame("cmd", 0, handler, NoPath)
           g == Frame("enter", 0, "app", curp)
<1>1. TypeOK /\ MaxScopes \in Nat
  BY ControlAssumption DEF IInv, ControlAssumption
<1>2. 0 \in 0..MaxScopes /\ NoPath \in Paths /\ curp \in Paths \cup (1..MaxFrames)
      /\ handler \in {"app", "eppic"}
  BY <1>1 DEF TypeOK, Paths
<1>3. "cmd" \in Kinds /\ "enter" \in Kinds /\ "cmd" \in Guards /\ "enter" \notin Guards
  BY DEF Kinds, ContextKinds, Functions, Guards
<1>4. f \in Frames /\ f.kind = "cmd" /\ f.osa = handler
  BY <1>2, <1>3, MadeFrame
<1>5. g \in Frames /\ g.kind = "enter" /\ g.osa = "app"
  BY <1>2, <1>3, MadeFrame
<1>6. ctl = << >> /\ ctl' = <<f, g>> /\ bare = NotBare /\ bare' = NotBare
  BY DEF eppic_runcmd, HostPos, EnterFunction
<1>7. Installed(f) /\ ~Installed(g)
  BY <1>2, <1>3, <1>4, <1>5 DEF Installed
<1> HIDE DEF f, g
<1>8. ctl' = Append(Append(ctl, f), g)
  BY <1>4, <1>5, <1>6
<1>9. QED
  BY <1>4, <1>5, <1>6, <1>7, <1>8 DEF f, g

LEMMA JInvInit == Init => JInv
<1>1. SUFFICES ASSUME Init PROVE Ordered(ctl) /\ BareAbove(bare, ctl)
  BY IInvInit DEF JInv
<1>2. ctl = << >> /\ Len(ctl) = 0
  BY <1>1 DEF Init
<1>3. QED
  BY <1>1, <1>2, MadeBare DEF Ordered, LeavingIsTop, CommandIsFirst, BareAbove, Init

LEMMA OrderedStep ==
    ASSUME JInv, Next
    PROVE  Ordered(ctl)'
<1>1. /\ IInv /\ Ordered(ctl) /\ ~crashed /\ ctl \in Seq(Frames)
      /\ Depth = Len(ctl) /\ Depth \in Nat
  BY NextSorted DEF JInv, IInv, TypeOK, Depth
<1>2. ASSUME Depth > 0 => Top.osa # "freed"
      PROVE  \A k \in 1..Len(ctl) : ctl[k].osa # "freed"
  BY <1>1, <1>2 DEF Ordered, LeavingIsTop, Top
<1>3. CASE eppic_runcmd
  <2> DEFINE f == Frame("cmd", 0, handler, NoPath)
             g == Frame("enter", 0, "app", curp)
  <2>1. /\ ctl = << >> /\ f \in Frames /\ g \in Frames
        /\ ctl' = Append(Append(ctl, f), g)
        /\ Installed(f) /\ g.osa = "app" /\ f.kind = "cmd" /\ g.kind = "enter"
    BY <1>1, <1>3, RuncmdFrames
  <2>2. f.osa # "freed"
    BY <2>1 DEF Installed
  <2> HIDE DEF f, g
  <2>3. \A k \in 1..Len(ctl) : ctl[k].osa # "freed"
    BY <2>1
  <2>4. Ordered(Append(ctl, f))
    BY <1>1, <2>1, <2>2, <2>3, OrderedPush
  <2>5. /\ Append(ctl, f) \in Seq(Frames) /\ Len(Append(ctl, f)) = 1
        /\ Append(ctl, f)[1] = f
    BY <2>1
  <2>6. \A k \in 1..Len(Append(ctl, f)) : Append(ctl, f)[k].osa # "freed"
    BY <2>2, <2>5
  <2>7. QED
    BY <2>1, <2>4, <2>5, <2>6, OrderedPush
<1>4. CASE Opens
  BY <1>1, <1>2, <1>4, OpensFrame, OrderedPush
<1>5. CASE Relabels
  <2>1. /\ Depth > 0 /\ ctl' \in Seq(Frames) /\ Len(ctl') = Depth
        /\ \A k \in 1..Depth - 1 : ctl'[k] = ctl[k]
        /\ ctl'[Depth].kind # "cmd"
    BY <1>1, <1>5, RelabelsTop
  <2>2. QED
    BY <1>1, <2>1, OrderedTop
<1>6. CASE RemoveHandlers
  <2>1. /\ Depth > 0 /\ ctl' \in Seq(Frames) /\ Len(ctl') = Depth
        /\ \A k \in 1..Depth - 1 : ctl'[k] = ctl[k]
        /\ ctl'[Depth].kind # "cmd"
    BY <1>1, <1>6, RemovesTop
  <2>2. QED
    BY <1>1, <2>1, OrderedTop
<1>7. CASE Ends
  <2>1. Depth > 0 /\ ctl' = SubSeq(ctl, 1, Depth - 1) /\ Depth - 1 \in 0..Depth
    BY <1>1, <1>7, EndsTop
  <2>2. QED
    BY <1>1, <2>1, OrderedCut
<1>8. CASE Jumping
  <2>1. ASSUME NEW type, NEW s, NEW lev, eppic_dojmp(type, s, lev) PROVE Ordered(ctl)'
    <3>1. CASE NullJump
      BY <1>1, <3>1 DEF NullJump
    <3>2. ASSUME NEW e \in 1..Depth, Land(e) PROVE Ordered(ctl)'
      <4>1. ctl' = SubSeq(ctl, 1, e - 1) /\ e - 1 \in 0..Len(ctl) /\ e - 1 < Len(ctl)
        BY <1>1, <3>2 DEF Land
      <4>2. QED
        BY <1>1, <4>1, OrderedCut
    <3>3. QED
      BY <1>1, <2>1, <3>1, <3>2, JumpLands DEF Nearest
  <2>2. QED
    BY <1>8, <2>1 DEF Jumping, Break, Continue, Return, Exit, Error, Interrupt
<1>9. CASE InstallHandlers \/ AbandonEval
  BY <1>1, <1>9 DEF InstallHandlers, AbandonEval
<1>10. QED
  BY <1>3, <1>4, <1>5, <1>6, <1>7, <1>8, <1>9, NextSorted

LEMMA BareStep ==
    ASSUME JInv, Next
    PROVE  BareAbove(bare, ctl)'
<1>1. /\ IInv /\ Ordered(ctl) /\ ~crashed /\ ctl \in Seq(Frames)
      /\ Depth = Len(ctl) /\ Depth \in Nat /\ OnlyEvalsFreed
  BY NextSorted DEF JInv, IInv, TypeOK, Depth
<1>2. CASE eppic_runcmd \/ Opens \/ Relabels \/ RemoveHandlers \/ Ends
  <2>1. bare' = NotBare
    BY <1>1, <1>2, RuncmdFrames, OpensFrame, RelabelsTop, RemovesTop, EndsTop
  <2>2. QED
    BY <2>1, MadeBare DEF BareAbove
<1>3. CASE InstallHandlers
  <2>1. ASSUME NEW k \in 1..Len(ctl) PROVE ctl[k].osa # "freed"
    <3>1. Depth > 0 => Depth \in 1..Depth /\ Top.osa # "freed"
      BY <1>1, <1>3 DEF InstallHandlers, ExprPos, IniPos, At, Leaving, OnlyEvalsFreed, Top
    <3>2. QED
      BY <1>1, <3>1 DEF Ordered, LeavingIsTop, Top
  <2>2. ctl' = ctl /\ Depth > 0 /\ Top.kind # "cmd"
    BY <1>3 DEF InstallHandlers, ExprPos, IniPos, At
  <2>3. QED
    BY <1>1, <2>1, <2>2 DEF BareAbove, Top
<1>4. CASE AbandonEval
  BY <1>4, MadeBare DEF AbandonEval, BareAbove
<1>5. CASE Jumping
  <2>1. ASSUME NEW type, NEW s, NEW lev, eppic_dojmp(type, s, lev)
        PROVE  BareAbove(bare, ctl)'
    <3>1. CASE NullJump
      BY <3>1 DEF NullJump, JInv, BareAbove
    <3>2. ASSUME NEW e \in 1..Depth, Land(e) PROVE BareAbove(bare, ctl)'
      <4>1. ctl' = SubSeq(ctl, 1, e - 1) /\ e - 1 \in 0..Len(ctl) /\ e - 1 < Len(ctl)
        BY <1>1, <3>2 DEF Land
      <4>2. /\ Len(ctl') = e - 1 /\ \A k \in 1..e - 1 : ctl'[k] = ctl[k]
            /\ \A k \in 1..e - 1 : ctl[k].osa # "freed"
        BY <1>1, <4>1, Prefix, OrderedCut
      <4>3. bare'.at # "entering"
        BY <3>2 DEF Land, NotBare, Bare
      <4>4. QED
        BY <4>2, <4>3 DEF BareAbove
    <3>3. QED
      BY <1>1, <2>1, <3>1, <3>2, JumpLands DEF Nearest
  <2>2. QED
    BY <1>5, <2>1 DEF Jumping, Break, Continue, Return, Exit, Error, Interrupt
<1>6. QED
  BY <1>2, <1>3, <1>4, <1>5, NextSorted

LEMMA JInvStep == JInv /\ [Next]_vars => JInv'
<1>1. SUFFICES ASSUME JInv, [Next]_vars PROVE JInv'
  OBVIOUS
<1>2. IInv'
  BY <1>1, IInvStep DEF JInv
<1>3. CASE Next
  BY <1>1, <1>2, <1>3, OrderedStep, BareStep DEF JInv
<1>4. CASE UNCHANGED vars
  BY <1>1, <1>2, <1>4 DEF vars, JInv
<1>5. QED
  BY <1>1, <1>3, <1>4

LEMMA JInvHolds == Spec => []JInv
BY JInvInit, JInvStep, PTL DEF Spec

-----------------------------------------------------------------------------
(* Breaks, continues and returns that stand where C allows them.            *)

\* The construct such a jump ends is there, and neither a call (of which only a
\* return may end its own) nor an initializer or command is inside it.
LEMMA PlacedTarget ==
    ASSUME JInv, Faults \cap {"strayJump", "evalJump"} = {}, NEW kinds,
           kinds \cap Guards = {}, WellPlaced(kinds)
    PROVE  /\ \E k \in 1..Depth : ctl[k].kind \in kinds
           /\ \A e \in 1..Depth : Nearest(e, kinds) =>
                \A k \in e..Depth : ctl[k].kind \notin Guards \cup (Functions \ kinds)
<1>1. Depth \in Nat /\ Depth = Len(ctl) /\ CommandIsFirst(ctl)
  BY DEF JInv, IInv, TypeOK, Depth, Ordered
<1>2. PICK p \in 1..Depth : /\ ctl[p].kind \in kinds
                            /\ \A j \in p..Depth : ctl[j].kind \notin Functions \ kinds
  BY DEF WellPlaced, Inside
<1>3. PICK q \in 1..Depth : /\ ctl[q].kind \in Functions \cup kinds
                            /\ \A j \in q..Depth : ctl[j].kind \notin {"eval"}
  BY DEF WellPlaced, Inside
<1>4. ASSUME NEW e \in 1..Depth, Nearest(e, kinds), NEW k \in e..Depth
      PROVE  ctl[k].kind \notin Guards \cup (Functions \ kinds)
  <2>1. p <= e
    <3>1. p \notin e + 1..Depth
      BY <1>2, <1>4 DEF Nearest
    <3>2. QED
      BY <3>1, <1>1
  <2>2. ctl[k].kind \notin Functions \ kinds
    <3>1. k \in p..Depth
      BY <1>1, <2>1
    <3>2. QED
      BY <1>2, <3>1
  <2>3. q <= e
    <3>1. CASE ctl[q].kind \in kinds
      <4>1. q \notin e + 1..Depth
        BY <3>1, <1>4 DEF Nearest
      <4>2. QED
        BY <4>1, <1>1
    <3>2. CASE ctl[q].kind \in Functions \ kinds
      <4>1. q \notin p..Depth
        BY <3>2, <1>2
      <4>2. QED
        BY <4>1, <2>1, <1>1
    <3>3. QED
      BY <3>1, <3>2, <1>3
  <2>4. ctl[k].kind # "eval"
    <3>1. k \in q..Depth
      BY <1>1, <2>3
    <3>2. QED
      BY <1>3, <3>1
  <2>5. ctl[k].kind # "cmd"
    <3>1. SUFFICES ASSUME ctl[k].kind = "cmd" PROVE FALSE
      OBVIOUS
    <3>2. k = 1 /\ e = 1
      BY <1>1, <3>1 DEF CommandIsFirst
    <3>3. ctl[k].kind \in kinds
      BY <1>4, <3>2 DEF Nearest
    <3>4. QED
      BY <3>1, <3>3 DEF Guards
  <2>6. QED
    BY <2>2, <2>4, <2>5 DEF Guards
<1>5. QED
  BY <1>2, <1>4

LEMMA JumpKinds ==
    /\ Break => WellPlaced(KindsOf("BREAK")) /\ eppic_dojmp("BREAK", svs, svlev)
    /\ Continue => WellPlaced(KindsOf("CONTINUE")) /\ eppic_dojmp("CONTINUE", svs, svlev)
    /\ Return => WellPlaced(KindsOf("RETURN")) /\ eppic_dojmp("RETURN", svs, svlev)
    /\ \A type \in {"BREAK", "CONTINUE", "RETURN"} : KindsOf(type) \cap Guards = {}
    /\ \A type \in {"BREAK", "CONTINUE"} : KindsOf(type) \cap Functions = {}
BY KindsOfTypes DEF Break, Continue, Return, Guards, Functions

-----------------------------------------------------------------------------
(* The handlers.                                                            *)

\* A landing gives the handlers back when its frame had installed some, now or in
\* the step after.
LEMMA LandOwned ==
    ASSUME HInv, ~crashed, NEW e \in 1..Depth, Land(e),
           \/ ctl[e].kind \in Guards
           \/ bare = NotBare /\ \A k \in e..Depth : ctl[k].kind \notin Guards
    PROVE  Owns'
<1>1. /\ TypeOK /\ OwnedBy(ctl, Under) /\ Depth = Len(ctl) /\ Depth \in Nat /\ BareOwned
      /\ ctl \in Seq(Frames) /\ handler \in {"app", "eppic"} /\ ctl[e] \in Frames
      /\ OnlyEvalsFreed /\ LeavingIsTop(ctl) /\ BareAbove(bare, ctl)
  BY DEF HInv, JInv, IInv, TypeOK, Depth, Ordered, Owns
<1>2. /\ ctl' = SubSeq(ctl, 1, e - 1)
      /\ bare' = IF ctl[e].kind = "eval" THEN Bare("landed", ctl[e].osa) ELSE NotBare
      /\ handler' = IF ctl[e].kind = "cmd" THEN ctl[e].osa ELSE handler
  BY DEF Land
<1>3. ctl[e].osa \in {"app", "eppic", "freed"}
  BY <1>1 DEF Frames
<1>4. CASE ctl[e].kind = "eval" /\ ctl[e].osa # "freed"
  <2>1. Installed(ctl[e])
    BY <1>4 DEF Installed, Guards
  <2>2. bare' = Bare("landed", ctl[e].osa) /\ handler' = handler
    BY <1>2, <1>4
  <2>3. Under' = ctl[e].osa
    BY <1>3, <1>4, <2>2, MadeBare DEF Under
  <2>4. handler = "eppic"
    BY <1>1, <2>1 DEF OwnedBy, Under, BareOwned
  <2>5. OwnedBy(SubSeq(ctl, 1, e - 1), ctl[e].osa)
    BY <1>1, <1>3, <1>4, <2>1, OwnedCut
  <2>6. QED
    BY <1>2, <2>2, <2>3, <2>4, <2>5 DEF BareOwned, Owns
<1>5. CASE ctl[e].kind = "eval" /\ ctl[e].osa = "freed"
  <2>1. e = Depth /\ bare = NotBare
    BY <1>1, <1>5 DEF LeavingIsTop, BareAbove
  <2>2. bare' = Bare("landed", "freed") /\ handler' = handler
    BY <1>2, <1>5
  <2>3. Under' = handler /\ Under = handler /\ BareOwned'
    BY <2>1, <2>2, MadeBare DEF Under, BareOwned
  <2>4. \A k \in e..Len(ctl) : ~Installed(ctl[k])
    BY <1>1, <1>5, <2>1 DEF Installed
  <2>5. OwnedBy(SubSeq(ctl, 1, e - 1), handler)
    BY <1>1, <2>3, <2>4, OwnedCut
  <2>6. QED
    BY <1>2, <2>3, <2>5 DEF Owns
<1>6. CASE ctl[e].kind = "cmd"
  <2>1. Installed(ctl[e]) /\ ctl[e].osa \in {"app", "eppic"}
    BY <1>1, <1>3, <1>6 DEF Installed, Guards, OnlyEvalsFreed
  <2>2. bare' = NotBare /\ handler' = ctl[e].osa
    BY <1>2, <1>6
  <2>3. Under' = ctl[e].osa /\ BareOwned'
    BY <2>2 DEF Under, BareOwned
  <2>4. OwnedBy(SubSeq(ctl, 1, e - 1), ctl[e].osa)
    BY <1>1, <2>1, OwnedCut
  <2>5. QED
    BY <1>2, <2>3, <2>4 DEF Owns
<1>7. CASE ctl[e].kind \notin Guards
  <2>1. bare = NotBare /\ \A k \in e..Len(ctl) : ~Installed(ctl[k])
    BY <1>1, <1>7 DEF Installed
  <2>2. bare' = NotBare /\ handler' = handler
    BY <1>2, <1>7 DEF Guards
  <2>3. Under' = handler /\ Under = handler /\ BareOwned'
    BY <2>1, <2>2 DEF Under, BareOwned
  <2>4. OwnedBy(SubSeq(ctl, 1, e - 1), handler)
    BY <1>1, <2>1, <2>3, OwnedCut
  <2>5. QED
    BY <1>2, <2>3, <2>4 DEF Owns
<1>8. QED
  BY <1>4, <1>5, <1>6, <1>7 DEF Guards

LEMMA HInvInit == Init => HInv
<1>1. SUFFICES ASSUME Init PROVE Owns
  BY JInvInit DEF HInv
<1>2. Len(ctl) = 0 /\ Under = "app" /\ bare = NotBare
  BY <1>1 DEF Init, Under
<1>3. QED
  BY <1>2 DEF OwnedBy, BareOwned, Owns

LEMMA HInvStep ==
    ASSUME Faults \cap {"strayJump", "evalJump"} = {}, HInv, [Next]_vars
    PROVE  HInv'
<1>1. JInv'
  BY JInvStep DEF HInv
<1>2. SUFFICES ASSUME ~crashed' PROVE Owns'
  BY <1>1 DEF HInv
<1>3. CASE UNCHANGED vars
  BY <1>2, <1>3 DEF vars, HInv, Under, BareOwned, Owns
<1>4. CASE Next
  <2>1. /\ ~crashed /\ OwnedBy(ctl, Under) /\ BareOwned /\ JInv /\ IInv /\ ctl \in Seq(Frames)
        /\ Depth = Len(ctl) /\ Depth \in Nat /\ handler \in {"app", "eppic"}
    BY <1>4, NextSorted DEF HInv, JInv, IInv, TypeOK, Depth, Owns
  <2>bares. bare \in Bares
    BY DEF HInv, JInv, IInv, TypeOK
  <2>before. ASSUME bare = NotBare PROVE OwnedBy(ctl, handler)
    BY <2>1, <2>before DEF Under
  <2>after. ASSUME bare' = NotBare, OwnedBy(ctl', handler') PROVE Owns'
    BY <2>after DEF Under, BareOwned, Owns
  <2>2. CASE eppic_runcmd
    <3> DEFINE f == Frame("cmd", 0, handler, NoPath)
               g == Frame("enter", 0, "app", curp)
    <3>1. /\ ctl = << >> /\ f \in Frames /\ g \in Frames /\ Installed(f)
          /\ ~Installed(g) /\ f.osa = handler /\ bare = NotBare /\ bare' = NotBare
          /\ ctl' = Append(Append(ctl, f), g)
      BY <2>1, <2>2, RuncmdFrames
    <3> HIDE DEF f, g
    <3>2. OwnedBy(Append(ctl, f), "eppic")
      BY <2>before, <2>1, <3>1, OwnedPushGuard
    <3>3. Append(ctl, f) \in Seq(Frames) /\ handler' = "eppic"
      BY <2>1, <2>2, <3>1, Appended DEF eppic_runcmd
    <3>4. QED
      BY <2>after, <3>1, <3>2, <3>3, OwnedPushPlain
  <2>3. CASE Opens
    <3>1. PICK f \in Frames :
            /\ ctl' = Append(ctl, f)
            /\ IF Installed(f) THEN f.osa = Under /\ handler' = handler /\ bare # NotBare
                                    /\ bare.osa # "freed"
               ELSE bare = NotBare /\ handler' = handler
            /\ bare' = NotBare
      BY <2>1, <2>3, OpensFrame
    <3>2. CASE Installed(f)
      <4>1. Under \in {"app", "eppic"} /\ handler = "eppic"
        BY <2>1, <2>bares, <3>1, <3>2, MadeBare DEF Under, BareOwned
      <4>2. QED
        BY <2>after, <2>1, <3>1, <3>2, <4>1, OwnedPushGuard
    <3>3. CASE ~Installed(f)
      BY <2>before, <2>after, <2>1, <3>1, <3>3, OwnedPushPlain
    <3>4. QED
      BY <3>2, <3>3
  <2>4. CASE Relabels
    <3>1. /\ Depth > 0 /\ ctl' \in Seq(Frames) /\ Len(ctl') = Depth
          /\ \A k \in 1..Depth - 1 : ctl'[k] = ctl[k]
          /\ ctl[Depth].kind \in {"enter", "statics"}
          /\ ctl'[Depth].kind \in {"call", "block"}
          /\ handler' = handler /\ bare = NotBare /\ bare' = NotBare
      BY <2>1, <2>4, RelabelsTop DEF Top
    <3>2. ~Installed(ctl[Depth]) /\ ~Installed(ctl'[Depth])
      BY <3>1 DEF Installed, Guards
    <3>3. ASSUME NEW k \in 1..Len(ctl)
          PROVE  /\ Installed(ctl'[k]) <=> Installed(ctl[k])
                 /\ Installed(ctl[k]) => ctl'[k].osa = ctl[k].osa
      <4>1. CASE k = Depth
        BY <4>1, <3>2
      <4>2. CASE k \in 1..Depth - 1
        BY <4>2, <3>1
      <4>3. QED
        BY <4>1, <4>2, <2>1
    <3>4. QED
      BY <2>before, <2>after, <2>1, <3>1, <3>3, OwnedRelabel
  <2>5. CASE RemoveHandlers
    <3>1. /\ Depth > 0 /\ ctl' \in Seq(Frames) /\ Len(ctl') = Depth
          /\ \A k \in 1..Depth - 1 : ctl'[k] = ctl[k]
          /\ Installed(ctl[Depth]) /\ ctl'[Depth].osa = "freed"
          /\ handler' = ctl[Depth].osa /\ bare = NotBare /\ bare' = NotBare
      BY <2>1, <2>5, RemovesTop DEF Top
    <3>2. Depth \in 1..Len(ctl) /\ handler' \in {"app", "eppic"}
      <4>1. Depth \in 1..Len(ctl) /\ ctl[Depth] \in Frames
        BY <2>1, <3>1
      <4>2. ctl[Depth].osa \in {"app", "eppic"}
        BY <3>1, <4>1 DEF Installed, Frames
      <4>3. QED
        BY <3>1, <4>1, <4>2
    <3>3. OwnedBy(SubSeq(ctl, 1, Depth - 1), handler')
      BY <2>before, <2>1, <3>1, <3>2, OwnedCut
    <3> DEFINE c == SubSeq(ctl, 1, Depth - 1)
    <3>4. c \in Seq(Frames) /\ Len(c) = Depth - 1 /\ \A k \in 1..Depth - 1 : c[k] = ctl[k]
      BY <2>1, <3>1, Prefix, Depth - 1 \in 0..Len(ctl)
    <3>5. ctl' = Append(c, ctl'[Depth]) /\ ctl'[Depth] \in Frames
      BY <2>1, <3>1, <3>4, Extended
    <3>6. ~Installed(ctl'[Depth])
      BY <3>1 DEF Installed
    <3> HIDE DEF c
    <3>7. OwnedBy(Append(c, ctl'[Depth]), handler')
      BY <3>3, <3>4, <3>5, <3>6, OwnedPushPlain DEF c
    <3>8. QED
      BY <2>after, <3>1, <3>5, <3>7
  <2>6. CASE Ends
    <3>1. /\ Depth > 0 /\ ctl' = SubSeq(ctl, 1, Depth - 1)
          /\ handler' = IF Installed(Top) THEN Top.osa ELSE handler
          /\ bare = NotBare /\ bare' = NotBare
      BY <2>1, <2>6, EndsTop
    <3>2. Depth \in 1..Len(ctl) /\ handler' \in {"app", "eppic"} /\ Top = ctl[Depth]
      <4>1. Depth \in 1..Len(ctl) /\ Top = ctl[Depth] /\ Top \in Frames
        BY <2>1, <3>1 DEF Top
      <4>2. Installed(Top) => Top.osa \in {"app", "eppic"}
        BY <4>1 DEF Installed, Frames
      <4>3. QED
        BY <2>1, <3>1, <4>1, <4>2
    <3>3. \/ Installed(ctl[Depth]) /\ handler' = ctl[Depth].osa
          \/ (\A k \in Depth..Len(ctl) : ~Installed(ctl[k])) /\ handler' = handler
      BY <2>1, <3>1, <3>2
    <3>4. QED
      BY <2>before, <2>after, <2>1, <3>1, <3>2, <3>3, OwnedCut
  <2>7. CASE Break \/ Continue \/ Return
    <3>1. PICK type \in {"BREAK", "CONTINUE", "RETURN"} :
            WellPlaced(KindsOf(type)) /\ eppic_dojmp(type, svs, svlev)
      BY <2>7, JumpKinds
    <3>2. KindsOf(type) \cap Guards = {}
      BY JumpKinds
    <3>3. PICK e \in 1..Depth : Nearest(e, KindsOf(type)) /\ Land(e)
      BY <1>2, <2>1, <3>1, JumpLands DEF NullJump, Nearest
    <3>4. bare = NotBare /\ \A k \in e..Depth : ctl[k].kind \notin Guards
      BY <2>1, <2>7, <3>1, <3>2, <3>3, PlacedTarget
      DEF Break, Continue, Return, StmtPos, At
    <3>5. QED
      BY <2>1, <3>3, <3>4, LandOwned
  <2>8. CASE Exit \/ Error \/ Interrupt
    <3>1. ASSUME NEW s, NEW lev, eppic_dojmp("EXIT", s, lev) PROVE Owns'
      <4>1. PICK e \in 1..Depth : Nearest(e, Guards) /\ Land(e)
        BY <1>2, <2>1, <3>1, JumpLands, KindsOfTypes DEF NullJump, Nearest
      <4>2. QED
        BY <2>1, <4>1, LandOwned DEF Nearest
    <3>2. QED
      BY <2>8, <3>1 DEF Exit, Error, Interrupt
  <2>9. CASE InstallHandlers
    <3>1. bare = NotBare /\ ctl' = ctl /\ bare' = Bare("entering", handler)
          /\ handler' = "eppic"
      BY <2>9 DEF InstallHandlers, ExprPos, IniPos, At
    <3>2. Under' = handler /\ BareOwned'
      BY <2>1, <3>1, MadeBare DEF Under, BareOwned
    <3>3. QED
      BY <2>before, <3>1, <3>2 DEF Owns
  <2>10. CASE AbandonEval
    <3>1. /\ ctl' = ctl /\ bare' = NotBare
          /\ handler' = IF bare.osa = "freed" THEN handler ELSE bare.osa
          /\ bare # NotBare
      BY <2>bares, <2>10, MadeBare DEF AbandonEval
    <3>2. handler' = Under
      BY <3>1 DEF Under
    <3>3. QED
      BY <2>after, <2>1, <3>1, <3>2
  <2>11. QED
    BY <1>4, <2>2, <2>3, <2>4, <2>5, <2>6, <2>7, <2>8, <2>9, <2>10, NextSorted
    DEF Jumping
<1>5. QED
  BY <1>3, <1>4


LEMMA HInvHolds ==
    ASSUME Faults \cap {"strayJump", "evalJump"} = {}
    PROVE  Spec => []HInv
<1>1. HInv /\ [Next]_vars => HInv'
  BY HInvStep
<1>2. QED
  BY <1>1, HInvInit, PTL DEF Spec

(***************************************************************************)
(* The host gets its signal handlers back whenever no command and no        *)
(* evaluation is active, whichever way the script was left: a return, a     *)
(* break, exit(), an error or a signal, and whatever frames the longjmp      *)
(* skipped.  It needs breaks, continues and returns to stand where C allows  *)
(* them: one out of an initializer skips the eppic_rmexcept of its           *)
(* eppic_exenode.                                                            *)
(***************************************************************************)
THEOREM HandlersStayOwned ==
    ASSUME Faults \cap {"strayJump", "evalJump"} = {}
    PROVE  Spec => []HandlersOwned
<1>1. HInv => HandlersOwned
  BY DEF HInv, Owns, OwnedBy, BareOwned, Under, HandlersOwned, Installed, Depth
<1>2. QED
  BY <1>1, HInvHolds, PTL

-----------------------------------------------------------------------------
(* What a break or continue ends.                                           *)

LEMMA LoopJumpStep ==
    ASSUME Faults \cap {"strayJump", "evalJump"} = {}, JInv, Break \/ Continue
    PROVE  \A k \in 1..Depth : ctl[k].kind \in Functions \cup Guards =>
                k <= Len(ctl') /\ ctl'[k] = ctl[k]
<1>1. /\ IInv /\ ~crashed /\ ctl \in Seq(Frames) /\ Depth = Len(ctl) /\ Depth \in Nat
  BY DEF JInv, IInv, TypeOK, Depth, Break, Continue, StmtPos, At
<1>2. PICK type \in {"BREAK", "CONTINUE"} :
        WellPlaced(KindsOf(type)) /\ eppic_dojmp(type, svs, svlev)
  BY JumpKinds
<1>3. KindsOf(type) \cap Guards = {} /\ KindsOf(type) \cap Functions = {}
  BY JumpKinds
<1>4. /\ \E k \in 1..Depth : ctl[k].kind \in KindsOf(type)
      /\ \A e \in 1..Depth : Nearest(e, KindsOf(type)) =>
            \A k \in e..Depth : ctl[k].kind \notin Guards \cup (Functions \ KindsOf(type))
  BY <1>2, <1>3, PlacedTarget
<1>5. PICK e \in 1..Depth : Nearest(e, KindsOf(type)) /\ Land(e)
  <2>1. PICK t \in 2..Len(jmps) : Nearest(jmps[t].env, KindsOf(type)) /\ Land(jmps[t].env)
    BY <1>1, <1>2, <1>4, JumpLands
  <2>2. QED
    BY <2>1 DEF Nearest
<1>6. ctl' = SubSeq(ctl, 1, e - 1) /\ e - 1 \in 0..Len(ctl)
  BY <1>1, <1>5 DEF Land
<1>7. Len(ctl') = e - 1 /\ \A k \in 1..e - 1 : ctl'[k] = ctl[k]
  BY <1>1, <1>6, Prefix
<1>8. ASSUME NEW k \in 1..Depth, ctl[k].kind \in Functions \cup Guards
      PROVE  k \in 1..e - 1
  <2>1. k \notin e..Depth
    BY <1>3, <1>4, <1>5, <1>8
  <2>2. QED
    BY <1>1, <2>1
<1>9. QED
  BY <1>7, <1>8

(***************************************************************************)
(* A break or continue that C allows abandons loop contexts and blocks, and  *)
(* no function call, initializer or command, however deep the expressions    *)
(* and calls it stands in: eppic_dojmp's search by type stops early enough.  *)
(***************************************************************************)
THEOREM LoopJumpsStayInside ==
    ASSUME Faults \cap {"strayJump", "evalJump"} = {}
    PROVE  Spec => LoopJumpsEndOnlyLoops
<1>1. JInv /\ [Next]_vars =>
        [Break \/ Continue =>
            \A k \in 1..Depth : ctl[k].kind \in Functions \cup Guards =>
                k <= Len(ctl') /\ ctl'[k] = ctl[k]]_vars
  BY LoopJumpStep
<1>2. QED
  BY <1>1, JInvHolds, PTL DEF Spec, LoopJumpsEndOnlyLoops


-----------------------------------------------------------------------------
(* Jumps that find their target alive.                                      *)

\* A jump to the innermost command or evaluation, while one is there and none is
\* on its way out.
LEMMA ExitSafe ==
    ASSUME JInv, ~crashed, ~Leaving, NEW s, NEW lev, eppic_dojmp("EXIT", s, lev),
           \E k \in 1..Depth : ctl[k].kind \in Guards
    PROVE  ~crashed' /\ bare'.osa # "freed"
<1>1. /\ IInv /\ LeavingIsTop(ctl) /\ Depth = Len(ctl) /\ Depth \in Nat
      /\ ctl \in Seq(Frames)
  BY DEF JInv, IInv, TypeOK, Depth, Ordered
<1>2. PICK e \in 1..Depth : Land(e)
  <2>1. PICK t \in 2..Len(jmps) : Nearest(jmps[t].env, KindsOf("EXIT")) /\ Land(jmps[t].env)
    BY <1>1, JumpLands, KindsOfTypes
  <2>2. QED
    BY <2>1 DEF Nearest
<1>3. ctl[e].osa \in {"app", "eppic"}
  <2>1. ctl[e] \in Frames
    BY <1>1
  <2>2. ctl[e].osa # "freed"
    <3>1. SUFFICES ASSUME ctl[e].osa = "freed" PROVE FALSE
      OBVIOUS
    <3>2. e = Depth
      BY <1>1, <3>1 DEF LeavingIsTop
    <3>3. QED
      BY <1>1, <3>1, <3>2 DEF Leaving, Top
  <2>3. QED
    BY <2>1, <2>2 DEF Frames
<1>4. bare' = NotBare \/ bare' = Bare("landed", ctl[e].osa)
  BY <1>2 DEF Land
<1>5. bare'.osa # "freed"
  BY <1>3, <1>4 DEF NotBare, Bare
<1>6. QED
  BY <1>2, <1>5 DEF Land

LEMMA CrashStep ==
    ASSUME Faults \subseteq {"evalError"}, HInv, ~crashed, bare.osa # "freed", [Next]_vars
    PROVE  ~crashed' /\ bare'.osa # "freed"
<1>1. CASE UNCHANGED vars
  BY <1>1 DEF vars
<1>2. CASE Next
  <2>1. /\ IInv /\ JInv /\ OwnedBy(ctl, Under) /\ OnlyEvalsFreed
        /\ Depth = Len(ctl) /\ Depth \in Nat
    BY DEF HInv, Owns, JInv, IInv, TypeOK, Depth
  <2>2. NotBare.osa # "freed"
    BY DEF NotBare, Bare
  <2>3. CASE eppic_runcmd
    BY <2>1, <2>2, <2>3, RuncmdFrames DEF eppic_runcmd, EnterFunction
  <2>4. CASE Opens \/ Relabels \/ RemoveHandlers \/ Ends
    BY <2>1, <2>2, <2>4, OpensFrame, RelabelsTop, RemovesTop, EndsTop
  <2>5. CASE InstallHandlers
    <3>1. handler \in {"app", "eppic"}
      BY <2>1 DEF IInv, TypeOK
    <3>2. bare' = Bare("entering", handler) /\ crashed' = crashed
      BY <2>5 DEF InstallHandlers
    <3>3. QED
      BY <3>1, <3>2 DEF Bare
  <2>6. CASE AbandonEval
    BY <2>2, <2>6 DEF AbandonEval
  <2>7. CASE Break \/ Continue \/ Return
    <3>1. PICK type \in {"BREAK", "CONTINUE", "RETURN"} :
            WellPlaced(KindsOf(type)) /\ eppic_dojmp(type, svs, svlev)
      BY <2>7, JumpKinds
    <3>2. KindsOf(type) \cap Guards = {}
      BY JumpKinds
    <3>3. \E k \in 1..Depth : ctl[k].kind \in KindsOf(type)
      BY <2>1, <3>1, <3>2, PlacedTarget
    <3>4. PICK t \in 2..Len(jmps) : Nearest(jmps[t].env, KindsOf(type)) /\ Land(jmps[t].env)
      BY <2>1, <3>1, <3>3, JumpLands
    <3>5. ctl[jmps[t].env].kind # "eval"
      BY <3>2, <3>4 DEF Nearest, Guards
    <3>6. QED
      BY <2>2, <3>4, <3>5 DEF Land
  <2>8. CASE Exit \/ Error
    <3>1. ~Leaving /\ \E k \in 1..Depth : ctl[k].kind \in Guards
      BY <2>8 DEF Exit, Error, ExprPos, MayAbort, ExitContext
    <3>2. QED
      BY <2>1, <2>8, <3>1, ExitSafe DEF Exit, Error
  <2>9. CASE Interrupt
    <3>1. ~Leaving /\ handler = "eppic" /\ (bare = NotBare \/ ExitContext)
      BY <2>9 DEF Interrupt
    <3>2. bare = NotBare => Under = handler
      BY DEF Under
    <3>3. \E k \in 1..Depth : ctl[k].kind \in Guards
      BY <2>1, <3>1, <3>2 DEF OwnedBy, Installed, ExitContext
    <3>4. QED
      BY <2>1, <2>9, <3>1, <3>3, ExitSafe DEF Interrupt
  <2>10. QED
    BY <1>2, <2>3, <2>4, <2>5, <2>6, <2>7, <2>8, <2>9, NextSorted DEF Jumping
<1>3. QED
  BY <1>1, <1>2

(***************************************************************************)
(* No jump runs off the jump stack into the null env of the base entry, and  *)
(* none lands in an eppic_exenode that has given its handlers back: break,   *)
(* continue and return find the context the grammar promises them, exit and  *)
(* errors the command's, and while eppic's signal handlers are installed a   *)
(* signal finds the frame that installed them, or, in the steps where an      *)
(* eppic_exenode holds handlers and no context, one outside it.  An error     *)
(* raised in an evaluation is allowed here; the five other faults each crash. *)
(***************************************************************************)
THEOREM JumpsNeverCrash ==
    ASSUME Faults \subseteq {"evalError"}
    PROVE  Spec => []NeverCrashes
<1> DEFINE CInv == HInv /\ ~crashed /\ bare.osa # "freed"
<1>1. Init => CInv
  BY HInvInit DEF Init, NotBare, Bare
<1>2. CInv /\ [Next]_vars => CInv'
  <2>1. SUFFICES ASSUME HInv, ~crashed, bare.osa # "freed", [Next]_vars
                 PROVE  HInv' /\ ~crashed' /\ bare'.osa # "freed"
    OBVIOUS
  <2>2. HInv'
    BY <2>1, HInvStep
  <2>3. ~crashed' /\ bare'.osa # "freed"
    BY <2>1, CrashStep
  <2>4. QED
    BY <2>2, <2>3
<1>3. CInv => NeverCrashes
  BY DEF NeverCrashes
<1>4. QED
  BY <1>1, <1>2, <1>3, PTL DEF Spec

=============================================================================
