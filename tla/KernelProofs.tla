---------------------------- MODULE KernelProofs ----------------------------
(***************************************************************************)
(* Proofs about the merge of project snapshots and the pushes that use it, *)
(* for any machines, tracks, values and lengths of lists and histories,    *)
(* and about the files a backup takes along, for any number of references. *)
(*                                                                         *)
(* What merge3 gives for three projects and what resolve_conflicts makes   *)
(* of it are proved of the operators first, by induction over the lists    *)
(* where FlattenSeq or a recursive function is used; the invariant of the  *)
(* pushes rests on the two results DocMerge and ResolveAll.  A plan of a   *)
(* backup is followed in the same way, reference by reference.             *)
(***************************************************************************)
EXTENDS Merge, Assets, TLAPS, WellFoundedInduction, SequenceTheorems, FiniteSetTheorems

-----------------------------------------------------------------------------
\* FOLDS AND RECURSION

\* A set that has 0 and what follows each of its numbers has every number.
LEMMA NaturalInduction ==
  ASSUME NEW S, 0 \in S, \A n \in Nat : n \in S => n + 1 \in S
  PROVE  Nat \subseteq S
<1> SUFFICES ASSUME Nat \ S # {} PROVE FALSE
  OBVIOUS
<1> DEFINE T == Nat \ S
<1>1. T \subseteq Nat /\ T # {}
  OBVIOUS
<1> HIDE DEF T
<1>2. PICK x \in T : \A y \in T : ~(<<y, x>> \in OpToRel(<, Nat))
  <2>1. \E x \in T : \A y \in T : ~(<<y, x>> \in OpToRel(<, Nat))
    BY <1>1, WFMin, NatLessThanWellFounded
  <2> QED BY <2>1
<1>3. \A y \in T : ~(y < x)
  BY <1>1, <1>2 DEF OpToRel
<1>4. x \in Nat /\ x \notin S
  BY DEF T
<1>5. x # 0
  BY <1>4
<1>6. x - 1 \in Nat /\ (x - 1) + 1 = x /\ x - 1 < x
  BY <1>4, <1>5
<1>7. x - 1 \in S
  BY <1>3, <1>6 DEF T
<1> QED BY <1>4, <1>6, <1>7

\* A step function over values in T, and the function that applies it n times.
Steps(g, n, T) == \A i \in 1..n : \A x \in T : g[<<i, x>>] \in T

Iterates(F, g, first, n, T) ==
    F \in [0..n -> T] /\ F[0] = first /\ \A i \in 1..n : F[i] = g[<<i, F[i - 1]>>]

\* A function that applies a step n times exists: recursion on 1..n defines
\* one.
LEMMA RecursionExists ==
  ASSUME NEW T, NEW first \in T, NEW n \in Nat, NEW g, Steps(g, n, T)
  PROVE  \E F : Iterates(F, g, first, n, T)
<1> DEFINE S == {k \in Nat : k <= n => \E F : Iterates(F, g, first, k, T)}
<1>1. 0 \in S
  <2> DEFINE F == [i \in 0..0 |-> first]
  <2>1. F \in [0..0 -> T] /\ F[0] = first /\ \A i \in 1..0 : F[i] = g[<<i, F[i-1]>>]
    OBVIOUS
  <2> QED BY <2>1 DEF Iterates
<1>2. ASSUME NEW k \in Nat, k \in S PROVE k + 1 \in S
  <2> SUFFICES ASSUME k + 1 <= n PROVE \E F : Iterates(F, g, first, k + 1, T)
    OBVIOUS
  <2>1. PICK F \in [0..k -> T] : F[0] = first /\ \A i \in 1..k : F[i] = g[<<i, F[i-1]>>]
    BY <1>2 DEF Iterates
  <2> DEFINE G == [i \in 0..(k+1) |-> IF i <= k THEN F[i] ELSE g[<<k+1, F[k]>>]]
  <2>2. G \in [0..(k+1) -> T]
    BY <2>1 DEF Steps
  <2>3. G[0] = first
    BY <2>1
  <2>4. ASSUME NEW i \in 1..(k+1) PROVE G[i] = g[<<i, G[i-1]>>]
    <3>1. CASE i <= k
      <4>1. i \in 1..k /\ i - 1 \in 0..k /\ i \in 0..(k+1) /\ i - 1 \in 0..(k+1) /\ i-1 <= k
        BY <3>1
      <4>2. G[i] = F[i] /\ G[i-1] = F[i-1]
        BY <4>1, <3>1
      <4> QED BY <4>1, <4>2, <2>1
    <3>2. CASE ~(i <= k)
      <4>1. i = k + 1 /\ i - 1 = k /\ k \in 0..(k+1) /\ i \in 0..(k+1)
        BY <3>2
      <4>2. G[i] = g[<<k+1, F[k]>>] /\ G[k] = F[k]
        BY <4>1, <3>2
      <4> QED BY <4>1, <4>2
    <3> QED BY <3>1, <3>2
  <2> HIDE DEF G
  <2> QED BY <2>2, <2>3, <2>4 DEF Iterates
<1> HIDE DEF S
<1>3. Nat \subseteq S
  BY <1>1, <1>2, NaturalInduction
<1>4. n \in S
  BY <1>3
<1> QED BY <1>4 DEF S

\* The k elements of f are those of the first n sequences of s, each once:
\* the one at p is that at g[p] of the sequence at h[p].
Origins(f, k, s, n, h, g) ==
    /\ \A p \in 1..k : h[p] \in 1..n /\ g[p] \in 1..Len(s[h[p]]) /\ f[p] = s[h[p]][g[p]]
    /\ \A p, q \in 1..k : h[p] = h[q] /\ g[p] = g[q] => p = q
    /\ \A i \in 1..n : \A j \in 1..Len(s[i]) : \E p \in 1..k : h[p] = i /\ g[p] = j

Gathers(f, s, n) == \E h, g : Origins(f, Len(f), s, n, h, g)

\* One more sequence gathered.
LEMMA GathersStep ==
  ASSUME NEW V, NEW s \in Seq(Seq(V)), NEW n \in Nat, n + 1 <= Len(s), NEW f \in Seq(V), Gathers(f, s, n)
  PROVE  Gathers(f \o s[n + 1], s, n + 1)
<1> DEFINE e == s[n + 1]
           k == Len(f)
           c == Len(e)
           m == k + c
           f2 == f \o e
<1>1. e \in Seq(V) /\ k \in Nat /\ c \in Nat /\ m \in Nat
  OBVIOUS
<1>2. Len(f2) = m /\ \A p \in 1..m : f2[p] = IF p <= k THEN f[p] ELSE e[p - k]
  BY <1>1, ConcatProperties
<1>3. PICK h, g : Origins(f, k, s, n, h, g)
  BY DEF Gathers
<1> DEFINE h2 == [p \in 1..m |-> IF p <= k THEN h[p] ELSE n + 1]
           g2 == [p \in 1..m |-> IF p <= k THEN g[p] ELSE p - k]
<1>4. ASSUME NEW p \in 1..m, p <= k
      PROVE  p \in 1..k /\ h2[p] = h[p] /\ g2[p] = g[p] /\ f2[p] = f[p]
  BY <1>1, <1>2, <1>4
<1>5. ASSUME NEW p \in 1..m, ~(p <= k)
      PROVE  h2[p] = n + 1 /\ g2[p] = p - k /\ p - k \in 1..c /\ f2[p] = e[p - k] /\ p = k + (p - k)
  BY <1>1, <1>2, <1>5
<1>6. \A p \in 1..k : p \in 1..m /\ p <= k
  BY <1>1
<1>7. \A j \in 1..c : k + j \in 1..m /\ ~(k + j <= k) /\ (k + j) - k = j
  BY <1>1
<1>8. \A i \in 1..n : i \in 1..(n + 1) /\ i # n + 1
  OBVIOUS
<1>9. \A i \in 1..(n + 1) : i \in 1..n \/ i = n + 1
  OBVIOUS
<1>10. n + 1 \in 1..(n + 1) /\ e = s[n + 1] /\ c = Len(s[n + 1])
  OBVIOUS
<1> HIDE DEF h2, g2, f2, m, e, c, k
<1>11. ASSUME NEW p \in 1..m
       PROVE  h2[p] \in 1..(n + 1) /\ g2[p] \in 1..Len(s[h2[p]]) /\ f2[p] = s[h2[p]][g2[p]]
  <2>1. CASE p <= k
    BY <2>1, <1>3, <1>4, <1>8 DEF Origins
  <2>2. CASE ~(p <= k)
    BY <2>2, <1>5, <1>10
  <2> QED BY <2>1, <2>2
<1>12. ASSUME NEW p \in 1..m, NEW q \in 1..m, h2[p] = h2[q], g2[p] = g2[q] PROVE p = q
  <2>1. CASE p <= k /\ q <= k
    <3>1. p \in 1..k /\ q \in 1..k /\ h[p] = h[q] /\ g[p] = g[q]
      BY <2>1, <1>4, <1>12
    <3> QED BY <3>1, <1>3 DEF Origins
  <2>2. CASE ~(p <= k) /\ ~(q <= k)
    <3>1. p = k + g2[p] /\ q = k + g2[q]
      BY <2>2, <1>5
    <3> QED BY <3>1, <1>12
  <2>3. CASE p <= k /\ ~(q <= k)
    BY <2>3, <1>3, <1>4, <1>5, <1>8, <1>12 DEF Origins
  <2>4. CASE ~(p <= k) /\ q <= k
    BY <2>4, <1>3, <1>4, <1>5, <1>8, <1>12 DEF Origins
  <2> QED BY <2>1, <2>2, <2>3, <2>4
<1>13. ASSUME NEW i \in 1..(n + 1), NEW j \in 1..Len(s[i]) PROVE \E p \in 1..m : h2[p] = i /\ g2[p] = j
  <2>1. CASE i = n + 1
    <3>1. j \in 1..c
      BY <2>1, <1>10
    <3>2. k + j \in 1..m /\ ~(k + j <= k) /\ (k + j) - k = j
      BY <3>1, <1>7
    <3>3. h2[k + j] = n + 1 /\ g2[k + j] = (k + j) - k
      BY <3>2, <1>5
    <3> QED BY <2>1, <3>2, <3>3
  <2>2. CASE i \in 1..n
    <3>1. PICK p \in 1..k : h[p] = i /\ g[p] = j
      BY <2>2, <1>3 DEF Origins
    <3>2. p \in 1..m /\ p <= k
      BY <1>6
    <3> QED BY <3>1, <3>2, <1>4
  <2> QED BY <2>1, <2>2, <1>9
<1>14. Origins(f2, m, s, n + 1, h2, g2)
  BY <1>11, <1>12, <1>13 DEF Origins
<1>15. Gathers(f2, s, n + 1)
  BY <1>2, <1>14 DEF Gathers
<1> QED BY <1>15 DEF f2, e

Flatten(s) == CHOOSE f : f = [i \in 1..Len(s) |-> IF i = 1 THEN s[i] ELSE f[i - 1] \o s[i]]

\* FlattenSeq as the recursive function behind it.
LEMMA FlattenRecursion ==
  ASSUME NEW V, NEW s \in Seq(Seq(V)), s # <<>>
  PROVE  /\ FlattenSeq(s) = Flatten(s)[Len(s)]
         /\ Flatten(s)[1] = s[1]
         /\ \A i \in 2..Len(s) : Flatten(s)[i] = Flatten(s)[i - 1] \o s[i]
<1> DEFINE n == Len(s)
           none == <<>>
           g == [p \in (1..n) \X Seq(V) |-> p[2] \o s[p[1]]]
<1>1. n \in Nat /\ n # 0 /\ none \in Seq(V) /\ \A i \in 1..n : s[i] \in Seq(V)
  BY EmptySeq
<1>2. \A i \in 1..n : \A x \in Seq(V) : g[<<i, x>>] = x \o s[i] /\ g[<<i, x>>] \in Seq(V)
  BY <1>1, ConcatProperties
<1>3. \A x \in Seq(V) : none \o x = x
  BY ConcatEmptySeq
<1> HIDE DEF g, n, none
<1>4. PICK F \in [0..n -> Seq(V)] : F[0] = none /\ \A i \in 1..n : F[i] = g[<<i, F[i-1]>>]
  <2>1. Steps(g, n, Seq(V))
    BY <1>2 DEF Steps
  <2>2. \E F : Iterates(F, g, none, n, Seq(V))
    BY <1>1, <2>1, RecursionExists
  <2> QED BY <2>2 DEF Iterates
<1> DEFINE G == [i \in 1..n |-> F[i]]
<1>5. ASSUME NEW i \in 1..n PROVE G[i] = IF i = 1 THEN s[i] ELSE G[i - 1] \o s[i]
  <2>1. i - 1 \in 0..n /\ i \in 0..n
    BY <1>1
  <2>2. F[i] = F[i - 1] \o s[i]
    BY <2>1, <1>2, <1>4
  <2>3. CASE i = 1
    <3>1. F[i] = none \o s[1] /\ s[1] \in Seq(V)
      BY <2>2, <2>3, <1>1, <1>4
    <3>2. F[i] = s[1]
      BY <3>1, <1>3
    <3> QED BY <2>3, <3>2
  <2>4. CASE i # 1
    <3>1. i - 1 \in 1..n
      BY <2>4, <1>1
    <3> QED BY <2>2, <2>4, <3>1
  <2> QED BY <2>3, <2>4
<1>6. G = [i \in 1..n |-> IF i = 1 THEN s[i] ELSE G[i - 1] \o s[i]]
  BY <1>5
<1> HIDE DEF G
<1>7. Flatten(s) = [i \in 1..n |-> IF i = 1 THEN s[i] ELSE Flatten(s)[i - 1] \o s[i]]
  BY <1>6 DEF Flatten, n
<1>8. FlattenSeq(s) = Flatten(s)[n]
  BY <1>1 DEF FlattenSeq, Flatten, n
<1>9. Flatten(s)[1] = s[1]
  BY <1>1, <1>7
<1>10. ASSUME NEW i \in 2..n PROVE Flatten(s)[i] = Flatten(s)[i - 1] \o s[i]
  <2>1. i \in 1..n /\ i # 1
    BY <1>1
  <2> QED BY <1>7, <2>1
<1> QED BY <1>8, <1>9, <1>10 DEF n

\* FlattenSeq gathers the elements of its sequences, each once.
LEMMA FlattenGathers ==
  ASSUME NEW V, NEW s \in Seq(Seq(V))
  PROVE  FlattenSeq(s) \in Seq(V) /\ Gathers(FlattenSeq(s), s, Len(s))
<1>1. CASE s = <<>>
  <2>1. FlattenSeq(s) = <<>>
    BY <1>1 DEF FlattenSeq
  <2>2. Gathers(<<>>, s, Len(s))
    <3>1. Len(s) = 0 /\ Len(<<>>) = 0 /\ 1..0 = {}
      BY <1>1
    <3>2. Origins(<<>>, 0, s, 0, 0, 0)
      BY <3>1 DEF Origins
    <3> QED BY <3>1, <3>2 DEF Gathers
  <2> QED BY <2>1, <2>2, EmptySeq
<1>2. CASE s # <<>>
  <2> DEFINE n == Len(s)
             S == {k \in Nat : k + 1 <= n => Flatten(s)[k + 1] \in Seq(V) /\ Gathers(Flatten(s)[k + 1], s, k + 1)}
  <2>1. n \in Nat /\ n # 0 /\ \A i \in 1..n : s[i] \in Seq(V)
    BY <1>2
  <2>2. /\ FlattenSeq(s) = Flatten(s)[n]
        /\ Flatten(s)[1] = s[1]
        /\ \A i \in 2..n : Flatten(s)[i] = Flatten(s)[i - 1] \o s[i]
    BY <1>2, FlattenRecursion
  <2>3. 0 \in S
    <3>1. s[1] \in Seq(V) /\ Len(s[1]) \in Nat
      BY <2>1
    <3>2. Gathers(s[1], s, 1)
      <4> DEFINE m == Len(s[1])
                 h == [p \in 1..m |-> 1]
                 g == [p \in 1..m |-> p]
      <4>1. \A p \in 1..m : h[p] = 1 /\ g[p] = p
        OBVIOUS
      <4>2. m = Len(s[1]) /\ \A i \in 1..1 : i = 1
        OBVIOUS
      <4> HIDE DEF h, g, m
      <4>3. Origins(s[1], m, s, 1, h, g)
        BY <4>1, <4>2 DEF Origins
      <4> QED BY <4>2, <4>3 DEF Gathers
    <3> QED BY <2>2, <3>1, <3>2
  <2>4. ASSUME NEW k \in Nat, k \in S PROVE k + 1 \in S
    <3> SUFFICES ASSUME (k + 1) + 1 <= n
                 PROVE  Flatten(s)[(k + 1) + 1] \in Seq(V) /\ Gathers(Flatten(s)[(k + 1) + 1], s, (k + 1) + 1)
      OBVIOUS
    <3> DEFINE f == Flatten(s)[k + 1]
    <3>1. f \in Seq(V) /\ Gathers(f, s, k + 1)
      BY <2>1, <2>4
    <3>2. (k + 1) + 1 \in 2..n /\ ((k + 1) + 1) - 1 = k + 1 /\ (k + 1) + 1 \in 1..n /\ k + 1 \in Nat
      BY <2>1
    <3>3. Flatten(s)[(k + 1) + 1] = f \o s[(k + 1) + 1]
      BY <2>2, <3>2
    <3> HIDE DEF f
    <3>4. f \o s[(k + 1) + 1] \in Seq(V)
      BY <2>1, <3>1, <3>2, ConcatProperties
    <3>5. Gathers(f \o s[(k + 1) + 1], s, (k + 1) + 1)
      BY <3>1, <3>2, GathersStep
    <3> QED BY <3>3, <3>4, <3>5
  <2> HIDE DEF S
  <2>5. Nat \subseteq S
    BY <2>3, <2>4, NaturalInduction
  <2>6. n - 1 \in S /\ (n - 1) + 1 = n
    BY <2>1, <2>5
  <2> QED BY <2>1, <2>2, <2>6 DEF S
<1> QED BY <1>1, <1>2

-----------------------------------------------------------------------------
\* DOCUMENTS

Identities == [is : TrackId]
Levels == [is : Level]
Numbers == [num : Nat]
LaneValues == Levels \cup {Null}
TrackRecords == [id : Identities, level : Levels, target : Numbers]
TrackShape == [obj : TrackRecords]
LaneLists == [arr : Seq(LaneValues)]
TrackLists == [arr : Seq(TrackShape)]
DocRecords == [tempo : Levels, next : Numbers, lanes : LaneLists, tracks : TrackLists]
DocShape == [obj : DocRecords]

\* A value of the documents is present and of one kind.
LEMMA PresentValues ==
  /\ \A x \in Identities \cup LaneValues \cup Numbers \cup LaneLists \cup TrackLists \cup TrackShape \cup DocShape : x # Nothing
  /\ \A x \in Identities \cup LaneValues \cup Numbers : ~IsObject(x) /\ ~IsArray(x)
  /\ \A x \in LaneLists \cup TrackLists : ~IsObject(x) /\ IsArray(x)
  /\ \A x \in TrackShape \cup DocShape : IsObject(x) /\ ~IsArray(x)
  /\ ~IsObject(Nothing) /\ ~IsArray(Nothing)
BY DEF Identities, LaneValues, Levels, Numbers, LaneLists, TrackLists, TrackShape, DocShape, Nothing, Null, IsObject, IsArray

\* The fields of a track.
LEMMA TrackFields ==
  ASSUME NEW t \in TrackShape
  PROVE  /\ t = Object(t.obj)
         /\ DOMAIN t.obj = {"id", "level", "target"}
         /\ Field(t, "id") = t.obj["id"] /\ Field(t, "id") \in Identities
         /\ Field(t, "level") = t.obj["level"] /\ Field(t, "level") \in Levels
         /\ Field(t, "target") = t.obj["target"] /\ Field(t, "target") \in Numbers
BY DEF TrackShape, TrackRecords, Object, Field, IsObject

\* The fields of a project.
LEMMA DocFields ==
  ASSUME NEW d \in DocShape
  PROVE  /\ d = Object(d.obj)
         /\ DOMAIN d.obj = {"tempo", "next", "lanes", "tracks"}
         /\ Field(d, "tempo") = d.obj["tempo"] /\ Field(d, "tempo") \in Levels
         /\ Field(d, "next") = d.obj["next"] /\ Field(d, "next") \in Numbers
         /\ Field(d, "lanes") = d.obj["lanes"] /\ Field(d, "lanes") \in LaneLists
         /\ Field(d, "tracks") = d.obj["tracks"] /\ Field(d, "tracks") \in TrackLists
BY DEF DocShape, DocRecords, Object, Field, IsObject

\* An object with the fields of a track is one.
LEMMA TrackOfFields ==
  ASSUME NEW f, f = [k \in {"id", "level", "target"} |-> f[k]],
         f["id"] \in Identities, f["level"] \in Levels, f["target"] \in Numbers
  PROVE  /\ Object(f) \in TrackShape
         /\ \A k \in {"id", "level", "target"} : Field(Object(f), k) = f[k]
<1>1. f \in TrackRecords
  BY DEF TrackRecords
<1> QED BY <1>1 DEF TrackShape, Object, Field, IsObject

\* An object with the fields of a project is one.
LEMMA DocOfFields ==
  ASSUME NEW f, f = [k \in {"tempo", "next", "lanes", "tracks"} |-> f[k]],
         f["tempo"] \in Levels, f["next"] \in Numbers, f["lanes"] \in LaneLists, f["tracks"] \in TrackLists
  PROVE  /\ Object(f) \in DocShape
         /\ \A k \in {"tempo", "next", "lanes", "tracks"} : Field(Object(f), k) = f[k]
<1>1. f \in DocRecords
  BY DEF DocRecords
<1> QED BY <1>1 DEF DocShape, Object, Field, IsObject

\* A track is what its fields are.
LEMMA SameTrack ==
  ASSUME NEW s \in TrackShape, NEW t \in TrackShape,
         \A k \in {"id", "level", "target"} : Field(s, k) = Field(t, k)
  PROVE  s = t
<1>1. s.obj \in TrackRecords /\ t.obj \in TrackRecords
  BY DEF TrackShape
<1>2. s.obj["id"] = t.obj["id"] /\ s.obj["level"] = t.obj["level"] /\ s.obj["target"] = t.obj["target"]
  BY TrackFields
<1>3. s.obj = t.obj
  BY <1>1, <1>2 DEF TrackRecords
<1> QED BY <1>3, TrackFields

\* The cases of merge_scalar.
LEMMA ScalarMerge ==
  ASSUME NEW a, NEW l, NEW r, NEW path
  PROVE  /\ l = a => MergeScalar(a, l, r, path) = Merged(r)
         /\ r = a => MergeScalar(a, l, r, path) = Merged(l)
         /\ l = r => MergeScalar(a, l, r, path) = Merged(l)
         /\ l # a /\ r # a /\ l # r => MergeScalar(a, l, r, path) = Conflict(path, a, l, r)
BY DEF MergeScalar

\* A key that three objects have merges as its value does.
LEMMA KeyOfScalars ==
  ASSUME NEW a, NEW l, NEW r, NEW path, a # Nothing, l # Nothing, r # Nothing
  PROVE  MergeKey(MergeScalar, a, l, r, path) = MergeScalar(a, l, r, path)
BY DEF MergeKey, MergeField, MergeScalar

\* The conflict that one field, or one position, can be in.
FieldConflict(path, a, l, r) == [path |-> path, ancestor |-> a, local |-> l, remote |-> r]

\* A merge in conflict c, or in none, which has the local value if it is.
AtMost(merge, c, local) ==
    (merge.conflicts = <<>> \/ merge.conflicts = <<c>>) /\ (merge.conflicts # <<>> => merge.value = local)

\* A scalar is in at most one conflict, and has the local value then.
LEMMA ScalarConflicts ==
  ASSUME NEW a, NEW l, NEW r, NEW path
  PROVE  /\ AtMost(MergeScalar(a, l, r, path), FieldConflict(path, a, l, r), l)
         /\ MergeScalar(a, l, r, path).value \in {l, r}
         /\ MergeScalar(a, l, r, path).conflicts \in Seq({FieldConflict(path, a, l, r)})
<1>1. /\ MergeScalar(a, l, r, path).conflicts \in {<<>>, <<FieldConflict(path, a, l, r)>>}
      /\ MergeScalar(a, l, r, path).conflicts # <<>> => MergeScalar(a, l, r, path).value = l
      /\ MergeScalar(a, l, r, path).value \in {l, r}
  BY DEF MergeScalar, Merged, Conflict, FieldConflict
<1> DEFINE c == FieldConflict(path, a, l, r)
<1> HIDE DEF c
<1>2. <<>> \in Seq({c}) /\ <<c>> \in Seq({c})
  OBVIOUS
<1>3. {<<>>, <<c>>} \subseteq Seq({c})
  BY <1>2
<1>4. AtMost(MergeScalar(a, l, r, path), FieldConflict(path, a, l, r), l)
  BY <1>1 DEF AtMost
<1> QED BY <1>1, <1>3, <1>4 DEF c

\* Nothing joined to a sequence.
LEMMA EmptyFirst ==
  ASSUME NEW V, NEW s \in Seq(V), NEW none, none = <<>>
  PROVE  none \o s = s /\ s \o none = s
BY ConcatEmptySeq

\* The merge of one field of three objects that all have it.
FieldMerge(a, l, r, k, path) ==
    MergeScalar(Field(a, k), Field(l, k), Field(r, k), Append(path, [key |-> k]))

\* What merge_objects gives for the keys of a set.
KeyMerges(Keys, a, l, r, path) ==
    [k \in Keys |-> MergeKey(MergeScalar, Field(a, k), Field(l, k), Field(r, k), Append(path, [key |-> k]))]

\* The merge of three tracks of one identity is a track of that identity.
TrackMerged(a, l, r, path, merge) ==
    /\ merge.value \in TrackShape
    /\ merge = [value |-> merge.value, conflicts |-> merge.conflicts]
    /\ IdOf(merge.value) = IdOf(a)
    /\ Field(merge.value, "level") = FieldMerge(a, l, r, "level", path).value
    /\ Field(merge.value, "target") = FieldMerge(a, l, r, "target", path).value
    /\ merge.conflicts =
           FieldMerge(a, l, r, "level", path).conflicts \o FieldMerge(a, l, r, "target", path).conflicts

\* Three tracks of one identity merge field by field into one of that identity.
LEMMA TrackMerge ==
  ASSUME NEW a \in TrackShape, NEW l \in TrackShape, NEW r \in TrackShape, NEW path,
         IdOf(l) = IdOf(a), IdOf(r) = IdOf(a)
  PROVE  TrackMerged(a, l, r, path, MergeInList(a, l, r, path))
<1> DEFINE Keys == {"id", "level", "target"}
           out == KeyMerges(Keys, a, l, r, path)
           at(k) == IF k \in Keys THEN out[k].conflicts ELSE <<>>
           values == [k \in Keys |-> out[k].value]
           id == FieldMerge(a, l, r, "id", path)
           level == FieldMerge(a, l, r, "level", path)
           target == FieldMerge(a, l, r, "target", path)
<1>1. /\ Field(a, "id") # Nothing /\ Field(l, "id") # Nothing /\ Field(r, "id") # Nothing
      /\ Field(a, "level") # Nothing /\ Field(l, "level") # Nothing /\ Field(r, "level") # Nothing
      /\ Field(a, "target") # Nothing /\ Field(l, "target") # Nothing /\ Field(r, "target") # Nothing
  <2>1. \A t \in TrackShape : Field(t, "id") \in Identities /\ Field(t, "level") \in Levels /\ Field(t, "target") \in Numbers
    BY TrackFields
  <2>2. \A x \in Identities : x # Nothing
    BY PresentValues
  <2>3. \A x \in Levels : x # Nothing
    BY PresentValues DEF LaneValues
  <2>4. \A x \in Numbers : x # Nothing
    BY PresentValues
  <2> QED BY <2>1, <2>2, <2>3, <2>4
<1>2. out["id"] = id /\ out["level"] = level /\ out["target"] = target
  <2>1. out["id"] = id
    BY <1>1, KeyOfScalars DEF KeyMerges, FieldMerge
  <2>2. out["level"] = level
    BY <1>1, KeyOfScalars DEF KeyMerges, FieldMerge
  <2>3. out["target"] = target
    BY <1>1, KeyOfScalars DEF KeyMerges, FieldMerge
  <2> QED BY <2>1, <2>2, <2>3
<1>3. id.value = Field(a, "id") /\ id.conflicts = <<>>
  <2>1. Field(l, "id") = Field(a, "id") /\ Field(r, "id") = Field(a, "id")
    BY DEF IdOf
  <2>2. id = Merged(Field(a, "id"))
    BY <2>1, ScalarMerge DEF FieldMerge
  <2> QED BY <2>2 DEF Merged
<1>4. level.value \in Levels /\ target.value \in Numbers
  <2>1. level.value \in {Field(l, "level"), Field(r, "level")}
    BY ScalarConflicts DEF FieldMerge
  <2>2. target.value \in {Field(l, "target"), Field(r, "target")}
    BY ScalarConflicts DEF FieldMerge
  <2> QED BY <2>1, <2>2, TrackFields
<1>5. Field(a, "id") \in Identities
  BY TrackFields
<1> HIDE DEF id, level, target
<1>6. out["id"].value # Nothing /\ out["level"].value # Nothing /\ out["target"].value # Nothing
  <2>1. \A x \in Identities : x # Nothing
    BY PresentValues
  <2>2. \A x \in Levels : x # Nothing
    BY PresentValues DEF LaneValues
  <2>3. \A x \in Numbers : x # Nothing
    BY PresentValues
  <2> HIDE DEF out
  <2> QED BY <1>2, <1>3, <1>4, <1>5, <2>1, <2>2, <2>3
<1>7. IsObject(a) /\ IsObject(l) /\ IsObject(r) /\ DOMAIN a.obj \cup DOMAIN l.obj \cup DOMAIN r.obj = Keys
  <2>1. IsObject(a) /\ IsObject(l) /\ IsObject(r)
    BY PresentValues
  <2>2. DOMAIN a.obj = Keys /\ DOMAIN l.obj = Keys /\ DOMAIN r.obj = Keys
    BY TrackFields
  <2> QED BY <2>1, <2>2
<1>8. {k \in Keys : out[k].value # Nothing} = Keys
  <2> HIDE DEF out
  <2> QED BY <1>6
<1> DEFINE all == at("id") \o at("lanes") \o at("level") \o at("next") \o at("target")
                  \o at("tempo") \o at("tracks")
<1>9. MergeInList(a, l, r, path) = [value |-> Object(values), conflicts |-> all]
  <2>1. MergeInList(a, l, r, path) = MergeObjects(MergeScalar, a, l, r, path)
    BY <1>7 DEF MergeInList, MergeValues
  <2> QED BY <1>7, <1>8, <2>1 DEF MergeObjects, KeyMerges, InKeyOrder
<1>10. values["id"] = Field(a, "id") /\ values["level"] = level.value /\ values["target"] = target.value
  <2> HIDE DEF out
  <2> QED BY <1>2, <1>3
<1>11. values = [k \in Keys |-> values[k]]
  OBVIOUS
<1> HIDE DEF values
<1>12. Object(values) \in TrackShape /\ \A k \in Keys : Field(Object(values), k) = values[k]
  BY <1>4, <1>5, <1>10, <1>11, TrackOfFields
<1>13. all = level.conflicts \o target.conflicts
  <2> DEFINE none == <<>>
             c == FieldConflict(Append(path, [key |-> "level"]), Field(a, "level"), Field(l, "level"), Field(r, "level"))
             d == FieldConflict(Append(path, [key |-> "target"]), Field(a, "target"), Field(l, "target"), Field(r, "target"))
             V == {c, d}
             x == level.conflicts
             y == target.conflicts
  <2>1. at("id") = none /\ at("lanes") = none /\ at("next") = none /\ at("tempo") = none /\ at("tracks") = none
    <3> HIDE DEF out
    <3> QED BY <1>2, <1>3
  <2>2. at("level") = x /\ at("target") = y
    <3> HIDE DEF out
    <3> QED BY <1>2
  <2>3. x \in Seq({c}) /\ y \in Seq({d})
    BY ScalarConflicts DEF level, target, FieldMerge
  <2>4. none \in Seq(V)
    BY EmptySeq
  <2> HIDE DEF none, c, d, at, x, y
  <2>5. x \in Seq(V) /\ y \in Seq(V)
    BY <2>3, SeqMonotonic
  <2>6. \A s \in Seq(V) : none \o s = s /\ s \o none = s
    BY EmptyFirst DEF none
  <2> HIDE DEF V
  <2>7. x \o y \in Seq(V)
    BY <2>5, ConcatProperties
  <2>8. all = none \o none \o x \o none \o y \o none \o none
    BY <2>1, <2>2
  <2>9. none \o none = none /\ none \o x = x /\ x \o none = x /\ (x \o y) \o none = x \o y
    BY <2>4, <2>5, <2>6, <2>7
  <2>10. all = x \o y
    BY <2>8, <2>9
  <2> QED BY <2>10 DEF x, y
<1> HIDE DEF all
<1>14. /\ MergeInList(a, l, r, path).value = Object(values)
       /\ MergeInList(a, l, r, path).conflicts = level.conflicts \o target.conflicts
       /\ MergeInList(a, l, r, path) = [value     |-> MergeInList(a, l, r, path).value,
                                        conflicts |-> MergeInList(a, l, r, path).conflicts]
  <2>3. MergeInList(a, l, r, path) = [value     |-> MergeInList(a, l, r, path).value,
                                      conflicts |-> MergeInList(a, l, r, path).conflicts]
    BY <1>9
  <2>1. MergeInList(a, l, r, path).value = Object(values)
    BY <1>9
  <2>2. MergeInList(a, l, r, path).conflicts = all
    BY <1>9
  <2> QED BY <2>1, <2>2, <2>3, <1>13
<1>15. TrackMerged(a, l, r, path, MergeInList(a, l, r, path))
  <2>1. /\ FieldMerge(a, l, r, "level", path) = level
        /\ FieldMerge(a, l, r, "target", path) = target
    BY DEF level, target
  <2> DEFINE merge == MergeInList(a, l, r, path)
  <2> HIDE DEF merge
  <2>2. merge.value = Object(values) /\ merge.conflicts = level.conflicts \o target.conflicts
        /\ merge = [value |-> merge.value, conflicts |-> merge.conflicts]
    BY <1>14 DEF merge
  <2>3. TrackMerged(a, l, r, path, merge)
    BY <1>10, <1>12, <2>1, <2>2 DEF TrackMerged, IdOf
  <2> QED BY <2>3 DEF merge
<1> QED BY <1>15

-----------------------------------------------------------------------------
\* LISTS OF TRACKS

\* The k elements of out are the only elements of those of the first n
\* sequences of s that have one; the one at p comes from the sequence at h[p].
Picks(h, out, k, s, n) ==
    /\ \A p \in 1..k : h[p] \in 1..n /\ Len(s[h[p]]) = 1 /\ out[p] = s[h[p]][1]
    /\ \A p, q \in 1..k : h[p] = h[q] => p = q
    /\ \A i \in 1..n : Len(s[i]) = 1 => \E p \in 1..k : h[p] = i

\* Sequences of at most one element flatten into those elements.
LEMMA Selected ==
  ASSUME NEW V, NEW s \in Seq(Seq(V)), \A i \in 1..Len(s) : Len(s[i]) <= 1
  PROVE  /\ FlattenSeq(s) \in Seq(V)
         /\ \E h : Picks(h, FlattenSeq(s), Len(FlattenSeq(s)), s, Len(s))
<1> DEFINE out == FlattenSeq(s)
           k == Len(out)
           n == Len(s)
<1>1. out \in Seq(V) /\ Gathers(out, s, n)
  BY FlattenGathers
<1>2. PICK h, g : Origins(out, k, s, n, h, g)
  BY <1>1 DEF Gathers
<1>3. \A i \in 1..n : Len(s[i]) \in Nat
  OBVIOUS
<1> HIDE DEF out, k, n
<1>4. ASSUME NEW p \in 1..k PROVE h[p] \in 1..n /\ g[p] = 1 /\ Len(s[h[p]]) = 1 /\ out[p] = s[h[p]][1]
  <2>1. h[p] \in 1..n /\ g[p] \in 1..Len(s[h[p]]) /\ out[p] = s[h[p]][g[p]]
    BY <1>2 DEF Origins
  <2>2. Len(s[h[p]]) \in Nat /\ Len(s[h[p]]) <= 1
    BY <2>1, <1>3 DEF n
  <2>3. \A x \in Nat : \A y \in 1..x : x <= 1 => y = 1 /\ x = 1
    OBVIOUS
  <2>4. g[p] = 1 /\ Len(s[h[p]]) = 1
    BY <2>1, <2>2, <2>3
  <2> QED BY <2>1, <2>4
<1>5. ASSUME NEW p \in 1..k, NEW q \in 1..k, h[p] = h[q] PROVE p = q
  <2>1. g[p] = g[q]
    BY <1>4
  <2> QED BY <2>1, <1>2, <1>5 DEF Origins
<1>6. ASSUME NEW i \in 1..n, Len(s[i]) = 1 PROVE \E p \in 1..k : h[p] = i
  <2>1. 1 \in 1..Len(s[i])
    BY <1>6
  <2> QED BY <2>1, <1>2 DEF Origins
<1>7. Picks(h, out, k, s, n)
  BY <1>4, <1>5, <1>6 DEF Picks
<1> QED BY <1>1, <1>7 DEF out, k, n

\* Sequences of tracks with an identity each.
UniqueIds(s) == \A i, j \in 1..Len(s) : IdOf(s[i]) = IdOf(s[j]) => i = j
UniqueTracks == {s \in Seq(TrackShape) : UniqueIds(s)}

\* A track of its own identity is found under it.
LEMMA ByIdFinds ==
  ASSUME NEW s \in Seq(TrackShape), UniqueIds(s), NEW i \in 1..Len(s)
  PROVE  ById(s, IdOf(s[i])) = s[i]
<1> DEFINE found == {j \in DOMAIN s : IdOf(s[j]) = IdOf(s[i])}
<1>1. found = {i}
  BY DEF UniqueIds
<1>2. Max(found) = i
  <2>1. i >= i
    OBVIOUS
  <2> QED BY <1>1, <2>1 DEF Max
<1>3. ById(s, IdOf(s[i])) = IF found = {} THEN Nothing ELSE s[Max(found)]
  BY DEF ById
<1> HIDE DEF found
<1> QED BY <1>1, <1>2, <1>3

\* Nothing is found under an identity no track has.
LEMMA ByIdMisses ==
  ASSUME NEW s \in Seq(TrackShape), NEW id, \A i \in 1..Len(s) : IdOf(s[i]) # id
  PROVE  ById(s, id) = Nothing
<1>1. {j \in DOMAIN s : IdOf(s[j]) = id} = {}
  OBVIOUS
<1> QED BY <1>1 DEF ById

\* What is found under an identity is the one track that has it, or nothing.
LEMMA ByIdCases ==
  ASSUME NEW s \in UniqueTracks, NEW id
  PROVE  \/ /\ ById(s, id) = Nothing
            /\ \A i \in 1..Len(s) : IdOf(s[i]) # id
         \/ \E i \in 1..Len(s) : /\ ById(s, id) = s[i] /\ s[i] \in TrackShape
                                 /\ IdOf(s[i]) = id /\ s[i] # Nothing
<1>1. s \in Seq(TrackShape) /\ UniqueIds(s)
  BY DEF UniqueTracks
<1>2. CASE \A i \in 1..Len(s) : IdOf(s[i]) # id
  BY <1>1, <1>2, ByIdMisses
<1>3. CASE \E i \in 1..Len(s) : IdOf(s[i]) = id
  <2>1. PICK i \in 1..Len(s) : IdOf(s[i]) = id
    BY <1>3
  <2>2. s[i] \in TrackShape
    BY <1>1
  <2>3. s[i] # Nothing
    BY <2>2, PresentValues
  <2>4. ById(s, id) = s[i]
    BY <1>1, <2>1, ByIdFinds
  <2> QED BY <2>1, <2>2, <2>3, <2>4
<1> QED BY <1>2, <1>3

\* Lists of tracks without a common identity, one after the other.
LEMMA JoinTracks ==
  ASSUME NEW s \in UniqueTracks, NEW t \in UniqueTracks,
         \A i \in 1..Len(s) : \A j \in 1..Len(t) : IdOf(s[i]) # IdOf(t[j])
  PROVE  /\ s \o t \in UniqueTracks
         /\ \A id : ById(s \o t, id) = IF ById(s, id) # Nothing THEN ById(s, id) ELSE ById(t, id)
<1> DEFINE u == s \o t
           m == Len(s)
           n == Len(t)
<1>1. s \in Seq(TrackShape) /\ UniqueIds(s) /\ t \in Seq(TrackShape) /\ UniqueIds(t) /\ m \in Nat /\ n \in Nat
  BY DEF UniqueTracks
<1>2. u \in Seq(TrackShape) /\ Len(u) = m + n /\ \A i \in 1..(m + n) : u[i] = IF i <= m THEN s[i] ELSE t[i - m]
  BY <1>1, ConcatProperties
<1> HIDE DEF u, m, n
<1>3. \A i \in 1..(m + n) : i <= m => i \in 1..m /\ u[i] = s[i]
  BY <1>1, <1>2
<1>4. \A i \in 1..(m + n) : ~(i <= m) => i - m \in 1..n /\ u[i] = t[i - m] /\ i = (i - m) + m
  BY <1>1, <1>2
<1>5. ASSUME NEW i \in 1..(m + n), NEW j \in 1..(m + n), IdOf(u[i]) = IdOf(u[j]) PROVE i = j
  <2>1. CASE i <= m /\ j <= m
    BY <2>1, <1>1, <1>3, <1>5 DEF UniqueIds, m
  <2>2. CASE ~(i <= m) /\ ~(j <= m)
    <3>1. i - m = j - m
      BY <2>2, <1>1, <1>4, <1>5 DEF UniqueIds, n
    <3> QED BY <3>1, <2>2, <1>4
  <2>3. CASE i <= m /\ ~(j <= m)
    BY <2>3, <1>3, <1>4, <1>5 DEF m, n
  <2>4. CASE ~(i <= m) /\ j <= m
    BY <2>4, <1>3, <1>4, <1>5 DEF m, n
  <2> QED BY <2>1, <2>2, <2>3, <2>4
<1>6. UniqueIds(u) /\ u \in UniqueTracks
  BY <1>2, <1>5 DEF UniqueIds, UniqueTracks
<1>7. ASSUME NEW id PROVE ById(u, id) = IF ById(s, id) # Nothing THEN ById(s, id) ELSE ById(t, id)
  <2>1. CASE \E i \in 1..m : IdOf(s[i]) = id
    <3>1. PICK i \in 1..m : IdOf(s[i]) = id
      BY <2>1
    <3>2. i \in 1..(m + n) /\ i <= m /\ i \in 1..Len(u) /\ i \in 1..Len(s)
      BY <1>1, <1>2 DEF m
    <3>3. u[i] = s[i]
      BY <1>3, <3>2
    <3>4. ById(u, id) = u[i]
      BY <1>2, <1>6, <3>1, <3>2, <3>3, ByIdFinds
    <3>5. ById(s, id) = s[i]
      BY <1>1, <3>1, <3>2, ByIdFinds
    <3>6. s[i] # Nothing
      <4>1. s[i] \in TrackShape
        BY <1>1, <3>2
      <4> QED BY <4>1, PresentValues
    <3> QED BY <3>3, <3>4, <3>5, <3>6
  <2>2. CASE ~\E i \in 1..m : IdOf(s[i]) = id
    <3>1. ById(s, id) = Nothing
      BY <1>1, <2>2, ByIdMisses DEF m
    <3>2. CASE \E j \in 1..n : IdOf(t[j]) = id
      <4>1. PICK j \in 1..n : IdOf(t[j]) = id
        BY <3>2
      <4>2. m + j \in 1..(m + n) /\ ~(m + j <= m) /\ (m + j) - m = j /\ j \in 1..Len(t) /\ m + j \in 1..Len(u)
        BY <1>1, <1>2 DEF n
      <4>3. u[m + j] = t[j]
        BY <1>4, <4>2
      <4>4. ById(u, id) = u[m + j]
        BY <1>2, <1>6, <4>1, <4>2, <4>3, ByIdFinds
      <4>5. ById(t, id) = t[j]
        BY <1>1, <4>1, <4>2, ByIdFinds
      <4> QED BY <3>1, <4>3, <4>4, <4>5
    <3>3. CASE ~\E j \in 1..n : IdOf(t[j]) = id
      <4>1. ById(t, id) = Nothing
        BY <1>1, <3>3, ByIdMisses DEF n
      <4>2. \A i \in 1..Len(u) : IdOf(u[i]) # id
        BY <1>2, <1>3, <1>4, <2>2, <3>3
      <4>3. ById(u, id) = Nothing
        BY <1>2, <4>2, ByIdMisses
      <4> QED BY <3>1, <4>1, <4>3
    <3> QED BY <3>2, <3>3
  <2> QED BY <2>1, <2>2
<1> QED BY <1>6, <1>7 DEF u

\* s has, for each track of `from', a sequence of at most one element, which
\* stands for a track of the same identity.
Keeps(s, track, from) ==
    /\ Len(s) = Len(from)
    /\ \A i \in 1..Len(from) : Len(s[i]) <= 1 /\ (Len(s[i]) = 1 => IdOf(track[s[i][1]]) = IdOf(from[i]))

\* out has the tracks that the elements of flat stand for.
Reads(out, track, flat) ==
    Len(out) = Len(flat) /\ \A p \in 1..Len(out) : out[p] = track[flat[p]]

\* out has what is left of the tracks of `from', under their identities.
Leaves(out, track, s, from) ==
    /\ out \in UniqueTracks
    /\ \A i \in 1..Len(from) : ById(out, IdOf(from[i])) = IF Len(s[i]) = 1 THEN track[s[i][1]] ELSE Nothing
    /\ \A p \in 1..Len(out) : \E i \in 1..Len(from) : IdOf(out[p]) = IdOf(from[i])

\* What is kept of a list of tracks keeps its identities, and only its own.
LEMMA SelectedTracks ==
  ASSUME NEW from \in UniqueTracks, NEW V, NEW s \in Seq(Seq(V)), NEW track, NEW out \in Seq(TrackShape),
         Keeps(s, track, from), Reads(out, track, FlattenSeq(s))
  PROVE  Leaves(out, track, s, from)
<1> DEFINE k == Len(out)
           n == Len(from)
           flat == FlattenSeq(s)
<1>1. PICK h : Picks(h, flat, k, s, n)
  <2>1. \A i \in 1..Len(s) : Len(s[i]) <= 1
    BY DEF Keeps
  <2>2. \E h : Picks(h, flat, Len(flat), s, Len(s))
    BY <2>1, Selected
  <2> QED BY <2>2 DEF Keeps, Reads
<1>2. from \in Seq(TrackShape) /\ UniqueIds(from)
  BY DEF UniqueTracks
<1>3. \A p \in 1..k : h[p] \in 1..n /\ Len(s[h[p]]) = 1 /\ out[p] = track[s[h[p]][1]] /\ IdOf(out[p]) = IdOf(from[h[p]])
  <2>1. ASSUME NEW p \in 1..k
        PROVE  h[p] \in 1..n /\ Len(s[h[p]]) = 1 /\ flat[p] = s[h[p]][1]
    BY <1>1 DEF Picks
  <2> QED BY <2>1 DEF Keeps, Reads
<1> HIDE DEF flat, k, n
<1>4. ASSUME NEW p \in 1..k, NEW q \in 1..k, IdOf(out[p]) = IdOf(out[q]) PROVE p = q
  <2>1. h[p] = h[q]
    <3>1. h[p] \in 1..Len(from) /\ h[q] \in 1..Len(from) /\ IdOf(from[h[p]]) = IdOf(from[h[q]])
      BY <1>3, <1>4 DEF n
    <3> QED BY <1>2, <3>1 DEF UniqueIds
  <2> QED BY <2>1, <1>1 DEF Picks
<1>5. UniqueIds(out)
  BY <1>4 DEF UniqueIds, k
<1>6. ASSUME NEW i \in 1..n PROVE ById(out, IdOf(from[i])) = IF Len(s[i]) = 1 THEN track[s[i][1]] ELSE Nothing
  <2>1. CASE Len(s[i]) = 1
    <3>1. PICK p \in 1..k : h[p] = i
      BY <1>1, <2>1 DEF Picks
    <3>2. out[p] = track[s[i][1]] /\ IdOf(out[p]) = IdOf(from[i]) /\ p \in 1..Len(out)
      BY <1>3, <3>1 DEF k
    <3>3. ById(out, IdOf(out[p])) = out[p]
      BY <1>5, <3>2, ByIdFinds
    <3> QED BY <2>1, <3>2, <3>3
  <2>2. CASE Len(s[i]) # 1
    <3>1. ASSUME NEW p \in 1..k PROVE IdOf(out[p]) # IdOf(from[i])
      <4>1. h[p] # i
        BY <1>3, <2>2
      <4>2. IdOf(from[h[p]]) # IdOf(from[i])
        BY <1>2, <1>3, <4>1 DEF UniqueIds, n
      <4> QED BY <4>2, <1>3
    <3>2. ById(out, IdOf(from[i])) = Nothing
      BY <3>1, ByIdMisses DEF k
    <3> QED BY <2>2, <3>2
  <2> QED BY <2>1, <2>2
<1> QED BY <1>3, <1>5, <1>6 DEF k, n, UniqueTracks, Leaves

\* The additions of one side are its tracks that none of the others has.
LEMMA NewTracks ==
  ASSUME NEW s \in UniqueTracks, NEW others
  PROVE  /\ New(s, others) \in UniqueTracks
         /\ \A id : ById(New(s, others), id) =
                IF \A v \in others : ById(v, id) = Nothing THEN ById(s, id) ELSE Nothing
         /\ \A p \in 1..Len(New(s, others)) : \E i \in 1..Len(s) : IdOf(New(s, others)[p]) = IdOf(s[i])
<1> DEFINE parts == [i \in DOMAIN s |->
                        IF \A v \in others : ById(v, IdOf(s[i])) = Nothing THEN <<s[i]>> ELSE <<>>]
           out == FlattenSeq(parts)
           track == [t \in TrackShape |-> t]
           n == Len(s)
<1>1. s \in Seq(TrackShape) /\ UniqueIds(s) /\ DOMAIN s = 1..n /\ n \in Nat
  BY DEF UniqueTracks
<1>2. parts \in Seq(Seq(TrackShape)) /\ Len(parts) = n
  BY <1>1
<1>3. out = New(s, others)
  BY DEF New
<1>4. ASSUME NEW i \in 1..n
      PROVE  /\ (\A v \in others : ById(v, IdOf(s[i])) = Nothing) => parts[i] = <<s[i]>>
             /\ ~(\A v \in others : ById(v, IdOf(s[i])) = Nothing) => parts[i] = <<>>
             /\ s[i] \in TrackShape
  BY <1>1
<1>5. ASSUME NEW i \in 1..n
      PROVE  /\ Len(parts[i]) <= 1
             /\ Len(parts[i]) = 1 <=> \A v \in others : ById(v, IdOf(s[i])) = Nothing
             /\ Len(parts[i]) = 1 => track[parts[i][1]] = s[i]
  <2> HIDE DEF parts
  <2>1. CASE \A v \in others : ById(v, IdOf(s[i])) = Nothing
    <3>1. parts[i] = <<s[i]>> /\ s[i] \in TrackShape
      BY <1>4, <2>1
    <3> QED BY <2>1, <3>1
  <2>2. CASE ~\A v \in others : ById(v, IdOf(s[i])) = Nothing
    <3>1. parts[i] = <<>>
      BY <1>4, <2>2
    <3> QED BY <2>2, <3>1
  <2> QED BY <2>1, <2>2
<1> HIDE DEF parts
<1>6. out \in Seq(TrackShape)
  BY <1>2, FlattenGathers
<1>7. \A p \in 1..Len(out) : out[p] = track[out[p]]
  BY <1>6
<1> HIDE DEF track
<1>8. /\ out \in UniqueTracks
      /\ \A i \in 1..n : ById(out, IdOf(s[i])) = IF Len(parts[i]) = 1 THEN track[parts[i][1]] ELSE Nothing
      /\ \A p \in 1..Len(out) : \E i \in 1..n : IdOf(out[p]) = IdOf(s[i])
  <2>1. Keeps(parts, track, s)
    BY <1>2, <1>5 DEF Keeps
  <2>2. Reads(out, track, FlattenSeq(parts))
    BY <1>7 DEF Reads
  <2> HIDE DEF out
  <2>3. Leaves(out, track, parts, s)
    BY <2>1, <2>2, <1>2, <1>6, SelectedTracks
  <2> QED BY <2>3 DEF Leaves
<1>9. ASSUME NEW id
      PROVE  ById(out, id) = IF \A v \in others : ById(v, id) = Nothing THEN ById(s, id) ELSE Nothing
  <2> HIDE DEF out
  <2>1. CASE \E i \in 1..n : IdOf(s[i]) = id
    <3>1. PICK i \in 1..n : IdOf(s[i]) = id
      BY <2>1
    <3>2. ById(s, id) = s[i]
      BY <1>1, <3>1, ByIdFinds
    <3> QED BY <1>5, <1>8, <3>1, <3>2
  <2>2. CASE ~\E i \in 1..n : IdOf(s[i]) = id
    <3>1. ById(s, id) = Nothing
      BY <1>1, <2>2, ByIdMisses
    <3>2. \A p \in 1..Len(out) : IdOf(out[p]) # id
      BY <1>8, <2>2
    <3>3. ById(out, id) = Nothing
      BY <1>6, <3>2, ByIdMisses DEF out
    <3> QED BY <3>1, <3>3
  <2> QED BY <2>1, <2>2
<1> HIDE DEF out
<1> QED BY <1>3, <1>8, <1>9

-----------------------------------------------------------------------------
\* CONFLICTS

\* The paths a conflict of a project can have, and what it can be about.
TracksPath == <<[key |-> "tracks"]>>
TrackPath(x) == <<[key |-> "tracks"], [id |-> x]>>
FieldPath(x, k) == <<[key |-> "tracks"], [id |-> x], [key |-> k]>>
LanePath(i) == <<[key |-> "lanes"], [index |-> i]>>
KeyPath(k) == <<[key |-> k]>>
TrackKeys == {"level", "target"}
ProjectPaths ==
    {KeyPath(k) : k \in {"tempo", "next"}} \cup {LanePath(i) : i \in Nat}
    \cup {FieldPath(x, k) : x \in TrackId, k \in TrackKeys}
FieldValues == Levels \cup Numbers \cup {Null}
ConflictShape == [path : ProjectPaths, ancestor : FieldValues, local : FieldValues, remote : FieldValues]
ResultShape == [value : TrackShape, conflicts : Seq(ConflictShape)]
KindOf(k) == IF k = "level" THEN Levels ELSE Numbers

\* c is about a field of the track t, which has the local value.
InTrack(c, t) ==
    \E k \in TrackKeys :
        /\ c.path = FieldPath(IdOf(t).is, k)
        /\ c.local = Field(t, k)
        /\ c.remote \in KindOf(k)

\* No two conflicts of s are about one place.
OneEach(s) == \A i, j \in 1..Len(s) : s[i].path = s[j].path => i = j

\* The conflicts of a merged track.
TrackResult(e) ==
    /\ e \in ResultShape
    /\ \A i \in 1..Len(e.conflicts) : InTrack(e.conflicts[i], e.value)
    /\ OneEach(e.conflicts)

\* Short paths.
LEMMA ShortSequences ==
  ASSUME NEW S, NEW u \in S, NEW v \in S, NEW w \in S
  PROVE  /\ Append(<<>>, u) = <<u>>
         /\ Append(<<u>>, v) = <<u, v>>
         /\ Append(<<u, v>>, w) = <<u, v, w>>
         /\ <<u>> \o <<v>> = <<u, v>>
<1>1. Append(<<>>, u) = <<u>>
  OBVIOUS
<1>2. Append(<<u>>, v) = <<u, v>>
  <2>1. <<u>> \in Seq(S) /\ <<u, v>> \in Seq(S)
    OBVIOUS
  <2>2. Append(<<u>>, v) \in Seq(S) /\ Len(Append(<<u>>, v)) = 2 /\ Len(<<u, v>>) = 2
    BY <2>1
  <2>3. \A i \in 1..2 : Append(<<u>>, v)[i] = <<u, v>>[i]
    BY <2>1
  <2> QED BY <2>1, <2>2, <2>3, SeqEqual
<1>3. Append(<<u, v>>, w) = <<u, v, w>>
  <2>1. <<u, v>> \in Seq(S) /\ <<u, v, w>> \in Seq(S)
    OBVIOUS
  <2>2. Append(<<u, v>>, w) \in Seq(S) /\ Len(Append(<<u, v>>, w)) = 3 /\ Len(<<u, v, w>>) = 3
    BY <2>1
  <2>3. \A i \in 1..3 : Append(<<u, v>>, w)[i] = <<u, v, w>>[i]
    BY <2>1
  <2> QED BY <2>1, <2>2, <2>3, SeqEqual
<1>4. <<u>> \o <<v>> = <<u, v>>
  <2>1. <<u>> \in Seq(S) /\ <<v>> \in Seq(S) /\ <<u, v>> \in Seq(S)
    OBVIOUS
  <2>2. <<u>> \o <<v>> \in Seq(S) /\ Len(<<u>> \o <<v>>) = 2 /\ Len(<<u, v>>) = 2
    BY <2>1
  <2>3. \A i \in 1..2 : (<<u>> \o <<v>>)[i] = <<u, v>>[i]
    BY <2>1
  <2> QED BY <2>1, <2>2, <2>3, SeqEqual
<1> QED BY <1>1, <1>2, <1>3, <1>4

\* The paths to a track and to its fields.
LEMMA TrackPaths ==
  ASSUME NEW x
  PROVE  /\ Append(TracksPath, [id |-> x]) = TrackPath(x)
         /\ \A k : Append(TrackPath(x), [key |-> k]) = FieldPath(x, k)
<1> DEFINE u == [key |-> "tracks"]
           v == [id |-> x]
<1>1. TracksPath = <<u>> /\ TrackPath(x) = <<u, v>> /\ \A k : FieldPath(x, k) = <<u, v, [key |-> k]>>
  BY DEF TracksPath, TrackPath, FieldPath
<1> HIDE DEF u, v
<1>2. Append(TracksPath, v) = TrackPath(x)
  <2>1. Append(<<u>>, v) = <<u, v>>
    <3> u \in {u, v} /\ v \in {u, v}
      OBVIOUS
    <3> QED BY ShortSequences
  <2> QED BY <1>1, <2>1
<1>3. ASSUME NEW k PROVE Append(TrackPath(x), [key |-> k]) = FieldPath(x, k)
  <2> DEFINE w == [key |-> k]
  <2>1. FieldPath(x, k) = <<u, v, w>>
    BY <1>1
  <2> HIDE DEF w
  <2>2. Append(<<u, v>>, w) = <<u, v, w>>
    <3> u \in {u, v, w} /\ v \in {u, v, w} /\ w \in {u, v, w}
      OBVIOUS
    <3> QED BY ShortSequences
  <2>3. Append(TrackPath(x), w) = FieldPath(x, k)
    BY <1>1, <2>1, <2>2
  <2> QED BY <2>3 DEF w
<1> QED BY <1>2, <1>3 DEF v

\* A merged track is in conflict about its own fields, once each, with the
\* local values.
LEMMA TrackConflicts ==
  ASSUME NEW a \in TrackShape, NEW l \in TrackShape, NEW r \in TrackShape,
         IdOf(l) = IdOf(a), IdOf(r) = IdOf(a)
  PROVE  TrackResult(MergeInList(a, l, r, TrackPath(IdOf(a).is)))
<1> DEFINE x == IdOf(a).is
           path == TrackPath(x)
           merge == MergeInList(a, l, r, path)
           level == FieldMerge(a, l, r, "level", path)
           target == FieldMerge(a, l, r, "target", path)
           c == FieldConflict(FieldPath(x, "level"), Field(a, "level"), Field(l, "level"), Field(r, "level"))
           d == FieldConflict(FieldPath(x, "target"), Field(a, "target"), Field(l, "target"), Field(r, "target"))
<1> HIDE DEF path
<1>1. /\ merge.value \in TrackShape
      /\ merge = [value |-> merge.value, conflicts |-> merge.conflicts]
      /\ IdOf(merge.value) = IdOf(a)
      /\ Field(merge.value, "level") = level.value
      /\ Field(merge.value, "target") = target.value
      /\ merge.conflicts = level.conflicts \o target.conflicts
  <2> HIDE DEF merge, level, target
  <2>1. TrackMerged(a, l, r, path, merge)
    BY TrackMerge DEF merge
  <2>2. /\ FieldMerge(a, l, r, "level", path) = level
        /\ FieldMerge(a, l, r, "target", path) = target
    BY DEF level, target
  <2> QED BY <2>1, <2>2 DEF TrackMerged
<1>2. Append(path, [key |-> "level"]) = FieldPath(x, "level") /\ Append(path, [key |-> "target"]) = FieldPath(x, "target")
  BY TrackPaths DEF path
<1>3. /\ level.conflicts \in {<<>>, <<c>>} /\ (level.conflicts # <<>> => level.value = Field(l, "level"))
      /\ target.conflicts \in {<<>>, <<d>>} /\ (target.conflicts # <<>> => target.value = Field(l, "target"))
  <2>1. level = MergeScalar(Field(a, "level"), Field(l, "level"), Field(r, "level"), FieldPath(x, "level"))
    BY <1>2 DEF FieldMerge
  <2>2. target = MergeScalar(Field(a, "target"), Field(l, "target"), Field(r, "target"), FieldPath(x, "target"))
    BY <1>2 DEF FieldMerge
  <2>5. ASSUME NEW u, NEW v, NEW w, NEW p PROVE AtMost(MergeScalar(u, v, w, p), FieldConflict(p, u, v, w), v)
    BY ScalarConflicts
  <2> HIDE DEF level, target
  <2>3. AtMost(level, c, Field(l, "level"))
    BY <2>1, <2>5
  <2>4. AtMost(target, d, Field(l, "target"))
    BY <2>2, <2>5
  <2> HIDE DEF level, target, c, d
  <2> QED BY <2>3, <2>4 DEF AtMost
<1>4. c \in ConflictShape /\ d \in ConflictShape
  <2>1. x \in TrackId
    BY TrackFields DEF IdOf, Identities
  <2>2. FieldPath(x, "level") \in ProjectPaths /\ FieldPath(x, "target") \in ProjectPaths
    BY <2>1 DEF ProjectPaths, TrackKeys
  <2>3. \A t \in TrackShape : Field(t, "level") \in FieldValues /\ Field(t, "target") \in FieldValues
    BY TrackFields DEF FieldValues
  <2> QED BY <2>2, <2>3 DEF FieldConflict, ConflictShape
<1>5. FieldPath(x, "level") # FieldPath(x, "target")
  BY DEF FieldPath
<1>6. /\ c.path = FieldPath(x, "level") /\ c.local = Field(l, "level") /\ c.remote \in KindOf("level")
      /\ d.path = FieldPath(x, "target") /\ d.local = Field(l, "target") /\ d.remote \in KindOf("target")
  BY TrackFields DEF FieldConflict, KindOf
<1> HIDE DEF c, d, level, target, merge, path, x
<1>7. level.conflicts # <<>> => InTrack(c, merge.value)
  BY <1>1, <1>3, <1>6 DEF InTrack, TrackKeys, x
<1>8. target.conflicts # <<>> => InTrack(d, merge.value)
  BY <1>1, <1>3, <1>6 DEF InTrack, TrackKeys, x
<1>9. /\ merge.conflicts \in Seq(ConflictShape)
      /\ \A i \in 1..Len(merge.conflicts) : InTrack(merge.conflicts[i], merge.value)
      /\ OneEach(merge.conflicts)
  <2>1. CASE level.conflicts = <<>> /\ target.conflicts = <<>>
    <3>1. merge.conflicts = <<>>
      BY <1>1, <2>1
    <3> QED BY <3>1 DEF OneEach
  <2>2. CASE level.conflicts = <<>> /\ target.conflicts = <<d>>
    <3>1. merge.conflicts = <<d>>
      BY <1>1, <2>2
    <3>2. InTrack(d, merge.value)
      BY <1>8, <2>2
    <3> QED BY <1>4, <3>1, <3>2 DEF OneEach
  <2>3. CASE level.conflicts = <<c>> /\ target.conflicts = <<>>
    <3>1. merge.conflicts = <<c>>
      BY <1>1, <2>3
    <3>2. InTrack(c, merge.value)
      BY <1>7, <2>3
    <3> QED BY <1>4, <3>1, <3>2 DEF OneEach
  <2>4. CASE level.conflicts = <<c>> /\ target.conflicts = <<d>>
    <3>6. c \in {c, d} /\ d \in {c, d}
      OBVIOUS
    <3>7. <<c>> \o <<d>> = <<c, d>>
      BY <3>6, ShortSequences
    <3>1. merge.conflicts = <<c, d>>
      BY <1>1, <2>4, <3>7
    <3>2. InTrack(c, merge.value) /\ InTrack(d, merge.value)
      BY <1>7, <1>8, <2>4
    <3>3. c.path # d.path
      BY <1>5, <1>6
    <3>4. Len(<<c, d>>) = 2 /\ <<c, d>>[1] = c /\ <<c, d>>[2] = d /\ <<c, d>> \in Seq(ConflictShape)
      BY <1>4
    <3>5. \A i \in 1..2 : i = 1 \/ i = 2
      OBVIOUS
    <3> QED BY <3>1, <3>2, <3>3, <3>4, <3>5 DEF OneEach
  <2> QED BY <1>3, <2>1, <2>2, <2>3, <2>4
<1>10. merge \in ResultShape
  BY <1>1, <1>9 DEF ResultShape
<1> QED BY <1>9, <1>10 DEF TrackResult, merge, path, x

\* What is left of a track of the ancestor; `inside' is its merge.
KeptTrack(a, l, r, inside) ==
    CASE l = Nothing /\ r = Nothing -> Nothing
      [] l # Nothing /\ r = Nothing -> IF l # a THEN l ELSE Nothing
      [] l = Nothing /\ r # Nothing -> IF r # a THEN r ELSE Nothing
      [] OTHER -> inside

\* A track that is taken as it is has no conflicts.
LEMMA UntouchedResult ==
  ASSUME NEW t \in TrackShape
  PROVE  TrackResult(Merged(t)) /\ Merged(t).value = t
<1>1. Merged(t) \in ResultShape /\ Merged(t).value = t /\ Merged(t).conflicts = <<>>
  BY DEF Merged, ResultShape
<1> QED BY <1>1 DEF TrackResult, OneEach

\* A track of the ancestor leaves one track of its identity, or none.
LEMMA SharedElement ==
  ASSUME NEW av \in TrackShape, NEW l \in UniqueTracks, NEW r \in UniqueTracks
  PROVE  LET id == IdOf(av)
             e == MergeShared(MergeInList, av, l, r, TracksPath)
             inside == MergeInList(av, ById(l, id), ById(r, id), TrackPath(id.is))
         IN  /\ e \in Seq(ResultShape)
             /\ Len(e) <= 1
             /\ Len(e) = 1 => TrackResult(e[1]) /\ IdOf(e[1].value) = id
             /\ KeptTrack(av, ById(l, id), ById(r, id), inside.value) = IF Len(e) = 1 THEN e[1].value ELSE Nothing
<1> DEFINE id == IdOf(av)
           e == MergeShared(MergeInList, av, l, r, TracksPath)
           lv == ById(l, id)
           rv == ById(r, id)
           inside == MergeInList(av, lv, rv, TrackPath(id.is))
           kept == KeptTrack(av, lv, rv, inside.value)
<1>1. Append(TracksPath, [id |-> IdOf(av).is]) = TrackPath(id.is)
  BY TrackPaths
<1>2. e = MergeElement(av, lv, rv, inside)
  BY <1>1 DEF MergeShared
<1>3. lv = Nothing \/ (lv \in TrackShape /\ IdOf(lv) = id /\ lv # Nothing)
  BY ByIdCases
<1>4. rv = Nothing \/ (rv \in TrackShape /\ IdOf(rv) = id /\ rv # Nothing)
  BY ByIdCases
<1> HIDE DEF e, lv, rv, inside, id
<1> DEFINE Good(x) == x \in Seq(ResultShape) /\ Len(x) <= 1
                      /\ (Len(x) = 1 => TrackResult(x[1]) /\ IdOf(x[1].value) = id)
                      /\ kept = IF Len(x) = 1 THEN x[1].value ELSE Nothing
<1>5. Good(e)
  <2>1. CASE e = <<>> /\ kept = Nothing
    <3> HIDE DEF kept
    <3> QED BY <2>1
  <2>2. ASSUME NEW t, e = <<t>>, TrackResult(t), IdOf(t.value) = id, kept = t.value PROVE Good(e)
    <3>1. t \in ResultShape
      BY <2>2 DEF TrackResult
    <3> HIDE DEF kept
    <3> QED BY <2>2, <3>1
  <2>3. CASE lv = Nothing /\ rv = Nothing
    <3>1. e = <<>>
      BY <2>3, <1>2 DEF MergeElement
    <3>2. kept = Nothing
      BY <2>3 DEF KeptTrack
    <3> QED BY <3>1, <3>2, <2>1
  <2>4. CASE lv # Nothing /\ rv = Nothing
    <3>1. CASE lv # av
      <4>1. e = <<Merged(lv)>> /\ kept = lv
        BY <2>4, <3>1, <1>2 DEF MergeElement, KeptTrack
      <4> QED BY <4>1, <2>2, <2>4, <1>3, UntouchedResult
    <3>2. CASE lv = av
      <4>1. e = <<>> /\ kept = Nothing
        BY <2>4, <3>2, <1>2 DEF MergeElement, KeptTrack
      <4> QED BY <4>1, <2>1
    <3> QED BY <3>1, <3>2
  <2>5. CASE lv = Nothing /\ rv # Nothing
    <3>1. CASE rv # av
      <4>1. e = <<Merged(rv)>> /\ kept = rv
        BY <2>5, <3>1, <1>2 DEF MergeElement, KeptTrack
      <4> QED BY <4>1, <2>2, <2>5, <1>4, UntouchedResult
    <3>2. CASE rv = av
      <4>1. e = <<>> /\ kept = Nothing
        BY <2>5, <3>2, <1>2 DEF MergeElement, KeptTrack
      <4> QED BY <4>1, <2>1
    <3> QED BY <3>1, <3>2
  <2>6. CASE lv # Nothing /\ rv # Nothing
    <3>1. e = <<inside>> /\ kept = inside.value
      BY <2>6, <1>2 DEF MergeElement, KeptTrack
    <3>3. lv \in TrackShape /\ rv \in TrackShape /\ IdOf(lv) = IdOf(av) /\ IdOf(rv) = IdOf(av)
      BY <2>6, <1>3, <1>4 DEF id
    <3>4. TrackResult(inside)
      BY <3>3, TrackConflicts DEF inside, id
    <3>5. IdOf(inside.value) = id
      <4>1. TrackMerged(av, lv, rv, TrackPath(id.is), inside)
        BY <3>3, TrackMerge DEF inside
      <4> QED BY <4>1 DEF TrackMerged, id
    <3>2. TrackResult(inside) /\ IdOf(inside.value) = id
      BY <3>4, <3>5
    <3> QED BY <3>1, <3>2, <2>2
  <2> QED BY <2>3, <2>4, <2>5, <2>6
<1> QED BY <1>5 DEF e, lv, rv, inside, id

-----------------------------------------------------------------------------
\* MERGED LISTS OF TRACKS

\* Merges of elements or positions with values of V.
Results(V) == [value : V, conflicts : Seq(ConflictShape)]

\* The places of the conflicts of two merges differ, and those of one.
Apart(out) ==
    \A i, j \in 1..Len(out) : \A x \in 1..Len(out[i].conflicts) : \A y \in 1..Len(out[j].conflicts) :
        out[i].conflicts[x].path = out[j].conflicts[y].path => i = j /\ x = y

\* Every conflict of all is one of the merges in out.
Comes(all, out) ==
    \A p \in 1..Len(all) : \E i \in 1..Len(out) : \E x \in 1..Len(out[i].conflicts) :
        all[p] = out[i].conflicts[x]

\* The conflicts of an array are those of its elements or positions.
LEMMA GatheredConflicts ==
  ASSUME NEW V, NEW out \in Seq(Results(V)), Apart(out)
  PROVE  Conflicts(out) \in Seq(ConflictShape) /\ Comes(Conflicts(out), out) /\ OneEach(Conflicts(out))
<1> DEFINE s == [i \in DOMAIN out |-> out[i].conflicts]
           all == FlattenSeq(s)
           n == Len(out)
           k == Len(all)
<1>1. all = Conflicts(out)
  BY DEF Conflicts
<1>2. DOMAIN out = 1..n /\ n \in Nat
  OBVIOUS
<1>3. \A i \in 1..n : out[i].conflicts \in Seq(ConflictShape)
  <2>1. \A i \in 1..n : out[i] \in Results(V)
    BY <1>2
  <2> QED BY <2>1 DEF Results
<1>4. s \in Seq(Seq(ConflictShape)) /\ Len(s) = n /\ \A i \in 1..n : s[i] = out[i].conflicts
  BY <1>2, <1>3
<1> HIDE DEF s
<1>5. all \in Seq(ConflictShape) /\ Gathers(all, s, n)
  BY <1>4, FlattenGathers
<1>6. PICK h, g : Origins(all, k, s, n, h, g)
  BY <1>5 DEF Gathers
<1> HIDE DEF all, n
<1>7. ASSUME NEW p \in 1..k
      PROVE  h[p] \in 1..n /\ g[p] \in 1..Len(out[h[p]].conflicts) /\ all[p] = out[h[p]].conflicts[g[p]]
  <2>1. h[p] \in 1..n /\ g[p] \in 1..Len(s[h[p]]) /\ all[p] = s[h[p]][g[p]]
    BY <1>6 DEF Origins
  <2> QED BY <2>1, <1>4
<1>8. Comes(all, out)
  BY <1>7 DEF Comes, n
<1>9. ASSUME NEW p \in 1..k, NEW q \in 1..k, all[p].path = all[q].path PROVE p = q
  <2>1. h[p] = h[q] /\ g[p] = g[q]
    <3>1. /\ h[p] \in 1..Len(out) /\ g[p] \in 1..Len(out[h[p]].conflicts)
          /\ h[q] \in 1..Len(out) /\ g[q] \in 1..Len(out[h[q]].conflicts)
          /\ out[h[p]].conflicts[g[p]].path = out[h[q]].conflicts[g[q]].path
      BY <1>7, <1>9 DEF n
    <3>2. ASSUME NEW i \in 1..Len(out), NEW j \in 1..Len(out),
                 NEW x \in 1..Len(out[i].conflicts), NEW y \in 1..Len(out[j].conflicts),
                 out[i].conflicts[x].path = out[j].conflicts[y].path
          PROVE  i = j /\ x = y
      BY <3>2 DEF Apart
    <3> DEFINE i == h[p]
               j == h[q]
               x == g[p]
               y == g[q]
    <3>3. /\ i \in 1..Len(out) /\ x \in 1..Len(out[i].conflicts)
          /\ j \in 1..Len(out) /\ y \in 1..Len(out[j].conflicts)
          /\ out[i].conflicts[x].path = out[j].conflicts[y].path
      BY <3>1
    <3> HIDE DEF i, j, x, y
    <3>4. i = j /\ x = y
      BY <3>2, <3>3
    <3> QED BY <3>4 DEF i, j, x, y
  <2> QED BY <2>1, <1>6 DEF Origins
<1> QED BY <1>1, <1>5, <1>8, <1>9 DEF OneEach

\* What becomes of the identity id in the merge of three lists of tracks.
MergedAt(a, l, r, id) ==
    IF ById(a, id) # Nothing
    THEN KeptTrack(ById(a, id), ById(l, id), ById(r, id),
                   MergeInList(ById(a, id), ById(l, id), ById(r, id), TrackPath(id.is)).value)
    ELSE IF ById(l, id) # Nothing THEN ById(l, id) ELSE ById(r, id)

ListMerged(a, l, r, merge) ==
    /\ merge.value \in TrackLists
    /\ merge.value.arr \in UniqueTracks
    /\ \A id : ById(merge.value.arr, id) = MergedAt(a, l, r, id)
    /\ merge.conflicts \in Seq(ConflictShape)
    /\ \A i \in 1..Len(merge.conflicts) : \E j \in 1..Len(merge.value.arr) :
           InTrack(merge.conflicts[i], merge.value.arr[j])
    /\ OneEach(merge.conflicts)

\* The tracks a side has added share no identity with those it is compared to.
LEMMA NewApart ==
  ASSUME NEW s \in UniqueTracks, NEW others, NEW v \in others, NEW q \in 1..Len(New(s, others))
  PROVE  ById(v, IdOf(New(s, others)[q])) = Nothing /\ New(s, others)[q] # Nothing
<1> DEFINE out == New(s, others)
           id == IdOf(out[q])
<1>1. /\ out \in UniqueTracks
      /\ ById(out, id) = IF \A u \in others : ById(u, id) = Nothing THEN ById(s, id) ELSE Nothing
  BY NewTracks
<1> HIDE DEF out
<1>2. out \in Seq(TrackShape) /\ UniqueIds(out) /\ q \in 1..Len(out)
  BY <1>1 DEF UniqueTracks, out
<1>3. ById(out, id) = out[q]
  BY <1>2, ByIdFinds
<1>4. out[q] # Nothing
  <2>1. out[q] \in TrackShape
    BY <1>2
  <2> QED BY <2>1, PresentValues
<1> QED BY <1>1, <1>3, <1>4 DEF out

\* What is left of the tracks of the ancestor, and the conflicts in them.
SharedList(a, l, r, shared, kept) ==
    /\ shared \in Seq(ResultShape)
    /\ kept \in UniqueTracks
    /\ Len(kept) = Len(shared)
    /\ \A p \in 1..Len(shared) : TrackResult(shared[p]) /\ kept[p] = shared[p].value
    /\ \A i \in 1..Len(a) : ById(kept, IdOf(a[i])) = MergedAt(a, l, r, IdOf(a[i]))
    /\ \A p \in 1..Len(kept) : \E i \in 1..Len(a) : IdOf(kept[p]) = IdOf(a[i])

\* The tracks of the ancestor leave tracks of their identities, and conflicts
\* in them.
LEMMA SharedTracks ==
  ASSUME NEW a \in UniqueTracks, NEW l \in UniqueTracks, NEW r \in UniqueTracks,
         NEW parts, NEW shared, NEW kept,
         parts = [i \in DOMAIN a |-> MergeShared(MergeInList, a[i], l, r, TracksPath)],
         shared = FlattenSeq(parts),
         kept = [i \in DOMAIN shared |-> shared[i].value]
  PROVE  SharedList(a, l, r, shared, kept)
<1> DEFINE n == Len(a)
           track == [e \in ResultShape |-> e.value]
<1>1. a \in Seq(TrackShape) /\ UniqueIds(a) /\ n \in Nat /\ DOMAIN a = 1..n /\ \A i \in 1..n : a[i] \in TrackShape
  BY DEF UniqueTracks
<1>2. \A i \in 1..n : parts[i] = MergeShared(MergeInList, a[i], l, r, TracksPath)
  BY <1>1
<1>3. ASSUME NEW i \in 1..n
      PROVE  /\ parts[i] \in Seq(ResultShape) /\ Len(parts[i]) <= 1
             /\ Len(parts[i]) = 1 => TrackResult(parts[i][1]) /\ IdOf(parts[i][1].value) = IdOf(a[i])
             /\ MergedAt(a, l, r, IdOf(a[i])) = IF Len(parts[i]) = 1 THEN parts[i][1].value ELSE Nothing
  <2> DEFINE av == a[i]
             id == IdOf(av)
             inside == MergeInList(av, ById(l, id), ById(r, id), TrackPath(id.is))
             kt == KeptTrack(av, ById(l, id), ById(r, id), inside.value)
             e == MergeShared(MergeInList, av, l, r, TracksPath)
  <2>1. ById(a, id) = av /\ av \in TrackShape /\ av # Nothing
    BY <1>1, ByIdFinds, PresentValues
  <2>2. MergedAt(a, l, r, id) = kt
    BY <2>1 DEF MergedAt
  <2> HIDE DEF av
  <2>3. /\ e \in Seq(ResultShape) /\ Len(e) <= 1
        /\ Len(e) = 1 => TrackResult(e[1]) /\ IdOf(e[1].value) = id
        /\ kt = IF Len(e) = 1 THEN e[1].value ELSE Nothing
    BY <2>1, SharedElement
  <2>4. parts[i] = e
    BY <1>2 DEF av
  <2> HIDE DEF e, kt
  <2>5. /\ parts[i] \in Seq(ResultShape) /\ Len(parts[i]) <= 1
        /\ Len(parts[i]) = 1 => TrackResult(parts[i][1]) /\ IdOf(parts[i][1].value) = id
        /\ MergedAt(a, l, r, id) = IF Len(parts[i]) = 1 THEN parts[i][1].value ELSE Nothing
    BY <2>2, <2>3, <2>4
  <2> QED BY <2>5 DEF av
<1>4. parts \in Seq(Seq(ResultShape)) /\ Len(parts) = n
  BY <1>1, <1>3
<1>5. shared \in Seq(ResultShape)
  BY <1>4, FlattenGathers
<1>6. PICK h : Picks(h, shared, Len(shared), parts, n)
  <2>1. \A i \in 1..Len(parts) : Len(parts[i]) <= 1
    BY <1>3, <1>4
  <2> QED BY <1>4, <2>1, Selected
<1>7. \A p \in 1..Len(shared) : TrackResult(shared[p]) /\ shared[p] \in ResultShape
  <2> TAKE p \in 1..Len(shared)
  <2>1. h[p] \in 1..n /\ Len(parts[h[p]]) = 1 /\ shared[p] = parts[h[p]][1]
    BY <1>6 DEF Picks
  <2>2. TrackResult(shared[p])
    BY <2>1, <1>3
  <2> QED BY <2>2 DEF TrackResult
<1>8. DOMAIN shared = 1..Len(shared) /\ Len(shared) \in Nat
  BY <1>5
<1>9. \A p \in 1..Len(shared) : shared[p].value \in TrackShape
  BY <1>7 DEF ResultShape
<1>10. kept \in Seq(TrackShape) /\ Len(kept) = Len(shared) /\ \A p \in 1..Len(shared) : kept[p] = shared[p].value
  BY <1>8, <1>9
<1>11. \A e \in ResultShape : track[e] = e.value
  OBVIOUS
<1> HIDE DEF track, n
<1>12. Keeps(parts, track, a)
  <2>1. \A i \in 1..n : Len(parts[i]) = 1 => track[parts[i][1]] = parts[i][1].value
    BY <1>3, <1>11 DEF TrackResult
  <2> QED BY <2>1, <1>3, <1>4 DEF Keeps, n
<1>13. Reads(kept, track, shared)
  BY <1>7, <1>10, <1>11 DEF Reads
<1>14. Leaves(kept, track, parts, a)
  BY <1>4, <1>10, <1>12, <1>13, SelectedTracks
<1>15. \A i \in 1..n : ById(kept, IdOf(a[i])) = MergedAt(a, l, r, IdOf(a[i]))
  <2> TAKE i \in 1..n
  <2>1. ById(kept, IdOf(a[i])) = IF Len(parts[i]) = 1 THEN track[parts[i][1]] ELSE Nothing
    BY <1>14 DEF Leaves, n
  <2>2. Len(parts[i]) = 1 => track[parts[i][1]] = parts[i][1].value
    BY <1>3, <1>11 DEF TrackResult
  <2> QED BY <2>1, <2>2, <1>3
<1> QED BY <1>5, <1>7, <1>10, <1>14, <1>15 DEF Leaves, n, SharedList

\* A path to a field of a track names both.
LEMMA FieldPathParts ==
  ASSUME NEW x, NEW k, NEW y, NEW j, FieldPath(x, k) = FieldPath(y, j)
  PROVE  x = y /\ k = j
<1>1. FieldPath(x, k)[2] = [id |-> x] /\ FieldPath(y, j)[2] = [id |-> y]
  BY DEF FieldPath
<1>2. FieldPath(x, k)[3] = [key |-> k] /\ FieldPath(y, j)[3] = [key |-> j]
  BY DEF FieldPath
<1>3. [id |-> x].id = x /\ [id |-> y].id = y /\ [key |-> k].key = k /\ [key |-> j].key = j
  OBVIOUS
<1> QED BY <1>1, <1>2, <1>3

\* Identities are equal if what they are is.
LEMMA SameIdentity ==
  ASSUME NEW s \in TrackShape, NEW t \in TrackShape, IdOf(s).is = IdOf(t).is
  PROVE  IdOf(s) = IdOf(t)
<1>1. IdOf(s) \in Identities /\ IdOf(t) \in Identities
  BY TrackFields DEF IdOf
<1> QED BY <1>1 DEF Identities

\* Conflicts in tracks of different identities are about different places.
LEMMA TracksApart ==
  ASSUME NEW shared \in Seq(ResultShape), NEW kept \in UniqueTracks, Len(kept) = Len(shared),
         \A p \in 1..Len(shared) : TrackResult(shared[p]) /\ kept[p] = shared[p].value
  PROVE  Apart(shared)
<1> SUFFICES ASSUME NEW i \in 1..Len(shared), NEW j \in 1..Len(shared),
                    NEW x \in 1..Len(shared[i].conflicts), NEW y \in 1..Len(shared[j].conflicts),
                    shared[i].conflicts[x].path = shared[j].conflicts[y].path
             PROVE  i = j /\ x = y
  BY DEF Apart
<1>1. InTrack(shared[i].conflicts[x], kept[i]) /\ InTrack(shared[j].conflicts[y], kept[j])
  BY DEF TrackResult
<1>2. IdOf(kept[i]).is = IdOf(kept[j]).is
  <2>1. PICK k : shared[i].conflicts[x].path = FieldPath(IdOf(kept[i]).is, k)
    BY <1>1 DEF InTrack
  <2>2. PICK m : shared[j].conflicts[y].path = FieldPath(IdOf(kept[j]).is, m)
    BY <1>1 DEF InTrack
  <2>3. FieldPath(IdOf(kept[i]).is, k) = FieldPath(IdOf(kept[j]).is, m)
    BY <2>1, <2>2
  <2> QED BY <2>3, FieldPathParts
<1>3. i = j
  <2>1. kept \in Seq(TrackShape) /\ UniqueIds(kept)
    BY DEF UniqueTracks
  <2>2. i \in 1..Len(kept) /\ j \in 1..Len(kept)
    OBVIOUS
  <2>3. kept[i] \in TrackShape /\ kept[j] \in TrackShape
    BY <2>1, <2>2
  <2>4. IdOf(kept[i]) = IdOf(kept[j])
    BY <2>3, <1>2, SameIdentity
  <2> QED BY <2>1, <2>2, <2>4 DEF UniqueIds
<1>4. x = y
  <2>1. OneEach(shared[i].conflicts)
    BY DEF TrackResult
  <2> QED BY <2>1, <1>3 DEF OneEach
<1> QED BY <1>3, <1>4

\* Three lists of tracks merge identity by identity, with conflicts about
\* different places of the result.
LEMMA ListMerge ==
  ASSUME NEW a \in UniqueTracks, NEW l \in UniqueTracks, NEW r \in UniqueTracks
  PROVE  ListMerged(a, l, r, MergeArraysById(MergeInList, a, l, r, TracksPath))
<1> DEFINE parts == [i \in DOMAIN a |-> MergeShared(MergeInList, a[i], l, r, TracksPath)]
           shared == FlattenSeq(parts)
           kept == [i \in DOMAIN shared |-> shared[i].value]
           more == New(l, {a})
           most == New(r, {a, l})
           out == kept \o more \o most
           merge == MergeArraysById(MergeInList, a, l, r, TracksPath)
<1>1. merge = [value |-> Array(out), conflicts |-> Conflicts(shared)]
  BY DEF MergeArraysById
<1>2. /\ shared \in Seq(ResultShape)
      /\ kept \in UniqueTracks
      /\ Len(kept) = Len(shared)
      /\ \A p \in 1..Len(shared) : TrackResult(shared[p]) /\ kept[p] = shared[p].value
      /\ \A i \in 1..Len(a) : ById(kept, IdOf(a[i])) = MergedAt(a, l, r, IdOf(a[i]))
      /\ \A p \in 1..Len(kept) : \E i \in 1..Len(a) : IdOf(kept[p]) = IdOf(a[i])
  <2>1. /\ parts = [i \in DOMAIN a |-> MergeShared(MergeInList, a[i], l, r, TracksPath)]
        /\ shared = FlattenSeq(parts)
        /\ kept = [i \in DOMAIN shared |-> shared[i].value]
    OBVIOUS
  <2> HIDE DEF shared, kept
  <2>2. SharedList(a, l, r, shared, kept)
    BY <2>1, SharedTracks
  <2> QED BY <2>2 DEF SharedList
<1> HIDE DEF parts, shared, kept
<1>3. /\ more \in UniqueTracks
      /\ \A id : ById(more, id) = IF ById(a, id) = Nothing THEN ById(l, id) ELSE Nothing
  <2>1. \A id : ById(more, id) = IF \A v \in {a} : ById(v, id) = Nothing THEN ById(l, id) ELSE Nothing
    BY NewTracks
  <2> QED BY <2>1, NewTracks
<1>4. /\ most \in UniqueTracks
      /\ \A id : ById(most, id) = IF ById(a, id) = Nothing /\ ById(l, id) = Nothing THEN ById(r, id) ELSE Nothing
  <2>1. \A id : ById(most, id) = IF \A v \in {a, l} : ById(v, id) = Nothing THEN ById(r, id) ELSE Nothing
    BY NewTracks
  <2> QED BY <2>1, NewTracks
<1>5. \A q \in 1..Len(more) : ById(a, IdOf(more[q])) = Nothing
  <2>1. a \in {a}
    OBVIOUS
  <2> QED BY <2>1, NewApart
<1>6. \A q \in 1..Len(most) : ById(a, IdOf(most[q])) = Nothing /\ ById(l, IdOf(most[q])) = Nothing
  <2>1. a \in {a, l} /\ l \in {a, l}
    OBVIOUS
  <2> QED BY <2>1, NewApart
<1>7. \A i \in 1..Len(a) : ById(a, IdOf(a[i])) # Nothing
  <2> TAKE i \in 1..Len(a)
  <2>1. a \in Seq(TrackShape) /\ UniqueIds(a)
    BY DEF UniqueTracks
  <2>2. ById(a, IdOf(a[i])) = a[i] /\ a[i] \in TrackShape
    BY <2>1, ByIdFinds
  <2> QED BY <2>2, PresentValues
<1>8. \A id : ById(a, id) = Nothing => ById(kept, id) = Nothing
  <2> TAKE id
  <2> SUFFICES ASSUME ById(a, id) = Nothing PROVE ById(kept, id) = Nothing
    OBVIOUS
  <2>1. \A i \in 1..Len(kept) : IdOf(kept[i]) # id
    BY <1>2, <1>7
  <2>2. kept \in Seq(TrackShape)
    BY <1>2 DEF UniqueTracks
  <2> QED BY <2>1, <2>2, ByIdMisses
<1>9. \A id : ById(a, id) # Nothing => ById(kept, id) = MergedAt(a, l, r, id)
  <2> TAKE id
  <2> SUFFICES ASSUME ById(a, id) # Nothing PROVE ById(kept, id) = MergedAt(a, l, r, id)
    OBVIOUS
  <2>1. PICK i \in 1..Len(a) : IdOf(a[i]) = id
    BY ByIdCases
  <2> QED BY <2>1, <1>2
<1> HIDE DEF more, most
<1> DEFINE first == kept \o more
<1>10. /\ first \in UniqueTracks
       /\ \A id : ById(first, id) = IF ById(kept, id) # Nothing THEN ById(kept, id) ELSE ById(more, id)
  <2>1. \A i \in 1..Len(kept) : \A j \in 1..Len(more) : IdOf(kept[i]) # IdOf(more[j])
    BY <1>2, <1>5, <1>7
  <2> QED BY <2>1, <1>2, <1>3, JoinTracks
<1> HIDE DEF first
<1>11. /\ first \o most \in UniqueTracks
       /\ \A id : ById(first \o most, id) = IF ById(first, id) # Nothing THEN ById(first, id) ELSE ById(most, id)
  <2>1. ASSUME NEW i \in 1..Len(first), NEW j \in 1..Len(most) PROVE IdOf(first[i]) # IdOf(most[j])
    <3> SUFFICES ASSUME IdOf(first[i]) = IdOf(most[j]) PROVE FALSE
      OBVIOUS
    <3>1. first \in Seq(TrackShape) /\ UniqueIds(first)
      BY <1>10 DEF UniqueTracks
    <3>2. ById(first, IdOf(first[i])) = first[i] /\ first[i] \in TrackShape
      BY <3>1, ByIdFinds
    <3>3. first[i] # Nothing
      BY <3>2, PresentValues
    <3>4. ById(a, IdOf(first[i])) = Nothing /\ ById(l, IdOf(first[i])) = Nothing
      BY <1>6
    <3>5. ById(kept, IdOf(first[i])) = Nothing
      BY <3>4, <1>8
    <3>6. ById(more, IdOf(first[i])) = Nothing
      BY <3>4, <1>3
    <3> QED BY <3>2, <3>3, <3>5, <3>6, <1>10
  <2> QED BY <2>1, <1>4, <1>10, JoinTracks
<1>12. out \in UniqueTracks /\ \A id : ById(out, id) = MergedAt(a, l, r, id)
  <2>1. out = first \o most
    BY DEF first
  <2> HIDE DEF out
  <2>2. ASSUME NEW id PROVE ById(out, id) = MergedAt(a, l, r, id)
    <3>1. CASE ById(a, id) = Nothing
      <4>1. ById(kept, id) = Nothing /\ ById(more, id) = ById(l, id)
        BY <3>1, <1>3, <1>8
      <4>2. ById(out, id) = IF ById(l, id) # Nothing THEN ById(l, id) ELSE ById(most, id)
        BY <4>1, <2>1, <1>10, <1>11
      <4>3. ById(l, id) = Nothing => ById(most, id) = ById(r, id)
        BY <3>1, <1>4
      <4> QED BY <3>1, <4>2, <4>3 DEF MergedAt
    <3>2. CASE ById(a, id) # Nothing
      <4>1. ById(kept, id) = MergedAt(a, l, r, id) /\ ById(more, id) = Nothing /\ ById(most, id) = Nothing
        BY <3>2, <1>3, <1>4, <1>9
      <4> QED BY <4>1, <2>1, <1>10, <1>11
    <3> QED BY <3>1, <3>2
  <2> QED BY <2>1, <2>2, <1>11
<1>13. /\ Conflicts(shared) \in Seq(ConflictShape)
       /\ Comes(Conflicts(shared), shared)
       /\ OneEach(Conflicts(shared))
  <2>1. Apart(shared)
    BY <1>2, TracksApart
  <2>2. shared \in Seq(Results(TrackShape))
    BY <1>2 DEF Results, ResultShape
  <2> QED BY <2>1, <2>2, GatheredConflicts
<1>14. kept \in Seq(TrackShape) /\ more \in Seq(TrackShape) /\ most \in Seq(TrackShape) /\ first \in Seq(TrackShape)
  BY <1>2, <1>3, <1>4, <1>10 DEF UniqueTracks
<1>15. \A p \in 1..Len(kept) : p \in 1..Len(out) /\ out[p] = kept[p]
  <2>1. first = kept \o more /\ out = first \o most
    BY DEF first
  <2> HIDE DEF out
  <2> QED BY <2>1, <1>14, ConcatProperties
<1>16. \A i \in 1..Len(Conflicts(shared)) : \E j \in 1..Len(out) : InTrack(Conflicts(shared)[i], out[j])
  <2> TAKE i \in 1..Len(Conflicts(shared))
  <2>4. PICK p \in 1..Len(shared) : \E x \in 1..Len(shared[p].conflicts) : Conflicts(shared)[i] = shared[p].conflicts[x]
    BY <1>13 DEF Comes
  <2>1. PICK x \in 1..Len(shared[p].conflicts) : Conflicts(shared)[i] = shared[p].conflicts[x]
    BY <2>4
  <2>2. InTrack(shared[p].conflicts[x], kept[p])
    BY <1>2 DEF TrackResult
  <2>3. p \in 1..Len(out) /\ out[p] = kept[p]
    BY <1>2, <1>15
  <2> HIDE DEF out
  <2> QED BY <2>1, <2>2, <2>3
<1> HIDE DEF out
<1>17. Array(out) \in TrackLists /\ Array(out).arr = out
  <2>1. out \in Seq(TrackShape)
    BY <1>12 DEF UniqueTracks
  <2> QED BY <2>1 DEF TrackLists, Array
<1>18. merge.value = Array(out) /\ merge.conflicts = Conflicts(shared)
  BY <1>1
<1> HIDE DEF merge
<1>19. ListMerged(a, l, r, merge)
  BY <1>12, <1>13, <1>16, <1>17, <1>18 DEF ListMerged
<1> QED BY <1>19 DEF merge

-----------------------------------------------------------------------------
\* MERGED LISTS OF LANES

\* Paths of different kinds lead to different places.
LEMMA PathKinds ==
  ASSUME NEW x, NEW i, NEW k, NEW m
  PROVE  /\ LanePath(i) # KeyPath(m)
         /\ FieldPath(x, k) # KeyPath(m)
         /\ FieldPath(x, k) # LanePath(i)
         /\ KeyPath("tempo") # KeyPath("next")
<1>1. Len(LanePath(i)) = 2 /\ Len(KeyPath(m)) = 1 /\ Len(FieldPath(x, k)) = 3
  BY DEF LanePath, KeyPath, FieldPath
<1>2. KeyPath("tempo")[1].key = "tempo" /\ KeyPath("next")[1].key = "next"
  BY DEF KeyPath
<1> QED BY <1>1, <1>2

\* A path to a position names it.
LEMMA LanePathParts ==
  ASSUME NEW i, NEW j, LanePath(i) = LanePath(j)
  PROVE  i = j
<1>1. LanePath(i)[2] = [index |-> i] /\ LanePath(j)[2] = [index |-> j]
  BY DEF LanePath
<1>2. [index |-> i].index = i /\ [index |-> j].index = j
  OBVIOUS
<1> QED BY <1>1, <1>2

\* The paths to a list and into it.
LEMMA ListPaths ==
  ASSUME NEW k
  PROVE  /\ Append(<<>>, [key |-> k]) = KeyPath(k)
         /\ \A i : Append(KeyPath("lanes"), [index |-> i]) = LanePath(i)
         /\ KeyPath("tracks") = TracksPath
<1> DEFINE u == [key |-> k]
           v == [key |-> "lanes"]
<1>1. KeyPath(k) = <<u>> /\ KeyPath("lanes") = <<v>> /\ KeyPath("tracks") = TracksPath
      /\ \A i : LanePath(i) = <<v, [index |-> i]>>
  BY DEF KeyPath, LanePath, TracksPath
<1> HIDE DEF u, v
<1>2. Append(<<>>, u) = KeyPath(k)
  <2>1. u \in {u}
    OBVIOUS
  <2>2. Append(<<>>, u) = <<u>>
    BY <2>1, ShortSequences
  <2> QED BY <2>2, <1>1
<1>3. ASSUME NEW i PROVE Append(KeyPath("lanes"), [index |-> i]) = LanePath(i)
  <2> DEFINE w == [index |-> i]
  <2>1. LanePath(i) = <<v, w>>
    BY <1>1
  <2> HIDE DEF w
  <2>2. v \in {v, w} /\ w \in {v, w}
    OBVIOUS
  <2>3. Append(<<v>>, w) = <<v, w>>
    BY <2>2, ShortSequences
  <2>4. Append(KeyPath("lanes"), w) = LanePath(i)
    BY <1>1, <2>1, <2>3
  <2> QED BY <2>4 DEF w
<1> QED BY <1>1, <1>2, <1>3 DEF u

\* c is about a position of the list s, which has the local value.
InLane(c, s) ==
    \E i \in 1..Len(s) : c.path = LanePath(i) /\ c.local = s[i] /\ c.remote \in LaneValues

\* The conflicts of a merge of lists by position.
LanesMerged(merge) ==
    /\ merge.value \in LaneLists
    /\ merge.conflicts \in Seq(ConflictShape)
    /\ \A p \in 1..Len(merge.conflicts) : InLane(merge.conflicts[p], merge.value.arr)
    /\ OneEach(merge.conflicts)

\* The longest of three lengths is a length.
LEMMA MaxOfThree ==
  ASSUME NEW x \in Nat, NEW y \in Nat, NEW z \in Nat
  PROVE  Max({x, y, z}) \in Nat
<1> DEFINE S == {x, y, z}
<1>1. \E u \in S : \A v \in S : u >= v
  <2>1. CASE x >= y /\ x >= z
    BY <2>1
  <2>2. CASE y >= x /\ y >= z
    BY <2>2
  <2>3. CASE z >= x /\ z >= y
    BY <2>3
  <2> QED BY <2>1, <2>2, <2>3
<1>2. S \subseteq Nat
  OBVIOUS
<1> HIDE DEF S
<1>3. Max(S) \in S
  BY <1>1 DEF Max
<1> QED BY <1>2, <1>3 DEF S

\* The merge of one position.
LaneMerge(a, l, r, i) == MergeScalar(Padded(a, i), Padded(l, i), Padded(r, i), LanePath(i))

\* One position merges as a scalar.
LEMMA OneLane ==
  ASSUME NEW a \in Seq(LaneValues), NEW l \in Seq(LaneValues), NEW r \in Seq(LaneValues), NEW i \in Nat \ {0}
  PROVE  /\ MergeInList(Padded(a, i), Padded(l, i), Padded(r, i), LanePath(i)) = LaneMerge(a, l, r, i)
         /\ LaneMerge(a, l, r, i) \in Results(LaneValues)
         /\ \A x \in 1..Len(LaneMerge(a, l, r, i).conflicts) :
                /\ x = 1
                /\ LaneMerge(a, l, r, i).conflicts[x].path = LanePath(i)
                /\ LaneMerge(a, l, r, i).conflicts[x].local = LaneMerge(a, l, r, i).value
                /\ LaneMerge(a, l, r, i).conflicts[x].remote \in LaneValues
<1> DEFINE u == Padded(a, i)
           v == Padded(l, i)
           w == Padded(r, i)
           path == LanePath(i)
           c == FieldConflict(path, u, v, w)
           e == MergeScalar(u, v, w, path)
<1>1. u \in LaneValues /\ v \in LaneValues /\ w \in LaneValues
  <2>1. \A s \in Seq(LaneValues) : Padded(s, i) \in LaneValues
    BY DEF Padded, LaneValues
  <2> QED BY <2>1
<1>2. path \in ProjectPaths
  BY DEF ProjectPaths
<1>3. c \in ConflictShape /\ c.path = path /\ c.local = v /\ c.remote = w
  <2>1. LaneValues \subseteq FieldValues
    BY DEF LaneValues, FieldValues
  <2> HIDE DEF u, v, w, path
  <2> QED BY <1>1, <1>2, <2>1 DEF FieldConflict, ConflictShape
<1> HIDE DEF u, v, w, path
<1>4. MergeInList(u, v, w, path) = e
  <2>1. ~IsObject(u) /\ ~IsArray(u)
    BY <1>1, PresentValues
  <2> QED BY <2>1 DEF MergeInList, MergeValues
<1>5. AtMost(e, c, v) /\ e.value \in {v, w}
  BY ScalarConflicts
<1>6. e = [value |-> e.value, conflicts |-> e.conflicts]
  BY DEF MergeScalar, Merged, Conflict
<1> HIDE DEF e, c
<1>7. e.conflicts \in Seq(ConflictShape) /\ \A x \in 1..Len(e.conflicts) : x = 1 /\ e.conflicts[x] = c /\ e.value = v
  <2>1. CASE e.conflicts = <<>>
    BY <2>1
  <2>2. CASE e.conflicts = <<c>>
    <3>1. e.value = v
      BY <2>2, <1>5 DEF AtMost
    <3> QED BY <2>2, <3>1, <1>3
  <2> QED BY <2>1, <2>2, <1>5 DEF AtMost
<1>8. e.value \in LaneValues
  BY <1>1, <1>5
<1>9. e \in Results(LaneValues)
  BY <1>6, <1>7, <1>8 DEF Results
<1>10. LaneMerge(a, l, r, i) = e
  BY DEF LaneMerge, e, u, v, w, path
<1> QED BY <1>1, <1>3, <1>4, <1>7, <1>9, <1>10 DEF u, v, w, path

\* Three lists of lanes merge position by position, with one conflict at most
\* for each.
LEMMA LaneMerges ==
  ASSUME NEW a \in Seq(LaneValues), NEW l \in Seq(LaneValues), NEW r \in Seq(LaneValues)
  PROVE  LanesMerged(MergeArraysByIndex(MergeInList, a, l, r, KeyPath("lanes")))
<1> DEFINE n == Max({Len(a), Len(l), Len(r)})
           out == [i \in 1..n |-> MergeInList(Padded(a, i), Padded(l, i), Padded(r, i),
                                              Append(KeyPath("lanes"), [index |-> i]))]
           values == [i \in 1..n |-> out[i].value]
           merge == MergeArraysByIndex(MergeInList, a, l, r, KeyPath("lanes"))
<1>1. merge = [value |-> Array(values), conflicts |-> Conflicts(out)]
  BY DEF MergeArraysByIndex
<1>2. n \in Nat
  <2>1. Len(a) \in Nat /\ Len(l) \in Nat /\ Len(r) \in Nat
    OBVIOUS
  <2> QED BY <2>1, MaxOfThree
<1> HIDE DEF n
<1>3. ASSUME NEW i \in 1..n PROVE out[i] = LaneMerge(a, l, r, i)
  <2>1. i \in Nat \ {0}
    BY <1>2
  <2>2. Append(KeyPath("lanes"), [index |-> i]) = LanePath(i)
    BY ListPaths
  <2>3. out[i] = MergeInList(Padded(a, i), Padded(l, i), Padded(r, i), LanePath(i))
    BY <2>2
  <2> QED BY <2>1, <2>3, OneLane
<1>4. ASSUME NEW i \in 1..n
      PROVE  /\ out[i] \in Results(LaneValues)
             /\ out[i].value \in LaneValues
             /\ \A x \in 1..Len(out[i].conflicts) :
                    /\ x = 1
                    /\ out[i].conflicts[x].path = LanePath(i)
                    /\ out[i].conflicts[x].local = out[i].value
                    /\ out[i].conflicts[x].remote \in LaneValues
  <2>1. i \in Nat \ {0}
    BY <1>2
  <2> DEFINE e == LaneMerge(a, l, r, i)
  <2>2. /\ e \in Results(LaneValues)
        /\ \A x \in 1..Len(e.conflicts) :
                    /\ x = 1
                    /\ e.conflicts[x].path = LanePath(i)
                    /\ e.conflicts[x].local = e.value
                    /\ e.conflicts[x].remote \in LaneValues
    BY <2>1, OneLane
  <2>3. out[i] = e
    BY <1>3
  <2> HIDE DEF out, e
  <2>4. e.value \in LaneValues
    BY <2>2 DEF Results
  <2> QED BY <2>2, <2>3, <2>4
<1>5. out \in Seq(Results(LaneValues)) /\ Len(out) = n
  <2>1. \A i \in 1..n : out[i] \in Results(LaneValues)
    BY <1>4
  <2>2. out = [i \in 1..n |-> out[i]]
    OBVIOUS
  <2> DEFINE T == Results(LaneValues)
  <2> HIDE DEF out, T
  <2>3. out \in [1..n -> T]
    BY <2>1, <2>2 DEF T
  <2>4. out \in Seq(T) /\ Len(out) = n
    BY <1>2, <2>3
  <2> QED BY <2>4 DEF T
<1> HIDE DEF out
<1>6. values \in Seq(LaneValues) /\ Len(values) = n /\ \A i \in 1..n : values[i] = out[i].value
  <2>1. \A i \in 1..n : out[i].value \in LaneValues
    BY <1>4
  <2> HIDE DEF n
  <2> DEFINE T == LaneValues
  <2> HIDE DEF T
  <2>2. values \in [1..n -> T] /\ \A i \in 1..n : values[i] = out[i].value
    BY <2>1 DEF T
  <2> HIDE DEF values
  <2>3. values \in Seq(T) /\ Len(values) = n
    BY <1>2, <2>2
  <2> QED BY <2>2, <2>3 DEF T
<1>7. Apart(out)
  <2> SUFFICES ASSUME NEW i \in 1..n, NEW j \in 1..n,
                      NEW x \in 1..Len(out[i].conflicts), NEW y \in 1..Len(out[j].conflicts),
                      out[i].conflicts[x].path = out[j].conflicts[y].path
               PROVE  i = j /\ x = y
    BY <1>5 DEF Apart
  <2>1. LanePath(i) = LanePath(j) /\ x = 1 /\ y = 1
    BY <1>4
  <2> QED BY <2>1, LanePathParts
<1>8. /\ Conflicts(out) \in Seq(ConflictShape)
      /\ Comes(Conflicts(out), out)
      /\ OneEach(Conflicts(out))
  BY <1>5, <1>7, GatheredConflicts
<1> HIDE DEF values
<1>9. ASSUME NEW p \in 1..Len(Conflicts(out)) PROVE InLane(Conflicts(out)[p], values)
  <2>1. PICK i \in 1..n : \E x \in 1..Len(out[i].conflicts) : Conflicts(out)[p] = out[i].conflicts[x]
    BY <1>5, <1>8 DEF Comes
  <2>2. PICK x \in 1..Len(out[i].conflicts) : Conflicts(out)[p] = out[i].conflicts[x]
    BY <2>1
  <2>3. /\ out[i].conflicts[x].path = LanePath(i)
        /\ out[i].conflicts[x].local = out[i].value
        /\ out[i].conflicts[x].remote \in LaneValues
    BY <1>4
  <2>4. i \in 1..Len(values) /\ values[i] = out[i].value
    BY <1>6
  <2> DEFINE c == out[i].conflicts[x]
             v == out[i].value
  <2>5. c.path = LanePath(i) /\ c.local = v /\ c.remote \in LaneValues /\ values[i] = v
    BY <2>3, <2>4
  <2> HIDE DEF c, v
  <2>6. InLane(c, values)
    BY <2>4, <2>5 DEF InLane
  <2> QED BY <2>2, <2>6 DEF c
<1>10. Array(values) \in LaneLists /\ Array(values).arr = values
  BY <1>6 DEF LaneLists, Array
<1>11. merge.value = Array(values) /\ merge.conflicts = Conflicts(out)
  BY <1>1
<1> HIDE DEF merge
<1>12. LanesMerged(merge)
  BY <1>8, <1>9, <1>10, <1>11 DEF LanesMerged
<1> QED BY <1>12 DEF merge

-----------------------------------------------------------------------------
\* CHANGES OF ONE SIDE

\* What one side only did to a track, or to its level, is done in ot.
TrackFollows(at, lt, rt, ot) ==
    /\ Follows(at, lt, rt, ot)
    /\ Nothing \notin {at, lt, rt} =>
           Follows(Field(at, "level"), Field(lt, "level"), Field(rt, "level"), Field(ot, "level"))

\* A merged scalar follows the side that changed it.
LEMMA ScalarFollows ==
  ASSUME NEW a, NEW l, NEW r, NEW path
  PROVE  Follows(a, l, r, MergeScalar(a, l, r, path).value)
BY ScalarMerge DEF Follows, Merged

\* A merged track, and its level, follow the side that changed it.
LEMMA MergedTrackFollows ==
  ASSUME NEW at \in TrackShape, NEW lt \in TrackShape, NEW rt \in TrackShape,
         IdOf(lt) = IdOf(at), IdOf(rt) = IdOf(at), NEW path
  PROVE  TrackFollows(at, lt, rt, MergeInList(at, lt, rt, path).value)
<1> DEFINE ot == MergeInList(at, lt, rt, path).value
           level == FieldMerge(at, lt, rt, "level", path)
           target == FieldMerge(at, lt, rt, "target", path)
<1>1. /\ ot \in TrackShape
      /\ IdOf(ot) = IdOf(at)
      /\ Field(ot, "level") = level.value
      /\ Field(ot, "target") = target.value
  <2> DEFINE merge == MergeInList(at, lt, rt, path)
  <2> HIDE DEF merge
  <2>1. TrackMerged(at, lt, rt, path, merge)
    BY TrackMerge DEF merge
  <2>2. /\ merge.value \in TrackShape
        /\ IdOf(merge.value) = IdOf(at)
        /\ Field(merge.value, "level") = level.value
        /\ Field(merge.value, "target") = target.value
    BY <2>1 DEF TrackMerged
  <2> QED BY <2>2 DEF merge
<1> HIDE DEF ot
<1>2. Follows(Field(at, "level"), Field(lt, "level"), Field(rt, "level"), level.value)
  BY ScalarFollows DEF FieldMerge
<1>3. Follows(Field(at, "target"), Field(lt, "target"), Field(rt, "target"), target.value)
  BY ScalarFollows DEF FieldMerge
<1> HIDE DEF level, target
<1>4. ASSUME rt = at PROVE ot = lt
  <2>1. Field(ot, "level") = Field(lt, "level") /\ Field(ot, "target") = Field(lt, "target") /\ Field(ot, "id") = Field(lt, "id")
    BY <1>1, <1>2, <1>3, <1>4 DEF Follows, IdOf
  <2> QED BY <1>1, <2>1, SameTrack
<1>5. ASSUME lt = at PROVE ot = rt
  <2>1. Field(ot, "level") = Field(rt, "level") /\ Field(ot, "target") = Field(rt, "target") /\ Field(ot, "id") = Field(rt, "id")
    BY <1>1, <1>2, <1>3, <1>5 DEF Follows, IdOf
  <2> QED BY <1>1, <2>1, SameTrack
<1>6. Follows(at, lt, rt, ot)
  BY <1>4, <1>5 DEF Follows
<1> QED BY <1>1, <1>2, <1>6 DEF TrackFollows, ot

\* So does what becomes of an identity, tracks added and removed included.
LEMMA MergedAtFollows ==
  ASSUME NEW a \in UniqueTracks, NEW l \in UniqueTracks, NEW r \in UniqueTracks, NEW id
  PROVE  TrackFollows(ById(a, id), ById(l, id), ById(r, id), MergedAt(a, l, r, id))
<1> DEFINE at == ById(a, id)
           lt == ById(l, id)
           rt == ById(r, id)
           inside == MergeInList(at, lt, rt, TrackPath(id.is)).value
           ot == MergedAt(a, l, r, id)
<1>1. at = Nothing \/ (at \in TrackShape /\ IdOf(at) = id /\ at # Nothing)
  BY ByIdCases
<1>2. lt = Nothing \/ (lt \in TrackShape /\ IdOf(lt) = id /\ lt # Nothing)
  BY ByIdCases
<1>3. rt = Nothing \/ (rt \in TrackShape /\ IdOf(rt) = id /\ rt # Nothing)
  BY ByIdCases
<1>4. ot = IF at # Nothing THEN KeptTrack(at, lt, rt, inside) ELSE IF lt # Nothing THEN lt ELSE rt
  BY DEF MergedAt
<1>5. at # Nothing /\ lt # Nothing /\ rt # Nothing => TrackFollows(at, lt, rt, inside)
  <2> SUFFICES ASSUME at # Nothing, lt # Nothing, rt # Nothing PROVE TrackFollows(at, lt, rt, inside)
    OBVIOUS
  <2>1. at \in TrackShape /\ lt \in TrackShape /\ rt \in TrackShape /\ IdOf(lt) = IdOf(at) /\ IdOf(rt) = IdOf(at)
    BY <1>1, <1>2, <1>3
  <2> HIDE DEF at, lt, rt
  <2> QED BY <2>1, MergedTrackFollows
<1> SUFFICES TrackFollows(at, lt, rt, ot)
  OBVIOUS
<1> HIDE DEF at, lt, rt, inside, ot
<1>6. CASE at = Nothing
  BY <1>4, <1>6 DEF TrackFollows, Follows
<1>7. CASE at # Nothing /\ lt = Nothing /\ rt = Nothing
  <2>1. ot = Nothing
    BY <1>4, <1>7 DEF KeptTrack
  <2> QED BY <2>1, <1>7 DEF TrackFollows, Follows
<1>8. CASE at # Nothing /\ lt # Nothing /\ rt = Nothing
  <2>1. ot = IF lt # at THEN lt ELSE Nothing
    BY <1>4, <1>8 DEF KeptTrack
  <2> QED BY <2>1, <1>8 DEF TrackFollows, Follows
<1>9. CASE at # Nothing /\ lt = Nothing /\ rt # Nothing
  <2>1. ot = IF rt # at THEN rt ELSE Nothing
    BY <1>4, <1>9 DEF KeptTrack
  <2> QED BY <2>1, <1>9 DEF TrackFollows, Follows
<1>10. CASE at # Nothing /\ lt # Nothing /\ rt # Nothing
  <2>1. ot = inside
    BY <1>4, <1>10 DEF KeptTrack
  <2> QED BY <2>1, <1>5, <1>10
<1> QED BY <1>6, <1>7, <1>8, <1>9, <1>10

\* The merge of the lists of tracks of three projects.
TracksMerged(a, l, r, merge) ==
    /\ merge.value \in TrackLists
    /\ merge.value.arr \in UniqueTracks
    /\ merge.conflicts \in Seq(ConflictShape)
    /\ \A i \in 1..Len(merge.conflicts) : \E j \in 1..Len(merge.value.arr) :
           InTrack(merge.conflicts[i], merge.value.arr[j])
    /\ OneEach(merge.conflicts)
    /\ \A id : TrackFollows(ById(a.arr, id), ById(l.arr, id), ById(r.arr, id), ById(merge.value.arr, id))

\* The merge of one field of three projects.
ProjectKey(a, l, r, path) == MergeKey(MergeInProject, a, l, r, path)

\* A field of three projects that all have it.
LEMMA FieldsOfKey ==
  ASSUME NEW a, NEW l, NEW r, NEW path, a # Nothing, l # Nothing, r # Nothing
  PROVE  ProjectKey(a, l, r, path) =
             IF l = a THEN Merged(r) ELSE IF r = a THEN Merged(l) ELSE MergeInProject(a, l, r, path)
BY DEF ProjectKey, MergeKey, MergeField

\* The tempo and the counter merge as scalars.
LEMMA ScalarKey ==
  ASSUME NEW a \in Levels \cup Numbers, NEW l \in Levels \cup Numbers, NEW r \in Levels \cup Numbers, NEW path
  PROVE  ProjectKey(a, l, r, path) = MergeScalar(a, l, r, path)
<1>1. a # Nothing /\ l # Nothing /\ r # Nothing /\ ~IsObject(a) /\ ~IsArray(a)
  BY PresentValues DEF LaneValues
<1>2. MergeInProject(a, l, r, path) = MergeScalar(a, l, r, path)
  BY <1>1 DEF MergeInProject, MergeValues
<1>3. l = a => MergeScalar(a, l, r, path) = Merged(r)
  BY ScalarMerge
<1>4. r = a => MergeScalar(a, l, r, path) = Merged(l)
  BY ScalarMerge
<1> QED BY <1>1, <1>2, <1>3, <1>4, FieldsOfKey

\* The lanes of three projects.
LEMMA LanesKey ==
  ASSUME NEW a \in LaneLists, NEW l \in LaneLists, NEW r \in LaneLists
  PROVE  /\ LanesMerged(ProjectKey(a, l, r, KeyPath("lanes")))
         /\ Follows(a, l, r, ProjectKey(a, l, r, KeyPath("lanes")).value)
<1> DEFINE merge == ProjectKey(a, l, r, KeyPath("lanes"))
<1>1. a # Nothing /\ l # Nothing /\ r # Nothing
  BY PresentValues
<1>2. merge = IF l = a THEN Merged(r) ELSE IF r = a THEN Merged(l) ELSE MergeInProject(a, l, r, KeyPath("lanes"))
  BY <1>1, FieldsOfKey
<1> HIDE DEF merge
<1>3. \A x \in LaneLists : LanesMerged(Merged(x)) /\ Merged(x).value = x
  <2> TAKE x \in LaneLists
  <2>1. Merged(x).value = x /\ Merged(x).conflicts = <<>>
    BY DEF Merged
  <2> QED BY <2>1 DEF LanesMerged, OneEach
<1>4. CASE l = a \/ r = a
  <2>1. (merge = Merged(r) /\ l = a) \/ (merge = Merged(l) /\ r = a /\ l # a)
    BY <1>2, <1>4
  <2>2. merge.value = (IF l = a THEN r ELSE l) /\ LanesMerged(merge)
    BY <2>1, <1>3
  <2> QED BY <2>2 DEF Follows, merge
<1>5. CASE l # a /\ r # a
  <2>1. merge = MergeInProject(a, l, r, KeyPath("lanes"))
    BY <1>2, <1>5
  <2>2. IsArray(a) /\ IsArray(l) /\ IsArray(r) /\ ~IsObject(a)
    BY PresentValues
  <2>3. merge = MergeArrays(MergeInList, a.arr, l.arr, r.arr, KeyPath("lanes"))
    BY <2>1, <2>2 DEF MergeInProject, MergeValues
  <2>4. a.arr \in Seq(LaneValues) /\ l.arr \in Seq(LaneValues) /\ r.arr \in Seq(LaneValues)
        /\ a = [arr |-> a.arr] /\ l = [arr |-> l.arr]
    BY DEF LaneLists
  <2>5. ~(AllHaveId(a.arr) /\ AllHaveId(l.arr) /\ AllHaveId(r.arr))
    <3>1. \A x \in LaneValues : IdOf(x) = Nothing
      BY PresentValues DEF IdOf, Field
    <3>2. ASSUME NEW s \in Seq(LaneValues), AllHaveId(s) PROVE s = <<>>
      <4>1. \A i \in 1..Len(s) : s[i] \in LaneValues
        OBVIOUS
      <4>2. \A i \in 1..Len(s) : FALSE
        BY <3>1, <3>2, <4>1 DEF AllHaveId
      <4>3. Len(s) = 0
        BY <4>2
      <4> QED BY <4>3
    <3>3. a.arr # l.arr
      BY <1>5, <2>4
    <3> QED BY <3>2, <3>3, <2>4
  <2>6. merge = MergeArraysByIndex(MergeInList, a.arr, l.arr, r.arr, KeyPath("lanes"))
    BY <2>3, <2>5 DEF MergeArrays
  <2>7. LanesMerged(merge)
    BY <2>4, <2>6, LaneMerges
  <2> QED BY <2>7, <1>5 DEF Follows, merge
<1> QED BY <1>4, <1>5

\* The tracks of three projects.
LEMMA TracksKey ==
  ASSUME NEW a \in TrackLists, NEW l \in TrackLists, NEW r \in TrackLists,
         a.arr \in UniqueTracks, l.arr \in UniqueTracks, r.arr \in UniqueTracks
  PROVE  TracksMerged(a, l, r, ProjectKey(a, l, r, KeyPath("tracks")))
<1> DEFINE merge == ProjectKey(a, l, r, KeyPath("tracks"))
<1>1. a # Nothing /\ l # Nothing /\ r # Nothing
  BY PresentValues
<1>2. merge = IF l = a THEN Merged(r) ELSE IF r = a THEN Merged(l) ELSE MergeInProject(a, l, r, KeyPath("tracks"))
  BY <1>1, FieldsOfKey
<1> HIDE DEF merge
<1>3. ASSUME NEW x \in TrackLists, x.arr \in UniqueTracks, merge = Merged(x),
             x = (IF l = a THEN r ELSE l), l = a \/ r = a
      PROVE  TracksMerged(a, l, r, merge)
  <2>1. merge.value = x /\ merge.conflicts = <<>>
    BY <1>3 DEF Merged
  <2>2. \A id : TrackFollows(ById(a.arr, id), ById(l.arr, id), ById(r.arr, id), ById(x.arr, id))
    <3> TAKE id
    <3> DEFINE at == ById(a.arr, id)
               lt == ById(l.arr, id)
               rt == ById(r.arr, id)
    <3>1. CASE l = a
      <4>1. lt = at /\ ById(x.arr, id) = rt
        BY <1>3, <3>1
      <4> HIDE DEF at, lt, rt
      <4>2. TrackFollows(at, lt, rt, ById(x.arr, id))
        BY <4>1 DEF TrackFollows, Follows
      <4> QED BY <4>2 DEF at, lt, rt
    <3>2. CASE l # a
      <4>1. rt = at /\ ById(x.arr, id) = lt
        BY <1>3, <3>2
      <4> HIDE DEF at, lt, rt
      <4>2. TrackFollows(at, lt, rt, ById(x.arr, id))
        BY <4>1 DEF TrackFollows, Follows
      <4> QED BY <4>2 DEF at, lt, rt
    <3> QED BY <3>1, <3>2
  <2>3. merge.conflicts \in Seq(ConflictShape) /\ Len(merge.conflicts) = 0
    BY <2>1
  <2>4. OneEach(merge.conflicts) /\ 1..Len(merge.conflicts) = {}
    BY <2>3 DEF OneEach
  <2>5. merge.value \in TrackLists /\ merge.value.arr \in UniqueTracks
    BY <1>3, <2>1
  <2>6. \A id : TrackFollows(ById(a.arr, id), ById(l.arr, id), ById(r.arr, id), ById(merge.value.arr, id))
    BY <2>1, <2>2
  <2> QED BY <2>3, <2>4, <2>5, <2>6 DEF TracksMerged
<1>4. CASE l = a
  <2>1. merge = Merged(r)
    BY <1>2, <1>4
  <2> QED BY <1>3, <1>4, <2>1 DEF merge
<1>5. CASE l # a /\ r = a
  <2>1. merge = Merged(l)
    BY <1>2, <1>5
  <2> QED BY <1>3, <1>5, <2>1 DEF merge
<1>6. CASE l # a /\ r # a
  <2>1. merge = MergeInProject(a, l, r, KeyPath("tracks"))
    BY <1>2, <1>6
  <2>2. IsArray(a) /\ IsArray(l) /\ IsArray(r) /\ ~IsObject(a)
    BY PresentValues
  <2>3. merge = MergeArrays(MergeInList, a.arr, l.arr, r.arr, TracksPath)
    BY <2>1, <2>2, ListPaths DEF MergeInProject, MergeValues
  <2>4. \A s \in UniqueTracks : AllHaveId(s)
    <3> TAKE s \in UniqueTracks
    <3>1. \A i \in DOMAIN s : s[i] \in TrackShape
      BY DEF UniqueTracks
    <3>2. \A i \in DOMAIN s : IdOf(s[i]) \in Identities
      BY <3>1, TrackFields DEF IdOf
    <3>3. \A x \in Identities : x # Nothing
      BY PresentValues
    <3> QED BY <3>2, <3>3 DEF AllHaveId
  <2>5. merge = MergeArraysById(MergeInList, a.arr, l.arr, r.arr, TracksPath)
    BY <2>3, <2>4 DEF MergeArrays
  <2>6. ListMerged(a.arr, l.arr, r.arr, merge)
    BY <2>5, ListMerge
  <2>7. \A id : TrackFollows(ById(a.arr, id), ById(l.arr, id), ById(r.arr, id), ById(merge.value.arr, id))
    <3> TAKE id
    <3>1. ById(merge.value.arr, id) = MergedAt(a.arr, l.arr, r.arr, id)
      BY <2>6 DEF ListMerged
    <3>2. TrackFollows(ById(a.arr, id), ById(l.arr, id), ById(r.arr, id), MergedAt(a.arr, l.arr, r.arr, id))
      BY MergedAtFollows
    <3> QED BY <3>1, <3>2
  <2>8. TracksMerged(a, l, r, merge)
    BY <2>6, <2>7 DEF ListMerged, TracksMerged
  <2> QED BY <2>8 DEF merge
<1> QED BY <1>4, <1>5, <1>6

-----------------------------------------------------------------------------
\* MERGED PROJECTS

\* The projects of the model: tracks have identities of their own.
Docs == {d \in DocShape : Field(d, "tracks").arr \in UniqueTracks}

LanesOf(v) == Field(v, "lanes").arr

KeyKinds(k) == IF k = "tempo" THEN Levels ELSE Numbers

\* The conflict c is about a place that v has, and v has its local value there.
Fits(c, v) ==
    \/ \E k \in {"tempo", "next"} :
           c.path = KeyPath(k) /\ c.local = Field(v, k) /\ c.remote \in KeyKinds(k)
    \/ InLane(c, LanesOf(v))
    \/ \E j \in 1..Len(Tracks(v)) : InTrack(c, Tracks(v)[j])

\* A list of conflicts about different places of v, with paths in P.
Sound(s, P, v) ==
    /\ s \in Seq(ConflictShape)
    /\ OneEach(s)
    /\ \A p \in 1..Len(s) : s[p].path \in P /\ Fits(s[p], v)

\* No conflicts are sound.
LEMMA NoConflicts ==
  ASSUME NEW P, NEW v
  PROVE  Sound(<<>>, P, v)
BY DEF Sound, OneEach

\* Conflicts about different places, one list after the other.
LEMMA JoinSound ==
  ASSUME NEW s, NEW t, NEW P, NEW Q, NEW v, Sound(s, P, v), Sound(t, Q, v), P \cap Q = {}
  PROVE  Sound(s \o t, P \cup Q, v)
<1> DEFINE u == s \o t
           m == Len(s)
           n == Len(t)
<1>1. s \in Seq(ConflictShape) /\ t \in Seq(ConflictShape) /\ m \in Nat /\ n \in Nat
  BY DEF Sound
<1>2. u \in Seq(ConflictShape) /\ Len(u) = m + n /\ \A i \in 1..(m + n) : u[i] = IF i <= m THEN s[i] ELSE t[i - m]
  BY <1>1, ConcatProperties
<1> HIDE DEF u, m, n
<1>3. \A i \in 1..(m + n) : i <= m => i \in 1..m /\ u[i] = s[i]
  BY <1>1, <1>2
<1>4. \A i \in 1..(m + n) : ~(i <= m) => i - m \in 1..n /\ u[i] = t[i - m] /\ i = (i - m) + m
  BY <1>1, <1>2
<1>5. \A i \in 1..m : s[i].path \in P /\ Fits(s[i], v)
  BY DEF Sound, m
<1>6. \A j \in 1..n : t[j].path \in Q /\ Fits(t[j], v)
  BY DEF Sound, n
<1>7. ASSUME NEW i \in 1..(m + n), NEW j \in 1..(m + n), u[i].path = u[j].path PROVE i = j
  <2>1. CASE i <= m /\ j <= m
    <3>1. i \in 1..m /\ j \in 1..m /\ s[i].path = s[j].path
      BY <2>1, <1>3, <1>7
    <3>2. OneEach(s)
      BY DEF Sound
    <3> QED BY <3>1, <3>2 DEF OneEach, m
  <2>2. CASE ~(i <= m) /\ ~(j <= m)
    <3>1. i - m \in 1..n /\ j - m \in 1..n /\ t[i - m].path = t[j - m].path
      BY <2>2, <1>4, <1>7
    <3>2. OneEach(t)
      BY DEF Sound
    <3>3. i - m = j - m
      BY <3>1, <3>2 DEF OneEach, n
    <3> QED BY <3>3, <2>2, <1>4
  <2>3. CASE i <= m /\ ~(j <= m)
    <3>1. u[i].path \in P /\ u[j].path \in Q
      BY <2>3, <1>3, <1>4, <1>5, <1>6
    <3> QED BY <3>1, <1>7
  <2>4. CASE ~(i <= m) /\ j <= m
    <3>1. u[i].path \in Q /\ u[j].path \in P
      BY <2>4, <1>3, <1>4, <1>5, <1>6
    <3> QED BY <3>1, <1>7
  <2> QED BY <2>1, <2>2, <2>3, <2>4
<1>8. ASSUME NEW i \in 1..(m + n) PROVE u[i].path \in P \cup Q /\ Fits(u[i], v)
  <2>1. CASE i <= m
    BY <2>1, <1>3, <1>5
  <2>2. CASE ~(i <= m)
    BY <2>2, <1>4, <1>6
  <2> QED BY <2>1, <2>2
<1>9. Sound(u, P \cup Q, v)
  BY <1>2, <1>7, <1>8 DEF Sound, OneEach
<1> QED BY <1>9 DEF u

\* The merge of the field k, which is a scalar.
KeyMerge(a, l, r, k) == MergeScalar(Field(a, k), Field(l, k), Field(r, k), KeyPath(k))

\* The conflict of a scalar field.
LEMMA SoundKey ==
  ASSUME NEW k \in {"tempo", "next"}, NEW a, NEW l, NEW r, NEW v,
         Field(a, k) \in KeyKinds(k), Field(l, k) \in KeyKinds(k), Field(r, k) \in KeyKinds(k),
         Field(v, k) = KeyMerge(a, l, r, k).value
  PROVE  Sound(KeyMerge(a, l, r, k).conflicts, {KeyPath(k)}, v)
<1> DEFINE m == KeyMerge(a, l, r, k)
           path == KeyPath(k)
           x == Field(a, k)
           y == Field(l, k)
           z == Field(r, k)
           c == FieldConflict(path, x, y, z)
<1>1. AtMost(m, c, y)
  <2> HIDE DEF path, x, y, z
  <2>1. AtMost(MergeScalar(x, y, z, path), FieldConflict(path, x, y, z), y)
    BY ScalarConflicts
  <2> QED BY <2>1 DEF KeyMerge, path, x, y, z
<1>2. c \in ConflictShape
  <2>1. path \in ProjectPaths
    BY DEF ProjectPaths
  <2>2. KeyKinds(k) \subseteq FieldValues
    BY DEF KeyKinds, FieldValues
  <2> HIDE DEF path
  <2> QED BY <2>1, <2>2 DEF FieldConflict, ConflictShape
<1>3. c.path = path /\ c.local = y /\ c.remote = z
  BY DEF FieldConflict
<1> HIDE DEF m, c, y, z, path
<1>4. CASE m.conflicts = <<>>
  BY <1>4, NoConflicts DEF m
<1>5. CASE m.conflicts = <<c>>
  <2>1. m.value = y
    BY <1>1, <1>5 DEF AtMost
  <2>2. Fits(c, v)
    BY <1>3, <2>1 DEF Fits, m, y, z, path
  <2>3. <<c>> \in Seq(ConflictShape) /\ Len(<<c>>) = 1 /\ \A p \in 1..1 : p = 1 /\ <<c>>[p] = c
    BY <1>2
  <2>4. Sound(m.conflicts, {path}, v)
    BY <1>3, <1>5, <2>2, <2>3 DEF Sound, OneEach
  <2> QED BY <2>4 DEF m, path
<1> QED BY <1>1, <1>4, <1>5 DEF AtMost

\* What the merge of three projects promises: a project, conflicts about
\* different places of it, and every change that only one side made.
DocMerged(a, l, r, merge) ==
    /\ merge.value \in Docs
    /\ Sound(merge.conflicts, ProjectPaths, merge.value)
    /\ OneSidedKept(a, l, r, merge.value)

\* The merge of three projects is a project, in conflict about its own places,
\* each once, and keeps what one side only changed.
THEOREM DocMerge ==
  ASSUME NEW a \in Docs, NEW l \in Docs, NEW r \in Docs
  PROVE  DocMerged(a, l, r, Merge3(a, l, r))
<1> DEFINE Keys == {"tempo", "next", "lanes", "tracks"}
           merge == Merge3(a, l, r)
           out == [k \in Keys |-> MergeKey(MergeInProject, Field(a, k), Field(l, k), Field(r, k),
                                           Append(<<>>, [key |-> k]))]
           at(k) == IF k \in Keys THEN out[k].conflicts ELSE <<>>
           values == [k \in Keys |-> out[k].value]
           v == Object(values)
           all == at("id") \o at("lanes") \o at("level") \o at("next") \o at("target")
                  \o at("tempo") \o at("tracks")
           tempo == KeyMerge(a, l, r, "tempo")
           next == KeyMerge(a, l, r, "next")
           lanes == ProjectKey(Field(a, "lanes"), Field(l, "lanes"), Field(r, "lanes"), KeyPath("lanes"))
           tracks == ProjectKey(Field(a, "tracks"), Field(l, "tracks"), Field(r, "tracks"), KeyPath("tracks"))
<1>1. \A d \in {a, l, r} :
          /\ d \in DocShape /\ DOMAIN d.obj = Keys /\ IsObject(d)
          /\ Field(d, "tempo") \in Levels /\ Field(d, "next") \in Numbers
          /\ Field(d, "lanes") \in LaneLists /\ Field(d, "tracks") \in TrackLists
          /\ Field(d, "tracks").arr \in UniqueTracks
  <2> TAKE d \in {a, l, r}
  <2>1. d \in DocShape /\ Field(d, "tracks").arr \in UniqueTracks
    BY DEF Docs
  <2>2. IsObject(d)
    BY <2>1, PresentValues
  <2> QED BY <2>1, <2>2, DocFields
<1>2. \A k \in Keys : out[k] = ProjectKey(Field(a, k), Field(l, k), Field(r, k), KeyPath(k))
  <2> TAKE k \in Keys
  <2>1. Append(<<>>, [key |-> k]) = KeyPath(k)
    BY ListPaths
  <2> QED BY <2>1 DEF ProjectKey
<1>3. out["tempo"] = tempo /\ out["next"] = next /\ out["lanes"] = lanes /\ out["tracks"] = tracks
  <2> HIDE DEF out
  <2>1. out["tempo"] = tempo
    <3>1. Field(a, "tempo") \in Levels \cup Numbers /\ Field(l, "tempo") \in Levels \cup Numbers /\ Field(r, "tempo") \in Levels \cup Numbers
      BY <1>1
    <3> QED BY <3>1, <1>2, ScalarKey DEF KeyMerge
  <2>2. out["next"] = next
    <3>1. Field(a, "next") \in Levels \cup Numbers /\ Field(l, "next") \in Levels \cup Numbers /\ Field(r, "next") \in Levels \cup Numbers
      BY <1>1
    <3> QED BY <3>1, <1>2, ScalarKey DEF KeyMerge
  <2> QED BY <2>1, <2>2, <1>2
<1>4. tempo.value \in Levels /\ next.value \in Numbers
  <2>1. tempo.value \in {Field(l, "tempo"), Field(r, "tempo")}
    BY ScalarConflicts DEF KeyMerge
  <2>2. next.value \in {Field(l, "next"), Field(r, "next")}
    BY ScalarConflicts DEF KeyMerge
  <2> QED BY <2>1, <2>2, <1>1
<1>5. LanesMerged(lanes) /\ Follows(Field(a, "lanes"), Field(l, "lanes"), Field(r, "lanes"), lanes.value)
  BY <1>1, LanesKey
<1>6. TracksMerged(Field(a, "tracks"), Field(l, "tracks"), Field(r, "tracks"), tracks)
  BY <1>1, TracksKey
<1>7. Follows(Field(a, "tempo"), Field(l, "tempo"), Field(r, "tempo"), tempo.value)
  BY ScalarFollows DEF KeyMerge
<1> HIDE DEF lanes, tracks
<1>8. lanes.value \in LaneLists /\ tracks.value \in TrackLists /\ tracks.value.arr \in UniqueTracks
  BY <1>5, <1>6 DEF LanesMerged, TracksMerged
<1>9. \A k \in Keys : out[k].value # Nothing
  <2> HIDE DEF out, tempo, next
  <2>1. \A x \in Levels \cup Numbers \cup LaneLists \cup TrackLists : x # Nothing
    BY PresentValues DEF LaneValues
  <2> QED BY <1>3, <1>4, <1>8, <2>1
<1>10. merge = [value |-> v, conflicts |-> all]
  <2>1. DOMAIN a.obj \cup DOMAIN l.obj \cup DOMAIN r.obj = Keys
    BY <1>1
  <2>2. merge = MergeObjects(MergeInProject, a, l, r, <<>>)
    BY <1>1 DEF Merge3, MergeValues
  <2>3. {k \in Keys : out[k].value # Nothing} = Keys
    BY <1>9
  <2> QED BY <2>1, <2>2, <2>3 DEF MergeObjects, InKeyOrder
<1>11. values["tempo"] = tempo.value /\ values["next"] = next.value
       /\ values["lanes"] = lanes.value /\ values["tracks"] = tracks.value
  <2> HIDE DEF out, tempo, next
  <2> QED BY <1>3
<1>12. values = [k \in Keys |-> values[k]]
  OBVIOUS
<1> HIDE DEF values, tempo, next
<1>13. /\ v \in DocShape
       /\ Field(v, "tempo") = tempo.value /\ Field(v, "next") = next.value
       /\ Field(v, "lanes") = lanes.value /\ Field(v, "tracks") = tracks.value
  BY <1>4, <1>8, <1>11, <1>12, DocOfFields
<1> HIDE DEF v
<1>14. v \in Docs
  BY <1>8, <1>13 DEF Docs
<1>15. OneSidedKept(a, l, r, v)
  <2>1. \A id \in TrackId :
            TrackFollows(TrackOf(a, id), TrackOf(l, id), TrackOf(r, id), TrackOf(v, id))
    BY <1>6, <1>13 DEF TracksMerged, TrackOf, Tracks
  <2> QED BY <1>5, <1>7, <1>13, <2>1 DEF OneSidedKept, TrackFollows
<1> DEFINE LanePaths == {LanePath(i) : i \in Nat}
           FieldPaths == {FieldPath(x, k) : x \in TrackId, k \in TrackKeys}
           SL == lanes.conflicts
           SN == next.conflicts
           ST == tempo.conflicts
           SK == tracks.conflicts
<1>16. Sound(SL, LanePaths, v)
  <2>1. SL \in Seq(ConflictShape) /\ OneEach(SL) /\ \A p \in 1..Len(SL) : InLane(SL[p], LanesOf(v))
    BY <1>5, <1>13 DEF LanesMerged, LanesOf
  <2>2. LanesOf(v) \in Seq(LaneValues)
    BY <1>8, <1>13 DEF LanesOf, LaneLists
  <2>3. \A p \in 1..Len(SL) : \E i \in Nat : SL[p].path = LanePath(i)
    <3> TAKE p \in 1..Len(SL)
    <3>1. PICK i \in 1..Len(LanesOf(v)) : SL[p].path = LanePath(i)
      BY <2>1 DEF InLane
    <3>2. i \in Nat
      BY <2>2
    <3> QED BY <3>1, <3>2
  <2> QED BY <2>1, <2>3 DEF Sound, Fits
<1>17. Sound(SK, FieldPaths, v)
  <2>1. SK \in Seq(ConflictShape) /\ OneEach(SK)
        /\ \A p \in 1..Len(SK) : \E j \in 1..Len(Tracks(v)) : InTrack(SK[p], Tracks(v)[j])
    BY <1>6, <1>13 DEF TracksMerged, Tracks
  <2>2. \A j \in 1..Len(Tracks(v)) : IdOf(Tracks(v)[j]).is \in TrackId
    <3> TAKE j \in 1..Len(Tracks(v))
    <3>1. Tracks(v) \in Seq(TrackShape)
      BY <1>8, <1>13 DEF Tracks, UniqueTracks
    <3>2. IdOf(Tracks(v)[j]) \in Identities
      BY <3>1, TrackFields DEF IdOf
    <3> QED BY <3>2 DEF Identities
  <2>3. \A p \in 1..Len(SK) : SK[p].path \in FieldPaths
    BY <2>1, <2>2 DEF InTrack
  <2> QED BY <2>1, <2>3 DEF Sound, Fits
<1>18. Sound(ST, {KeyPath("tempo")}, v) /\ Sound(SN, {KeyPath("next")}, v)
  <2>1. KeyKinds("tempo") = Levels /\ KeyKinds("next") = Numbers
    BY DEF KeyKinds
  <2>2. Field(v, "tempo") = KeyMerge(a, l, r, "tempo").value /\ Field(v, "next") = KeyMerge(a, l, r, "next").value
    BY <1>13 DEF tempo, next
  <2>3. Sound(KeyMerge(a, l, r, "tempo").conflicts, {KeyPath("tempo")}, v)
    BY <1>1, <2>1, <2>2, SoundKey
  <2>4. Sound(KeyMerge(a, l, r, "next").conflicts, {KeyPath("next")}, v)
    BY <1>1, <2>1, <2>2, SoundKey
  <2> QED BY <2>3, <2>4 DEF tempo, next
<1>19. Sound(SL \o SN \o ST \o SK, LanePaths \cup {KeyPath("next")} \cup {KeyPath("tempo")} \cup FieldPaths, v)
  <2>1. LanePaths \cap {KeyPath("next")} = {}
    BY PathKinds
  <2>2. (LanePaths \cup {KeyPath("next")}) \cap {KeyPath("tempo")} = {}
    BY PathKinds
  <2>3. (LanePaths \cup {KeyPath("next")} \cup {KeyPath("tempo")}) \cap FieldPaths = {}
    BY PathKinds
  <2> HIDE DEF SL, SN, ST, SK, LanePaths, FieldPaths
  <2>4. Sound(SL \o SN, LanePaths \cup {KeyPath("next")}, v)
    BY <1>16, <1>18, <2>1, JoinSound
  <2>5. Sound(SL \o SN \o ST, LanePaths \cup {KeyPath("next")} \cup {KeyPath("tempo")}, v)
    BY <1>18, <2>2, <2>4, JoinSound
  <2> QED BY <1>17, <2>3, <2>5, JoinSound
<1>20. all = SL \o SN \o ST \o SK
  <2> DEFINE none == <<>>
             C == ConflictShape
  <2>1. at("id") = none /\ at("level") = none /\ at("target") = none
    <3> HIDE DEF out
    <3> QED OBVIOUS
  <2>2. at("lanes") = SL /\ at("next") = SN /\ at("tempo") = ST /\ at("tracks") = SK
    <3> HIDE DEF out
    <3> QED BY <1>3
  <2>3. SL \in Seq(C) /\ SN \in Seq(C) /\ ST \in Seq(C) /\ SK \in Seq(C)
    BY <1>16, <1>17, <1>18 DEF Sound
  <2>4. none \in Seq(C)
    BY EmptySeq
  <2>5. \A s \in Seq(C) : none \o s = s /\ s \o none = s
    BY EmptyFirst
  <2> HIDE DEF none, C, at, SL, SN, ST, SK
  <2>6. \A s \in Seq(C) : \A t \in Seq(C) : s \o t \in Seq(C)
    BY ConcatProperties
  <2>7. all = none \o SL \o none \o SN \o none \o ST \o SK
    BY <2>1, <2>2
  <2>8. none \o SL = SL /\ SL \o none = SL /\ SL \o SN \in Seq(C)
    BY <2>3, <2>5, <2>6
  <2>9. (SL \o SN) \o none = SL \o SN
    BY <2>5, <2>8
  <2> HIDE DEF all
  <2> QED BY <2>7, <2>8, <2>9
<1>21. LanePaths \cup {KeyPath("next")} \cup {KeyPath("tempo")} \cup FieldPaths = ProjectPaths
  BY DEF ProjectPaths
<1> HIDE DEF all, LanePaths, FieldPaths, SL, SN, ST, SK
<1>22. Sound(all, ProjectPaths, v)
  BY <1>19, <1>20, <1>21
<1>23. merge.value = v /\ merge.conflicts = all
  BY <1>10
<1> HIDE DEF merge
<1>24. DocMerged(a, l, r, merge)
  BY <1>14, <1>15, <1>22, <1>23 DEF DocMerged
<1> QED BY <1>24 DEF merge

-----------------------------------------------------------------------------
\* PATHS

\* The values on the way along a path of at most three segments.
LEMMA AlongShort ==
  ASSUME NEW root, NEW path, Len(path) \in {1, 2, 3}
  PROVE  /\ Along(root, path)[0] = root
         /\ Along(root, path)[1] = Step(root, path[1])
         /\ Len(path) >= 2 => Along(root, path)[2] = Step(Along(root, path)[1], path[2])
         /\ Len(path) = 3 => Along(root, path)[3] = Step(Along(root, path)[2], path[3])
<1> DEFINE n == Len(path)
           one == Step(root, path[1])
           two == Step(one, path[2])
           three == Step(two, path[3])
           F == [d \in 0..n |-> IF d = 0 THEN root ELSE IF d = 1 THEN one ELSE IF d = 2 THEN two ELSE three]
           at == CHOOSE at : at = [d \in 0..n |-> IF d = 0 THEN root ELSE Step(at[d - 1], path[d])]
<1>1. Along(root, path) = at
  BY DEF Along
<1>2. F = [d \in 0..n |-> IF d = 0 THEN root ELSE Step(F[d - 1], path[d])]
  <2>1. \A d \in 0..n : F[d] = IF d = 0 THEN root ELSE IF d = 1 THEN one ELSE IF d = 2 THEN two ELSE three
    OBVIOUS
  <2>2. n \in {1, 2, 3}
    OBVIOUS
  <2>3. one = Step(root, path[1]) /\ two = Step(one, path[2]) /\ three = Step(two, path[3])
    OBVIOUS
  <2>5. F = [d \in 0..n |-> F[d]]
    OBVIOUS
  <2> HIDE DEF F, one, two, three, n
  <2>4. \A d \in 0..n : F[d] = IF d = 0 THEN root ELSE Step(F[d - 1], path[d])
    <3> TAKE d \in 0..n
    <3>1. CASE d = 0
      BY <3>1, <2>1, <2>2
    <3>2. CASE d = 1
      <4>1. F[0] = root /\ F[1] = one
        BY <2>1, <2>2
      <4> QED BY <3>2, <4>1, <2>3
    <3>3. CASE d = 2
      <4>1. F[1] = one /\ F[2] = two
        BY <3>3, <2>1, <2>2
      <4> QED BY <3>3, <4>1, <2>3
    <3>4. CASE d = 3
      <4>1. F[2] = two /\ F[3] = three
        BY <3>4, <2>1, <2>2
      <4> QED BY <3>4, <4>1, <2>3
    <3>5. d = 0 \/ d = 1 \/ d = 2 \/ d = 3
      BY <2>2
    <3> QED BY <3>1, <3>2, <3>3, <3>4, <3>5
  <2> QED BY <2>4, <2>5
<1>3. at = [d \in 0..n |-> IF d = 0 THEN root ELSE Step(at[d - 1], path[d])]
  <2> HIDE DEF F, n
  <2> QED BY <1>2
<1> HIDE DEF at
<1>4. 0 \in 0..n /\ 1 \in 0..n /\ (n >= 2 => 2 \in 0..n) /\ (n = 3 => 3 \in 0..n)
  OBVIOUS
<1> HIDE DEF n
<1>5. at[0] = root
  BY <1>3, <1>4
<1>6. at[1] = Step(at[0], path[1])
  BY <1>3, <1>4
<1>7. n >= 2 => at[2] = Step(at[1], path[2])
  BY <1>3, <1>4
<1>8. n = 3 => at[3] = Step(at[2], path[3])
  BY <1>3, <1>4
<1> QED BY <1>1, <1>5, <1>6, <1>7, <1>8 DEF n

\* What the segment d of a path leads to, and the value there replaced.
Under(root, path, d) == Positions(Along(root, path)[d - 1], path[d])
Changed(root, path, e, new) ==
    Replaced(Along(root, path)[e - 1], CHOOSE p \in Under(root, path, e) : TRUE, new)

\* The outcome of a path of at most three segments.
SetsShort(root, path, new, out) ==
    IF \E d \in DOMAIN path : Under(root, path, d) = {} THEN out = Failed
    ELSE /\ Len(path) = 1 => out = Changed(root, path, 1, new)
         /\ Len(path) = 2 => out = Changed(root, path, 1, Changed(root, path, 2, new))
         /\ Len(path) = 3 => out = Changed(root, path, 1, Changed(root, path, 2, Changed(root, path, 3, new)))

\* set_conflicted_value along a path of at most three segments.
LEMMA SetShort ==
  ASSUME NEW root, NEW path, NEW new, Len(path) \in {1, 2, 3}, DOMAIN path = 1..Len(path)
  PROVE  SetsShort(root, path, new, SetConflictedValue(root, path, new))
<1> DEFINE n == Len(path)
           C(e, x) == Changed(root, path, e, x)
           one == C(n, new)
           two == C(n - 1, one)
           three == C(n - 2, two)
           F == [d \in 0..n |-> IF d = 0 THEN new ELSE IF d = 1 THEN one ELSE IF d = 2 THEN two ELSE three]
           up == CHOOSE up : up = [d \in 0..n |-> IF d = 0 THEN new ELSE C(n - d + 1, up[d - 1])]
<1>1. path # <<>>
  OBVIOUS
<1>2. SetConflictedValue(root, path, new) =
          IF \E d \in DOMAIN path : Under(root, path, d) = {} THEN Failed ELSE up[n]
  BY <1>1 DEF SetConflictedValue, Under, Changed
<1>3. F = [d \in 0..n |-> IF d = 0 THEN new ELSE C(n - d + 1, F[d - 1])]
  <2>1. \A d \in 0..n : F[d] = IF d = 0 THEN new ELSE IF d = 1 THEN one ELSE IF d = 2 THEN two ELSE three
    OBVIOUS
  <2>2. n \in {1, 2, 3}
    OBVIOUS
  <2>3. one = C(n - 1 + 1, new) /\ two = C(n - 2 + 1, one) /\ three = C(n - 3 + 1, two)
    BY <2>2
  <2>5. F = [d \in 0..n |-> F[d]]
    OBVIOUS
  <2> HIDE DEF F, one, two, three, n
  <2>4. \A d \in 0..n : F[d] = IF d = 0 THEN new ELSE C(n - d + 1, F[d - 1])
    <3> TAKE d \in 0..n
    <3>1. CASE d = 0
      BY <3>1, <2>1, <2>2
    <3>2. CASE d = 1
      <4>1. F[0] = new /\ F[1] = one
        BY <2>1, <2>2
      <4> QED BY <3>2, <4>1, <2>3
    <3>3. CASE d = 2
      <4>1. F[1] = one /\ F[2] = two
        BY <3>3, <2>1, <2>2
      <4> QED BY <3>3, <4>1, <2>3
    <3>4. CASE d = 3
      <4>1. F[2] = two /\ F[3] = three
        BY <3>4, <2>1, <2>2
      <4> QED BY <3>4, <4>1, <2>3
    <3>5. d = 0 \/ d = 1 \/ d = 2 \/ d = 3
      BY <2>2
    <3> QED BY <3>1, <3>2, <3>3, <3>4, <3>5
  <2> QED BY <2>4, <2>5
<1>4. up = [d \in 0..n |-> IF d = 0 THEN new ELSE C(n - d + 1, up[d - 1])]
  <2> HIDE DEF F, n, C
  <2> QED BY <1>3
<1> HIDE DEF up
<1>5. n \in {1, 2, 3}
  OBVIOUS
<1>6. up[0] = new
  BY <1>4
<1>7. up[1] = C(n, new)
  BY <1>4, <1>5, <1>6
<1>8. n >= 2 => up[2] = C(n - 1, up[1])
  BY <1>4, <1>5
<1>9. n = 3 => up[3] = C(1, up[2])
  BY <1>4, <1>5
<1>10. CASE n = 1
  BY <1>2, <1>7, <1>10 DEF SetsShort
<1>11. CASE n = 2
  BY <1>2, <1>7, <1>8, <1>11 DEF SetsShort
<1>12. CASE n = 3
  BY <1>2, <1>7, <1>8, <1>9, <1>12 DEF SetsShort
<1> QED BY <1>5, <1>10, <1>11, <1>12

-----------------------------------------------------------------------------
\* PLACES IN A PROJECT

\* The value of v at the place a path leads to is x.
HoldsAt(v, path, x) ==
    \/ \E k \in {"tempo", "next"} : path = KeyPath(k) /\ x = Field(v, k)
    \/ \E i \in 1..Len(LanesOf(v)) : path = LanePath(i) /\ x = LanesOf(v)[i]
    \/ \E j \in 1..Len(Tracks(v)) : \E k \in TrackKeys :
           path = FieldPath(IdOf(Tracks(v)[j]).is, k) /\ x = Field(Tracks(v)[j], k)

\* y can be the value of that place.
Typed(path, y) ==
    \/ \E k \in {"tempo", "next"} : path = KeyPath(k) /\ y \in KeyKinds(k)
    \/ \E i \in Nat : path = LanePath(i) /\ y \in LaneValues
    \/ \E x \in TrackId : \E k \in TrackKeys : path = FieldPath(x, k) /\ y \in KindOf(k)

\* The lists of a project.
LEMMA DocLists ==
  ASSUME NEW v \in Docs
  PROVE  /\ v \in DocShape
         /\ LanesOf(v) \in Seq(LaneValues) /\ Field(v, "lanes") = Array(LanesOf(v))
         /\ Tracks(v) \in UniqueTracks /\ Tracks(v) \in Seq(TrackShape) /\ UniqueIds(Tracks(v))
         /\ Field(v, "tracks") = Array(Tracks(v))
         /\ \A j \in 1..Len(Tracks(v)) : Tracks(v)[j] \in TrackShape /\ IdOf(Tracks(v)[j]) \in Identities
<1>1. v \in DocShape /\ Field(v, "tracks").arr \in UniqueTracks
  BY DEF Docs
<1>2. Field(v, "lanes") \in LaneLists /\ Field(v, "tracks") \in TrackLists
  BY <1>1, DocFields
<1>3. LanesOf(v) \in Seq(LaneValues) /\ Field(v, "lanes") = Array(LanesOf(v))
  BY <1>2 DEF LaneLists, LanesOf, Array
<1>4. Tracks(v) \in Seq(TrackShape) /\ Field(v, "tracks") = Array(Tracks(v))
  BY <1>2 DEF TrackLists, Tracks, Array
<1>5. Tracks(v) \in UniqueTracks /\ UniqueIds(Tracks(v))
  BY <1>1 DEF Tracks, UniqueTracks
<1>6. ASSUME NEW j \in 1..Len(Tracks(v)) PROVE Tracks(v)[j] \in TrackShape /\ IdOf(Tracks(v)[j]) \in Identities
  <2>1. Tracks(v)[j] \in TrackShape
    BY <1>4
  <2> QED BY <2>1, TrackFields DEF IdOf
<1> QED BY <1>1, <1>3, <1>4, <1>5, <1>6

\* Where a merge is in conflict it has the local value, and a remote one of the
\* same kind is offered.
LEMMA FitsHolds ==
  ASSUME NEW v \in Docs, NEW c, Fits(c, v)
  PROVE  HoldsAt(v, c.path, c.local) /\ Typed(c.path, c.remote)
<1>1. CASE \E k \in {"tempo", "next"} : c.path = KeyPath(k) /\ c.local = Field(v, k) /\ c.remote \in KeyKinds(k)
  BY <1>1 DEF HoldsAt, Typed
<1>2. CASE InLane(c, LanesOf(v))
  <2>1. PICK i \in 1..Len(LanesOf(v)) : c.path = LanePath(i) /\ c.local = LanesOf(v)[i] /\ c.remote \in LaneValues
    BY <1>2 DEF InLane
  <2>2. i \in Nat
    BY DocLists
  <2> QED BY <2>1, <2>2 DEF HoldsAt, Typed
<1>3. CASE \E j \in 1..Len(Tracks(v)) : InTrack(c, Tracks(v)[j])
  <2>1. PICK j \in 1..Len(Tracks(v)) : InTrack(c, Tracks(v)[j])
    BY <1>3
  <2>2. PICK k \in TrackKeys : /\ c.path = FieldPath(IdOf(Tracks(v)[j]).is, k)
                               /\ c.local = Field(Tracks(v)[j], k) /\ c.remote \in KindOf(k)
    BY <2>1 DEF InTrack
  <2>3. IdOf(Tracks(v)[j]).is \in TrackId
    BY DocLists DEF Identities
  <2> QED BY <2>2, <2>3 DEF HoldsAt, Typed
<1> QED BY <1>1, <1>2, <1>3 DEF Fits

\* One segment.

\* A segment that is a key.
LEMMA KeySegment ==
  ASSUME NEW v, NEW k, IsObject(v), k \in DOMAIN v.obj
  PROVE  /\ Positions(v, [key |-> k]) = {k}
         /\ Step(v, [key |-> k]) = Field(v, k)
         /\ \A y : Replaced(v, CHOOSE p \in Positions(v, [key |-> k]) : TRUE, y) = With(v, k, y)
<1> DEFINE seg == [key |-> k]
<1>1. DOMAIN seg = {"key"} /\ seg.key = k
  OBVIOUS
<1> HIDE DEF seg
<1>2. Positions(v, seg) = {k}
  <2>1. Positions(v, seg) = DOMAIN v.obj \cap {seg.key}
    BY <1>1 DEF Positions
  <2> QED BY <1>1, <2>1
<1>3. (CHOOSE p \in {k} : TRUE) = k
  OBVIOUS
<1>4. Step(v, seg) = Field(v, k)
  BY <1>2, <1>3 DEF Step, Below, Field
<1>5. \A y : Replaced(v, CHOOSE p \in Positions(v, seg) : TRUE, y) = With(v, k, y)
  BY <1>2, <1>3 DEF Replaced, With
<1> QED BY <1>2, <1>4, <1>5 DEF seg

\* A segment that leads into a list.
LEMMA ListSegment ==
  ASSUME NEW s, NEW seg, NEW i, Positions(Array(s), seg) = {i}
  PROVE  /\ Step(Array(s), seg) = s[i]
         /\ \A y : Replaced(Array(s), CHOOSE p \in Positions(Array(s), seg) : TRUE, y) = Array([s EXCEPT ![i] = y])
<1>1. (CHOOSE p \in {i} : TRUE) = i
  OBVIOUS
<1>2. ~IsObject(Array(s)) /\ Array(s).arr = s
  BY DEF IsObject, Array
<1> QED BY <1>1, <1>2 DEF Step, Below, Replaced

\* A segment that is a position.
LEMMA IndexSegment ==
  ASSUME NEW V, NEW s \in Seq(V), NEW i \in 1..Len(s)
  PROVE  Positions(Array(s), [index |-> i]) = {i}
<1> DEFINE seg == [index |-> i]
<1>1. DOMAIN seg = {"index"} /\ seg.index = i
  OBVIOUS
<1>2. IsArray(Array(s)) /\ Array(s).arr = s /\ DOMAIN s = 1..Len(s)
  BY DEF IsArray, Array
<1> HIDE DEF seg
<1>3. Positions(Array(s), seg) = DOMAIN Array(s).arr \cap {seg.index}
  BY <1>1, <1>2 DEF Positions
<1> QED BY <1>1, <1>2, <1>3 DEF seg

\* A segment that is an identity.
LEMMA IdSegment ==
  ASSUME NEW s \in UniqueTracks, NEW i \in 1..Len(s)
  PROVE  Positions(Array(s), [id |-> IdOf(s[i]).is]) = {i}
<1> DEFINE seg == [id |-> IdOf(s[i]).is]
<1>1. DOMAIN seg = {"id"} /\ seg.id = IdOf(s[i]).is
  OBVIOUS
<1>2. IsArray(Array(s)) /\ Array(s).arr = s /\ DOMAIN s = 1..Len(s) /\ Len(s) \in Nat
  BY DEF IsArray, Array, UniqueTracks
<1>3. s \in Seq(TrackShape) /\ UniqueIds(s)
  BY DEF UniqueTracks
<1>4. Scalar(IdOf(s[i]).is) = IdOf(s[i])
  <2>1. s[i] \in TrackShape
    BY <1>3
  <2>2. IdOf(s[i]) \in Identities
    BY <2>1, TrackFields DEF IdOf
  <2> QED BY <2>2 DEF Identities, Scalar
<1> HIDE DEF seg
<1>5. Positions(Array(s), seg) =
          {j \in 1..Len(s) : /\ IdOf(s[j]) = IdOf(s[i])
                             /\ \A m \in 1..(j - 1) : IdOf(s[m]) # IdOf(s[i])}
  BY <1>1, <1>2, <1>4 DEF Positions
<1>6. \A j \in 1..Len(s) : IdOf(s[j]) = IdOf(s[i]) => j = i
  BY <1>3 DEF UniqueIds
<1>7. \A m \in 1..(i - 1) : m \in 1..Len(s) /\ m # i
  BY <1>2
<1>8. \A m \in 1..(i - 1) : IdOf(s[m]) # IdOf(s[i])
  BY <1>6, <1>7
<1> QED BY <1>5, <1>6, <1>8 DEF seg

\* An identity with a bracket, cut short, leads nowhere.
LEMMA CutSegment ==
  ASSUME NEW s, NEW x
  PROVE  Positions(Array(s), [cut |-> x]) = {}
<1> DEFINE seg == [cut |-> x]
<1>1. DOMAIN seg = {"cut"}
  OBVIOUS
<1> HIDE DEF seg
<1>2. Positions(Array(s), seg) = {}
  BY <1>1 DEF Positions
<1> QED BY <1>2 DEF seg

\* One field replaced.

\* A project with a field replaced is a project.
LEMMA DocWith ==
  ASSUME NEW v \in DocShape, NEW k, NEW y,
         \/ k = "tempo" /\ y \in Levels
         \/ k = "next" /\ y \in Numbers
         \/ k = "lanes" /\ y \in LaneLists
         \/ k = "tracks" /\ y \in TrackLists
  PROVE  /\ With(v, k, y) \in DocShape
         /\ Field(With(v, k, y), k) = y
         /\ \A j \in {"tempo", "next", "lanes", "tracks"} : j # k => Field(With(v, k, y), j) = Field(v, j)
<1> DEFINE f == [v.obj EXCEPT ![k] = y]
           Keys == {"tempo", "next", "lanes", "tracks"}
<1>1. v.obj \in DocRecords
  BY DEF DocShape
<1>2. f \in DocRecords
  BY <1>1 DEF DocRecords
<1>3. k \in Keys
  OBVIOUS
<1>4. DOMAIN f = Keys /\ f[k] = y /\ \A j \in Keys : j # k => f[j] = v.obj[j]
  BY <1>1, <1>3 DEF DocRecords
<1>5. Object(f) \in DocShape /\ IsObject(Object(f)) /\ Object(f).obj = f
  BY <1>2 DEF DocShape, Object, IsObject
<1>6. \A j \in Keys : Field(v, j) = v.obj[j]
  BY DocFields
<1>7. With(v, k, y) = Object(f)
  BY DEF With
<1> HIDE DEF f
<1>8. \A j \in Keys : Field(Object(f), j) = f[j]
  BY <1>4, <1>5 DEF Field
<1> QED BY <1>3, <1>4, <1>5, <1>6, <1>7, <1>8

\* A track with a field replaced is a track of the same identity.
LEMMA TrackWith ==
  ASSUME NEW t \in TrackShape, NEW k \in TrackKeys, NEW y \in KindOf(k)
  PROVE  /\ With(t, k, y) \in TrackShape
         /\ Field(With(t, k, y), k) = y
         /\ \A j \in {"id", "level", "target"} : j # k => Field(With(t, k, y), j) = Field(t, j)
         /\ IdOf(With(t, k, y)) = IdOf(t)
<1> DEFINE f == [t.obj EXCEPT ![k] = y]
           Keys == {"id", "level", "target"}
<1>1. t.obj \in TrackRecords
  BY DEF TrackShape
<1>2. f \in TrackRecords
  BY <1>1 DEF TrackRecords, TrackKeys, KindOf
<1>3. k \in Keys /\ k # "id"
  BY DEF TrackKeys
<1>4. DOMAIN f = Keys /\ f[k] = y /\ \A j \in Keys : j # k => f[j] = t.obj[j]
  BY <1>1, <1>3 DEF TrackRecords
<1>5. Object(f) \in TrackShape /\ IsObject(Object(f)) /\ Object(f).obj = f
  BY <1>2 DEF TrackShape, Object, IsObject
<1>6. \A j \in Keys : Field(t, j) = t.obj[j]
  BY TrackFields
<1>7. With(t, k, y) = Object(f)
  BY DEF With
<1> HIDE DEF f
<1>8. \A j \in Keys : Field(Object(f), j) = f[j]
  BY <1>4, <1>5 DEF Field
<1> QED BY <1>3, <1>4, <1>5, <1>6, <1>7, <1>8 DEF IdOf

\* A list with a track replaced by one of its identity.
LEMMA TracksWith ==
  ASSUME NEW s \in UniqueTracks, NEW i \in 1..Len(s), NEW t \in TrackShape, IdOf(t) = IdOf(s[i])
  PROVE  /\ [s EXCEPT ![i] = t] \in UniqueTracks
         /\ Len([s EXCEPT ![i] = t]) = Len(s)
         /\ \A j \in 1..Len(s) : [s EXCEPT ![i] = t][j] = IF j = i THEN t ELSE s[j]
<1> DEFINE u == [s EXCEPT ![i] = t]
<1>1. s \in Seq(TrackShape) /\ UniqueIds(s)
  BY DEF UniqueTracks
<1>2. u \in Seq(TrackShape) /\ Len(u) = Len(s) /\ \A j \in 1..Len(s) : u[j] = IF j = i THEN t ELSE s[j]
  BY <1>1, ExceptSeq
<1> HIDE DEF u
<1>3. \A j \in 1..Len(s) : IdOf(u[j]) = IdOf(s[j])
  BY <1>2
<1>4. UniqueIds(u)
  BY <1>1, <1>2, <1>3 DEF UniqueIds
<1>5. u \in UniqueTracks
  BY <1>2, <1>4 DEF UniqueTracks
<1> QED BY <1>2, <1>5 DEF u

-----------------------------------------------------------------------------
\* PLACES REPLACED

\* w is v with y at the place of the path, and every other place as it was.
Placed(v, w, path, y) ==
    /\ w \in Docs
    /\ HoldsAt(w, path, y)
    /\ \A q, z : q # path /\ HoldsAt(v, q, z) => HoldsAt(w, q, z)

\* The lists of two projects are the same.
SameLists(v, w) == LanesOf(v) = LanesOf(w) /\ Tracks(v) = Tracks(w)

\* Replacing a scalar field.
LEMMA PlaceKey ==
  ASSUME NEW v \in Docs, NEW k \in {"tempo", "next"}, NEW y \in KeyKinds(k)
  PROVE  Placed(v, With(v, k, y), KeyPath(k), y)
<1> DEFINE w == With(v, k, y)
<1>1. v \in DocShape /\ Field(v, "tracks").arr \in UniqueTracks
  BY DEF Docs
<1>2. /\ w \in DocShape
      /\ Field(w, k) = y
      /\ \A j \in {"tempo", "next", "lanes", "tracks"} : j # k => Field(w, j) = Field(v, j)
  <2>1. (k = "tempo" /\ y \in Levels) \/ (k = "next" /\ y \in Numbers)
    BY DEF KeyKinds
  <2> QED BY <1>1, <2>1, DocWith
<1> HIDE DEF w
<1>3. Field(w, "lanes") = Field(v, "lanes") /\ Field(w, "tracks") = Field(v, "tracks")
  BY <1>2
<1>4. w \in Docs /\ SameLists(v, w)
  BY <1>1, <1>2, <1>3 DEF Docs, SameLists, LanesOf, Tracks
<1>5. HoldsAt(w, KeyPath(k), y)
  BY <1>2 DEF HoldsAt
<1>6. ASSUME NEW q, NEW z, q # KeyPath(k), HoldsAt(v, q, z) PROVE HoldsAt(w, q, z)
  <2>1. CASE \E j \in {"tempo", "next"} : q = KeyPath(j) /\ z = Field(v, j)
    <3>1. PICK j \in {"tempo", "next"} : q = KeyPath(j) /\ z = Field(v, j)
      BY <2>1
    <3>2. Field(w, j) = Field(v, j)
      BY <3>1, <1>2, <1>6
    <3> QED BY <3>1, <3>2 DEF HoldsAt
  <2>2. CASE ~\E j \in {"tempo", "next"} : q = KeyPath(j) /\ z = Field(v, j)
    BY <2>2, <1>4, <1>6 DEF HoldsAt, SameLists
  <2> QED BY <2>1, <2>2
<1>7. Placed(v, w, KeyPath(k), y)
  BY <1>4, <1>5, <1>6 DEF Placed
<1> QED BY <1>7 DEF w

\* Replacing the element at a position.
LEMMA PlaceLane ==
  ASSUME NEW v \in Docs, NEW i \in 1..Len(LanesOf(v)), NEW y \in LaneValues
  PROVE  Placed(v, With(v, "lanes", Array([LanesOf(v) EXCEPT ![i] = y])), LanePath(i), y)
<1> DEFINE s == LanesOf(v)
           u == [s EXCEPT ![i] = y]
           w == With(v, "lanes", Array(u))
<1>1. v \in DocShape /\ Field(v, "tracks").arr \in UniqueTracks
  BY DEF Docs
<1>2. s \in Seq(LaneValues)
  BY DocLists
<1>3. u \in Seq(LaneValues) /\ Len(u) = Len(s) /\ \A j \in 1..Len(s) : u[j] = IF j = i THEN y ELSE s[j]
  <2> HIDE DEF s
  <2>1. i \in 1..Len(s)
    BY DEF s
  <2> QED BY <1>2, <2>1, ExceptSeq
<1> HIDE DEF u
<1>4. Array(u) \in LaneLists /\ Array(u).arr = u
  BY <1>3 DEF LaneLists, Array
<1>5. /\ w \in DocShape
      /\ Field(w, "lanes") = Array(u)
      /\ \A j \in {"tempo", "next", "lanes", "tracks"} : j # "lanes" => Field(w, j) = Field(v, j)
  BY <1>1, <1>4, DocWith
<1> HIDE DEF w
<1>6. w \in Docs /\ LanesOf(w) = u /\ Tracks(w) = Tracks(v)
      /\ Field(w, "tempo") = Field(v, "tempo") /\ Field(w, "next") = Field(v, "next")
  BY <1>1, <1>4, <1>5 DEF Docs, LanesOf, Tracks
<1>7. HoldsAt(w, LanePath(i), y)
  BY <1>3, <1>6 DEF HoldsAt
<1>8. ASSUME NEW q, NEW z, q # LanePath(i), HoldsAt(v, q, z) PROVE HoldsAt(w, q, z)
  <2>1. CASE \E j \in 1..Len(s) : q = LanePath(j) /\ z = s[j]
    <3>1. PICK j \in 1..Len(s) : q = LanePath(j) /\ z = s[j]
      BY <2>1
    <3>2. u[j] = s[j] /\ j \in 1..Len(u)
      BY <3>1, <1>3, <1>8
    <3> HIDE DEF s
    <3> QED BY <3>1, <3>2, <1>6 DEF HoldsAt
  <2>2. CASE \E k \in {"tempo", "next"} : q = KeyPath(k) /\ z = Field(v, k)
    <3>1. PICK k \in {"tempo", "next"} : q = KeyPath(k) /\ z = Field(v, k)
      BY <2>2
    <3>2. Field(w, k) = Field(v, k)
      BY <3>1, <1>6
    <3> QED BY <3>1, <3>2 DEF HoldsAt
  <2>3. CASE \E j \in 1..Len(Tracks(v)) : \E k \in TrackKeys :
                q = FieldPath(IdOf(Tracks(v)[j]).is, k) /\ z = Field(Tracks(v)[j], k)
    BY <2>3, <1>6 DEF HoldsAt
  <2> QED BY <2>1, <2>2, <2>3, <1>8 DEF HoldsAt
<1>9. Placed(v, w, LanePath(i), y)
  BY <1>6, <1>7, <1>8 DEF Placed
<1> QED BY <1>9 DEF w, u

\* Replacing a field of a track.
LEMMA PlaceField ==
  ASSUME NEW v \in Docs, NEW i \in 1..Len(Tracks(v)), NEW k \in TrackKeys, NEW y \in KindOf(k)
  PROVE  Placed(v, With(v, "tracks", Array([Tracks(v) EXCEPT ![i] = With(Tracks(v)[i], k, y)])),
                FieldPath(IdOf(Tracks(v)[i]).is, k), y)
<1> DEFINE s == Tracks(v)
           t == With(s[i], k, y)
           u == [s EXCEPT ![i] = t]
           w == With(v, "tracks", Array(u))
<1>1. v \in DocShape /\ s \in UniqueTracks
  BY DocLists
<1>2. s[i] \in TrackShape
  BY DocLists
<1>3. /\ t \in TrackShape
      /\ Field(t, k) = y
      /\ \A j \in {"id", "level", "target"} : j # k => Field(t, j) = Field(s[i], j)
      /\ IdOf(t) = IdOf(s[i])
  BY <1>2, TrackWith
<1> HIDE DEF t
<1>4. u \in UniqueTracks /\ Len(u) = Len(s) /\ \A j \in 1..Len(s) : u[j] = IF j = i THEN t ELSE s[j]
  BY <1>1, <1>3, TracksWith
<1> HIDE DEF u
<1>5. Array(u) \in TrackLists /\ Array(u).arr = u
  BY <1>4 DEF TrackLists, UniqueTracks, Array
<1>6. /\ w \in DocShape
      /\ Field(w, "tracks") = Array(u)
      /\ \A j \in {"tempo", "next", "lanes", "tracks"} : j # "tracks" => Field(w, j) = Field(v, j)
  BY <1>1, <1>5, DocWith
<1> HIDE DEF w
<1>7. w \in Docs /\ Tracks(w) = u /\ LanesOf(w) = LanesOf(v)
      /\ Field(w, "tempo") = Field(v, "tempo") /\ Field(w, "next") = Field(v, "next")
  BY <1>4, <1>5, <1>6 DEF Docs, LanesOf, Tracks
<1> DEFINE path == FieldPath(IdOf(s[i]).is, k)
<1>8. i \in 1..Len(u) /\ u[i] = t
  BY <1>4
<1>9. HoldsAt(w, path, y)
  <2>1. path = FieldPath(IdOf(u[i]).is, k) /\ y = Field(u[i], k)
    BY <1>3, <1>8
  <2> HIDE DEF path
  <2> QED BY <2>1, <1>7, <1>8 DEF HoldsAt
<1>10. ASSUME NEW q, NEW z, q # path, HoldsAt(v, q, z) PROVE HoldsAt(w, q, z)
  <2>1. CASE \E j \in 1..Len(s) : \E m \in TrackKeys : q = FieldPath(IdOf(s[j]).is, m) /\ z = Field(s[j], m)
    <3>1. PICK j \in 1..Len(s) : \E m \in TrackKeys : q = FieldPath(IdOf(s[j]).is, m) /\ z = Field(s[j], m)
      BY <2>1
    <3>2. PICK m \in TrackKeys : q = FieldPath(IdOf(s[j]).is, m) /\ z = Field(s[j], m)
      BY <3>1
    <3>3. j \in 1..Len(u) /\ IdOf(u[j]) = IdOf(s[j]) /\ Field(u[j], m) = Field(s[j], m)
      <4>1. CASE j # i
        BY <4>1, <1>4
      <4>2. CASE j = i
        <5>1. m # k
          BY <3>2, <4>2, <1>10
        <5>2. m \in {"id", "level", "target"}
          BY DEF TrackKeys
        <5> QED BY <4>2, <5>1, <5>2, <1>3, <1>8
      <4> QED BY <4>1, <4>2
    <3>4. q = FieldPath(IdOf(u[j]).is, m) /\ z = Field(u[j], m)
      BY <3>2, <3>3
    <3> QED BY <3>3, <3>4, <1>7 DEF HoldsAt
  <2>2. CASE \E j \in {"tempo", "next"} : q = KeyPath(j) /\ z = Field(v, j)
    <3>1. PICK j \in {"tempo", "next"} : q = KeyPath(j) /\ z = Field(v, j)
      BY <2>2
    <3>2. Field(w, j) = Field(v, j)
      BY <3>1, <1>7
    <3> QED BY <3>1, <3>2 DEF HoldsAt
  <2>3. CASE \E j \in 1..Len(LanesOf(v)) : q = LanePath(j) /\ z = LanesOf(v)[j]
    BY <2>3, <1>7 DEF HoldsAt
  <2> QED BY <2>1, <2>2, <2>3, <1>10 DEF HoldsAt
<1>11. Placed(v, w, path, y)
  BY <1>7, <1>9, <1>10 DEF Placed
<1> QED BY <1>11 DEF w, u, t

\* Paths followed and replaced.

\* The path of a scalar field is followed and set.
LEMMA FollowKey ==
  ASSUME NEW v \in Docs, NEW k \in {"tempo", "next"}
  PROVE  /\ ValueAt(v, KeyPath(k)) = Field(v, k)
         /\ \A y : SetConflictedValue(v, PathSegments(KeyPath(k)), y) = With(v, k, y)
<1> DEFINE path == KeyPath(k)
           seg == [key |-> k]
<1>1. Len(path) = 1 /\ DOMAIN path = 1..Len(path) /\ path[1] = seg /\ path = [i \in 1..1 |-> path[i]]
  BY DEF KeyPath
<1>2. "id" \notin DOMAIN seg
  OBVIOUS
<1>3. IsObject(v) /\ k \in DOMAIN v.obj
  <2>1. v \in DocShape
    BY DocLists
  <2> QED BY <2>1, PresentValues, DocFields
<1>4. Step(v, seg) = Field(v, k) /\ Positions(v, seg) = {k}
      /\ \A y : Replaced(v, CHOOSE p \in Positions(v, seg) : TRUE, y) = With(v, k, y)
  BY <1>3, KeySegment
<1> HIDE DEF path, seg
<1>5. PathSegments(path) = path
  <2>1. \A i \in 1..1 : i = 1
    OBVIOUS
  <2> QED BY <1>1, <1>2, <2>1 DEF PathSegments
<1>6. Along(v, path)[0] = v /\ Along(v, path)[1] = Field(v, k)
  BY <1>1, <1>4, AlongShort
<1>7. Under(v, path, 1) = {k}
  BY <1>1, <1>4, <1>6 DEF Under
<1>8. ASSUME NEW y PROVE SetConflictedValue(v, path, y) = With(v, k, y)
  <2>1. ~\E d \in DOMAIN path : Under(v, path, d) = {}
    <3>1. \A d \in 1..1 : d = 1
      OBVIOUS
    <3> QED BY <1>1, <1>7, <3>1
  <2>2. SetConflictedValue(v, path, y) = Changed(v, path, 1, y)
    BY <1>1, <2>1, SetShort DEF SetsShort
  <2> QED BY <2>2, <1>1, <1>4, <1>6, <1>7 DEF Changed
<1>9. ValueAt(v, path) = Field(v, k)
  BY <1>1, <1>6 DEF ValueAt
<1> QED BY <1>5, <1>8, <1>9 DEF path

\* The path of a position is followed and set.
LEMMA FollowLane ==
  ASSUME NEW v \in Docs, NEW i \in 1..Len(LanesOf(v))
  PROVE  /\ ValueAt(v, LanePath(i)) = LanesOf(v)[i]
         /\ \A y : SetConflictedValue(v, PathSegments(LanePath(i)), y) =
                       With(v, "lanes", Array([LanesOf(v) EXCEPT ![i] = y]))
<1> DEFINE path == LanePath(i)
           one == [key |-> "lanes"]
           two == [index |-> i]
           s == LanesOf(v)
<1>1. Len(path) = 2 /\ DOMAIN path = 1..Len(path) /\ path[1] = one /\ path[2] = two /\ path = [d \in 1..2 |-> path[d]]
  BY DEF LanePath
<1>2. "id" \notin DOMAIN one /\ "id" \notin DOMAIN two
  OBVIOUS
<1>3. IsObject(v) /\ "lanes" \in DOMAIN v.obj
  <2>1. v \in DocShape
    BY DocLists
  <2> QED BY <2>1, PresentValues, DocFields
<1>4. s \in Seq(LaneValues) /\ Field(v, "lanes") = Array(s)
  BY DocLists
<1>5. Step(v, one) = Array(s) /\ Positions(v, one) = {"lanes"}
      /\ \A y : Replaced(v, CHOOSE p \in Positions(v, one) : TRUE, y) = With(v, "lanes", y)
  BY <1>3, <1>4, KeySegment
<1>6. Positions(Array(s), two) = {i}
  BY <1>4, IndexSegment
<1>7. Step(Array(s), two) = s[i]
      /\ \A y : Replaced(Array(s), CHOOSE p \in Positions(Array(s), two) : TRUE, y) = Array([s EXCEPT ![i] = y])
  BY <1>6, ListSegment
<1> HIDE DEF path, one, two, s
<1>8. \A d \in 1..2 : d = 1 \/ d = 2
  OBVIOUS
<1>9. PathSegments(path) = path
  BY <1>1, <1>2, <1>8 DEF PathSegments
<1>10. Along(v, path)[0] = v /\ Along(v, path)[1] = Array(s) /\ Along(v, path)[2] = s[i]
  BY <1>1, <1>5, <1>7, AlongShort
<1>11. Under(v, path, 1) = {"lanes"} /\ Under(v, path, 2) = {i}
  <2>1. 1 - 1 = 0 /\ 2 - 1 = 1
    OBVIOUS
  <2> QED BY <2>1, <1>1, <1>5, <1>6, <1>10 DEF Under
<1>12. ASSUME NEW y PROVE SetConflictedValue(v, path, y) = With(v, "lanes", Array([s EXCEPT ![i] = y]))
  <2>1. ~\E d \in DOMAIN path : Under(v, path, d) = {}
    BY <1>1, <1>8, <1>11
  <2>2. SetConflictedValue(v, path, y) = Changed(v, path, 1, Changed(v, path, 2, y))
    <3>1. SetsShort(v, path, y, SetConflictedValue(v, path, y))
      BY <1>1, SetShort
    <3> QED BY <1>1, <2>1, <3>1 DEF SetsShort
  <2>3. Under(v, path, 1) = Positions(v, one) /\ Under(v, path, 2) = Positions(Array(s), two)
    BY <1>5, <1>6, <1>11
  <2>4. 1 - 1 = 0 /\ 2 - 1 = 1
    OBVIOUS
  <2>5. Changed(v, path, 2, y) = Array([s EXCEPT ![i] = y])
    BY <2>3, <2>4, <1>7, <1>10 DEF Changed
  <2>6. \A x : Changed(v, path, 1, x) = With(v, "lanes", x)
    BY <2>3, <2>4, <1>5, <1>10 DEF Changed
  <2> QED BY <2>2, <2>5, <2>6
<1>13. ValueAt(v, path) = s[i]
  BY <1>1, <1>10 DEF ValueAt
<1> QED BY <1>9, <1>12, <1>13 DEF path, s

\* The path of a field of a track is followed, and set unless the text of the
\* path cuts the identity short.
LEMMA FollowField ==
  ASSUME NEW v \in Docs, NEW i \in 1..Len(Tracks(v)), NEW k \in TrackKeys
  PROVE  /\ ValueAt(v, FieldPath(IdOf(Tracks(v)[i]).is, k)) = Field(Tracks(v)[i], k)
         /\ IdOf(Tracks(v)[i]).is \notin Bracketed =>
                \A y : SetConflictedValue(v, PathSegments(FieldPath(IdOf(Tracks(v)[i]).is, k)), y) =
                           With(v, "tracks", Array([Tracks(v) EXCEPT ![i] = With(Tracks(v)[i], k, y)]))
         /\ IdOf(Tracks(v)[i]).is \in Bracketed =>
                \A y : SetConflictedValue(v, PathSegments(FieldPath(IdOf(Tracks(v)[i]).is, k)), y) = Failed
<1> DEFINE s == Tracks(v)
           x == IdOf(s[i]).is
           path == FieldPath(x, k)
           one == [key |-> "tracks"]
           two == [id |-> x]
           three == [key |-> k]
           cut == [cut |-> x]
<1>1. /\ Len(path) = 3 /\ DOMAIN path = 1..Len(path) /\ path = [d \in 1..3 |-> path[d]]
      /\ path[1] = one /\ path[2] = two /\ path[3] = three
  BY DEF FieldPath
<1>2. "id" \notin DOMAIN one /\ "id" \in DOMAIN two /\ two.id = x /\ "id" \notin DOMAIN three
  OBVIOUS
<1>3. IsObject(v) /\ "tracks" \in DOMAIN v.obj
  <2>1. v \in DocShape
    BY DocLists
  <2> QED BY <2>1, PresentValues, DocFields
<1>4. s \in UniqueTracks /\ Field(v, "tracks") = Array(s) /\ s[i] \in TrackShape
  BY DocLists
<1>5. Step(v, one) = Array(s) /\ Positions(v, one) = {"tracks"}
      /\ \A y : Replaced(v, CHOOSE p \in Positions(v, one) : TRUE, y) = With(v, "tracks", y)
  BY <1>3, <1>4, KeySegment
<1>6. Positions(Array(s), two) = {i}
  BY <1>4, IdSegment
<1>7. Step(Array(s), two) = s[i]
      /\ \A y : Replaced(Array(s), CHOOSE p \in Positions(Array(s), two) : TRUE, y) = Array([s EXCEPT ![i] = y])
  BY <1>6, ListSegment
<1>8. Step(s[i], three) = Field(s[i], k) /\ Positions(s[i], three) = {k}
      /\ \A y : Replaced(s[i], CHOOSE p \in Positions(s[i], three) : TRUE, y) = With(s[i], k, y)
  <2>1. IsObject(s[i]) /\ k \in DOMAIN s[i].obj
    BY <1>4, PresentValues, TrackFields DEF TrackKeys
  <2> QED BY <2>1, KeySegment
<1>9. Positions(Array(s), cut) = {}
  BY CutSegment
<1> HIDE DEF path, one, two, three, cut, s, x
<1>10. \A d \in 1..3 : d = 1 \/ d = 2 \/ d = 3
  OBVIOUS
<1>11. 1 - 1 = 0 /\ 2 - 1 = 1 /\ 3 - 1 = 2
  OBVIOUS
<1>12. Along(v, path)[0] = v /\ Along(v, path)[1] = Array(s) /\ Along(v, path)[2] = s[i] /\ Along(v, path)[3] = Field(s[i], k)
  BY <1>1, <1>5, <1>7, <1>8, AlongShort
<1>13. ValueAt(v, path) = Field(s[i], k)
  BY <1>1, <1>12 DEF ValueAt
<1>14. ASSUME x \notin Bracketed, NEW y
       PROVE  SetConflictedValue(v, PathSegments(path), y) = With(v, "tracks", Array([s EXCEPT ![i] = With(s[i], k, y)]))
  <2>1. PathSegments(path) = path
    BY <1>1, <1>2, <1>10, <1>14 DEF PathSegments
  <2>2. Under(v, path, 1) = {"tracks"} /\ Under(v, path, 2) = {i} /\ Under(v, path, 3) = {k}
    BY <1>1, <1>5, <1>6, <1>8, <1>11, <1>12 DEF Under
  <2>3. ~\E d \in DOMAIN path : Under(v, path, d) = {}
    BY <1>1, <1>10, <2>2
  <2>4. SetConflictedValue(v, path, y) = Changed(v, path, 1, Changed(v, path, 2, Changed(v, path, 3, y)))
    <3>1. SetsShort(v, path, y, SetConflictedValue(v, path, y))
      BY <1>1, SetShort
    <3> QED BY <1>1, <2>3, <3>1 DEF SetsShort
  <2>5. Under(v, path, 1) = Positions(v, one) /\ Under(v, path, 2) = Positions(Array(s), two)
        /\ Under(v, path, 3) = Positions(s[i], three)
    BY <1>5, <1>6, <1>8, <2>2
  <2>6. Changed(v, path, 3, y) = With(s[i], k, y)
    BY <2>5, <1>8, <1>11, <1>12 DEF Changed
  <2>7. \A z : Changed(v, path, 2, z) = Array([s EXCEPT ![i] = z])
    BY <2>5, <1>7, <1>11, <1>12 DEF Changed
  <2>8. \A z : Changed(v, path, 1, z) = With(v, "tracks", z)
    BY <2>5, <1>5, <1>11, <1>12 DEF Changed
  <2> QED BY <2>1, <2>4, <2>6, <2>7, <2>8
<1>15. ASSUME x \in Bracketed, NEW y PROVE SetConflictedValue(v, PathSegments(path), y) = Failed
  <2> DEFINE text == PathSegments(path)
  <2>1. /\ Len(text) = 3 /\ DOMAIN text = 1..3
        /\ text[1] = one /\ text[2] = cut
    BY <1>1, <1>2, <1>15 DEF PathSegments, cut
  <2> HIDE DEF text
  <2>2. Along(v, text)[0] = v /\ Along(v, text)[1] = Array(s)
    BY <2>1, <1>5, AlongShort
  <2>3. Under(v, text, 2) = {}
    BY <2>1, <2>2, <1>9, <1>11 DEF Under
  <2>4. \E d \in DOMAIN text : Under(v, text, d) = {}
    BY <2>1, <2>3
  <2>5. SetConflictedValue(v, text, y) = Failed
    <3>1. SetsShort(v, text, y, SetConflictedValue(v, text, y))
      BY <2>1, SetShort
    <3> QED BY <2>4, <3>1 DEF SetsShort
  <2> QED BY <2>5 DEF text
<1> QED BY <1>13, <1>14, <1>15 DEF path, x, s

-----------------------------------------------------------------------------
\* CHOICES

\* A path to a field of a project names it.
LEMMA KeyPathParts ==
  ASSUME NEW k, NEW m, KeyPath(k) = KeyPath(m)
  PROVE  k = m
<1>1. KeyPath(k)[1] = [key |-> k] /\ KeyPath(m)[1] = [key |-> m]
  BY DEF KeyPath
<1>2. [key |-> k].key = k /\ [key |-> m].key = m
  OBVIOUS
<1> QED BY <1>1, <1>2

\* A place is read by its path, and setting it fails or changes nothing else.
LEMMA SetPlace ==
  ASSUME NEW v \in Docs, NEW path, NEW x, NEW y, HoldsAt(v, path, x), Typed(path, y)
  PROVE  /\ ValueAt(v, path) = x
         /\ \/ SetConflictedValue(v, PathSegments(path), y) = Failed
            \/ Placed(v, SetConflictedValue(v, PathSegments(path), y), path, y)
<1> DEFINE w == SetConflictedValue(v, PathSegments(path), y)
<1> HIDE DEF w
<1> SUFFICES ValueAt(v, path) = x /\ (w = Failed \/ Placed(v, w, path, y))
  BY DEF w
<1>1. CASE \E k \in {"tempo", "next"} : path = KeyPath(k) /\ x = Field(v, k)
  <2>1. PICK k \in {"tempo", "next"} : path = KeyPath(k) /\ x = Field(v, k)
    BY <1>1
  <2>2. y \in KeyKinds(k)
    <3>1. PICK m \in {"tempo", "next"} : path = KeyPath(m) /\ y \in KeyKinds(m)
      BY <2>1, PathKinds DEF Typed
    <3>2. KeyPath(k) = KeyPath(m)
      BY <2>1, <3>1
    <3>3. k = m
      BY <3>2, KeyPathParts
    <3> QED BY <3>1, <3>3
  <2>3. ValueAt(v, path) = x /\ w = With(v, k, y)
    BY <2>1, FollowKey DEF w
  <2>4. Placed(v, w, path, y)
    BY <2>1, <2>2, <2>3, PlaceKey
  <2> QED BY <2>3, <2>4
<1>2. CASE \E i \in 1..Len(LanesOf(v)) : path = LanePath(i) /\ x = LanesOf(v)[i]
  <2>1. PICK i \in 1..Len(LanesOf(v)) : path = LanePath(i) /\ x = LanesOf(v)[i]
    BY <1>2
  <2>2. y \in LaneValues
    BY <2>1, PathKinds DEF Typed
  <2>3. ValueAt(v, path) = x /\ w = With(v, "lanes", Array([LanesOf(v) EXCEPT ![i] = y]))
    BY <2>1, FollowLane DEF w
  <2>4. Placed(v, w, path, y)
    BY <2>1, <2>2, <2>3, PlaceLane
  <2> QED BY <2>3, <2>4
<1>3. CASE \E i \in 1..Len(Tracks(v)) : \E k \in TrackKeys :
               path = FieldPath(IdOf(Tracks(v)[i]).is, k) /\ x = Field(Tracks(v)[i], k)
  <2>1. PICK i \in 1..Len(Tracks(v)) : \E k \in TrackKeys :
               path = FieldPath(IdOf(Tracks(v)[i]).is, k) /\ x = Field(Tracks(v)[i], k)
    BY <1>3
  <2>2. PICK k \in TrackKeys : path = FieldPath(IdOf(Tracks(v)[i]).is, k) /\ x = Field(Tracks(v)[i], k)
    BY <2>1
  <2>3. y \in KindOf(k)
    <3>1. PICK u \in TrackId : \E m \in TrackKeys : path = FieldPath(u, m) /\ y \in KindOf(m)
      BY <2>2, PathKinds DEF Typed
    <3>2. PICK m \in TrackKeys : path = FieldPath(u, m) /\ y \in KindOf(m)
      BY <3>1
    <3>3. FieldPath(IdOf(Tracks(v)[i]).is, k) = FieldPath(u, m)
      BY <2>2, <3>2
    <3>4. k = m
      BY <3>3, FieldPathParts
    <3> QED BY <3>2, <3>4
  <2>4. ValueAt(v, path) = x
    BY <2>2, FollowField
  <2>5. CASE IdOf(Tracks(v)[i]).is \in Bracketed
    <3>1. w = Failed
      BY <2>2, <2>5, FollowField DEF w
    <3> QED BY <2>4, <3>1
  <2>6. CASE IdOf(Tracks(v)[i]).is \notin Bracketed
    <3>1. w = With(v, "tracks", Array([Tracks(v) EXCEPT ![i] = With(Tracks(v)[i], k, y)]))
      BY <2>2, <2>6, FollowField DEF w
    <3>2. Placed(v, w, path, y)
      BY <2>2, <2>3, <3>1, PlaceField
    <3> QED BY <2>4, <3>2
  <2> QED BY <2>5, <2>6
<1> QED BY <1>1, <1>2, <1>3 DEF HoldsAt

\* One choice after the other.

\* The value that conflict p has once the first i choices are applied.
Chosen(conflicts, choices, p, i) ==
    IF p <= i /\ choices[p] # "local" THEN conflicts[p].remote ELSE conflicts[p].local

\* v has that value for every conflict.
AllChosen(v, conflicts, choices, i) ==
    \A p \in 1..Len(conflicts) : HoldsAt(v, conflicts[p].path, Chosen(conflicts, choices, p, i))

Resolved(v, conflicts, choices, i) ==
    v = Failed \/ (v \in Docs /\ AllChosen(v, conflicts, choices, i))

\* Every conflict offers a remote value of the right kind.
AllTyped(conflicts) == \A p \in 1..Len(conflicts) : Typed(conflicts[p].path, conflicts[p].remote)

\* One choice is applied; those before it still hold.
LEMMA ResolveStep ==
  ASSUME NEW conflicts \in Seq(ConflictShape), OneEach(conflicts), AllTyped(conflicts),
         NEW choices, NEW i \in 1..Len(conflicts), NEW v, Resolved(v, conflicts, choices, i - 1)
  PROVE  Resolved(ResolveOne(v, conflicts[i], choices[i]), conflicts, choices, i)
<1> DEFINE w == ResolveOne(v, conflicts[i], choices[i])
           n == Len(conflicts)
<1>1. n \in Nat /\ i \in 1..n
  OBVIOUS
<1>2. CASE v = Failed
  BY <1>2 DEF ResolveOne, Resolved
<1>3. CASE v # Failed /\ choices[i] = "local"
  <2>1. w = v
    BY <1>3 DEF ResolveOne
  <2>2. v \in Docs /\ AllChosen(v, conflicts, choices, i - 1)
    BY <1>3 DEF Resolved
  <2> HIDE DEF n
  <2>3. \A p \in 1..n : Chosen(conflicts, choices, p, i) = Chosen(conflicts, choices, p, i - 1)
    <3> TAKE p \in 1..n
    <3>1. CASE p = i
      BY <3>1, <1>1, <1>3 DEF Chosen
    <3>2. CASE p # i
      <4>1. p <= i <=> p <= i - 1
        BY <3>2, <1>1
      <4> QED BY <4>1 DEF Chosen
    <3> QED BY <3>1, <3>2
  <2>4. AllChosen(v, conflicts, choices, i)
    BY <2>2, <2>3 DEF AllChosen, n
  <2> QED BY <2>1, <2>2, <2>4 DEF Resolved
<1>4. CASE v # Failed /\ choices[i] # "local"
  <2> DEFINE path == conflicts[i].path
             y == conflicts[i].remote
  <2>1. w = SetConflictedValue(v, PathSegments(path), y)
    BY <1>4 DEF ResolveOne
  <2>2. v \in Docs /\ AllChosen(v, conflicts, choices, i - 1)
    BY <1>4 DEF Resolved
  <2>3. HoldsAt(v, path, Chosen(conflicts, choices, i, i - 1)) /\ Typed(path, y)
    BY <2>2 DEF AllChosen, AllTyped
  <2> HIDE DEF w, path, y
  <2>4. w = Failed \/ Placed(v, w, path, y)
    BY <2>1, <2>2, <2>3, SetPlace
  <2>5. CASE w = Failed
    BY <2>5 DEF Resolved, w
  <2>6. CASE Placed(v, w, path, y)
    <3>1. w \in Docs /\ HoldsAt(w, path, y) /\ \A q, z : q # path /\ HoldsAt(v, q, z) => HoldsAt(w, q, z)
      BY <2>6 DEF Placed
    <3>2. ASSUME NEW p \in 1..n PROVE HoldsAt(w, conflicts[p].path, Chosen(conflicts, choices, p, i))
      <4>1. CASE p = i
        <5>1. Chosen(conflicts, choices, p, i) = y
          BY <4>1, <1>1, <1>4 DEF Chosen, y
        <5> QED BY <5>1, <4>1, <3>1 DEF path
      <4>2. CASE p # i
        <5>1. p <= i <=> p <= i - 1
          BY <4>2, <1>1
        <5>2. Chosen(conflicts, choices, p, i) = Chosen(conflicts, choices, p, i - 1)
          BY <5>1 DEF Chosen
        <5>3. conflicts[p].path # path
          BY <4>2, <1>1 DEF OneEach, path
        <5>4. HoldsAt(v, conflicts[p].path, Chosen(conflicts, choices, p, i - 1))
          BY <2>2 DEF AllChosen
        <5> QED BY <5>2, <5>3, <5>4, <3>1
      <4> QED BY <4>1, <4>2
    <3>3. AllChosen(w, conflicts, choices, i)
      BY <3>2 DEF AllChosen
    <3> QED BY <3>1, <3>3 DEF Resolved, w
  <2> QED BY <2>4, <2>5, <2>6
<1> QED BY <1>2, <1>3, <1>4

\* R applies the choices one after the other; where a value leaves T it fails.
Applies(R, first, conflicts, choices, T) ==
    /\ R[0] = first
    /\ \A i \in 1..Len(conflicts) :
          \/ R[i] = ResolveOne(R[i - 1], conflicts[i], choices[i])
          \/ ResolveOne(R[i - 1], conflicts[i], choices[i]) \notin T

Repeats(R, conflicts, choices) ==
    \A i \in 1..Len(conflicts) : R[i] = ResolveOne(R[i - 1], conflicts[i], choices[i])

\* All choices are applied in turn: the recursion of resolve_conflicts is one.
LEMMA ResolveSteps ==
  ASSUME NEW v \in Docs, NEW conflicts \in Seq(ConflictShape), OneEach(conflicts), AllTyped(conflicts),
         NEW choices, AllChosen(v, conflicts, choices, 0),
         NEW R, Applies(R, v, conflicts, choices, Docs \cup {Failed})
  PROVE  /\ \A i \in 0..Len(conflicts) : Resolved(R[i], conflicts, choices, i)
         /\ Repeats(R, conflicts, choices)
<1> DEFINE n == Len(conflicts)
           S == {i \in Nat : i <= n => Resolved(R[i], conflicts, choices, i)}
<1>1. n \in Nat
  OBVIOUS
<1>2. 0 \in S
  BY DEF Resolved, Applies
<1>3. ASSUME NEW i \in 1..n, Resolved(R[i - 1], conflicts, choices, i - 1)
      PROVE  R[i] = ResolveOne(R[i - 1], conflicts[i], choices[i]) /\ Resolved(R[i], conflicts, choices, i)
  <2>1. Resolved(ResolveOne(R[i - 1], conflicts[i], choices[i]), conflicts, choices, i)
    BY <1>3, ResolveStep
  <2>2. ResolveOne(R[i - 1], conflicts[i], choices[i]) \in Docs \cup {Failed}
    BY <2>1 DEF Resolved
  <2>3. R[i] = ResolveOne(R[i - 1], conflicts[i], choices[i])
    BY <2>2 DEF Applies
  <2> QED BY <2>1, <2>3
<1>4. ASSUME NEW i \in Nat, i \in S PROVE i + 1 \in S
  <2> SUFFICES ASSUME i + 1 <= n PROVE Resolved(R[i + 1], conflicts, choices, i + 1)
    OBVIOUS
  <2>1. i + 1 \in 1..n /\ (i + 1) - 1 = i /\ i <= n
    BY <1>1
  <2>2. Resolved(R[i], conflicts, choices, i)
    BY <1>4, <2>1
  <2> HIDE DEF n, S
  <2> DEFINE j == i + 1
  <2>3. j \in 1..n /\ Resolved(R[j - 1], conflicts, choices, j - 1)
    BY <2>1, <2>2
  <2> HIDE DEF j
  <2>4. Resolved(R[j], conflicts, choices, j)
    BY <2>3, <1>3
  <2> QED BY <2>4 DEF j
<1> HIDE DEF S
<1>5. Nat \subseteq S
  BY <1>2, <1>4, NaturalInduction
<1>6. \A i \in 0..n : Resolved(R[i], conflicts, choices, i)
  BY <1>1, <1>5 DEF S
<1>7. ASSUME NEW i \in 1..n PROVE R[i] = ResolveOne(R[i - 1], conflicts[i], choices[i])
  <2>1. i - 1 \in 0..n
    BY <1>1
  <2>2. Resolved(R[i - 1], conflicts, choices, i - 1)
    BY <1>6, <2>1
  <2> QED BY <2>2, <1>3
<1> QED BY <1>6, <1>7 DEF n, Repeats

\* The conflicts of a merge resolved: every choice holds in the result, unless
\* a path led nowhere.
THEOREM ResolveAll ==
  ASSUME NEW merge, merge.value \in Docs, Sound(merge.conflicts, ProjectPaths, merge.value), NEW choices
  PROVE  Resolved(ResolveConflicts(merge, choices), merge.conflicts, choices, Len(merge.conflicts))
<1> DEFINE c == merge.conflicts
           v == merge.value
           n == Len(c)
           T == Docs \cup {Failed}
           g == [p \in (1..n) \X T |-> IF ResolveOne(p[2], c[p[1]], choices[p[1]]) \in T
                                         THEN ResolveOne(p[2], c[p[1]], choices[p[1]]) ELSE Failed]
           R == CHOOSE R : R = [i \in 0..n |-> IF i = 0 THEN v ELSE ResolveOne(R[i - 1], c[i], choices[i])]
<1>1. c \in Seq(ConflictShape) /\ OneEach(c) /\ n \in Nat
  BY DEF Sound
<1>2. v \in Docs /\ AllTyped(c) /\ AllChosen(v, c, choices, 0)
  <2> HIDE DEF c, v
  <2>1. v \in Docs /\ \A p \in 1..Len(c) : Fits(c[p], v)
    BY DEF Sound, c, v
  <2>2. \A p \in 1..Len(c) : HoldsAt(v, c[p].path, c[p].local) /\ Typed(c[p].path, c[p].remote)
    BY <2>1, FitsHolds
  <2>3. \A p \in 1..Len(c) : Chosen(c, choices, p, 0) = c[p].local
    BY <1>1 DEF Chosen
  <2> QED BY <2>1, <2>2, <2>3 DEF AllTyped, AllChosen
<1>3. ResolveConflicts(merge, choices) = R[n]
  BY DEF ResolveConflicts
<1>4. \A i \in 1..n : \A x \in T :
          g[<<i, x>>] = IF ResolveOne(x, c[i], choices[i]) \in T THEN ResolveOne(x, c[i], choices[i]) ELSE Failed
  OBVIOUS
<1>5. Failed \in T /\ v \in T
  BY <1>2
<1> HIDE DEF c, v, n, T, g
<1>6. PICK F : Iterates(F, g, v, n, T)
  <2>1. Steps(g, n, T)
    BY <1>4, <1>5 DEF Steps
  <2> QED BY <2>1, <1>1, <1>5, RecursionExists
<1>7. F \in [0..n -> T] /\ F[0] = v /\ \A i \in 1..n : F[i] = g[<<i, F[i - 1]>>]
  BY <1>6 DEF Iterates
<1>8. Applies(F, v, c, choices, T)
  <2>1. ASSUME NEW i \in 1..n
        PROVE  \/ F[i] = ResolveOne(F[i - 1], c[i], choices[i])
               \/ ResolveOne(F[i - 1], c[i], choices[i]) \notin T
    <3>1. i - 1 \in 0..n
      BY <1>1 DEF n
    <3>2. F[i - 1] \in T /\ F[i] = g[<<i, F[i - 1]>>]
      BY <1>7, <3>1
    <3> QED BY <3>2, <1>4
  <2> QED BY <2>1, <1>7 DEF Applies, n
<1>9. \A i \in 1..n : F[i] = ResolveOne(F[i - 1], c[i], choices[i])
  <2>1. Applies(F, v, c, choices, Docs \cup {Failed})
    BY <1>8 DEF T
  <2>2. Repeats(F, c, choices)
    BY <1>1, <1>2, <2>1, ResolveSteps
  <2> QED BY <2>2 DEF n, Repeats
<1>10. F = [i \in 0..n |-> IF i = 0 THEN v ELSE ResolveOne(F[i - 1], c[i], choices[i])]
  <2>1. \A i \in 0..n : F[i] = IF i = 0 THEN v ELSE ResolveOne(F[i - 1], c[i], choices[i])
    <3> TAKE i \in 0..n
    <3>1. CASE i = 0
      BY <3>1, <1>7
    <3>2. CASE i # 0
      <4>1. i \in 1..n
        BY <3>2, <1>1 DEF n
      <4> QED BY <4>1, <3>2, <1>9
    <3> QED BY <3>1, <3>2
  <2> QED BY <2>1, <1>7
<1>11. R = [i \in 0..n |-> IF i = 0 THEN v ELSE ResolveOne(R[i - 1], c[i], choices[i])]
  BY <1>10
<1> HIDE DEF R
<1>12. Applies(R, v, c, choices, T)
  <2>1. 0 \in 0..n /\ \A i \in 1..n : i \in 0..n /\ i # 0
    BY <1>1 DEF n
  <2>2. R[0] = v
    BY <1>11, <2>1
  <2>3. \A i \in 1..n : R[i] = ResolveOne(R[i - 1], c[i], choices[i])
    BY <1>11, <2>1
  <2> QED BY <2>2, <2>3 DEF Applies, n
<1>13. \A i \in 0..n : Resolved(R[i], c, choices, i)
  BY <1>1, <1>2, <1>12, ResolveSteps DEF n, T
<1>14. Resolved(R[n], c, choices, n)
  <2>1. n \in 0..n
    BY <1>1 DEF n
  <2> QED BY <2>1, <1>13
<1> QED BY <1>3, <1>14 DEF c, n

-----------------------------------------------------------------------------
\* EDITS

\* Tracks that draw targets of their own from a counter at n.
Counted(s, n) ==
    /\ \A i, j \in 1..Len(s) : Field(s[i], "target") = Field(s[j], "target") => i = j
    /\ \A i \in 1..Len(s) : Field(s[i], "target").num < n

\* A project is coherent if its tracks draw their targets from its counter.
LEMMA CoherentMeans ==
  ASSUME NEW v \in Docs
  PROVE  Coherent(v) <=> Counted(Tracks(v), Field(v, "next").num)
<1> DEFINE s == Tracks(v)
           n == Field(v, "next").num
<1>1. s \in Seq(TrackShape) /\ UniqueIds(s) /\ v \in DocShape
  BY DocLists
<1>2. DOMAIN s = 1..Len(s) /\ Len(s) \in Nat
  BY <1>1
<1>3. n \in Nat
  BY <1>1, DocFields DEF Numbers
<1>4. \A i \in 1..Len(s) : Field(s[i], "target").num \in Nat
  <2> TAKE i \in 1..Len(s)
  <2>1. s[i] \in TrackShape
    BY <1>1
  <2>2. Field(s[i], "target") \in Numbers
    BY <2>1, TrackFields
  <2> QED BY <2>2 DEF Numbers
<1>5. SharedSiblingIds(v) = {}
  BY <1>1, <1>2 DEF SharedSiblingIds, UniqueIds
<1> HIDE DEF s, n
<1>6. SharedTargets(v) = {} <=> \A i, j \in 1..Len(s) : Field(s[i], "target") = Field(s[j], "target") => i = j
  BY <1>2 DEF SharedTargets, s
<1>7. ~CounterTooLow(v) <=> \A i \in 1..Len(s) : Field(s[i], "target").num < n
  BY <1>2, <1>3, <1>4 DEF CounterTooLow, s, n
<1> QED BY <1>5, <1>6, <1>7 DEF Coherent, Counted, s, n

\* What an edit leaves is a project, and a coherent one if it was.
Edits(v, w) == w \in Docs /\ (Coherent(v) => Coherent(w))

\* An edit of the tempo or the lanes.
LEMMA EditedKey ==
  ASSUME NEW v \in Docs, NEW k, NEW y,
         (k = "tempo" /\ y \in Levels) \/ (k = "lanes" /\ y \in LaneLists)
  PROVE  Edits(v, With(v, k, y))
<1> DEFINE w == With(v, k, y)
<1>1. v \in DocShape /\ Field(v, "tracks").arr \in UniqueTracks
  BY DEF Docs
<1>2. /\ w \in DocShape
      /\ \A j \in {"tempo", "next", "lanes", "tracks"} : j # k => Field(w, j) = Field(v, j)
  BY <1>1, DocWith
<1> HIDE DEF w
<1>3. Field(w, "tracks") = Field(v, "tracks") /\ Field(w, "next") = Field(v, "next")
  BY <1>2
<1>4. w \in Docs /\ Tracks(w) = Tracks(v)
  BY <1>1, <1>2, <1>3 DEF Docs, Tracks
<1>5. Coherent(v) => Coherent(w)
  BY <1>3, <1>4, CoherentMeans
<1> QED BY <1>4, <1>5 DEF Edits, w

\* An edit of the tracks that leaves the counter alone.
LEMMA EditedTracks ==
  ASSUME NEW v \in Docs, NEW s \in UniqueTracks,
         Counted(Tracks(v), Field(v, "next").num) => Counted(s, Field(v, "next").num)
  PROVE  Edits(v, With(v, "tracks", Array(s)))
<1> DEFINE w == With(v, "tracks", Array(s))
<1>1. v \in DocShape
  BY DEF Docs
<1>2. Array(s) \in TrackLists /\ Array(s).arr = s
  BY DEF UniqueTracks, TrackLists, Array
<1>3. /\ w \in DocShape
      /\ Field(w, "tracks") = Array(s)
      /\ \A j \in {"tempo", "next", "lanes", "tracks"} : j # "tracks" => Field(w, j) = Field(v, j)
  BY <1>1, <1>2, DocWith
<1> HIDE DEF w
<1>4. Field(w, "next") = Field(v, "next")
  BY <1>3
<1>5. w \in Docs /\ Tracks(w) = s
  BY <1>2, <1>3 DEF Docs, Tracks
<1>6. Coherent(v) => Coherent(w)
  BY <1>4, <1>5, CoherentMeans
<1> QED BY <1>5, <1>6 DEF Edits, w

\* An edit of one level.
LEMMA EditedLevel ==
  ASSUME NEW v \in Docs, NEW i \in 1..Len(Tracks(v)), NEW y \in Levels
  PROVE  Edits(v, With(v, "tracks", Array([Tracks(v) EXCEPT ![i] = With(Tracks(v)[i], "level", y)])))
<1> DEFINE s == Tracks(v)
           t == With(s[i], "level", y)
           u == [s EXCEPT ![i] = t]
           n == Field(v, "next").num
<1>1. s \in UniqueTracks /\ s[i] \in TrackShape
  BY DocLists
<1>2. t \in TrackShape /\ Field(t, "target") = Field(s[i], "target") /\ IdOf(t) = IdOf(s[i])
  <2>1. "level" \in TrackKeys /\ y \in KindOf("level") /\ "target" \in {"id", "level", "target"}
    BY DEF TrackKeys, KindOf
  <2> QED BY <1>1, <2>1, TrackWith
<1> HIDE DEF t
<1>3. u \in UniqueTracks /\ Len(u) = Len(s) /\ \A j \in 1..Len(s) : u[j] = IF j = i THEN t ELSE s[j]
  BY <1>1, <1>2, TracksWith
<1> HIDE DEF u, n
<1>4. \A j \in 1..Len(s) : Field(u[j], "target") = Field(s[j], "target")
  BY <1>2, <1>3
<1>5. Counted(s, n) => Counted(u, n)
  BY <1>3, <1>4 DEF Counted
<1> HIDE DEF s
<1>6. Edits(v, With(v, "tracks", Array(u)))
  BY <1>3, <1>5, EditedTracks DEF s, n
<1> QED BY <1>6 DEF u, t, s

\* What removing an element leaves, and where it was.
LEMMA Removed ==
  ASSUME NEW V, NEW s \in Seq(V), NEW i \in 1..Len(s)
  PROVE  /\ RemoveAt(s, i) \in Seq(V)
         /\ Len(RemoveAt(s, i)) = Len(s) - 1
         /\ \A p \in 1..(Len(s) - 1) : RemoveAt(s, i)[p] = IF p < i THEN s[p] ELSE s[p + 1]
<1> DEFINE n == Len(s)
           left == SubSeq(s, 1, i - 1)
           right == SubSeq(s, i + 1, n)
<1>1. n \in Nat /\ i \in Nat /\ i >= 1 /\ i <= n
  OBVIOUS
<1>2. RemoveAt(s, i) = left \o right
  BY DEF RemoveAt
<1>3. left \in Seq(V) /\ Len(left) = i - 1 /\ \A p \in 1..(i - 1) : left[p] = s[p]
  OBVIOUS
<1>4. right \in Seq(V) /\ Len(right) = n - i /\ \A p \in 1..(n - i) : right[p] = s[p + i]
  OBVIOUS
<1> HIDE DEF left, right
<1>5. /\ left \o right \in Seq(V)
      /\ Len(left \o right) = n - 1
      /\ \A p \in 1..(n - 1) : (left \o right)[p] = IF p <= i - 1 THEN left[p] ELSE right[p - (i - 1)]
  <2>1. n - 1 = (i - 1) + (n - i)
    BY <1>1
  <2> HIDE DEF n
  <2>2. /\ left \o right \in Seq(V)
        /\ Len(left \o right) = Len(left) + Len(right)
        /\ \A p \in 1..(Len(left) + Len(right)) :
               (left \o right)[p] = IF p <= Len(left) THEN left[p] ELSE right[p - Len(left)]
    BY <1>3, <1>4, ConcatProperties
  <2> QED BY <1>3, <1>4, <2>1, <2>2
<1> HIDE DEF n
<1>6. ASSUME NEW p \in 1..(n - 1) PROVE (left \o right)[p] = IF p < i THEN s[p] ELSE s[p + 1]
  <2>1. CASE p < i
    <3>1. p <= i - 1 /\ p \in 1..(i - 1)
      BY <2>1, <1>1
    <3> QED BY <2>1, <3>1, <1>3, <1>5
  <2>2. CASE ~(p < i)
    <3>1. ~(p <= i - 1) /\ p - (i - 1) \in 1..(n - i) /\ (p - (i - 1)) + i = p + 1
      BY <2>2, <1>1
    <3>2. right[p - (i - 1)] = s[p + 1]
      BY <3>1, <1>4
    <3> QED BY <2>2, <3>1, <3>2, <1>5
  <2> QED BY <2>1, <2>2
<1> QED BY <1>2, <1>5, <1>6 DEF n

\* A track removed.
LEMMA EditedRemoval ==
  ASSUME NEW v \in Docs, NEW i \in 1..Len(Tracks(v))
  PROVE  Edits(v, With(v, "tracks", Array(RemoveAt(Tracks(v), i))))
<1> DEFINE s == Tracks(v)
           u == RemoveAt(s, i)
           n == Field(v, "next").num
           h == [p \in 1..(Len(s) - 1) |-> IF p < i THEN p ELSE p + 1]
<1>1. s \in Seq(TrackShape) /\ UniqueIds(s)
  BY DocLists
<1>2. /\ u \in Seq(TrackShape) /\ Len(u) = Len(s) - 1
      /\ \A p \in 1..(Len(s) - 1) : u[p] = IF p < i THEN s[p] ELSE s[p + 1]
  BY <1>1, Removed
<1> HIDE DEF u, n
<1>3. Len(s) \in Nat /\ i \in 1..Len(s)
  BY <1>1
<1>4. \A p \in 1..Len(u) : h[p] \in 1..Len(s) /\ u[p] = s[h[p]]
  <2> TAKE p \in 1..Len(u)
  <2>1. p \in 1..(Len(s) - 1)
    BY <1>2
  <2>2. CASE p < i
    <3>1. h[p] = p
      BY <2>1, <2>2
    <3> QED BY <3>1, <2>1, <2>2, <1>2, <1>3
  <2>3. CASE ~(p < i)
    <3>1. h[p] = p + 1
      BY <2>1, <2>3
    <3> QED BY <3>1, <2>1, <2>3, <1>2, <1>3
  <2> QED BY <2>2, <2>3
<1>5. \A p, q \in 1..Len(u) : h[p] = h[q] => p = q
  <2>1. \A p \in 1..Len(u) : h[p] = IF p < i THEN p ELSE p + 1
    BY <1>2
  <2> HIDE DEF h, s
  <2> QED BY <2>1, <1>3
<1> HIDE DEF h, s
<1>6. UniqueIds(u)
  <2> SUFFICES ASSUME NEW p \in 1..Len(u), NEW q \in 1..Len(u), IdOf(u[p]) = IdOf(u[q]) PROVE p = q
    BY DEF UniqueIds
  <2>1. IdOf(s[h[p]]) = IdOf(s[h[q]]) /\ h[p] \in 1..Len(s) /\ h[q] \in 1..Len(s)
    BY <1>4
  <2>2. h[p] = h[q]
    BY <1>1, <2>1 DEF UniqueIds
  <2> QED BY <1>5, <2>2
<1>7. Counted(s, n) => Counted(u, n)
  BY <1>4, <1>5 DEF Counted
<1>8. u \in UniqueTracks
  BY <1>2, <1>6 DEF UniqueTracks
<1>9. Edits(v, With(v, "tracks", Array(u)))
  BY <1>7, <1>8, EditedTracks DEF s, n
<1> QED BY <1>9 DEF u, s

\* A new track.
LEMMA TrackIsTrack ==
  ASSUME NEW id \in TrackId, NEW x \in Level, NEW n \in Nat
  PROVE  /\ Track(id, x, n) \in TrackShape
         /\ IdOf(Track(id, x, n)) = Scalar(id)
         /\ Field(Track(id, x, n), "target") = Number(n)
<1> DEFINE f == [id |-> Scalar(id), level |-> Scalar(x), target |-> Number(n)]
<1>1. Scalar(id) \in Identities /\ Scalar(x) \in Levels /\ Number(n) \in Numbers
  BY DEF Scalar, Number, Identities, Levels, Numbers
<1>2. f = [k \in {"id", "level", "target"} |-> f[k]] /\ f["id"] = Scalar(id)
      /\ f["level"] = Scalar(x) /\ f["target"] = Number(n)
  OBVIOUS
<1>3. Track(id, x, n) = Object(f)
  BY DEF Track
<1> HIDE DEF f
<1>4. Object(f) \in TrackShape /\ Field(Object(f), "id") = f["id"] /\ Field(Object(f), "target") = f["target"]
  BY <1>1, <1>2, TrackOfFields
<1> QED BY <1>2, <1>3, <1>4 DEF IdOf

\* A track added, with the next identity of the counter.
LEMMA EditedAddition ==
  ASSUME NEW v \in Docs, NEW id \in TrackId, NEW x \in Level,
         \A i \in 1..Len(Tracks(v)) : IdOf(Tracks(v)[i]) # Scalar(id)
  PROVE  Edits(v, With(With(v, "tracks", Array(Append(Tracks(v), Track(id, x, Field(v, "next").num)))),
                       "next", Number(Field(v, "next").num + 1)))
<1> DEFINE s == Tracks(v)
           n == Field(v, "next").num
           t == Track(id, x, n)
           u == Append(s, t)
           w == With(v, "tracks", Array(u))
           z == With(w, "next", Number(n + 1))
<1>1. s \in Seq(TrackShape) /\ UniqueIds(s) /\ v \in DocShape /\ Len(s) \in Nat
      /\ \A i \in 1..Len(s) : s[i] \in TrackShape
  BY DocLists
<1>2. n \in Nat
  BY <1>1, DocFields DEF Numbers
<1>3. t \in TrackShape /\ IdOf(t) = Scalar(id) /\ Field(t, "target") = Number(n)
  BY <1>2, TrackIsTrack
<1> HIDE DEF n, t
<1>4. /\ u \in Seq(TrackShape) /\ Len(u) = Len(s) + 1
      /\ \A i \in 1..Len(s) : u[i] = s[i]
      /\ u[Len(s) + 1] = t
  BY <1>1, <1>3, AppendProperties
<1>5. \A i \in 1..Len(s) : IdOf(s[i]) # Scalar(id)
  OBVIOUS
<1> HIDE DEF s, u
<1>6. \A i \in 1..(Len(s) + 1) : i \in 1..Len(s) \/ i = Len(s) + 1
  BY <1>1
<1>7. UniqueIds(u)
  <2> SUFFICES ASSUME NEW i \in 1..(Len(s) + 1), NEW j \in 1..(Len(s) + 1), IdOf(u[i]) = IdOf(u[j]) PROVE i = j
    BY <1>4 DEF UniqueIds
  <2>1. CASE i \in 1..Len(s) /\ j \in 1..Len(s)
    BY <2>1, <1>1, <1>4 DEF UniqueIds
  <2>2. CASE i \in 1..Len(s) /\ j = Len(s) + 1
    BY <2>2, <1>3, <1>4, <1>5
  <2>3. CASE i = Len(s) + 1 /\ j \in 1..Len(s)
    BY <2>3, <1>3, <1>4, <1>5
  <2>4. CASE i = Len(s) + 1 /\ j = Len(s) + 1
    BY <2>4
  <2> QED BY <1>6, <2>1, <2>2, <2>3, <2>4
<1>8. u \in UniqueTracks
  BY <1>4, <1>7 DEF UniqueTracks
<1>9. Number(n).num = n /\ Number(n + 1) \in Numbers /\ Number(n + 1).num = n + 1
  BY <1>2 DEF Number, Numbers
<1>10. Counted(s, n) => Counted(u, n + 1)
  <2> SUFFICES ASSUME Counted(s, n) PROVE Counted(u, n + 1)
    OBVIOUS
  <2>1. \A i \in 1..Len(s) : Field(s[i], "target").num \in Nat /\ Field(s[i], "target").num < n
    <3>1. \A i \in 1..Len(s) : Field(s[i], "target") \in Numbers
      BY <1>1, TrackFields
    <3> QED BY <3>1 DEF Counted, Numbers
  <2>2. \A i \in 1..Len(s) : Field(s[i], "target") # Number(n)
    BY <2>1, <1>2, <1>9
  <2>3. ASSUME NEW i \in 1..(Len(s) + 1), NEW j \in 1..(Len(s) + 1), Field(u[i], "target") = Field(u[j], "target")
        PROVE  i = j
    <3>1. CASE i \in 1..Len(s) /\ j \in 1..Len(s)
      <4>1. Field(s[i], "target") = Field(s[j], "target")
        BY <3>1, <2>3, <1>4
      <4> QED BY <3>1, <4>1 DEF Counted
    <3>2. CASE i \in 1..Len(s) /\ j = Len(s) + 1
      BY <3>2, <2>2, <2>3, <1>3, <1>4
    <3>3. CASE i = Len(s) + 1 /\ j \in 1..Len(s)
      BY <3>3, <2>2, <2>3, <1>3, <1>4
    <3>4. CASE i = Len(s) + 1 /\ j = Len(s) + 1
      BY <3>4
    <3> QED BY <1>6, <3>1, <3>2, <3>3, <3>4
  <2>4. ASSUME NEW i \in 1..(Len(s) + 1) PROVE Field(u[i], "target").num < n + 1
    <3>1. CASE i \in 1..Len(s)
      BY <3>1, <2>1, <1>2, <1>4
    <3>2. CASE i = Len(s) + 1
      BY <3>2, <1>2, <1>3, <1>4, <1>9
    <3> QED BY <1>6, <3>1, <3>2
  <2> QED BY <2>3, <2>4, <1>4 DEF Counted
<1>11. Array(u) \in TrackLists /\ Array(u).arr = u
  BY <1>4 DEF TrackLists, Array
<1>12. w \in DocShape /\ Field(w, "tracks") = Array(u)
  BY <1>1, <1>11, DocWith
<1> HIDE DEF w
<1>13. /\ z \in DocShape
       /\ Field(z, "next") = Number(n + 1)
       /\ \A j \in {"tempo", "next", "lanes", "tracks"} : j # "next" => Field(z, j) = Field(w, j)
  BY <1>9, <1>12, DocWith
<1> HIDE DEF z
<1>14. Field(z, "tracks") = Array(u)
  BY <1>12, <1>13
<1>15. z \in Docs /\ Tracks(z) = u
  BY <1>8, <1>11, <1>13, <1>14 DEF Docs, Tracks
<1>16. Coherent(v) => Coherent(z)
  BY <1>9, <1>10, <1>13, <1>15, CoherentMeans DEF s, n
<1>17. Edits(v, z)
  BY <1>15, <1>16 DEF Edits
<1> QED BY <1>17 DEF z, w, u, t, s, n

\* Every edit of the workstation leaves a project, and a coherent one coherent.
LEMMA EditsKeep ==
  ASSUME NEW v \in Docs, NEW w \in EditsOf(v)
  PROVE  Edits(v, w)
<1> DEFINE s == Tracks(v)
           lanes == Field(v, "lanes").arr
           next == Field(v, "next").num
           ids == {IdOf(s[i]).is : i \in DOMAIN s}
<1>1. s \in Seq(TrackShape) /\ lanes \in Seq(LaneValues) /\ DOMAIN s = 1..Len(s) /\ DOMAIN lanes = 1..Len(lanes)
      /\ \A i \in 1..Len(s) : IdOf(s[i]) \in Identities
  BY DocLists DEF LanesOf
<1>2. \A x \in Level : Scalar(x) \in Levels /\ Scalar(x) \in LaneValues
  BY DEF Scalar, Levels, LaneValues
<1>3. \A u \in Seq(LaneValues) : Array(u) \in LaneLists
  BY DEF Array, LaneLists
<1>4. \/ \E x \in Level : w = With(v, "tempo", Scalar(x))
      \/ \E i \in DOMAIN s, x \in Level :
             w = With(v, "tracks", Array([s EXCEPT ![i] = With(s[i], "level", Scalar(x))]))
      \/ \E i \in DOMAIN s : w = With(v, "tracks", Array(RemoveAt(s, i)))
      \/ \E id \in TrackId \ ids, x \in Level :
             w = With(With(v, "tracks", Array(Append(s, Track(id, x, next)))), "next", Number(next + 1))
      \/ \E x \in Level : w = With(v, "lanes", Array(Append(lanes, Scalar(x))))
      \/ \E i \in DOMAIN lanes, x \in Level : w = With(v, "lanes", Array([lanes EXCEPT ![i] = Scalar(x)]))
      \/ \E i \in DOMAIN lanes : w = With(v, "lanes", Array(RemoveAt(lanes, i)))
  BY DEF EditsOf
<1>5. CASE \E x \in Level : w = With(v, "tempo", Scalar(x))
  <2>1. PICK x \in Level : w = With(v, "tempo", Scalar(x))
    BY <1>5
  <2>2. Scalar(x) \in Levels
    BY <1>2
  <2>3. Edits(v, With(v, "tempo", Scalar(x)))
    BY <2>2, EditedKey
  <2> QED BY <2>1, <2>3
<1>6. CASE \E i \in DOMAIN s, x \in Level :
             w = With(v, "tracks", Array([s EXCEPT ![i] = With(s[i], "level", Scalar(x))]))
  BY <1>1, <1>2, <1>6, EditedLevel
<1>7. CASE \E i \in DOMAIN s : w = With(v, "tracks", Array(RemoveAt(s, i)))
  BY <1>1, <1>7, EditedRemoval
<1>8. CASE \E id \in TrackId \ ids, x \in Level :
             w = With(With(v, "tracks", Array(Append(s, Track(id, x, next)))), "next", Number(next + 1))
  <2>1. PICK id \in TrackId \ ids, x \in Level :
             w = With(With(v, "tracks", Array(Append(s, Track(id, x, next)))), "next", Number(next + 1))
    BY <1>8
  <2>2. \A i \in 1..Len(s) : IdOf(s[i]) # Scalar(id)
    <3> TAKE i \in 1..Len(s)
    <3>1. IdOf(s[i]).is # id
      BY <1>1
    <3> QED BY <3>1 DEF Scalar
  <2> QED BY <2>1, <2>2, EditedAddition
<1>9. CASE \E x \in Level : w = With(v, "lanes", Array(Append(lanes, Scalar(x))))
  <2>1. PICK x \in Level : w = With(v, "lanes", Array(Append(lanes, Scalar(x))))
    BY <1>9
  <2>2. Append(lanes, Scalar(x)) \in Seq(LaneValues)
    BY <1>1, <1>2, AppendProperties
  <2> QED BY <2>1, <2>2, <1>3, EditedKey
<1>10. CASE \E i \in DOMAIN lanes, x \in Level : w = With(v, "lanes", Array([lanes EXCEPT ![i] = Scalar(x)]))
  <2>1. PICK i \in DOMAIN lanes, x \in Level : w = With(v, "lanes", Array([lanes EXCEPT ![i] = Scalar(x)]))
    BY <1>10
  <2>2. [lanes EXCEPT ![i] = Scalar(x)] \in Seq(LaneValues)
    BY <1>1, <1>2, ExceptSeq
  <2> QED BY <2>1, <2>2, <1>3, EditedKey
<1>11. CASE \E i \in DOMAIN lanes : w = With(v, "lanes", Array(RemoveAt(lanes, i)))
  <2>1. PICK i \in DOMAIN lanes : w = With(v, "lanes", Array(RemoveAt(lanes, i)))
    BY <1>11
  <2>2. RemoveAt(lanes, i) \in Seq(LaneValues)
    BY <1>1, Removed
  <2> QED BY <2>1, <2>2, <1>3, EditedKey
<1> QED BY <1>4, <1>5, <1>6, <1>7, <1>8, <1>9, <1>10, <1>11

\* The project two machines start from.
LEMMA StartIsDoc ==
  ASSUME NEW id \in TrackId, NEW x \in Level
  PROVE  Start(id, x) \in Docs /\ Coherent(Start(id, x))
<1> DEFINE t == Track(id, x, 0)
           f == [tempo |-> Scalar(x), next |-> Number(1), lanes |-> Array(<<>>), tracks |-> Array(<<t>>)]
           v == Start(id, x)
<1>1. t \in TrackShape /\ Field(t, "target") = Number(0)
  BY TrackIsTrack
<1> HIDE DEF t
<1>2. <<t>> \in UniqueTracks /\ <<t>> \in Seq(TrackShape) /\ Len(<<t>>) = 1
  BY <1>1 DEF UniqueTracks, UniqueIds
<1>3. Scalar(x) \in Levels /\ Number(1) \in Numbers /\ Array(<<>>) \in LaneLists /\ Array(<<t>>) \in TrackLists
  BY <1>2 DEF Scalar, Levels, Number, Numbers, Array, LaneLists, TrackLists
<1>4. f = [k \in {"tempo", "next", "lanes", "tracks"} |-> f[k]]
      /\ f["tempo"] = Scalar(x) /\ f["next"] = Number(1) /\ f["lanes"] = Array(<<>>) /\ f["tracks"] = Array(<<t>>)
  OBVIOUS
<1>5. v = Object(f)
  BY DEF Start, t
<1> HIDE DEF f, v
<1>6. v \in DocShape /\ Field(v, "next") = Number(1) /\ Field(v, "tracks") = Array(<<t>>)
  BY <1>3, <1>4, <1>5, DocOfFields
<1>7. v \in Docs /\ Tracks(v) = <<t>> /\ Field(v, "next").num = 1
  BY <1>2, <1>6 DEF Docs, Tracks, Array, Number
<1>8. Counted(Tracks(v), Field(v, "next").num)
  <2>1. Field(t, "target").num = 0
    BY <1>1 DEF Number
  <2>2. \A i \in 1..1 : i = 1 /\ <<t>>[i] = t
    OBVIOUS
  <2> QED BY <1>2, <1>7, <2>1, <2>2 DEF Counted
<1> QED BY <1>7, <1>8, CoherentMeans DEF v

-----------------------------------------------------------------------------
\* THE PUSHES

\* Commits and dialogs.
AnswerShape == [shown : ConflictShape, choice : {"local", "remote"}]
Commits == [snapshot : Docs, parents : Seq(Nat), unedited : BOOLEAN,
            answers : Seq(AnswerShape), sides : Seq(Docs)]
Dialogs == {NoQuestion} \cup [prepared : Docs, conflicts : Seq(ConflictShape)]

MergeTypeOK ==
    /\ format \in Format
    /\ file \in [Machine -> Docs]
    /\ edited \in [Machine -> BOOLEAN]
    /\ base \in [Machine -> DOMAIN history]
    /\ question \in [Machine -> Dialogs]
    /\ history \in Seq(Commits)
    /\ Len(history) > 0
    /\ edits \in Nat

\* The answers of the commit c hold in it.
AnswersHold(c) ==
    \A k \in DOMAIN c.answers :
        ValueAt(c.snapshot, c.answers[k].shown.path)
            = IF c.answers[k].choice = "local" THEN c.answers[k].shown.local ELSE c.answers[k].shown.remote

\* The commit c keeps the changes of one side.
SidesKept(c) ==
    c.sides # <<>> /\ c.answers = <<>> => OneSidedKept(c.sides[1], c.sides[2], c.sides[3], c.snapshot)

\* What is true of every commit of a project in format f.
CommitOK(f, c) ==
    /\ c \in Commits
    /\ f = "ableton" => Coherent(c.snapshot)
    /\ AnswersHold(c)
    /\ SidesKept(c)

\* The inductive invariant.
MergeInv ==
    /\ MergeTypeOK
    /\ \A i \in DOMAIN history : CommitOK(format, history[i])
    /\ format = "ableton" => \A m \in Machine : Coherent(file[m])

\* c is a commit of s with these answers and sides.
CommitsTo(c, s, answers, sides) ==
    c \in Commits /\ c.snapshot = s /\ c.answers = answers /\ c.sides = sides

\* A commit is built from its parts.
LEMMA CommitShape ==
  ASSUME NEW s \in Docs, NEW p \in Seq(Nat), NEW u \in BOOLEAN, NEW answers \in Seq(AnswerShape),
         NEW sides \in Seq(Docs)
  PROVE  CommitsTo(Commit(s, p, u, answers, sides), s, answers, sides)
BY DEF Commit, Commits, CommitsTo

\* The invariant holds at the start.
LEMMA MergeStarts ==
  ASSUME MergeInit
  PROVE  MergeInv
<1>1. PICK id \in TrackId, x \in Level :
        /\ format \in Format
        /\ file = [m \in Machine |-> Start(id, x)]
        /\ edited = [m \in Machine |-> FALSE]
        /\ base = [m \in Machine |-> 1]
        /\ question = [m \in Machine |-> NoQuestion]
        /\ history = <<Commit(Start(id, x), <<>>, FALSE, <<>>, <<>>)>>
        /\ edits = 0
  BY DEF MergeInit
<1> DEFINE v == Start(id, x)
           c == Commit(v, <<>>, FALSE, <<>>, <<>>)
<1>2. v \in Docs /\ Coherent(v)
  BY StartIsDoc
<1> HIDE DEF v
<1>3. c \in Commits /\ c.snapshot = v /\ c.answers = <<>> /\ c.sides = <<>>
  <2>1. <<>> \in Seq(Nat) /\ <<>> \in Seq(AnswerShape) /\ <<>> \in Seq(Docs) /\ FALSE \in BOOLEAN
    OBVIOUS
  <2>2. CommitsTo(Commit(v, <<>>, FALSE, <<>>, <<>>), v, <<>>, <<>>)
    BY <1>2, <2>1, CommitShape
  <2> QED BY <2>2 DEF CommitsTo
<1> HIDE DEF c
<1>4. CommitOK(format, c)
  <2>1. AnswersHold(c)
    BY <1>3 DEF AnswersHold
  <2>2. SidesKept(c)
    BY <1>3 DEF SidesKept
  <2> QED BY <1>2, <1>3, <2>1, <2>2 DEF CommitOK
<1>5. history = <<c>> /\ file = [m \in Machine |-> v]
  BY <1>1 DEF c, v
<1>6. history \in Seq(Commits) /\ Len(history) = 1 /\ DOMAIN history = {1} /\ history[1] = c
  BY <1>3, <1>5
<1>7. MergeTypeOK
  <2>1. NoQuestion \in Dialogs
    BY DEF Dialogs
  <2>2. question \in [Machine -> Dialogs]
    BY <1>1, <2>1
  <2>3. file \in [Machine -> Docs] /\ edited \in [Machine -> BOOLEAN] /\ base \in [Machine -> DOMAIN history]
    BY <1>1, <1>2, <1>5, <1>6
  <2>4. format \in Format /\ edits \in Nat /\ Len(history) > 0
    BY <1>1, <1>6
  <2> QED BY <1>6, <2>2, <2>3, <2>4 DEF MergeTypeOK
<1> QED BY <1>2, <1>4, <1>5, <1>6, <1>7 DEF MergeInv

\* A commit that is as the others lands.
LEMMA Landed ==
  ASSUME MergeInv, NEW m \in Machine, NEW pushed, NEW c, Land(m, pushed, c), CommitOK(format, c)
  PROVE  MergeInv'
<1>1. /\ history' = Append(history, c)
      /\ base' = [base EXCEPT ![m] = HeadOf + 1]
      /\ edited' = [edited EXCEPT ![m] = file[m] # pushed]
      /\ question' = [question EXCEPT ![m] = NoQuestion]
      /\ format' = format /\ file' = file /\ edits' = edits
  BY DEF Land
<1>2. MergeTypeOK /\ \A i \in DOMAIN history : CommitOK(format, history[i])
  BY DEF MergeInv
<1>3. c \in Commits
  BY DEF CommitOK
<1> DEFINE n == Len(history)
<1>4. history \in Seq(Commits) /\ n \in Nat /\ DOMAIN history = 1..n
  BY <1>2 DEF MergeTypeOK
<1>5. /\ history' \in Seq(Commits) /\ Len(history') = n + 1 /\ DOMAIN history' = 1..(n + 1)
      /\ \A i \in 1..n : history'[i] = history[i]
      /\ history'[n + 1] = c
  BY <1>1, <1>3, <1>4, AppendProperties
<1>6. \A i \in 1..(n + 1) : i \in 1..n \/ i = n + 1
  BY <1>4
<1>7. \A i \in DOMAIN history' : CommitOK(format, history'[i])
  BY <1>2, <1>4, <1>5, <1>6
<1>8. MergeTypeOK'
  <2>1. base \in [Machine -> 1..n] /\ n + 1 \in 1..(n + 1) /\ 1..n \subseteq 1..(n + 1)
    BY <1>2, <1>4 DEF MergeTypeOK
  <2>2. base' \in [Machine -> 1..(n + 1)]
    BY <1>1, <2>1 DEF HeadOf
  <2>3. NoQuestion \in Dialogs
    BY DEF Dialogs
  <2>4. question' \in [Machine -> Dialogs]
    BY <1>1, <1>2, <2>3 DEF MergeTypeOK
  <2>5. edited' \in [Machine -> BOOLEAN]
    <3>1. edited \in [Machine -> BOOLEAN]
      BY <1>2 DEF MergeTypeOK
    <3>2. (file[m] # pushed) \in BOOLEAN
      OBVIOUS
    <3> QED BY <1>1, <3>1, <3>2
  <2>6. Len(history') > 0
    BY <1>4, <1>5
  <2> QED BY <1>1, <1>2, <1>5, <2>2, <2>4, <2>5, <2>6 DEF MergeTypeOK
<1> QED BY <1>1, <1>7, <1>8 DEF MergeInv

\* The file, the ancestor and HEAD of a machine are projects.
LEMMA MachineTypes ==
  ASSUME MergeInv, NEW m \in Machine
  PROVE  /\ file[m] \in Docs
         /\ base[m] \in DOMAIN history /\ base[m] \in Nat
         /\ HeadOf \in DOMAIN history /\ HeadOf \in Nat
         /\ Ancestor(m) \in Docs /\ HeadSnapshot \in Docs
         /\ question[m] \in Dialogs
         /\ format = "ableton" => Coherent(HeadSnapshot) /\ Coherent(file[m])
<1>1. MergeTypeOK /\ \A i \in DOMAIN history : CommitOK(format, history[i])
  BY DEF MergeInv
<1>2. history \in Seq(Commits) /\ Len(history) > 0
  BY <1>1 DEF MergeTypeOK
<1>3. HeadOf \in Nat /\ HeadOf \in DOMAIN history /\ DOMAIN history \subseteq Nat
  BY <1>2 DEF HeadOf
<1>4. base[m] \in DOMAIN history
  BY <1>1 DEF MergeTypeOK
<1>5. \A i \in DOMAIN history : history[i].snapshot \in Docs /\ (format = "ableton" => Coherent(history[i].snapshot))
  BY <1>1 DEF CommitOK, Commits
<1>6. file[m] \in Docs /\ question[m] \in Dialogs
  BY <1>1 DEF MergeTypeOK
<1>7. format = "ableton" => Coherent(file[m])
  BY DEF MergeInv
<1> QED BY <1>3, <1>4, <1>5, <1>6, <1>7 DEF Ancestor, HeadSnapshot

\* What the checks before a commit say of it.
LEMMA CheckedIsCoherent ==
  ASSUME NEW v, ValidSnapshot(v), ~IntegrityProblems(v), format = "ableton"
  PROVE  Coherent(v)
BY DEF ValidSnapshot, IntegrityProblems

\* A merge commit is one of three projects.
LEMMA MergeCommitShape ==
  ASSUME MergeInv, NEW m \in Machine, NEW pushed \in Docs, NEW v \in Docs, NEW answers \in Seq(AnswerShape)
  PROVE  CommitsTo(MergeCommit(m, pushed, v, answers), v, answers, <<Ancestor(m), pushed, HeadSnapshot>>)
<1>1. base[m] \in Nat /\ HeadOf \in Nat /\ Ancestor(m) \in Docs /\ HeadSnapshot \in Docs
  BY MachineTypes
<1>2. edited[m] \in BOOLEAN
  BY DEF MergeInv, MergeTypeOK
<1>3. <<base[m], HeadOf>> \in Seq(Nat)
  BY <1>1
<1>4. <<Ancestor(m), pushed, HeadSnapshot>> \in Seq(Docs)
  BY <1>1
<1>5. (~edited[m]) \in BOOLEAN
  BY <1>2
<1> QED BY <1>3, <1>4, <1>5, CommitShape DEF MergeCommit

\* A merge is of three projects.
LEMMA MergeOfDocs ==
  ASSUME MergeInv, NEW m \in Machine, NEW pushed \in Docs
  PROVE  DocMerged(Ancestor(m), pushed, HeadSnapshot, MergeOf(m, pushed))
<1>1. Ancestor(m) \in Docs /\ HeadSnapshot \in Docs
  BY MachineTypes
<1> QED BY <1>1, DocMerge DEF MergeOf

\* Editing keeps the invariant.
LEMMA EditKeeps ==
  ASSUME MergeInv, NEW m \in Machine, Edit(m)
  PROVE  MergeInv'
<1>1. PICK v \in EditsOf(file[m]) \ {file[m]} :
        /\ file' = [file EXCEPT ![m] = v]
        /\ edited' = [edited EXCEPT ![m] = TRUE]
  BY DEF Edit
<1>2. edits' = edits + 1 /\ format' = format /\ base' = base /\ question' = question /\ history' = history
  BY DEF Edit
<1>3. file[m] \in Docs /\ (format = "ableton" => Coherent(file[m]))
  BY MachineTypes
<1>4. Edits(file[m], v)
  BY <1>3, EditsKeep
<1>5. v \in Docs /\ (format = "ableton" => Coherent(v))
  BY <1>3, <1>4 DEF Edits
<1>6. MergeTypeOK
  BY DEF MergeInv
<1>7. MergeTypeOK'
  <2>1. file' \in [Machine -> Docs] /\ edited' \in [Machine -> BOOLEAN] /\ edits' \in Nat
    BY <1>1, <1>2, <1>5, <1>6 DEF MergeTypeOK
  <2> QED BY <1>2, <1>6, <2>1 DEF MergeTypeOK
<1>8. format = "ableton" => \A u \in Machine : Coherent(file'[u])
  <2> SUFFICES ASSUME format = "ableton", NEW u \in Machine PROVE Coherent(file'[u])
    OBVIOUS
  <2>1. Coherent(file[u])
    BY DEF MergeInv
  <2>2. file \in [Machine -> Docs]
    BY <1>6 DEF MergeTypeOK
  <2>3. file'[u] = IF u = m THEN v ELSE file[u]
    BY <1>1, <2>2
  <2> QED BY <1>5, <2>1, <2>3
<1>9. \A i \in DOMAIN history' : CommitOK(format, history'[i])
  BY <1>2 DEF MergeInv
<1> QED BY <1>2, <1>7, <1>8, <1>9 DEF MergeInv

\* So does a push without a merge.
LEMMA PushForwardKeeps ==
  ASSUME MergeInv, NEW m \in Machine, PushForward(m)
  PROVE  MergeInv'
<1> DEFINE c == Commit(file[m], <<base[m]>>, ~edited[m], <<>>, <<>>)
<1>1. Land(m, file[m], c)
  BY DEF PushForward
<1>2. file[m] \in Docs /\ base[m] \in Nat /\ (format = "ableton" => Coherent(file[m]))
  BY MachineTypes
<1>3. c \in Commits /\ c.snapshot = file[m] /\ c.answers = <<>> /\ c.sides = <<>>
  <2>1. <<base[m]>> \in Seq(Nat)
    BY <1>2
  <2>2. <<>> \in Seq(AnswerShape) /\ <<>> \in Seq(Docs)
    OBVIOUS
  <2>3. (~edited[m]) \in BOOLEAN
    OBVIOUS
  <2>4. CommitsTo(Commit(file[m], <<base[m]>>, ~edited[m], <<>>, <<>>), file[m], <<>>, <<>>)
    BY <1>2, <2>1, <2>2, <2>3, CommitShape
  <2> QED BY <2>4 DEF CommitsTo
<1> HIDE DEF c
<1>4. AnswersHold(c) /\ SidesKept(c)
  BY <1>3 DEF AnswersHold, SidesKept
<1>5. CommitOK(format, c)
  BY <1>2, <1>3, <1>4 DEF CommitOK
<1> QED BY <1>1, <1>5, Landed

\* So does a dialog about conflicts.
LEMMA AskKeeps ==
  ASSUME MergeInv, NEW m \in Machine, NEW pushed \in Docs, Ask(m, pushed, MergeOf(m, pushed))
  PROVE  MergeInv'
<1> DEFINE merge == MergeOf(m, pushed)
           dialog == [prepared |-> pushed, conflicts |-> merge.conflicts]
<1>1. DocMerged(Ancestor(m), pushed, HeadSnapshot, merge)
  BY MergeOfDocs
<1>2. /\ question' = [question EXCEPT ![m] = dialog]
      /\ format' = format /\ file' = file /\ edited' = edited /\ base' = base
      /\ history' = history /\ edits' = edits
  BY DEF Ask
<1> HIDE DEF merge
<1>3. dialog \in Dialogs
  BY <1>1 DEF DocMerged, Sound, Dialogs
<1> HIDE DEF dialog
<1>4. question' \in [Machine -> Dialogs]
  BY <1>2, <1>3 DEF MergeInv, MergeTypeOK
<1> QED BY <1>2, <1>4 DEF MergeInv, MergeTypeOK

\* So does a merge commit: merge3 keeps the changes of one side,
\* integrity_problems refuses an incoherent set.
LEMMA LandMergedKeeps ==
  ASSUME MergeInv, NEW m \in Machine, NEW pushed \in Docs, LandMerged(m, pushed, MergeOf(m, pushed))
  PROVE  MergeInv'
<1> DEFINE merge == MergeOf(m, pushed)
           c == MergeCommit(m, pushed, merge.value, <<>>)
<1>1. DocMerged(Ancestor(m), pushed, HeadSnapshot, merge)
  BY MergeOfDocs
<1>2. ~IntegrityProblems(merge.value) /\ Land(m, pushed, c)
  BY DEF LandMerged
<1> HIDE DEF merge
<1>3. merge.value \in Docs /\ OneSidedKept(Ancestor(m), pushed, HeadSnapshot, merge.value)
  BY <1>1 DEF DocMerged
<1>4. /\ c \in Commits /\ c.snapshot = merge.value /\ c.answers = <<>>
      /\ c.sides = <<Ancestor(m), pushed, HeadSnapshot>>
  <2>1. <<>> \in Seq(AnswerShape)
    OBVIOUS
  <2>2. CommitsTo(c, merge.value, <<>>, <<Ancestor(m), pushed, HeadSnapshot>>)
    BY <1>3, <2>1, MergeCommitShape
  <2> QED BY <2>2 DEF CommitsTo
<1>5. ValidSnapshot(c.snapshot)
  BY <1>2 DEF Land
<1> HIDE DEF c
<1>6. format = "ableton" => Coherent(c.snapshot)
  BY <1>2, <1>4, <1>5, CheckedIsCoherent
<1>7. AnswersHold(c)
  BY <1>4 DEF AnswersHold
<1>8. SidesKept(c)
  BY <1>3, <1>4 DEF SidesKept
<1>9. CommitOK(format, c)
  BY <1>4, <1>6, <1>7, <1>8 DEF CommitOK
<1> QED BY <1>2, <1>9, Landed

\* The answers that a dialog about these conflicts gives.
AnswersTo(conflicts, choices) ==
    [i \in DOMAIN choices |-> [shown |-> conflicts[i], choice |-> choices[i]]]

\* One answer for each conflict.
LEMMA AnswersShape ==
  ASSUME NEW conflicts \in Seq(ConflictShape), NEW choices \in [DOMAIN conflicts -> {"local", "remote"}]
  PROVE  /\ AnswersTo(conflicts, choices) \in Seq(AnswerShape)
         /\ DOMAIN AnswersTo(conflicts, choices) = 1..Len(conflicts)
         /\ \A i \in 1..Len(conflicts) : /\ AnswersTo(conflicts, choices)[i].shown = conflicts[i]
                                         /\ AnswersTo(conflicts, choices)[i].choice = choices[i]
<1> DEFINE n == Len(conflicts)
           answers == AnswersTo(conflicts, choices)
<1>1. n \in Nat /\ DOMAIN conflicts = 1..n /\ DOMAIN choices = 1..n
  OBVIOUS
<1>2. \A i \in 1..n : conflicts[i] \in ConflictShape /\ choices[i] \in {"local", "remote"}
  BY <1>1
<1>3. \A i \in 1..n : answers[i] = [shown |-> conflicts[i], choice |-> choices[i]]
  BY <1>1 DEF AnswersTo
<1>5. answers = [i \in 1..n |-> answers[i]]
  BY <1>1 DEF AnswersTo
<1> HIDE DEF answers
<1>4. \A i \in 1..n : /\ answers[i] \in AnswerShape
                      /\ answers[i].shown = conflicts[i] /\ answers[i].choice = choices[i]
  <2> TAKE i \in 1..n
  <2>1. conflicts[i] \in ConflictShape /\ choices[i] \in {"local", "remote"}
    BY <1>2
  <2> DEFINE x == conflicts[i]
             y == choices[i]
  <2> HIDE DEF x, y
  <2>2. [shown |-> x, choice |-> y].shown = x /\ [shown |-> x, choice |-> y].choice = y
    OBVIOUS
  <2>3. [shown |-> x, choice |-> y] \in AnswerShape
    BY <2>1 DEF AnswerShape, x, y
  <2>4. answers[i] = [shown |-> x, choice |-> y]
    BY <1>3 DEF x, y
  <2>5. answers[i] \in AnswerShape /\ answers[i].shown = x /\ answers[i].choice = y
    BY <2>2, <2>3, <2>4
  <2> QED BY <2>5 DEF x, y
<1>6. answers \in [1..n -> AnswerShape]
  <2> HIDE DEF n
  <2> QED BY <1>4, <1>5
<1> HIDE DEF n
<1>7. answers \in Seq(AnswerShape)
  BY <1>1, <1>6
<1> QED BY <1>4, <1>6, <1>7 DEF n, answers

\* So does a commit with answers: the conflicts are those that were shown, and
\* each choice holds.
LEMMA LandResolvedKeeps ==
  ASSUME MergeInv, NEW m \in Machine, NEW pushed \in Docs, LandResolved(m, pushed, MergeOf(m, pushed))
  PROVE  MergeInv'
<1> DEFINE merge == MergeOf(m, pushed)
           conflicts == merge.conflicts
<1>1. DocMerged(Ancestor(m), pushed, HeadSnapshot, merge)
  BY MergeOfDocs
<1>2. conflicts # <<>> /\ question[m].conflicts = conflicts
  BY DEF LandResolved, SameConflicts
<1>3. PICK choices \in [DOMAIN conflicts -> {"local", "remote"}] :
        /\ ResolveConflicts(merge, choices) # Failed
        /\ ~IntegrityProblems(ResolveConflicts(merge, choices))
        /\ Land(m, pushed, MergeCommit(m, pushed, ResolveConflicts(merge, choices), AnswersTo(conflicts, choices)))
  BY <1>2 DEF LandResolved, AnswersTo
<1> DEFINE v == ResolveConflicts(merge, choices)
           answers == AnswersTo(conflicts, choices)
           c == MergeCommit(m, pushed, v, answers)
           n == Len(conflicts)
<1> HIDE DEF merge
<1>4. /\ merge.value \in Docs /\ Sound(conflicts, ProjectPaths, merge.value)
      /\ conflicts \in Seq(ConflictShape) /\ n \in Nat
  BY <1>1 DEF DocMerged, Sound
<1>5. Resolved(v, conflicts, choices, n)
  BY <1>4, ResolveAll
<1>6. AllTyped(conflicts)
  BY <1>4, FitsHolds DEF AllTyped, Sound
<1> HIDE DEF v, conflicts
<1>7. v \in Docs /\ AllChosen(v, conflicts, choices, n)
  BY <1>3, <1>5 DEF Resolved, v
<1>8. /\ answers \in Seq(AnswerShape) /\ DOMAIN answers = 1..n
      /\ \A i \in 1..n : answers[i].shown = conflicts[i] /\ answers[i].choice = choices[i]
  BY <1>4, AnswersShape
<1> HIDE DEF answers
<1>9. c \in Commits /\ c.snapshot = v /\ c.answers = answers
  <2>1. CommitsTo(c, v, answers, <<Ancestor(m), pushed, HeadSnapshot>>)
    BY <1>7, <1>8, MergeCommitShape
  <2> QED BY <2>1 DEF CommitsTo
<1>10. Land(m, pushed, c) /\ ~IntegrityProblems(v)
  BY <1>3 DEF v, answers
<1>11. ValidSnapshot(c.snapshot)
  BY <1>10 DEF Land
<1> HIDE DEF c
<1>12. format = "ableton" => Coherent(c.snapshot)
  BY <1>9, <1>10, <1>11, CheckedIsCoherent
<1>13. AnswersHold(c)
  <2> SUFFICES ASSUME NEW k \in 1..n
               PROVE  ValueAt(v, conflicts[k].path)
                        = IF choices[k] = "local" THEN conflicts[k].local ELSE conflicts[k].remote
    BY <1>8, <1>9 DEF AnswersHold
  <2>1. HoldsAt(v, conflicts[k].path, Chosen(conflicts, choices, k, n))
    BY <1>7 DEF AllChosen
  <2>2. Typed(conflicts[k].path, conflicts[k].remote)
    BY <1>6 DEF AllTyped
  <2>3. ValueAt(v, conflicts[k].path) = Chosen(conflicts, choices, k, n)
    BY <1>7, <2>1, <2>2, SetPlace
  <2>4. k <= n
    BY <1>4
  <2> QED BY <2>3, <2>4 DEF Chosen
<1>14. SidesKept(c)
  <2>1. answers # <<>>
    <3>1. n # 0
      BY <1>2, <1>4, EmptySeq
    <3> QED BY <1>4, <1>8, <3>1
  <2> QED BY <2>1, <1>9 DEF SidesKept
<1>15. CommitOK(format, c)
  BY <1>9, <1>12, <1>13, <1>14 DEF CommitOK
<1> QED BY <1>10, <1>15, Landed

\* So does a confirmed dialog.
LEMMA ConfirmKeeps ==
  ASSUME MergeInv, NEW m \in Machine, Confirm(m)
  PROVE  MergeInv'
<1> DEFINE pushed == question[m].prepared
           merge == MergeOf(m, pushed)
<1>1. pushed \in Docs
  <2>1. question[m] \in Dialogs /\ question[m] # NoQuestion
    BY MachineTypes DEF Confirm
  <2> QED BY <2>1 DEF Dialogs
<1>2. \/ LandResolved(m, pushed, merge)
      \/ LandMerged(m, pushed, merge)
      \/ Ask(m, pushed, merge)
  BY DEF Confirm
<1> HIDE DEF pushed
<1> QED BY <1>1, <1>2, LandResolvedKeeps, LandMergedKeeps, AskKeeps

\* So does a push that finds a newer HEAD.
LEMMA PushBehindKeeps ==
  ASSUME MergeInv, NEW m \in Machine, PushBehind(m)
  PROVE  MergeInv'
<1>1. file[m] \in Docs
  BY MachineTypes
<1>2. LandMerged(m, file[m], MergeOf(m, file[m])) \/ Ask(m, file[m], MergeOf(m, file[m]))
  BY DEF PushBehind
<1> QED BY <1>1, <1>2, LandMergedKeeps, AskKeeps

\* So does a question put aside.
LEMMA PutAsideKeeps ==
  ASSUME MergeInv, NEW m \in Machine, PutAside(m)
  PROVE  MergeInv'
<1>1. /\ question' = [question EXCEPT ![m] = NoQuestion]
      /\ format' = format /\ file' = file /\ edited' = edited /\ base' = base
      /\ history' = history /\ edits' = edits
  BY DEF PutAside
<1>2. NoQuestion \in Dialogs
  BY DEF Dialogs
<1>3. question' \in [Machine -> Dialogs]
  BY <1>1, <1>2 DEF MergeInv, MergeTypeOK
<1> QED BY <1>1, <1>3 DEF MergeInv, MergeTypeOK

\* So does a restore of the newest version.
LEMMA TakeHeadKeeps ==
  ASSUME MergeInv, NEW m \in Machine, TakeHead(m)
  PROVE  MergeInv'
<1>1. /\ file' = [file EXCEPT ![m] = HeadSnapshot]
      /\ base' = [base EXCEPT ![m] = HeadOf]
      /\ edited' = [edited EXCEPT ![m] = FALSE]
      /\ question' = [question EXCEPT ![m] = NoQuestion]
      /\ format' = format /\ history' = history /\ edits' = edits
  BY DEF TakeHead
<1>2. HeadOf \in DOMAIN history /\ HeadSnapshot \in Docs /\ (format = "ableton" => Coherent(HeadSnapshot))
  BY MachineTypes
<1>3. MergeTypeOK
  BY DEF MergeInv
<1>4. MergeTypeOK'
  <2>1. NoQuestion \in Dialogs
    BY DEF Dialogs
  <2>2. /\ file' \in [Machine -> Docs] /\ edited' \in [Machine -> BOOLEAN]
        /\ base' \in [Machine -> DOMAIN history] /\ question' \in [Machine -> Dialogs]
    BY <1>1, <1>2, <1>3, <2>1 DEF MergeTypeOK
  <2> QED BY <1>1, <1>3, <2>2 DEF MergeTypeOK
<1>5. format = "ableton" => \A u \in Machine : Coherent(file'[u])
  <2> SUFFICES ASSUME format = "ableton", NEW u \in Machine PROVE Coherent(file'[u])
    OBVIOUS
  <2>1. Coherent(file[u])
    BY DEF MergeInv
  <2>2. file \in [Machine -> Docs]
    BY <1>3 DEF MergeTypeOK
  <2>3. file'[u] = IF u = m THEN HeadSnapshot ELSE file[u]
    BY <1>1, <2>2
  <2> QED BY <1>2, <2>1, <2>3
<1>6. \A i \in DOMAIN history' : CommitOK(format, history'[i])
  BY <1>1 DEF MergeInv
<1> QED BY <1>1, <1>4, <1>5, <1>6 DEF MergeInv

\* Every step keeps the invariant.
LEMMA MergeSteps ==
  ASSUME MergeInv, [MergeNext]_mergeVars
  PROVE  MergeInv'
<1>1. CASE UNCHANGED mergeVars
  BY <1>1 DEF mergeVars, MergeInv, MergeTypeOK
<1>2. CASE MergeNext
  <2>1. PICK m \in Machine : \/ Edit(m) \/ PushForward(m) \/ PushBehind(m)
                             \/ Confirm(m) \/ PutAside(m) \/ TakeHead(m)
    BY <1>2 DEF MergeNext
  <2> QED BY <2>1, EditKeeps, PushForwardKeeps, PushBehindKeeps, ConfirmKeeps, PutAsideKeeps, TakeHeadKeeps
<1> QED BY <1>1, <1>2

\* The inductive invariant: the state has its types, every commit is coherent,
\* has its answers and keeps the changes of one side, and so are the files
\* coherent.
THEOREM MergeInvariant == MergeSpec => []MergeInv
<1>1. MergeInit => MergeInv
  BY MergeStarts
<1>2. MergeInv /\ [MergeNext]_mergeVars => MergeInv'
  BY MergeSteps
<1> QED BY <1>1, <1>2, PTL DEF MergeSpec

\* No version of a Live Set in the history has modulation identities, a counter
\* or sibling identities that collide (integrity_problems).
THEOREM MergeCoherence == MergeSpec => []LandedIsCoherent
<1>1. MergeInv => LandedIsCoherent
  BY DEF MergeInv, CommitOK, LandedIsCoherent
<1> QED BY <1>1, MergeInvariant, PTL

\* Every choice holds in the commit it led to, with the value that was shown
\* (conflict_resolutions_match, resolve_conflicts).
THEOREM MergeAnswers == MergeSpec => []ResolvedAsShown
<1>1. MergeInv => ResolvedAsShown
  BY DEF MergeInv, CommitOK, AnswersHold, ResolvedAsShown
<1> QED BY <1>1, MergeInvariant, PTL

\* A merge commit without answers has every change that only one side made
\* (merge3).
THEOREM MergeChanges == MergeSpec => []OneSidedChangesKept
<1>1. MergeInv => OneSidedChangesKept
  BY DEF MergeInv, CommitOK, SidesKept, OneSidedChangesKept
<1> QED BY <1>1, MergeInvariant, PTL

-----------------------------------------------------------------------------
\* FILES OF A PROJECT

\* A path out of the project folder, and one inside it.
Out(x) == Rel(TRUE, x)
Inside(x) == Rel(FALSE, x)

\* Files, relative paths and no path are different things.
LEMMA PlacesDiffer ==
  /\ \A d, e, x, y : At(d, x) = At(e, y) => d = e /\ x = y
  /\ \A x, y : Out(x) = Out(y) => x = y
  /\ \A x, y : Inside(x) = Inside(y) => x = y
  /\ \A x, y : Out(x) # Inside(y)
  /\ \A d, x, y : At(d, x) # Out(y) /\ At(d, x) # Inside(y)
  /\ \A d, x : At(d, x) # NoPath
  /\ \A x : Out(x) # NoPath /\ Inside(x) # NoPath
  /\ \A d, x : At(d, x).dir = d /\ At(d, x).name = x
  /\ \A x : Out(x).up /\ Out(x).name = x
  /\ \A x : ~Inside(x).up /\ Inside(x).name = x
<1>1. \A d, x : At(d, x).dir = d /\ At(d, x).name = x /\ "dir" \in DOMAIN At(d, x) /\ "no" \notin DOMAIN At(d, x)
  BY DEF At
<1>2. \A x : Out(x).up /\ Out(x).name = x /\ "dir" \notin DOMAIN Out(x) /\ "no" \notin DOMAIN Out(x)
  BY DEF Rel, Out
<1>3. \A x : ~Inside(x).up /\ Inside(x).name = x /\ "dir" \notin DOMAIN Inside(x) /\ "no" \notin DOMAIN Inside(x)
  BY DEF Rel, Inside
<1>4. "no" \in DOMAIN NoPath
  BY DEF NoPath
<1>5. \A x, y : Out(x) # Inside(y)
  BY <1>2, <1>3
<1> QED BY <1>1, <1>2, <1>3, <1>4, <1>5

\* The reference r has this type and these paths.
LiveAs(r, type, rel, abs) == r.type = type /\ r.rel = rel /\ r.abs = abs

\* The references of a Live Set, case by case.
LEMMA LiveCases ==
  ASSUME NEW r \in LiveRefs
  PROVE  \/ \E x \in Name : LiveAs(r, 3, Inside(x), At("project", x))
         \/ \E x \in Name : LiveAs(r, 1, Out(x), At("outside", x))
         \/ \E x \in Name : LiveAs(r, 1, Inside(x), At("project", x))
         \/ \E x \in Name : LiveAs(r, 5, Inside(x), At("install", x))
         \/ \E x \in Name : LiveAs(r, 6, Inside(x), At("library", x))
         \/ \E x \in Name, d \in {"outside", "drive"} : LiveAs(r, 0, NoPath, At(d, x))
         \/ LiveAs(r, 0, NoPath, NoPath)
<1> DEFINE S1 == {LiveRef(3, Inside(n), At("project", n), FALSE, TRUE) : n \in Name}
           S2 == {LiveRef(1, Out(n), At("outside", n), p, f) : n \in Name, p \in BOOLEAN, f \in BOOLEAN}
           S3 == {LiveRef(1, Inside(n), At("project", n), FALSE, TRUE) : n \in Name}
           S4 == {LiveRef(5, Inside(n), At("install", n), FALSE, TRUE) : n \in Name}
           S5 == {LiveRef(6, Inside(n), At("library", n), FALSE, f) : n \in Name, f \in BOOLEAN}
           S6 == {LiveRef(0, NoPath, At(d, n), FALSE, TRUE) : d \in {"outside", "drive"}, n \in Name}
           S7 == {LiveRef(0, NoPath, NoPath, FALSE, TRUE)}
<1>1. CASE r \in S1
  <2>1. \E n \in Name : LiveAs(r, 3, Inside(n), At("project", n))
    BY <1>1 DEF LiveRef, LiveAs
  <2> QED BY <2>1
<1>2. CASE r \in S2
  <2>1. \E n \in Name : LiveAs(r, 1, Out(n), At("outside", n))
    BY <1>2 DEF LiveRef, LiveAs
  <2> QED BY <2>1
<1>3. CASE r \in S3
  <2>1. \E n \in Name : LiveAs(r, 1, Inside(n), At("project", n))
    BY <1>3 DEF LiveRef, LiveAs
  <2> QED BY <2>1
<1>4. CASE r \in S4
  <2>1. \E n \in Name : LiveAs(r, 5, Inside(n), At("install", n))
    BY <1>4 DEF LiveRef, LiveAs
  <2> QED BY <2>1
<1>5. CASE r \in S5
  <2>1. \E n \in Name : LiveAs(r, 6, Inside(n), At("library", n))
    BY <1>5 DEF LiveRef, LiveAs
  <2> QED BY <2>1
<1>6. CASE r \in S6
  BY <1>6 DEF LiveRef, LiveAs
<1>7. CASE r \in S7
  BY <1>7 DEF LiveRef, LiveAs
<1>8. LiveRefs = S1 \cup S2 \cup S3 \cup S4 \cup S5 \cup S6 \cup S7
  BY DEF LiveRefs, Inside, Out
<1> HIDE DEF S1, S2, S3, S4, S5, S6, S7
<1>9. r \in S1 \cup S2 \cup S3 \cup S4 \cup S5 \cup S6 \cup S7
  BY <1>8
<1> QED BY <1>1, <1>2, <1>3, <1>4, <1>5, <1>6, <1>7, <1>9

\* Resolve on the files D.
ResolveIn(D, r) ==
    LET near  == IF r.rel = NoPath THEN {}
                 ELSE {At(IF r.rel.up THEN "outside" ELSE "project", r.rel.name)}
        far   == IF r.abs = NoPath \/ r.abs.dir = "drive" THEN {} ELSE {r.abs}
        alias == IF r.abs = NoPath THEN {} ELSE ApplyAlias(r.abs)
    IN  IF near \cap D # {} THEN near
        ELSE IF far \cap D # {} THEN far ELSE alias \cap D

\* What a reference resolves to is there.
LEMMA ResolvedExists ==
  ASSUME NEW D, NEW r, NEW f \in ResolveIn(D, r)
  PROVE  f \in D
<1> DEFINE near  == IF r.rel = NoPath THEN {}
                    ELSE {At(IF r.rel.up THEN "outside" ELSE "project", r.rel.name)}
           far   == IF r.abs = NoPath \/ r.abs.dir = "drive" THEN {} ELSE {r.abs}
           alias == IF r.abs = NoPath THEN {} ELSE ApplyAlias(r.abs)
<1>1. f \in IF near \cap D # {} THEN near ELSE IF far \cap D # {} THEN far ELSE alias \cap D
  BY DEF ResolveIn
<1>2. near = {} \/ \E x : near = {x}
  OBVIOUS
<1>3. far = {} \/ \E x : far = {x}
  OBVIOUS
<1> HIDE DEF near, far, alias
<1> QED BY <1>1, <1>2, <1>3

\* The file f away from the project is what a gathered reference of the key
\* leads to among the files D.
AwayFor(D, key, f) ==
    \E x \in Name :
        \/ key = Out(x) /\ f = At("outside", x)
        \/ key = Inside(x) /\ f = At("library", x) /\ At("project", x) \notin D
        \/ \E d \in {"outside", "drive"} :
              key = At(d, x) /\ f = At("outside", x) /\ (d = "drive" => Aliased)

\* What a gathered reference leads to depends on its key only.
LEMMA GatheredLeadsAway ==
  ASSUME NEW r \in LiveRefs, ShouldGather(Class(r)), NEW D,
         NEW f \in ResolveIn(D, r), f.dir # "project"
  PROVE  AwayFor(D, Key(r), f)
<1>1. ASSUME NEW x \in Name, LiveAs(r, 3, Inside(x), At("project", x)) PROVE FALSE
  BY <1>1, PlacesDiffer DEF LiveAs, Class, ShouldGather
<1>2. ASSUME NEW x \in Name, LiveAs(r, 1, Out(x), At("outside", x)) PROVE AwayFor(D, Key(r), f)
  <2>1. Key(r) = Out(x)
    BY <1>2, PlacesDiffer DEF LiveAs, Key
  <2>2. f = At("outside", x)
    BY <1>2, PlacesDiffer DEF LiveAs, ResolveIn, ApplyAlias
  <2> QED BY <2>1, <2>2 DEF AwayFor
<1>3. ASSUME NEW x \in Name, LiveAs(r, 1, Inside(x), At("project", x)) PROVE FALSE
  BY <1>3, PlacesDiffer DEF LiveAs, Class, ShouldGather
<1>4. ASSUME NEW x \in Name, LiveAs(r, 5, Inside(x), At("install", x)) PROVE FALSE
  BY <1>4, PlacesDiffer DEF LiveAs, Class, ShouldGather
<1>5. ASSUME NEW x \in Name, LiveAs(r, 6, Inside(x), At("library", x)) PROVE AwayFor(D, Key(r), f)
  <2>1. Key(r) = Inside(x)
    BY <1>5, PlacesDiffer DEF LiveAs, Key
  <2>2. f = At("library", x) /\ At("project", x) \notin D
    BY <1>5, PlacesDiffer DEF LiveAs, ResolveIn, ApplyAlias
  <2> QED BY <2>1, <2>2 DEF AwayFor
<1>6. ASSUME NEW x \in Name, NEW d \in {"outside", "drive"}, LiveAs(r, 0, NoPath, At(d, x))
      PROVE  AwayFor(D, Key(r), f)
  <2>1. Key(r) = At(d, x)
    BY <1>6, PlacesDiffer DEF LiveAs, Key
  <2>2. f = At("outside", x) /\ (d = "drive" => Aliased)
    BY <1>6, PlacesDiffer DEF LiveAs, ResolveIn, ApplyAlias
  <2> QED BY <2>1, <2>2 DEF AwayFor
<1>7. ASSUME LiveAs(r, 0, NoPath, NoPath) PROVE FALSE
  BY <1>7, PlacesDiffer DEF LiveAs, Class, ShouldGather
<1> QED BY <1>1, <1>2, <1>3, <1>4, <1>5, <1>6, <1>7, LiveCases

\* A reference that can be carried means a file of the project folder, or the
\* file its key leads to.
LEMMA MeantByKey ==
  ASSUME NEW r \in LiveRefs, Class(r) \notin {"unresolvable", "library"}, kind = "ableton",
         NEW D, Meant(r) \in D, \A f \in D : f.dir # "drive"
  PROVE  /\ Key(r) # NoPath /\ r.type # 5
         /\ r.rel = NoPath => r.abs # NoPath
         /\ r.type = 3 => r.rel # NoPath /\ Meant(r).dir = "project"
         /\ \A f : AwayFor(D, Key(r), f) => f = Meant(r) /\ r.type # 3
<1> DEFINE Goal == /\ Key(r) # NoPath /\ r.type # 5
                   /\ r.rel = NoPath => r.abs # NoPath
                   /\ r.type = 3 => r.rel # NoPath /\ Meant(r).dir = "project"
                   /\ \A f : AwayFor(D, Key(r), f) => f = Meant(r) /\ r.type # 3
<1>1. ASSUME NEW x \in Name, NEW k \in {1, 3}, LiveAs(r, k, Inside(x), At("project", x)) PROVE Goal
  <2>1. Key(r) = Inside(x) /\ Meant(r) = At("project", x)
    BY <1>1, PlacesDiffer DEF LiveAs, Key, Meant
  <2>2. \A f : ~AwayFor(D, Key(r), f)
    BY <2>1, PlacesDiffer DEF AwayFor
  <2> QED BY <1>1, <2>1, <2>2, PlacesDiffer DEF LiveAs
<1>2. ASSUME NEW x \in Name, LiveAs(r, 1, Out(x), At("outside", x)) PROVE Goal
  <2>1. Key(r) = Out(x) /\ Meant(r) = At("outside", x)
    BY <1>2, PlacesDiffer DEF LiveAs, Key, Meant
  <2>2. \A f : AwayFor(D, Key(r), f) => f = Meant(r)
    BY <2>1, PlacesDiffer DEF AwayFor
  <2> QED BY <1>2, <2>1, <2>2, PlacesDiffer DEF LiveAs
<1>3. ASSUME NEW x \in Name, LiveAs(r, 5, Inside(x), At("install", x)) PROVE FALSE
  BY <1>3, PlacesDiffer DEF LiveAs, Class
<1>4. ASSUME NEW x \in Name, LiveAs(r, 6, Inside(x), At("library", x)) PROVE Goal
  <2>1. Key(r) = Inside(x) /\ Meant(r) = At("library", x)
    BY <1>4, PlacesDiffer DEF LiveAs, Key, Meant, ApplyAlias
  <2>2. \A f : AwayFor(D, Key(r), f) => f = Meant(r)
    BY <2>1, PlacesDiffer DEF AwayFor
  <2> QED BY <1>4, <2>1, <2>2, PlacesDiffer DEF LiveAs
<1>5. ASSUME NEW x \in Name, NEW d \in {"outside", "drive"}, LiveAs(r, 0, NoPath, At(d, x)) PROVE Goal
  <2>1. Key(r) = At(d, x)
    BY <1>5, PlacesDiffer DEF LiveAs, Key
  <2>2. Meant(r) = IF Aliased /\ d = "drive" THEN At("outside", x) ELSE At(d, x)
    BY <1>5, PlacesDiffer DEF LiveAs, Meant, ApplyAlias
  <2>3. Meant(r) = At("outside", x)
    BY <2>2, PlacesDiffer
  <2>4. \A f : AwayFor(D, Key(r), f) => f = Meant(r)
    BY <2>1, <2>3, PlacesDiffer DEF AwayFor
  <2> QED BY <1>5, <2>1, <2>4, PlacesDiffer DEF LiveAs
<1>6. ASSUME LiveAs(r, 0, NoPath, NoPath) PROVE FALSE
  BY <1>6, PlacesDiffer DEF LiveAs, Class
<1> HIDE DEF Goal
<1>7. Goal
  BY <1>1, <1>2, <1>3, <1>4, <1>5, <1>6, LiveCases
<1> QED BY <1>7 DEF Goal

\* A place under Samples/Imported.
Place(name, k) == [imported |-> name, n |-> k]

\* allocate_path finds a place nothing has been given yet.
LEMMA FreePlace ==
  ASSUME NEW name, NEW taken, IsFiniteSet(taken)
  PROVE  AllocatePath(name, taken) \notin taken
<1> DEFINE c == Cardinality(taken)
           free == {k \in 1..(c + 1) : Place(name, k) \notin taken}
<1>1. c \in Nat
  BY FS_CardinalityType
<1>2. \A k, l : Place(name, k) = Place(name, l) => k = l
  BY DEF Place
<1>3. free # {}
  <2> SUFFICES ASSUME free = {} PROVE FALSE
    OBVIOUS
  <2> DEFINE f == [k \in 1..(c + 1) |-> Place(name, k)]
             S == 1..(c + 1)
  <2>1. f \in [S -> taken]
    OBVIOUS
  <2>2. IsFiniteSet(S) /\ Cardinality(S) = c + 1
    BY <1>1, FS_Interval
  <2>3. Cardinality(taken) < Cardinality(S)
    BY <1>1, <2>2
  <2> HIDE DEF f, S
  <2>4. \E x, y \in S : x # y /\ f[x] = f[y]
    BY <2>1, <2>2, <2>3, FS_PigeonHole
  <2> QED BY <2>4, <1>2 DEF f, S
<1>4. free \subseteq Nat
  BY <1>1
<1> HIDE DEF free
<1>5. PICK x \in free : \A y \in free : ~(<<y, x>> \in OpToRel(<, Nat))
  <2>1. \E x \in free : \A y \in free : ~(<<y, x>> \in OpToRel(<, Nat))
    BY <1>3, <1>4, WFMin, NatLessThanWellFounded
  <2> QED BY <2>1
<1>6. \A y \in free : x <= y
  <2>1. \A y \in free : ~(y < x)
    BY <1>4, <1>5 DEF OpToRel
  <2> QED BY <2>1, <1>4
<1>7. Min(free) \in free
  BY <1>6 DEF Min
<1>8. Place(name, Min(free)) \notin taken
  BY <1>7 DEF free
<1>9. AllocatePath(name, taken) = Place(name, Min(free))
  BY DEF AllocatePath, Place, free
<1> QED BY <1>8, <1>9

\* The entry e is of a file of the folder, or of a file outside that a
\* gathered reference leads to among the files D.
LiveEntry(e, D) ==
    \/ e.origin = NoPath /\ e.path = e.source
    \/ e.origin # NoPath /\ AwayFor(D, e.origin, e.source)

\* The entry e is of the file its reference names, if D has that one.
FlEntry(e, D) == LocalPath(e.origin) \in D => e.source = LocalPath(e.origin)

EntryOK(e, D, k) == (k = "ableton" => LiveEntry(e, D)) /\ (k = "flstudio" => FlEntry(e, D))

Paths(p) == {e.path : e \in p.entries}

\* A plan of a project of kind k, as far as it has come: its files are among
\* D, no two have one place, and a Live Set's has the whole folder but for
\* the files sk that are skipped.
Planning(p, D, k, sk) ==
    /\ DOMAIN p = {"entries", "missing"}
    /\ IsFiniteSet(Paths(p))
    /\ \A e \in p.entries : e.source \in D /\ EntryOK(e, D, k)
    /\ \A d, e \in p.entries : d.path = e.path => d.source = e.source
    /\ k = "ableton" => \A f \in D \ sk : f.dir = "project" =>
                            \E e \in p.entries : e.path = f /\ e.source = f

\* A reference that is reported leaves the plan as it is.
LEMMA ReportKeeps ==
  ASSUME NEW p, NEW D, NEW k, NEW sk, Planning(p, D, k, sk), NEW m
  PROVE  Planning([p EXCEPT !.missing = m], D, k, sk)
<1> DEFINE q == [p EXCEPT !.missing = m]
<1>1. DOMAIN q = {"entries", "missing"} /\ q.entries = p.entries
  BY DEF Planning
<1> HIDE DEF q
<1>2. Planning(q, D, k, sk)
  BY <1>1 DEF Planning, Paths
<1> QED BY <1>2 DEF q

\* An entry at a new place may join a plan.
LEMMA EntryKeeps ==
  ASSUME NEW p, NEW D, NEW k, NEW sk, Planning(p, D, k, sk),
         NEW e, e.source \in D, EntryOK(e, D, k), e.path \notin Paths(p)
  PROVE  Planning([p EXCEPT !.entries = @ \cup {e}], D, k, sk)
<1> DEFINE q == [p EXCEPT !.entries = @ \cup {e}]
<1>1. DOMAIN q = {"entries", "missing"} /\ q.entries = p.entries \cup {e}
  BY DEF Planning
<1> HIDE DEF q
<1>2. Paths(q) = Paths(p) \cup {e.path}
  BY <1>1 DEF Paths
<1>3. IsFiniteSet(Paths(q))
  BY <1>2, FS_AddElement DEF Planning
<1>4. \A d \in p.entries : d.path # e.path
  BY DEF Paths
<1>5. \A d, x \in q.entries : d.path = x.path => d.source = x.source
  BY <1>1, <1>4 DEF Planning
<1>6. \A x \in q.entries : x.source \in D /\ EntryOK(x, D, k)
  BY <1>1 DEF Planning
<1>7. Planning(q, D, k, sk)
  BY <1>1, <1>3, <1>5, <1>6 DEF Planning
<1> QED BY <1>7 DEF q

\* The parts of an entry.
LEMMA EntryParts ==
  ASSUME NEW path, NEW source, NEW origin
  PROVE  /\ Entry(path, source, origin).path = path
         /\ Entry(path, source, origin).source = source
         /\ Entry(path, source, origin).origin = origin
BY DEF Entry

\* A gathered reference is reported, left in the folder, or placed.
LEMMA PlanOneKeeps ==
  ASSUME NEW p, Planning(p, disk, "ableton", skipped),
         NEW r \in LiveRefs, ShouldGather(Class(r))
  PROVE  Planning(PlanOne(p, r), disk, "ableton", skipped)
<1> DEFINE found == Resolve(r)
           f == CHOOSE f \in found : TRUE
           path == AllocatePath(Wanted(r), Paths(p))
           e == Entry(path, f, Key(r))
<1>1. found = ResolveIn(disk, r)
  BY DEF Resolve, ResolveIn
<1>2. CASE found = {} \/ (f.dir = "project" /\ f \notin Enumerated)
  <2>1. PlanOne(p, r) = [p EXCEPT !.missing = @ \cup {Key(r)}]
    BY <1>2 DEF PlanOne
  <2>2. [p EXCEPT !.missing = @ \cup {Key(r)}] = [p EXCEPT !.missing = p.missing \cup {Key(r)}]
    OBVIOUS
  <2> QED BY <2>1, <2>2, ReportKeeps
<1>3. CASE found # {} /\ f.dir = "project" /\ f \in Enumerated
  BY <1>3 DEF PlanOne
<1>4. CASE found # {} /\ f.dir # "project"
  <2>1. PlanOne(p, r) = [p EXCEPT !.entries = @ \cup {e}]
    BY <1>4 DEF PlanOne, Paths
  <2>2. f \in ResolveIn(disk, r)
    BY <1>1, <1>4
  <2>3. e.path = path /\ e.source = f /\ e.origin = Key(r)
    BY EntryParts
  <2> HIDE DEF found, f, path, e
  <2>4. f \in disk /\ AwayFor(disk, Key(r), f)
    BY <1>4, <2>2, ResolvedExists, GatheredLeadsAway
  <2>5. Key(r) # NoPath
    BY <2>4, PlacesDiffer DEF AwayFor
  <2>6. EntryOK(e, disk, "ableton")
    BY <2>3, <2>4, <2>5 DEF EntryOK, LiveEntry
  <2>7. e.path \notin Paths(p)
    BY <2>3, FreePlace DEF path, Planning
  <2> QED BY <2>1, <2>3, <2>4, <2>6, <2>7, EntryKeeps
<1> QED BY <1>2, <1>3, <1>4

\* A reference of an FL Studio project is passed over, reported or placed.
LEMMA PlanFlOneKeeps ==
  ASSUME NEW p, Planning(p, disk, "flstudio", skipped), NEW r
  PROVE  Planning(PlanFlOne(p, r), disk, "flstudio", skipped)
<1> DEFINE found == FlSource(r)
           f == CHOOSE f \in found : TRUE
           path == AllocatePath(r.name, Paths(p))
           e == Entry(path, f, r)
<1>1. found = {} \/ (f \in found /\ f \in disk /\ (LocalPath(r) \in disk => f = LocalPath(r)))
  BY DEF FlSource
<1>2. CASE PlanFlOne(p, r) = p
  BY <1>2
<1>3. CASE PlanFlOne(p, r) = [p EXCEPT !.missing = @ \cup {r}]
  <2>1. [p EXCEPT !.missing = @ \cup {r}] = [p EXCEPT !.missing = p.missing \cup {r}]
    OBVIOUS
  <2> QED BY <1>3, <2>1, ReportKeeps
<1>4. CASE found # {} /\ PlanFlOne(p, r) = [p EXCEPT !.entries = @ \cup {e}]
  <2>1. e.path = path /\ e.source = f /\ e.origin = r
    BY EntryParts
  <2>2. f \in disk /\ (LocalPath(r) \in disk => f = LocalPath(r))
    BY <1>1, <1>4
  <2> HIDE DEF found, f, path, e
  <2>3. EntryOK(e, disk, "flstudio")
    BY <2>1, <2>2 DEF EntryOK, FlEntry
  <2>4. e.path \notin Paths(p)
    BY <2>1, FreePlace DEF path, Planning
  <2> QED BY <1>4, <2>1, <2>2, <2>3, <2>4, EntryKeeps
<1>5. \/ PlanFlOne(p, r) = p
      \/ PlanFlOne(p, r) = [p EXCEPT !.missing = @ \cup {r}]
      \/ found # {} /\ PlanFlOne(p, r) = [p EXCEPT !.entries = @ \cup {e}]
  BY DEF PlanFlOne, Paths
<1> QED BY <1>2, <1>3, <1>4, <1>5

\* F plans the first n references of the order, one after the other.
PlansInTurn(F, first, order, n) ==
    F = [k \in 0..n |-> IF k = 0 THEN first ELSE PlanNext(F[k - 1], order[k])]

\* One more reference planned.
LEMMA PlanLonger ==
  ASSUME NEW first, NEW order, NEW n \in Nat, NEW F, PlansInTurn(F, first, order, n)
  PROVE  \E G : PlansInTurn(G, first, order, n + 1)
<1> DEFINE G == [k \in 0..(n + 1) |-> IF k <= n THEN F[k] ELSE PlanNext(F[n], order[n + 1])]
<1>1. \A k \in 0..n : F[k] = IF k = 0 THEN first ELSE PlanNext(F[k - 1], order[k])
  BY DEF PlansInTurn
<1>2. ASSUME NEW k \in 0..(n + 1)
      PROVE  G[k] = IF k = 0 THEN first ELSE PlanNext(G[k - 1], order[k])
  <2>1. CASE k <= n
    <3>1. k \in 0..n /\ G[k] = F[k]
      BY <2>1
    <3>2. k # 0 => k - 1 \in 0..(n + 1) /\ k - 1 <= n
      BY <2>1
    <3>3. k # 0 => G[k - 1] = F[k - 1]
      BY <3>2
    <3> HIDE DEF G
    <3> QED BY <3>1, <3>3, <1>1
  <2>2. CASE ~(k <= n)
    <3>1. k = n + 1 /\ k # 0 /\ k - 1 = n /\ n \in 0..(n + 1) /\ n <= n
      BY <2>2
    <3>2. G[k] = PlanNext(F[n], order[n + 1]) /\ G[n] = F[n]
      BY <2>2, <3>1
    <3> HIDE DEF G
    <3> QED BY <3>1, <3>2
  <2> QED BY <2>1, <2>2
<1>3. G = [k \in 0..(n + 1) |-> G[k]]
  OBVIOUS
<1> HIDE DEF G
<1>4. G = [k \in 0..(n + 1) |-> IF k = 0 THEN first ELSE PlanNext(G[k - 1], order[k])]
  BY <1>2, <1>3
<1> QED BY <1>4 DEF PlansInTurn

\* References are planned in turn, however many there are.
LEMMA PlansExist ==
  ASSUME NEW first, NEW order, NEW n \in Nat
  PROVE  \E F : PlansInTurn(F, first, order, n)
<1> DEFINE S == {k \in Nat : \E F : PlansInTurn(F, first, order, k)}
<1>1. 0 \in S
  <2> DEFINE F == [k \in 0..0 |-> first]
  <2>1. F = [k \in 0..0 |-> IF k = 0 THEN first ELSE PlanNext(F[k - 1], order[k])]
    OBVIOUS
  <2> QED BY <2>1 DEF PlansInTurn
<1>2. \A k \in Nat : k \in S => k + 1 \in S
  BY PlanLonger
<1> HIDE DEF S
<1>3. Nat \subseteq S
  BY <1>1, <1>2, NaturalInduction
<1> QED BY <1>3 DEF S

\* A plan is sound if every reference keeps it so.
LEMMA PlannedKeeps ==
  ASSUME NEW first, NEW order, Len(order) \in Nat, NEW k, Planning(first, disk, k, skipped),
         \A p : \A j \in 1..Len(order) :
             Planning(p, disk, k, skipped) => Planning(PlanNext(p, order[j]), disk, k, skipped)
  PROVE  Planning(Planned(first, order), disk, k, skipped)
<1> DEFINE n == Len(order)
           F == CHOOSE F : F = [i \in 0..n |-> IF i = 0 THEN first ELSE PlanNext(F[i - 1], order[i])]
<1>1. Planned(first, order) = F[n]
  BY DEF Planned
<1>2. \E G : G = [i \in 0..n |-> IF i = 0 THEN first ELSE PlanNext(G[i - 1], order[i])]
  <2>1. n \in Nat
    OBVIOUS
  <2> HIDE DEF n
  <2>2. \E G : PlansInTurn(G, first, order, n)
    BY <2>1, PlansExist
  <2> QED BY <2>2 DEF PlansInTurn
<1>3. F = [i \in 0..n |-> IF i = 0 THEN first ELSE PlanNext(F[i - 1], order[i])]
  BY <1>2
<1> HIDE DEF F
<1>4. \A i \in 0..n : F[i] = IF i = 0 THEN first ELSE PlanNext(F[i - 1], order[i])
  BY <1>3
<1> DEFINE S == {i \in Nat : i <= n => Planning(F[i], disk, k, skipped)}
<1>5. 0 \in S
  BY <1>4
<1>6. ASSUME NEW i \in Nat, i \in S PROVE i + 1 \in S
  <2> SUFFICES ASSUME i + 1 <= n PROVE Planning(F[i + 1], disk, k, skipped)
    OBVIOUS
  <2>1. i + 1 \in 0..n /\ i + 1 # 0 /\ (i + 1) - 1 = i /\ i + 1 \in 1..n /\ i <= n
    OBVIOUS
  <2>2. F[i + 1] = PlanNext(F[i], order[i + 1])
    BY <2>1, <1>4
  <2>3. Planning(F[i], disk, k, skipped)
    BY <1>6, <2>1
  <2> QED BY <2>1, <2>2, <2>3
<1> HIDE DEF S
<1>7. Nat \subseteq S
  BY <1>5, <1>6, NaturalInduction
<1>8. n \in S
  BY <1>7
<1> QED BY <1>1, <1>8 DEF S

\* Every plan of a Live Set is sound.
LEMMA LivePlan ==
  ASSUME kind = "ableton", refs \in [1..Refs -> LiveRefs], Refs \in Nat, IsFiniteSet(disk), NEW p \in PlanLive
  PROVE  Planning(p, disk, "ableton", skipped)
<1> DEFINE folder == [entries |-> {Entry(f, f, NoPath) : f \in Enumerated}, missing |-> {}]
<1>1. PICK order \in SetToSeqs(Gathered) : p = Planned(folder, order)
  BY DEF PlanLive
<1>2. IsFiniteSet(Gathered)
  <2>1. Gathered \subseteq 1..Refs
    BY DEF Gathered
  <2>2. IsFiniteSet(1..Refs)
    BY FS_Interval
  <2> QED BY <2>1, <2>2, FS_Subset
<1>3. Cardinality(Gathered) \in Nat
  BY <1>2, FS_CardinalityType
<1>4. order \in [1..Cardinality(Gathered) -> Gathered]
  BY <1>1 DEF SetToSeqs
<1>5. Len(order) = Cardinality(Gathered)
  <2> DEFINE c == Cardinality(Gathered)
             T == Gathered
  <2>1. c \in Nat /\ order \in [1..c -> T]
    BY <1>3, <1>4
  <2> HIDE DEF c, T
  <2>2. order \in Seq(T) /\ Len(order) = c
    BY <2>1
  <2> QED BY <2>2 DEF c
<1>6. Planning(folder, disk, "ableton", skipped)
  <2>1. DOMAIN folder = {"entries", "missing"} /\ folder.entries = {Entry(f, f, NoPath) : f \in Enumerated}
    OBVIOUS
  <2> HIDE DEF folder
  <2>2. \A e \in folder.entries : e.path = e.source /\ e.origin = NoPath /\ e.source \in Enumerated
    BY <2>1, EntryParts
  <2>3. \A f \in Enumerated : \E e \in folder.entries : e.path = f /\ e.source = f
    BY <2>1, EntryParts
  <2>4. Enumerated = {f \in disk : f.dir = "project"} \ skipped
    BY DEF Enumerated
  <2>5. Paths(folder) \subseteq disk
    BY <2>2, <2>4 DEF Paths
  <2>6. IsFiniteSet(Paths(folder))
    BY <2>5, FS_Subset
  <2>7. \A e \in folder.entries : EntryOK(e, disk, "ableton")
    BY <2>2 DEF EntryOK, LiveEntry
  <2> QED BY <2>1, <2>2, <2>3, <2>4, <2>6, <2>7 DEF Planning
<1>7. ASSUME NEW q, NEW j \in 1..Len(order), Planning(q, disk, "ableton", skipped)
      PROVE  Planning(PlanNext(q, order[j]), disk, "ableton", skipped)
  <2>1. order[j] \in Gathered
    BY <1>4, <1>5
  <2>2. refs[order[j]] \in LiveRefs /\ ShouldGather(Class(refs[order[j]]))
    BY <2>1 DEF Gathered
  <2>3. Planning(PlanOne(q, refs[order[j]]), disk, "ableton", skipped)
    BY <2>2, <1>7, PlanOneKeeps
  <2> QED BY <2>3 DEF PlanNext
<1> HIDE DEF folder
<1> QED BY <1>1, <1>3, <1>5, <1>6, <1>7, PlannedKeeps

\* Every plan of an FL Studio project is sound.
LEMMA FlPlan ==
  ASSUME kind = "flstudio", refs \in [1..Refs -> FlRefs], Refs \in Nat, NEW p \in PlanFl
  PROVE  Planning(p, disk, "flstudio", skipped)
<1> DEFINE nothing == [entries |-> {}, missing |-> {}]
           order == [i \in DOMAIN refs |-> i]
<1>1. p = Planned(nothing, order)
  BY DEF PlanFl
<1>2. Len(order) \in Nat
  <2>1. order \in [1..Refs -> 1..Refs]
    OBVIOUS
  <2> HIDE DEF order
  <2>2. order \in Seq(1..Refs)
    BY <2>1
  <2> QED BY <2>2
<1>3. Planning(nothing, disk, "flstudio", skipped)
  <2>1. DOMAIN nothing = {"entries", "missing"} /\ nothing.entries = {}
    OBVIOUS
  <2> HIDE DEF nothing
  <2>2. Paths(nothing) = {}
    BY <2>1 DEF Paths
  <2> QED BY <2>1, <2>2, FS_EmptySet DEF Planning
<1> HIDE DEF nothing, order
<1>4. ASSUME NEW q, NEW j \in 1..Len(order), Planning(q, disk, "flstudio", skipped)
      PROVE  Planning(PlanNext(q, order[j]), disk, "flstudio", skipped)
  <2>1. PlanNext(q, order[j]) = q \/ PlanNext(q, order[j]) = PlanFlOne(q, refs[order[j]])
    BY DEF PlanNext
  <2>2. Planning(PlanFlOne(q, refs[order[j]]), disk, "flstudio", skipped)
    BY <1>4, PlanFlOneKeeps
  <2> QED BY <2>1, <2>2, <1>4
<1> QED BY <1>1, <1>2, <1>3, <1>4, PlannedKeeps

\* There are finitely many files one reference may lead to.
LEMMA CandidatesFinite ==
  ASSUME kind \in {"ableton", "flstudio", "auru"}, NEW r
  PROVE  IsFiniteSet(Candidates(r))
<1>1. \A x : IsFiniteSet({x})
  BY FS_Singleton
<1>2. IsFiniteSet({})
  BY FS_EmptySet
<1>3. \A S, T : IsFiniteSet(S) /\ IsFiniteSet(T) => IsFiniteSet(S \cup T)
  BY FS_Union
<1>4. CASE kind = "ableton"
  <2> DEFINE A == IF r.rel = NoPath THEN {} ELSE {At(IF r.rel.up THEN "outside" ELSE "project", r.rel.name)}
             B == {r.abs}
             C == ApplyAlias(r.abs)
             E == IF r.abs = NoPath THEN {} ELSE B \cup C
  <2>1. IsFiniteSet(A) /\ IsFiniteSet(B)
    BY <1>1, <1>2
  <2>2. IsFiniteSet(C)
    BY <1>1, <1>2 DEF ApplyAlias
  <2>3. Candidates(r) = A \cup E
    BY <1>4 DEF Candidates
  <2> HIDE DEF A, B, C
  <2>4. IsFiniteSet(E)
    BY <2>1, <2>2, <1>2, <1>3
  <2> HIDE DEF E
  <2>5. IsFiniteSet(A \cup E)
    BY <2>1, <2>4, <1>3
  <2> QED BY <2>3, <2>5
<1>5. CASE kind = "flstudio"
  <2>1. Candidates(r) = {LocalPath(r)} \cup {At("project", r.name)}
    BY <1>5 DEF Candidates
  <2>2. IsFiniteSet({LocalPath(r)} \cup {At("project", r.name)})
    BY <1>1, <1>3
  <2> QED BY <2>1, <2>2
<1>6. CASE kind = "auru"
  <2>1. Candidates(r) = {r}
    BY <1>6 DEF Candidates
  <2> QED BY <2>1, <1>1
<1> QED BY <1>4, <1>5, <1>6

\* There are finitely many files a project may lead to.
LEMMA FilesFinite ==
  ASSUME kind \in {"ableton", "flstudio", "auru"}, NEW T, refs \in [1..Refs -> T], Refs \in Nat
  PROVE  IsFiniteSet(UNION {Candidates(refs[i]) : i \in DOMAIN refs})
<1> DEFINE U(n) == UNION {Candidates(refs[i]) : i \in 1..n}
           S == {n \in Nat : IsFiniteSet(U(n))}
<1>1. 0 \in S
  <2>1. U(0) = {}
    OBVIOUS
  <2> QED BY <2>1, FS_EmptySet
<1>2. ASSUME NEW n \in Nat, n \in S PROVE n + 1 \in S
  <2>1. 1..(n + 1) = (1..n) \cup {n + 1}
    OBVIOUS
  <2>2. U(n + 1) = U(n) \cup Candidates(refs[n + 1])
    BY <2>1
  <2> HIDE DEF U
  <2>3. IsFiniteSet(U(n)) /\ IsFiniteSet(Candidates(refs[n + 1]))
    BY <1>2, CandidatesFinite
  <2>4. IsFiniteSet(U(n) \cup Candidates(refs[n + 1]))
    BY <2>3, FS_Union
  <2>5. IsFiniteSet(U(n + 1))
    BY <2>2, <2>4
  <2> QED BY <2>5
<1> HIDE DEF S
<1>3. Nat \subseteq S
  BY <1>1, <1>2, NaturalInduction
<1>4. IsFiniteSet(U(Refs))
  BY <1>3 DEF S
<1>5. DOMAIN refs = 1..Refs
  OBVIOUS
<1> QED BY <1>4, <1>5

\* The references of a project of kind k.
RefsOf(k) == IF k = "ableton" THEN LiveRefs ELSE IF k = "flstudio" THEN FlRefs ELSE AuruRefs

\* The files there were when the backup began, before it began too.
First == IF plan = NoPlan THEN disk ELSE AtFirst

\* What the plan q of a project of kind k promises.
PlanOK(q, D, k, sk) ==
    IF k = "auru" THEN \A e \in q.entries : e.path = e.source ELSE Planning(q, D, k, sk)

\* A committed manifest has the planned files that could be read, and the
\* others are reported.
Committed ==
    /\ plan # NoPlan
    /\ manifest \subseteq plan.entries
    /\ \A e \in plan.entries \ manifest : e.path \in unavailable

\* What a restore has made of the references.
Restored ==
    /\ manifest # NoManifest
    /\ opened = [i \in DOMAIN refs |-> Rewritten(refs[i])]
    /\ kind = "auru" => ~NativeRefuses(Fetched)

\* The inductive invariant of backups and restores.
AssetInv ==
    /\ kind \in {"ableton", "flstudio", "auru"}
    /\ refs \in [1..Refs -> RefsOf(kind)]
    /\ IsFiniteSet(disk)
    /\ kind = "ableton" => \A f \in First : f.dir # "drive"
    /\ plan # NoPlan => PlanOK(plan, AtFirst, kind, skipped)
    /\ manifest # NoManifest => Committed
    /\ opened # NotRestored => Restored

\* A project before its first backup.
LEMMA AssetStarts ==
  ASSUME AssetInit
  PROVE  AssetInv
<1>1. kind \in {"ableton", "flstudio", "auru"} /\ Refs \in Nat
  BY AssetsAssumption DEF AssetInit
<1>2. refs \in [1..Refs -> RefsOf(kind)]
  <2>1. refs \in [1..Refs -> CASE kind = "ableton"  -> LiveRefs
                              [] kind = "flstudio" -> FlRefs
                              [] kind = "auru"     -> AuruRefs]
    BY DEF AssetInit
  <2>2. RefsOf(kind) = CASE kind = "ableton"  -> LiveRefs
                         [] kind = "flstudio" -> FlRefs
                         [] kind = "auru"     -> AuruRefs
    BY <1>1 DEF RefsOf
  <2> QED BY <2>1, <2>2
<1> DEFINE U == UNION {Candidates(refs[i]) : i \in DOMAIN refs}
<1>3. IsFiniteSet(U)
  BY <1>1, <1>2, FilesFinite
<1>4. disk \in SUBSET {f \in U : f.dir # "drive"}
  BY DEF AssetInit, Disks
<1> HIDE DEF U
<1>5. disk \subseteq U /\ \A f \in disk : f.dir # "drive"
  BY <1>4
<1>6. IsFiniteSet(disk)
  BY <1>3, <1>5, FS_Subset
<1>7. plan = NoPlan /\ manifest = NoManifest /\ opened = NotRestored
  BY DEF AssetInit
<1> QED BY <1>1, <1>2, <1>5, <1>6, <1>7 DEF AssetInv, First

\* The sources of a sound plan are no files but those that were there.
LEMMA PlanAddsNoFiles ==
  ASSUME NEW q, NEW D, NEW k, NEW sk, Planning(q, D, k, sk)
  PROVE  D \cup {e.source : e \in q.entries} = D
BY DEF Planning

\* The step that plans a backup.
LEMMA PlanAssetsKeeps ==
  ASSUME AssetInv, PlanAssets
  PROVE  AssetInv'
<1>1. /\ kind \in {"ableton", "flstudio", "auru"} /\ Refs \in Nat /\ refs \in [1..Refs -> RefsOf(kind)]
      /\ IsFiniteSet(disk) /\ (kind = "ableton" => \A f \in disk : f.dir # "drive")
  BY AssetsAssumption DEF AssetInv, First, PlanAssets
<1>2. /\ kind' = kind /\ refs' = refs /\ disk' = disk /\ skipped' = skipped
      /\ manifest' = manifest /\ opened' = opened
  BY DEF PlanAssets
<1>3. manifest = NoManifest /\ opened = NotRestored
  BY DEF AssetInv, Committed, Restored, PlanAssets
<1>4. CASE kind = "auru"
  <2>1. plan' \in PlanAuru
    BY <1>4 DEF PlanAssets
  <2>2. \A e \in plan'.entries : e.path = e.source
    BY <2>1, EntryParts DEF PlanAuru
  <2>3. PlanOK(plan', AtFirst', kind', skipped')
    BY <2>2, <1>2, <1>4 DEF PlanOK
  <2> QED BY <2>3, <1>1, <1>2, <1>3, <1>4 DEF AssetInv
<1>5. CASE kind # "auru"
  <2>1. Planning(plan', disk, kind, skipped)
    <3>1. CASE kind = "ableton"
      <4>1. plan' \in PlanLive
        BY <3>1 DEF PlanAssets
      <4> QED BY <4>1, <3>1, <1>1, LivePlan DEF RefsOf
    <3>2. CASE kind = "flstudio"
      <4>1. plan' \in PlanFl
        BY <3>2 DEF PlanAssets
      <4> QED BY <4>1, <3>2, <1>1, FlPlan DEF RefsOf
    <3> QED BY <3>1, <3>2, <1>1, <1>5
  <2>2. AtFirst' = disk
    BY <2>1, <1>2, PlanAddsNoFiles DEF AtFirst
  <2>3. PlanOK(plan', AtFirst', kind', skipped')
    BY <2>1, <2>2, <1>2, <1>5 DEF PlanOK
  <2>4. First' = disk
    BY <2>2, <1>2 DEF First
  <2> QED BY <2>3, <2>4, <1>1, <1>2, <1>3 DEF AssetInv
<1> QED BY <1>4, <1>5

\* The step in which a file goes.
LEMMA FileGoesKeeps ==
  ASSUME AssetInv, FileGoes
  PROVE  AssetInv'
<1>1. /\ kind' = kind /\ refs' = refs /\ skipped' = skipped /\ plan' = plan
      /\ manifest' = manifest /\ opened' = opened /\ plan # NoPlan /\ manifest = NoManifest
  BY DEF FileGoes
<1>2. PICK e \in plan.entries : e.source \in disk /\ disk' = disk \ {e.source}
  BY DEF FileGoes
<1>3. AtFirst' = AtFirst
  BY <1>1, <1>2 DEF AtFirst
<1>4. IsFiniteSet(disk')
  BY <1>2, FS_RemoveElement DEF AssetInv
<1>5. First' = First
  BY <1>1, <1>3 DEF First
<1>6. opened = NotRestored
  BY <1>1 DEF AssetInv, Restored
<1>7. PlanOK(plan', AtFirst', kind', skipped')
  BY <1>1, <1>3 DEF AssetInv
<1> QED BY <1>1, <1>4, <1>5, <1>6, <1>7 DEF AssetInv

\* The step that stores what was planned.
LEMMA StoreAssetsKeeps ==
  ASSUME AssetInv, StoreAssets
  PROVE  AssetInv'
<1>1. /\ kind' = kind /\ refs' = refs /\ skipped' = skipped /\ plan' = plan
      /\ disk' = disk /\ opened' = opened /\ plan # NoPlan /\ manifest = NoManifest
  BY DEF StoreAssets
<1>2. AtFirst' = AtFirst
  BY <1>1 DEF AtFirst
<1>3. First' = First
  BY <1>1, <1>2 DEF First
<1>4. opened = NotRestored
  BY <1>1 DEF AssetInv, Restored
<1>5. Committed'
  BY <1>1 DEF StoreAssets, Committed, Unreadable
<1>6. PlanOK(plan', AtFirst', kind', skipped')
  BY <1>1, <1>2 DEF AssetInv
<1> QED BY <1>1, <1>3, <1>4, <1>5, <1>6 DEF AssetInv

\* A step after the commit that leaves everything but what was lost and opened.
LEMMA AfterCommit ==
  ASSUME AssetInv, UNCHANGED <<kind, refs, disk, skipped, plan, manifest, unavailable>>,
         opened' # NotRestored => Restored'
  PROVE  AssetInv'
<1>1. AtFirst' = AtFirst /\ First' = First /\ (Committed' <=> Committed)
  BY DEF AtFirst, First, Committed
<1>2. plan # NoPlan => PlanOK(plan', AtFirst', kind', skipped')
  BY <1>1 DEF AssetInv
<1> QED BY <1>1, <1>2 DEF AssetInv

\* The step in which the provider loses an entry.
LEMMA LoseAssetKeeps ==
  ASSUME AssetInv, LoseAsset
  PROVE  AssetInv'
<1>1. opened' = NotRestored
  BY DEF LoseAsset
<1>2. UNCHANGED <<kind, refs, disk, skipped, plan, manifest, unavailable>>
  BY DEF LoseAsset
<1> QED BY <1>1, <1>2, AfterCommit

\* The step that restores the project.
LEMMA RestoreAssetsKeeps ==
  ASSUME AssetInv, RestoreAssets
  PROVE  AssetInv'
<1>1. UNCHANGED <<kind, refs, disk, skipped, twins, plan, manifest, unavailable, lost>>
  BY DEF RestoreAssets
<1>2. Fetched' = Fetched
  BY <1>1 DEF Fetched
<1>3. NativeRefuses(Fetched)' <=> NativeRefuses(Fetched)
  BY <1>1, <1>2 DEF NativeRefuses, NativeName
<1>4. \A r : Rewritten(r)' = Rewritten(r)
  BY <1>1, <1>2 DEF Rewritten, RewriteNative, NativeName
<1>5. opened' = [i \in DOMAIN refs |-> Rewritten(refs[i])]
  BY DEF RestoreAssets
<1>6. opened' = [i \in DOMAIN refs |-> Rewritten(refs[i])]'
  BY <1>1, <1>4, <1>5
<1>7. Restored'
  BY <1>1, <1>3, <1>6 DEF Restored, RestoreAssets
<1> QED BY <1>1, <1>7, AfterCommit

\* Every step keeps the invariant.
LEMMA AssetSteps ==
  ASSUME AssetInv, [AssetNext]_assetVars
  PROVE  AssetInv'
<1>1. CASE UNCHANGED assetVars
  <2>1. UNCHANGED <<kind, refs, disk, skipped, twins, plan, manifest, unavailable, lost, opened>>
    BY <1>1 DEF assetVars
  <2>2. Fetched' = Fetched
    BY <2>1 DEF Fetched
  <2>3. NativeRefuses(Fetched)' <=> NativeRefuses(Fetched)
    BY <2>1, <2>2 DEF NativeRefuses, NativeName
  <2>4. \A r : Rewritten(r)' = Rewritten(r)
    BY <2>1, <2>2 DEF Rewritten, RewriteNative, NativeName
  <2>5. Restored' <=> Restored
    BY <2>1, <2>3, <2>4 DEF Restored
  <2>6. opened' # NotRestored => Restored'
    BY <2>1, <2>5 DEF AssetInv
  <2> QED BY <2>1, <2>6, AfterCommit
<1>2. CASE AssetNext
  BY <1>2, PlanAssetsKeeps, FileGoesKeeps, StoreAssetsKeeps, LoseAssetKeeps, RestoreAssetsKeeps DEF AssetNext
<1> QED BY <1>1, <1>2

\* What is known of the reference i when the project is restored and its file
\* was there.
LEMMA RestoredFacts ==
  ASSUME AssetInv, opened # NotRestored, NEW i \in DOMAIN refs
  PROVE  /\ opened[i] = Rewritten(refs[i])
         /\ refs[i] \in RefsOf(kind)
         /\ manifest \subseteq plan.entries
         /\ \A e \in plan.entries \ manifest : e.path \in unavailable
         /\ PlanOK(plan, AtFirst, kind, skipped)
         /\ kind = "ableton" => \A f \in AtFirst : f.dir # "drive"
         /\ kind = "auru" => ~NativeRefuses(Fetched)
         /\ Fetched \subseteq manifest
         /\ \A e \in manifest \ Fetched : e.path \in lost
<1>1. Restored /\ Committed /\ plan # NoPlan
  BY DEF AssetInv, Restored, Committed
<1>2. First = AtFirst
  BY <1>1 DEF First
<1>3. Fetched \subseteq manifest /\ \A e \in manifest \ Fetched : e.path \in lost
  BY DEF Fetched
<1> QED BY <1>1, <1>2, <1>3 DEF AssetInv, Restored, Committed

\* A reference left unresolved is reported by the restore.
LEMMA UnresolvedReported ==
  ASSUME NEW i, opened[i] = [left |-> "unresolved"]
  PROVE  Reported(i)
BY DEF Reported

\* A reference that points to the place of an entry with the meant file finds
\* that file, or the provider lost it.
LEMMA PointedFinds ==
  ASSUME NEW i, NEW e \in manifest, opened[i] = [to |-> e.path], kind # "auru",
         manifest \subseteq plan.entries,
         \A c, d \in plan.entries : c.path = d.path => c.source = d.source,
         e.source = Meant(refs[i])
  PROVE  Finds(i) = {Meant(refs[i])} \/ Reported(i)
<1>1. CASE e \in Fetched
  <2>1. "to" \in DOMAIN opened[i] /\ opened[i].to = e.path
    OBVIOUS
  <2>2. Finds(i) = {x.source : x \in {y \in Fetched : y.path = e.path}}
    BY <2>1 DEF Finds
  <2>3. \A y \in Fetched : y \in plan.entries
    BY DEF Fetched
  <2>4. \A y \in Fetched : y.path = e.path => y.source = e.source
    BY <2>3
  <2> QED BY <1>1, <2>2, <2>4
<1>2. CASE e \notin Fetched
  <2>1. e.path \in lost
    BY <1>2 DEF Fetched
  <2>2. e \in plan.entries /\ e.source = Meant(refs[i])
    OBVIOUS
  <2> QED BY <2>1, <2>2 DEF Reported
<1> QED BY <1>1, <1>2

\* A reference into the folder finds its file there, unless the backup could
\* not read it or the provider lost it.
LEMMA InFolderFinds ==
  ASSUME NEW i, opened[i] = [left |-> "infolder"],
         manifest \subseteq plan.entries,
         \A e \in plan.entries \ manifest : e.path \in unavailable,
         \A c, d \in plan.entries : c.path = d.path => c.source = d.source,
         NEW e \in plan.entries, e.path = Meant(refs[i]), e.source = Meant(refs[i])
  PROVE  Finds(i) = {Meant(refs[i])} \/ Reported(i)
<1>1. CASE e \in Fetched
  <2>1. "to" \notin DOMAIN opened[i] /\ opened[i].left = "infolder"
    OBVIOUS
  <2>2. Finds(i) = {x.source : x \in {y \in Fetched : y.path = Meant(refs[i])}}
    BY <2>1 DEF Finds
  <2>3. \A y \in Fetched : y \in plan.entries
    BY DEF Fetched
  <2>4. \A y \in Fetched : y.path = e.path => y.source = e.source
    BY <2>3
  <2> QED BY <1>1, <2>2, <2>4
<1>2. CASE e \notin Fetched
  <2>1. e.path \in lost \/ e.path \in unavailable
    BY <1>2 DEF Fetched
  <2> QED BY <2>1 DEF Reported
<1> QED BY <1>1, <1>2

\* A Live Set's reference.
LEMMA LiveCarried ==
  ASSUME AssetInv, kind = "ableton", opened # NotRestored, NEW i \in DOMAIN refs,
         Carried(refs[i]), Meant(refs[i]) \in AtFirst
  PROVE  Finds(i) = {Meant(refs[i])} \/ Reported(i)
<1> DEFINE r == refs[i]
           to == {e \in {x \in manifest : x.origin # NoPath} : e.origin = Key(r)}
<1>1. /\ opened[i] = Rewritten(r) /\ r \in LiveRefs
      /\ manifest \subseteq plan.entries
      /\ \A e \in plan.entries \ manifest : e.path \in unavailable
      /\ Planning(plan, AtFirst, "ableton", skipped)
      /\ \A f \in AtFirst : f.dir # "drive"
  BY RestoredFacts DEF RefsOf, PlanOK
<1>2. Class(r) \notin {"unresolvable", "library"} /\ r.flat /\ ~r.pack /\ Meant(r) \notin skipped
  BY DEF Carried
<1>3. /\ Key(r) # NoPath /\ r.type # 5
      /\ r.rel = NoPath => r.abs # NoPath
      /\ r.type = 3 => r.rel # NoPath /\ Meant(r).dir = "project"
      /\ \A f : AwayFor(AtFirst, Key(r), f) => f = Meant(r) /\ r.type # 3
  BY <1>1, <1>2, MeantByKey
<1>4. opened[i] = IF to # {} THEN [to |-> (CHOOSE e \in to : TRUE).path]
                  ELSE IF r.type = 3 THEN [left |-> "infolder"] ELSE [left |-> "unresolved"]
  <2>1. Rewritten(r) = RewriteOne(r, {x \in manifest : x.origin # NoPath})
    BY DEF Rewritten
  <2>2. (IF r.flat THEN r.rel ELSE NoPath) = r.rel /\ (IF r.flat THEN r.abs ELSE NoPath) = r.abs
    BY <1>2
  <2> QED BY <1>1, <1>2, <1>3, <2>1, <2>2 DEF RewriteOne, Key
<1>5. \A c, d \in plan.entries : c.path = d.path => c.source = d.source
  BY <1>1 DEF Planning
<1>6. \A e \in to : e \in manifest /\ AwayFor(AtFirst, Key(r), e.source)
  BY <1>1, <1>3 DEF Planning, EntryOK, LiveEntry
<1> HIDE DEF to
<1>7. CASE to # {}
  <2>1. PICK e \in to : opened[i] = [to |-> e.path]
    BY <1>4, <1>7
  <2>2. e \in manifest /\ e.source = Meant(r)
    BY <1>3, <1>6
  <2> QED BY <2>1, <2>2, <1>1, <1>5, PointedFinds
<1>8. CASE to = {} /\ r.type = 3
  <2>1. opened[i] = [left |-> "infolder"]
    BY <1>4, <1>8
  <2>2. PICK e \in plan.entries : e.path = Meant(r) /\ e.source = Meant(r)
    BY <1>1, <1>2, <1>3, <1>8 DEF Planning
  <2> QED BY <2>1, <2>2, <1>1, <1>5, InFolderFinds
<1>9. CASE to = {} /\ r.type # 3
  BY <1>4, <1>9, UnresolvedReported
<1> QED BY <1>7, <1>8, <1>9

\* An FL Studio project's reference.
LEMMA FlCarried ==
  ASSUME AssetInv, kind = "flstudio", opened # NotRestored, NEW i \in DOMAIN refs,
         Carried(refs[i]), Meant(refs[i]) \in AtFirst
  PROVE  Finds(i) = {Meant(refs[i])} \/ Reported(i)
<1> DEFINE r == refs[i]
           to == {e \in Fetched : e.origin = r}
<1>1. /\ opened[i] = Rewritten(r)
      /\ manifest \subseteq plan.entries /\ Fetched \subseteq manifest
      /\ Planning(plan, AtFirst, "flstudio", skipped)
  BY RestoredFacts DEF RefsOf, PlanOK
<1>2. r.class \notin {"missing", "relative"}
  BY DEF Carried, ShouldVendor
<1>3. opened[i] = IF to # {} THEN [to |-> (CHOOSE e \in to : TRUE).path] ELSE [left |-> "unresolved"]
  BY <1>1, <1>2 DEF Rewritten, Repoint
<1>4. Meant(r) = LocalPath(r)
  BY DEF Meant
<1>5. \A e \in to : e \in manifest /\ e.source = Meant(r)
  BY <1>1, <1>4 DEF Planning, EntryOK, FlEntry
<1>6. \A c, d \in plan.entries : c.path = d.path => c.source = d.source
  BY <1>1 DEF Planning
<1> HIDE DEF to
<1>7. CASE to # {}
  <2>1. PICK e \in to : opened[i] = [to |-> e.path]
    BY <1>3, <1>7
  <2> QED BY <2>1, <1>1, <1>5, <1>6, PointedFinds
<1>8. CASE to = {}
  BY <1>3, <1>8, UnresolvedReported
<1> QED BY <1>7, <1>8

\* A native project's reference.
LEMMA NativeCarried ==
  ASSUME AssetInv, kind = "auru", opened # NotRestored, NEW i \in DOMAIN refs
  PROVE  Finds(i) = {Meant(refs[i])} \/ Reported(i)
<1> DEFINE r == refs[i]
<1>1. /\ opened[i] = Rewritten(r)
      /\ \A e \in Fetched : e.path = e.source
      /\ ~NativeRefuses(Fetched)
  BY RestoredFacts DEF PlanOK
<1>2. Meant(r) = r
  BY DEF Meant
<1>3. opened[i] = IF \E e \in Fetched : e.path = r THEN [to |-> NativeName(r)] ELSE [left |-> "unresolved"]
  BY <1>1 DEF Rewritten, RewriteNative
<1>4. ASSUME NEW e \in Fetched, e.path = r PROVE Finds(i) = {Meant(r)}
  <2>1. opened[i] = [to |-> NativeName(r)]
    BY <1>3, <1>4
  <2>2. "to" \in DOMAIN opened[i] /\ opened[i].to = NativeName(r)
    BY <2>1
  <2>3. Finds(i) = {x.source : x \in {y \in Fetched : NativeName(y.path) = NativeName(r)}}
    BY <2>2 DEF Finds
  <2>4. \A y \in Fetched : NativeName(y.path) = NativeName(r) => y = e
    BY <1>1, <1>4 DEF NativeRefuses
  <2>5. e.source = r
    BY <1>1, <1>4
  <2> QED BY <1>2, <1>4, <2>3, <2>4, <2>5
<1>5. CASE ~\E e \in Fetched : e.path = r
  BY <1>3, <1>5, UnresolvedReported
<1> QED BY <1>4, <1>5

\* The inductive invariant: the plan is sound, the manifest has what could be
\* read of it, the rest is reported, and the restored project is what the
\* restore makes of the manifest.
THEOREM AssetInvariant == AssetSpec => []AssetInv
<1>1. AssetInit => AssetInv
  BY AssetStarts
<1>2. AssetInv /\ [AssetNext]_assetVars => AssetInv'
  BY AssetSteps
<1> QED BY <1>1, <1>2, PTL DEF AssetSpec

\* A restored project opens the file each reference meant, and no other of
\* that name, or the person was told (plan, rewrite_one, repoint).
THEOREM AssetsCarried == AssetSpec => []CarriedOrReported
<1>1. AssetInv => CarriedOrReported
  <2> SUFFICES ASSUME AssetInv, opened # NotRestored, NEW i \in DOMAIN refs,
                      Carried(refs[i]), Meant(refs[i]) \in AtFirst
               PROVE  Finds(i) = {Meant(refs[i])} \/ Reported(i)
    BY DEF CarriedOrReported
  <2>1. kind \in {"ableton", "flstudio", "auru"}
    BY DEF AssetInv
  <2> QED BY <2>1, LiveCarried, FlCarried, NativeCarried
<1> QED BY <1>1, AssetInvariant, PTL
=============================================================================
