--------------------------- MODULE ManifestProofs ---------------------------
(***************************************************************************)
(* Fetch returns what a directory means: for every directory, whatever the *)
(* number of files, items, composites and skills.                          *)
(*                                                                         *)
(* The loader's work is concatenation (FlattenSeq of the expansions of the *)
(* items of a file, FlattenSeq of the files), the meaning is a set of      *)
(* origins <<file, item, template>>.  Offsets says where the elements of   *)
(* the parts stand in a concatenation; two of them, one inside the other,  *)
(* give every origin a place of its own in the merged list (Places), and   *)
(* every place an origin.  The rest is reasoning about keys.               *)
(***************************************************************************)
EXTENDS Manifest, FiniteSetTheorems, SequenceTheorems, TLAPS

-----------------------------------------------------------------------------
(* Induction.                                                                *)

\* A set of numbers that is not empty has a least element.
LEMMA LeastNat ==
  ASSUME NEW T \in SUBSET Nat, T # {}
  PROVE  \E m \in T : \A k \in T : m <= k
<1> DEFINE R == OpToRel(<, Nat)
<1>1. IsWellFoundedOn(R, Nat)
  BY NatLessThanWellFounded
<1>2. R = {ss \in Nat \X Nat : ss[1] < ss[2]}
  BY Zenon DEF OpToRel
<1>. HIDE DEF R
<1>3. PICK m \in T : \A y \in T : ~(<<y, m>> \in R)
  BY <1>1, WFMin, Zenon
<1>4. \A k \in T : ~(k < m)
  <2>1. SUFFICES ASSUME NEW k \in T, k < m
                PROVE  FALSE
    OBVIOUS
  <2>2. <<k, m>> \in Nat \X Nat /\ <<k, m>>[1] < <<k, m>>[2]
    BY <2>1
  <2>3. <<k, m>> \in R
    BY <1>2, <2>2, Zenon
  <2>4. QED
    BY <1>3, <2>3
<1>5. QED
  BY <1>4

\* Induction over the numbers, with the set of those that have the property in
\* place of the property: the form in which every induction below is done.
LEMMA SetInduction ==
  ASSUME NEW S \in SUBSET Nat, 0 \in S, \A n \in S : n + 1 \in S
  PROVE  S = Nat
<1>1. SUFFICES ASSUME Nat \ S # {}
               PROVE  FALSE
  OBVIOUS
<1>2. PICK m \in Nat \ S : \A k \in Nat \ S : m <= k
  <2> DEFINE T == Nat \ S
  <2>1. T \in SUBSET Nat /\ T # {}
    BY <1>1
  <2> HIDE DEF T
  <2>2. \E m \in T : \A k \in T : m <= k
    BY <2>1, LeastNat
  <2>3. QED
    BY <2>2 DEF T
<1>3. m - 1 \in Nat /\ ~(m <= m - 1)
  BY <1>2
<1>4. m - 1 \in S
  BY <1>2, <1>3
<1>5. (m - 1) + 1 \in S
  BY <1>4
<1>6. QED
  BY <1>2, <1>5

-----------------------------------------------------------------------------
(* Sequences, concatenation and FlattenSeq.                                  *)

\* What IsSeq says of a sequence.
LEMMA SeqDomain ==
  ASSUME NEW s, IsSeq(s)
  PROVE  /\ Len(s) \in Nat
         /\ DOMAIN s = 1..Len(s)
         /\ s = [i \in 1..Len(s) |-> s[i]]
         /\ \A i \in 1..Len(s) : s[i] \in ToSet(s)
BY DEF IsSeq

\* A function on 1..n is a sequence of length n.
LEMMA SeqIntro ==
  ASSUME NEW n \in Nat, NEW s, s = [i \in 1..n |-> s[i]]
  PROVE  IsSeq(s) /\ Len(s) = n
<1>1. s \in [1..n -> ToSet(s)]
  BY DEF ToSet
<1>2. s \in Seq(ToSet(s))
  BY <1>1
<1>3. QED
  BY <1>2, <1>1 DEF IsSeq

\* A sequence over any set is a sequence.
LEMMA SeqOver ==
  ASSUME NEW X, NEW s \in Seq(X)
  PROVE  IsSeq(s)
<1>1. Len(s) \in Nat /\ s = [i \in 1..Len(s) |-> s[i]]
  OBVIOUS
<1>2. QED
  BY <1>1, SeqIntro

\* The elements of a concatenation.
LEMMA ConcatSeq ==
  ASSUME NEW s, NEW t, IsSeq(s), IsSeq(t)
  PROVE  /\ IsSeq(s \o t)
         /\ Len(s \o t) = Len(s) + Len(t)
         /\ \A i \in 1..Len(s) : (s \o t)[i] = s[i]
         /\ \A i \in 1..Len(t) : (s \o t)[Len(s) + i] = t[i]
<1> DEFINE X == ToSet(s) \cup ToSet(t)
<1>1. s \in Seq(X) /\ t \in Seq(X)
  BY SeqDomain DEF IsSeq
<1>. HIDE DEF X
<1>2. s \o t \in Seq(X)
  BY <1>1
<1>3. IsSeq(s \o t)
  BY <1>2, SeqOver
<1>4. QED
  BY <1>1, <1>3

Flattening(ss, n) ==
  CHOOSE f : f = [i \in 1..n |-> IF i = 1 THEN ss[i] ELSE f[i-1] \o ss[i]]

\* FlattenSeq is the last of the partial concatenations.
LEMMA FlattenDef ==
  ASSUME NEW ss
  PROVE FlattenSeq(ss) = IF Len(ss) = 0 THEN ss ELSE Flattening(ss, Len(ss))[Len(ss)]
BY Zenon DEF FlattenSeq, Flattening

\* The recursive function inside FlattenSeq satisfies its equation.  Otherwise
\* there is a least length for which no function does, and the function for the
\* length before extends to it.
LEMMA FlatteningExists ==
  ASSUME NEW ss, NEW n \in Nat
  PROVE  Flattening(ss, n) =
           [i \in 1..n |-> IF i = 1 THEN ss[i] ELSE Flattening(ss, n)[i-1] \o ss[i]]
<1> DEFINE Is(f, m) == f = [i \in 1..m |-> IF i = 1 THEN ss[i] ELSE f[i-1] \o ss[i]]
           S == {m \in Nat : \E f : Is(f, m)}
<1>1. 0 \in S
  <2> DEFINE e == [i \in 1..0 |-> ss[i]]
  <2>1. Is(e, 0)
    OBVIOUS
  <2>2. QED
    BY <2>1
<1>2. ASSUME NEW m \in S
      PROVE  m + 1 \in S
  <2>1. m \in Nat
    OBVIOUS
  <2>2. PICK f : Is(f, m)
    OBVIOUS
  <2> DEFINE last == IF m = 0 THEN ss[1] ELSE f[m] \o ss[m + 1]
             g == [i \in 1..(m + 1) |-> IF i = m + 1 THEN last ELSE f[i]]
  <2>3. ASSUME NEW i \in 1..(m + 1)
        PROVE  g[i] = IF i = 1 THEN ss[i] ELSE g[i-1] \o ss[i]
    <3>1. CASE i = m + 1
      BY <2>1, <3>1
    <3>2. CASE i # m + 1
      <4>1. i \in 1..m /\ (i # 1 => i - 1 \in 1..m)
        BY <2>1, <3>2
      <4>2. f[i] = IF i = 1 THEN ss[i] ELSE f[i-1] \o ss[i]
        BY <2>2, <4>1
      <4>3. g[i] = f[i] /\ (i # 1 => g[i-1] = f[i-1])
        BY <2>1, <3>2, <4>1
      <4>4. QED
        BY <4>2, <4>3
    <3>3. QED
      BY <3>1, <3>2
  <2>4. Is(g, m + 1)
    <3> HIDE DEF last
    <3>1. QED
      BY <2>3
  <2>5. \E h : Is(h, m + 1)
    BY <2>4
  <2>6. m + 1 \in Nat
    BY <2>1
  <2>7. QED
    <3> HIDE DEF Is
    <3>1. QED
      BY <2>5, <2>6
<1>3. S = Nat
  <2> HIDE DEF S
  <2>1. S \in SUBSET Nat
    BY DEF S
  <2>2. QED
    BY <1>1, <1>2, <2>1, SetInduction
<1>4. \E f : Is(f, n)
  BY <1>3
<1>5. QED
  BY <1>4, Zenon DEF Flattening

\* F is made of the first n parts of ss: off[i] elements come before part i.
Offsets(off, ss, n, F) ==
  /\ \A i \in 1..n : off[i] \in Nat
  /\ \A i \in 1..n : \A j \in 1..Len(ss[i]) :
       off[i] + j \in 1..Len(F) /\ F[off[i] + j] = ss[i][j]
  /\ \A k \in 1..Len(F) : \E i \in 1..n : \E j \in 1..Len(ss[i]) : k = off[i] + j
  /\ \A i1, i2 \in 1..n : \A j1 \in 1..Len(ss[i1]), j2 \in 1..Len(ss[i2]) :
       off[i1] + j1 = off[i2] + j2 => i1 = i2 /\ j1 = j2

\* Element j of part i stands at off[i] + j.
LEMMA OffsetsAt ==
  ASSUME NEW off, NEW ss, NEW n, NEW F, Offsets(off, ss, n, F),
         NEW i \in 1..n, NEW j \in 1..Len(ss[i])
  PROVE  off[i] + j \in 1..Len(F) /\ F[off[i] + j] = ss[i][j]
BY DEF Offsets

\* Every place holds an element of a part.
LEMMA OffsetsOnto ==
  ASSUME NEW off, NEW ss, NEW n, NEW F, Offsets(off, ss, n, F), NEW k \in 1..Len(F)
  PROVE  \E i \in 1..n : \E j \in 1..Len(ss[i]) : k = off[i] + j
BY DEF Offsets

\* Two elements of the parts do not share a place.
LEMMA OffsetsApart ==
  ASSUME NEW off, NEW ss, NEW n, NEW F, Offsets(off, ss, n, F),
         NEW i1 \in 1..n, NEW i2 \in 1..n,
         NEW j1 \in 1..Len(ss[i1]), NEW j2 \in 1..Len(ss[i2]),
         off[i1] + j1 = off[i2] + j2
  PROVE  i1 = i2 /\ j1 = j2
BY DEF Offsets

\* Offsets for m parts extend to one part more.
LEMMA OffsetsExtend ==
  ASSUME NEW ss, NEW off, NEW m \in Nat, NEW F, NEW G, IsSeq(F), IsSeq(ss[m + 1]),
         Offsets(off, ss, m, F),
         off[m + 1] = Len(F), G = F \o ss[m + 1]
  PROVE  IsSeq(G) /\ Offsets(off, ss, m + 1, G)
<1> DEFINE l == Len(F)
           k == Len(ss[m + 1])
<1>1. l \in Nat /\ k \in Nat
  BY SeqDomain
<1>2. /\ IsSeq(G) /\ Len(G) = l + k
      /\ \A i \in 1..l : G[i] = F[i]
      /\ \A i \in 1..k : G[l + i] = ss[m + 1][i]
  BY ConcatSeq
<1>3. off[m + 1] = l
  OBVIOUS
<1>4. \A i \in 1..(m + 1) : i \in 1..m \/ i = m + 1
  OBVIOUS
<1> HIDE DEF l
<1>5. \A i \in 1..(m + 1) : off[i] \in Nat
  BY <1>1, <1>3, <1>4 DEF Offsets
<1>6. ASSUME NEW i \in 1..m, NEW j \in 1..Len(ss[i])
      PROVE  off[i] + j \in 1..l /\ F[off[i] + j] = ss[i][j]
  BY DEF Offsets, l
<1>7. ASSUME NEW i \in 1..(m + 1), NEW j \in 1..Len(ss[i])
      PROVE  off[i] + j \in 1..Len(G) /\ G[off[i] + j] = ss[i][j]
  <2>1. CASE i \in 1..m
    <3>1. off[i] + j \in 1..l /\ F[off[i] + j] = ss[i][j]
      BY <1>6, <2>1
    <3>2. off[i] + j \in 1..(l + k)
      BY <1>1, <3>1
    <3>3. QED
      BY <1>2, <3>1, <3>2
  <2>2. CASE i = m + 1
    <3>1. j \in 1..k /\ l + j \in 1..(l + k)
      BY <1>1, <2>2
    <3>2. QED
      BY <1>2, <1>3, <2>2, <3>1
  <2>3. QED
    BY <1>4, <2>1, <2>2
<1>8. ASSUME NEW p \in 1..Len(G)
      PROVE  \E i \in 1..(m + 1) : \E j \in 1..Len(ss[i]) : p = off[i] + j
  <2>1. CASE p \in 1..l
    <3>1. PICK i \in 1..m : \E j \in 1..Len(ss[i]) : p = off[i] + j
      BY <2>1 DEF Offsets, l
    <3>2. i \in 1..(m + 1)
      OBVIOUS
    <3>3. QED
      BY <3>1, <3>2
  <2>2. CASE p \notin 1..l
    <3>1. p - l \in 1..k /\ p = l + (p - l)
      BY <1>1, <1>2, <2>2
    <3>2. m + 1 \in 1..(m + 1)
      OBVIOUS
    <3>3. QED
      BY <1>3, <3>1, <3>2
  <2>3. QED
    BY <2>1, <2>2
<1>9. ASSUME NEW i1 \in 1..(m + 1), NEW i2 \in 1..(m + 1),
             NEW j1 \in 1..Len(ss[i1]), NEW j2 \in 1..Len(ss[i2]),
             off[i1] + j1 = off[i2] + j2
      PROVE  i1 = i2 /\ j1 = j2
  <2>1. CASE i1 = m + 1 /\ i2 = m + 1
    BY <1>1, <1>3, <1>9, <2>1
  <2>2. CASE i1 \in 1..m /\ i2 \in 1..m
    BY <1>9, <2>2 DEF Offsets
  <2>3. CASE i1 \in 1..m /\ i2 = m + 1
    <3>1. off[i1] + j1 \in 1..l /\ off[i2] + j2 \notin 1..l
      BY <1>1, <1>3, <1>6, <2>3
    <3>2. QED
      BY <1>9, <3>1
  <2>4. CASE i1 = m + 1 /\ i2 \in 1..m
    <3>1. off[i2] + j2 \in 1..l /\ off[i1] + j1 \notin 1..l
      BY <1>1, <1>3, <1>6, <2>4
    <3>2. QED
      BY <1>9, <3>1
  <2>5. QED
    BY <1>4, <2>1, <2>2, <2>3, <2>4
<1>10. QED
  BY <1>2, <1>5, <1>7, <1>8, <1>9 DEF Offsets

\* FlattenSeq puts its parts one after the other, by induction over their number.
LEMMA FlattenOffsets ==
  ASSUME NEW ss, IsSeq(ss), \A i \in DOMAIN ss : IsSeq(ss[i])
  PROVE  /\ IsSeq(FlattenSeq(ss))
         /\ \E off : Offsets(off, ss, Len(ss), FlattenSeq(ss))
<1> DEFINE n == Len(ss)
           f == Flattening(ss, n)
           off == [i \in 1..n |-> IF i = 1 THEN 0 ELSE Len(f[i-1])]
           P(m) == IsSeq(f[m]) /\ Offsets(off, ss, m, f[m])
           S == {m \in Nat : m \in 1..n => P(m)}
<1>1. n \in Nat /\ DOMAIN ss = 1..n
  BY SeqDomain
<1>2. f = [j \in 1..n |-> IF j = 1 THEN ss[j] ELSE f[j-1] \o ss[j]]
  BY <1>1, FlatteningExists
<1>3. CASE n = 0
  <2>1. FlattenSeq(ss) = ss
    BY <1>3, FlattenDef
  <2>2. Offsets(ss, ss, n, ss)
    BY <1>3 DEF Offsets
  <2>3. QED
    BY <2>1, <2>2
<1>4. CASE n # 0
  <2> HIDE DEF n, f, P
  <2>1. 1 \in 1..n /\ IsSeq(ss[1])
    BY <1>1, <1>4
  <2>2. P(1)
    <3>1. f[1] = ss[1] /\ off[1] = 0
      BY <1>2, <2>1
    <3>2. Len(ss[1]) \in Nat
      BY <2>1, SeqDomain
    <3>3. \A i \in 1..1 : i = 1
      OBVIOUS
    <3> HIDE DEF off
    <3>4. \A i \in 1..1 : off[i] \in Nat
      BY <3>1, <3>3
    <3>5. \A i \in 1..1 : \A j \in 1..Len(ss[i]) :
            off[i] + j \in 1..Len(ss[1]) /\ ss[1][off[i] + j] = ss[i][j]
      BY <3>1, <3>2, <3>3
    <3>6. \A k \in 1..Len(ss[1]) : \E i \in 1..1 : \E j \in 1..Len(ss[i]) : k = off[i] + j
      <4>1. 1 \in 1..1 /\ \A k \in 1..Len(ss[1]) : k = off[1] + k
        BY <3>1, <3>2
      <4>2. QED
        BY <4>1
    <3>7. \A i1, i2 \in 1..1 : \A j1 \in 1..Len(ss[i1]), j2 \in 1..Len(ss[i2]) :
            off[i1] + j1 = off[i2] + j2 => i1 = i2 /\ j1 = j2
      BY <3>1, <3>2, <3>3
    <3>8. QED
      BY <2>1, <3>1, <3>4, <3>5, <3>6, <3>7 DEF P, Offsets
  <2>3. ASSUME NEW m \in Nat, m # 0, m + 1 \in 1..n, P(m)
        PROVE  P(m + 1)
    <3>1. f[m + 1] = f[m] \o ss[m + 1] /\ off[m + 1] = Len(f[m]) /\ IsSeq(ss[m + 1])
      <4>1. m \in 1..n /\ (m + 1) - 1 = m /\ m + 1 # 1
        BY <1>1, <2>3
      <4>2. QED
        BY <1>1, <1>2, <2>3, <4>1
    <3> HIDE DEF off
    <3>2. QED
      BY <2>3, <3>1, OffsetsExtend DEF P
  <2>4. 0 \in S /\ \A m \in S : m + 1 \in S
    <3>1. \A m \in Nat : m + 1 \in Nat /\ (m = 0 => m + 1 = 1)
                         /\ (m # 0 /\ m + 1 \in 1..n => m \in 1..n)
      BY <1>1
    <3>2. 0 \in Nat /\ 0 \notin 1..n
      BY <1>1
    <3>3. QED
      BY <2>2, <2>3, <3>1, <3>2
  <2>5. n \in S
    <3> HIDE DEF S
    <3>1. S \in SUBSET Nat
      BY DEF S
    <3>2. QED
      BY <1>1, <2>4, <3>1, SetInduction
  <2>6. P(n)
    BY <1>1, <1>4, <2>5
  <2>7. FlattenSeq(ss) = f[n]
    BY <1>4, FlattenDef DEF n, f
  <2>8. QED
    <3> HIDE DEF off
    <3>1. QED
      BY <2>6, <2>7 DEF n, P
<1>5. QED
  BY <1>3, <1>4

-----------------------------------------------------------------------------
(* Expanding a file.                                                         *)

\* Indexes have a largest one: the definition that counts is the last.
LEMMA LargestIndex ==
  ASSUME NEW n \in Nat, NEW I \in SUBSET (1..n), I # {}
  PROVE  \E i \in I : \A j \in I : j <= i
<1> DEFINE T == {k \in Nat : \E i \in I : k = n - i}
<1>1. T # {}
  <2>1. PICK i \in I : TRUE
    OBVIOUS
  <2>2. n - i \in Nat
    OBVIOUS
  <2>3. QED
    BY <2>2
<1>2. PICK m \in T : \A k \in T : m <= k
  <2>1. T \in SUBSET Nat
    OBVIOUS
  <2> HIDE DEF T
  <2>2. QED
    BY <1>1, <2>1, LeastNat
<1>3. PICK i \in I : m = n - i
  OBVIOUS
<1>4. ASSUME NEW j \in I
      PROVE  j <= i
  <2>1. n - j \in T
    OBVIOUS
  <2>2. n - i <= n - j
    BY <1>2, <1>3, <2>1
  <2>3. QED
    BY <2>2
<1>5. QED
  BY <1>4

IsItems(items) ==
  /\ IsSeq(items)
  /\ \A r \in ToSet(items) :
       IsSeq(r.templates) /\ \A t \in ToSet(r.templates) : IsOther(t)

\* TemplatesOf finds the list of templates of a composite that is defined.
LEMMA TemplatesAreSeq ==
  ASSUME NEW items, IsItems(items), NEW k \in Defined(items)
  PROVE  /\ IsSeq(TemplatesOf(items, k))
         /\ \A t \in ToSet(TemplatesOf(items, k)) : IsOther(t)
<1> DEFINE I == {i \in DOMAIN items : IsDefinition(items[i]) /\ items[i].name = k}
           top == CHOOSE i \in I : \A j \in I : j <= i
<1>1. I # {} /\ I \in SUBSET (1..Len(items)) /\ Len(items) \in Nat
  BY SeqDomain DEF Defined, IsItems
<1>2. top \in I
  <2>1. \E i \in I : \A j \in I : j <= i
    <3> HIDE DEF I
    <3>1. QED
      BY <1>1, LargestIndex
  <2> HIDE DEF I
  <2>2. QED
    BY <2>1
<1>3. TemplatesOf(items, k) = items[top].templates
  BY DEF TemplatesOf
<1>4. items[top] \in ToSet(items)
  BY <1>2 DEF ToSet
<1>5. QED
  BY <1>3, <1>4 DEF IsItems

Expanded(items) ==
  [i \in DOMAIN items |-> IF IsDefinition(items[i]) THEN <<>> ELSE Expansion(items, i)]

\* Every item of a file becomes a list of resources.
LEMMA ExpandedSeqs ==
  ASSUME NEW items, IsItems(items)
  PROVE  /\ IsSeq(Expanded(items)) /\ DOMAIN Expanded(items) = DOMAIN items
         /\ Len(Expanded(items)) = Len(items)
         /\ \A i \in DOMAIN items : IsSeq(Expanded(items)[i])
<1>1. Len(items) \in Nat /\ DOMAIN items = 1..Len(items)
  BY SeqDomain DEF IsItems
<1>2. DOMAIN Expanded(items) = DOMAIN items
  BY DEF Expanded
<1>3. IsSeq(Expanded(items)) /\ Len(Expanded(items)) = Len(items)
  <2>1. Expanded(items) = [i \in 1..Len(items) |-> Expanded(items)[i]]
    BY <1>1 DEF Expanded
  <2>2. QED
    BY <1>1, <2>1, SeqIntro
<1>4. \A x : IsSeq(<<x>>) /\ Len(<<x>>) = 1
  <2>1. \A x : <<x>> \in Seq({x}) /\ Len(<<x>>) = 1
    OBVIOUS
  <2>2. QED
    BY <2>1, SeqOver
<1>5. IsSeq(<<>>)
  <2>1. <<>> \in Seq({})
    OBVIOUS
  <2>2. QED
    BY <2>1, SeqOver
<1>6. ASSUME NEW i \in DOMAIN items, items[i].kind \in Defined(items)
      PROVE  IsSeq(Expansion(items, i))
  <2> DEFINE ts == TemplatesOf(items, items[i].kind)
  <2>1. Len(ts) \in Nat /\ DOMAIN ts = 1..Len(ts)
    BY <1>6, TemplatesAreSeq, SeqDomain
  <2>2. Expansion(items, i) = [j \in 1..Len(ts) |-> ExpandResource(ts[j], items[i])]
    BY <1>6, <2>1 DEF Expansion
  <2> HIDE DEF ts
  <2>3. Expansion(items, i) = [j \in 1..Len(ts) |-> Expansion(items, i)[j]]
    BY <2>2
  <2>4. QED
    BY <2>1, <2>3, SeqIntro
<1>7. \A i \in DOMAIN items : IsSeq(Expanded(items)[i])
  BY <1>4, <1>5, <1>6 DEF Expanded, Expansion
<1>8. QED
  BY <1>2, <1>3, <1>7

\* ExpandComposites puts those lists one after the other.
LEMMA ExpandOffsets ==
  ASSUME NEW items, IsItems(items)
  PROVE  /\ IsSeq(ExpandComposites(items))
         /\ \E off : Offsets(off, Expanded(items), Len(items), ExpandComposites(items))
<1>1. ExpandComposites(items) = FlattenSeq(Expanded(items))
  BY DEF ExpandComposites, Expanded
<1>2. QED
  BY <1>1, ExpandedSeqs, FlattenOffsets

-----------------------------------------------------------------------------
(* Origins.                                                                  *)

Items(d, i) == d.files[i].items

\* What it means to be an origin.
LEMMA OriginForm ==
  ASSUME NEW d, NEW o
  PROVE  o \in Origins(d) <=>
           \E i \in DOMAIN d.files : \E j \in DOMAIN Items(d, i) :
             \E k \in StandsFor(Items(d, i), j) : o = <<i, j, k>>
BY DEF Origins, Items

\* The place of an origin in the expansion of its item.
Slot(o) == IF o[3] = 0 THEN 1 ELSE o[3]

\* The files of a directory hold lists of items.
LEMMA DirectoryItems ==
  ASSUME NEW d, IsDirectory(d), NEW i \in DOMAIN d.files
  PROVE  IsItems(Items(d, i))
BY DEF IsDirectory, IsItems, Items, ToSet

\* Every origin names a slot in the expansion of its item, which holds the
\* resource that the origin means, and that resource is no definition.
LEMMA OriginIsSlot ==
  ASSUME NEW d, IsDirectory(d), NEW o \in Origins(d)
  PROVE  /\ o[1] \in DOMAIN d.files
         /\ o[2] \in DOMAIN Items(d, o[1])
         /\ o[3] \in Nat
         /\ o = <<o[1], o[2], o[3]>>
         /\ o[3] = 0 <=> Items(d, o[1])[o[2]].kind \notin Defined(Items(d, o[1]))
         /\ Slot(o) \in 1..Len(Expanded(Items(d, o[1]))[o[2]])
         /\ Expanded(Items(d, o[1]))[o[2]][Slot(o)] = FromOrigin(d, o)
         /\ IsOther(FromOrigin(d, o))
<1>1. PICK i \in DOMAIN d.files : \E j \in DOMAIN Items(d, i) :
              \E k \in StandsFor(Items(d, i), j) : o = <<i, j, k>>
  BY OriginForm
<1>2. PICK j \in DOMAIN Items(d, i) : \E k \in StandsFor(Items(d, i), j) : o = <<i, j, k>>
  BY <1>1
<1> DEFINE items == Items(d, i)
           r == items[j]
           ts == TemplatesOf(items, r.kind)
<1>3. IsItems(items)
  BY DirectoryItems
<1>4. IsOther(r) /\ ~IsDefinition(r)
  BY <1>2 DEF StandsFor, IsOther, IsDefinition
<1>5. Expanded(items)[j] = Expansion(items, j)
  BY <1>4 DEF Expanded
<1>6. CASE r.kind \notin Defined(items)
  <2>1. o = <<i, j, 0>>
    BY <1>2, <1>4, <1>6 DEF StandsFor
  <2>2. Expansion(items, j) = <<r>> /\ Len(<<r>>) = 1 /\ <<r>>[1] = r
    BY <1>6 DEF Expansion
  <2>3. FromOrigin(d, o) = r
    BY <2>1 DEF FromOrigin, Items
  <2>4. Slot(o) = 1 /\ 1 \in 1..1
    BY <2>1 DEF Slot
  <2>5. QED
    BY <1>4, <1>5, <1>6, <2>1, <2>2, <2>3, <2>4
<1>7. CASE r.kind \in Defined(items)
  <2>1. PICK k \in DOMAIN ts : o = <<i, j, k>>
    BY <1>2, <1>4, <1>7 DEF StandsFor
  <2>2. /\ Len(ts) \in Nat /\ DOMAIN ts = 1..Len(ts)
        /\ \A t \in ToSet(ts) : IsOther(t)
    BY <1>3, <1>7, TemplatesAreSeq, SeqDomain
  <2>3. k \in Nat /\ k # 0 /\ Slot(o) = k /\ IsOther(ts[k])
    BY <2>1, <2>2 DEF Slot, ToSet
  <2>4. Expansion(items, j) = [x \in 1..Len(ts) |-> ExpandResource(ts[x], r)]
    BY <1>7, <2>2 DEF Expansion
  <2>5. FromOrigin(d, o) = ExpandResource(ts[k], r)
    BY <2>1, <2>3 DEF FromOrigin, Items
  <2>6. Len(Expansion(items, j)) = Len(ts)
    <3> DEFINE e == Expansion(items, j)
    <3> HIDE DEF ts
    <3>1. e = [x \in 1..Len(ts) |-> e[x]]
      BY <2>4
    <3> HIDE DEF e
    <3>2. Len(e) = Len(ts)
      BY <2>2, <3>1, SeqIntro
    <3>3. QED
      BY <3>2 DEF e
  <2>7. IsOther(FromOrigin(d, o))
    BY <2>3, <2>5 DEF IsOther, ExpandResource
  <2>8. Expansion(items, j)[k] = FromOrigin(d, o)
    BY <2>1, <2>2, <2>4, <2>5
  <2>9. QED
    BY <1>5, <1>7, <2>1, <2>2, <2>3, <2>6, <2>7, <2>8
<1>8. QED
  BY <1>6, <1>7

\* Every slot of an expansion has an origin.
LEMMA SlotHasOrigin ==
  ASSUME NEW d, IsDirectory(d), NEW i \in DOMAIN d.files, NEW j \in DOMAIN Items(d, i),
         NEW k \in 1..Len(Expanded(Items(d, i))[j])
  PROVE  \E o \in Origins(d) : o[1] = i /\ o[2] = j /\ Slot(o) = k
<1> DEFINE items == Items(d, i)
           r == items[j]
           ts == TemplatesOf(items, r.kind)
<1>1. IsItems(items)
  BY DirectoryItems
<1>2. ~IsDefinition(r)
  BY DEF Expanded
<1>3. IsOther(r) /\ Expanded(items)[j] = Expansion(items, j)
  BY <1>2 DEF Expanded, IsOther, IsDefinition
<1>4. CASE r.kind \notin Defined(items)
  <2>1. Expansion(items, j) = <<r>>
    BY <1>4 DEF Expansion
  <2>2. k = 1
    BY <1>3, <2>1
  <2>3. 0 \in StandsFor(items, j)
    BY <1>2, <1>4 DEF StandsFor
  <2>4. <<i, j, 0>> \in Origins(d)
    BY <2>3, OriginForm
  <2>5. QED
    BY <2>2, <2>4 DEF Slot
<1>5. CASE r.kind \in Defined(items)
  <2>1. Len(ts) \in Nat /\ DOMAIN ts = 1..Len(ts)
    BY <1>1, <1>5, TemplatesAreSeq, SeqDomain
  <2>2. Expansion(items, j) = [x \in 1..Len(ts) |-> ExpandResource(ts[x], r)]
    BY <1>5, <2>1 DEF Expansion
  <2>3. Len(Expansion(items, j)) = Len(ts)
    <3> DEFINE e == Expansion(items, j)
    <3> HIDE DEF ts
    <3>1. e = [x \in 1..Len(ts) |-> e[x]]
      BY <2>2
    <3> HIDE DEF e
    <3>2. Len(e) = Len(ts)
      BY <2>1, <3>1, SeqIntro
    <3>3. QED
      BY <3>2 DEF e
  <2>4. k \in DOMAIN ts /\ k # 0
    BY <1>3, <2>1, <2>3
  <2>5. k \in StandsFor(items, j)
    BY <1>2, <1>5, <2>4 DEF StandsFor
  <2>6. <<i, j, k>> \in Origins(d)
    BY <2>5, OriginForm
  <2>7. QED
    BY <2>4, <2>6 DEF Slot
<1>6. QED
  BY <1>4, <1>5

\* Two origins with the same slot are the same.
LEMMA SlotDeterminesOrigin ==
  ASSUME NEW d, IsDirectory(d), NEW o \in Origins(d), NEW p \in Origins(d),
         o[1] = p[1], o[2] = p[2], Slot(o) = Slot(p)
  PROVE  o = p
<1>1. o[3] = 0 <=> p[3] = 0
  BY OriginIsSlot
<1>2. o[3] = p[3]
  BY <1>1 DEF Slot
<1>3. o = <<o[1], o[2], o[3]>> /\ p = <<p[1], p[2], p[3]>>
  BY OriginIsSlot
<1>4. QED
  BY <1>2, <1>3

Parts(d) == [i \in DOMAIN d.files |-> ExpandComposites(Items(d, i))]
FileItems(d) == FlattenSeq(Parts(d))

\* at says where the resource of an origin is in the merged list.
Places(at, d, F) ==
  /\ \A o \in Origins(d) : at[o] \in 1..Len(F) /\ F[at[o]] = FromOrigin(d, o)
  /\ \A k \in 1..Len(F) : \E o \in Origins(d) : at[o] = k
  /\ \A o, p \in Origins(d) : at[o] = at[p] => o = p

\* The merged files hold the resource of every origin in a place of its own, and
\* nothing else: the concatenation of the files' expansions, each of them a
\* concatenation of its items' expansions.
LEMMA FilesInPlace ==
  ASSUME NEW d, IsDirectory(d)
  PROVE  IsSeq(FileItems(d)) /\ \E at : Places(at, d, FileItems(d))
<1> DEFINE n == Len(d.files)
           F == FileItems(d)
           E(i) == Expanded(Items(d, i))
           inner == [i \in DOMAIN d.files |->
                       CHOOSE off : Offsets(off, E(i), Len(Items(d, i)), Parts(d)[i])]
<1>1. n \in Nat /\ DOMAIN d.files = 1..n
  BY SeqDomain DEF IsDirectory
<1>2. ASSUME NEW i \in 1..n
      PROVE  /\ IsSeq(Parts(d)[i])
             /\ DOMAIN Items(d, i) = 1..Len(Items(d, i))
             /\ Offsets(inner[i], E(i), Len(Items(d, i)), Parts(d)[i])
  <2>1. IsItems(Items(d, i)) /\ Parts(d)[i] = ExpandComposites(Items(d, i))
    BY <1>1, DirectoryItems DEF Parts
  <2>2. DOMAIN Items(d, i) = 1..Len(Items(d, i))
    BY <2>1, SeqDomain DEF IsItems
  <2>3. /\ IsSeq(Parts(d)[i])
        /\ \E off : Offsets(off, E(i), Len(Items(d, i)), Parts(d)[i])
    BY <2>1, ExpandOffsets
  <2> HIDE DEF E
  <2>4. inner[i] = CHOOSE off : Offsets(off, E(i), Len(Items(d, i)), Parts(d)[i])
    BY <1>1
  <2>5. Offsets(inner[i], E(i), Len(Items(d, i)), Parts(d)[i])
    BY <2>3, <2>4, Zenon
  <2>6. QED
    BY <2>2, <2>3, <2>5
<1>3. IsSeq(Parts(d)) /\ Len(Parts(d)) = n /\ DOMAIN Parts(d) = 1..n
  <2>1. Parts(d) = [i \in 1..n |-> Parts(d)[i]]
    BY <1>1 DEF Parts
  <2>2. QED
    BY <1>1, <2>1, SeqIntro, SeqDomain
<1>4. PICK out : Offsets(out, Parts(d), n, F)
  BY <1>2, <1>3, FlattenOffsets DEF FileItems
<1>5. IsSeq(F) /\ Len(F) \in Nat
  BY <1>2, <1>3, FlattenOffsets, SeqDomain DEF FileItems
<1> DEFINE at == [o \in Origins(d) |-> out[o[1]] + (inner[o[1]][o[2]] + Slot(o))]
<1> HIDE DEF n, F, inner
<1>6. ASSUME NEW o \in Origins(d)
      PROVE  /\ o[1] \in 1..n
             /\ o[2] \in 1..Len(Items(d, o[1]))
             /\ Slot(o) \in 1..Len(E(o[1])[o[2]])
             /\ inner[o[1]][o[2]] + Slot(o) \in 1..Len(Parts(d)[o[1]])
             /\ Parts(d)[o[1]][inner[o[1]][o[2]] + Slot(o)] = FromOrigin(d, o)
             /\ at[o] = out[o[1]] + (inner[o[1]][o[2]] + Slot(o))
  <2>1. /\ o[1] \in 1..n
        /\ o[2] \in 1..Len(Items(d, o[1]))
        /\ Slot(o) \in 1..Len(E(o[1])[o[2]])
        /\ E(o[1])[o[2]][Slot(o)] = FromOrigin(d, o)
    BY <1>1, <1>2, OriginIsSlot
  <2> HIDE DEF E
  <2>2. /\ inner[o[1]][o[2]] + Slot(o) \in 1..Len(Parts(d)[o[1]])
        /\ Parts(d)[o[1]][inner[o[1]][o[2]] + Slot(o)] = E(o[1])[o[2]][Slot(o)]
    <3>1. Offsets(inner[o[1]], E(o[1]), Len(Items(d, o[1])), Parts(d)[o[1]])
      BY <1>2, <2>1
    <3> HIDE DEF at
    <3>2. QED
      BY <2>1, <3>1, OffsetsAt
  <2>3. QED
    BY <2>1, <2>2
<1>7. \A o \in Origins(d) : at[o] \in 1..Len(F) /\ F[at[o]] = FromOrigin(d, o)
  <2>1. ASSUME NEW o \in Origins(d)
        PROVE  at[o] \in 1..Len(F) /\ F[at[o]] = FromOrigin(d, o)
    <3> DEFINE x == inner[o[1]][o[2]] + Slot(o)
    <3>1. /\ o[1] \in 1..n /\ x \in 1..Len(Parts(d)[o[1]])
          /\ Parts(d)[o[1]][x] = FromOrigin(d, o) /\ at[o] = out[o[1]] + x
      BY <1>6
    <3> HIDE DEF at, x
    <3>2. out[o[1]] + x \in 1..Len(F) /\ F[out[o[1]] + x] = Parts(d)[o[1]][x]
      BY <1>4, <3>1, OffsetsAt
    <3>3. QED
      BY <3>1, <3>2
  <2>2. QED
    BY <2>1
<1>8. ASSUME NEW k \in 1..Len(F)
      PROVE  \E o \in Origins(d) : at[o] = k
  <2>1. PICK i \in 1..n : \E j \in 1..Len(Parts(d)[i]) : k = out[i] + j
    BY <1>4, OffsetsOnto
  <2>2. PICK j \in 1..Len(Parts(d)[i]) : k = out[i] + j
    BY <2>1
  <2>3. \E x \in 1..Len(Items(d, i)) : \E y \in 1..Len(E(i)[x]) : j = inner[i][x] + y
    <3> DEFINE e == E(i)
               off == inner[i]
               l == Len(Items(d, i))
               P == Parts(d)[i]
    <3>1. Offsets(off, e, l, P) /\ j \in 1..Len(P)
      BY <1>2
    <3> HIDE DEF e, off, l, P
    <3>2. \E x \in 1..l : \E y \in 1..Len(e[x]) : j = off[x] + y
      BY <3>1, OffsetsOnto
    <3>3. QED
      BY <3>2 DEF e, off, l
  <2>4. PICK x \in 1..Len(Items(d, i)) : \E y \in 1..Len(E(i)[x]) : j = inner[i][x] + y
    BY <2>3
  <2>5. PICK y \in 1..Len(E(i)[x]) : j = inner[i][x] + y
    BY <2>4
  <2>6. PICK o \in Origins(d) : o[1] = i /\ o[2] = x /\ Slot(o) = y
    <3>1. i \in DOMAIN d.files /\ x \in DOMAIN Items(d, i)
      BY <1>1, <1>2
    <3>2. QED
      BY <3>1, SlotHasOrigin
  <2>7. at[o] = k
    BY <1>6, <2>2, <2>5, <2>6
  <2>8. QED
    BY <2>7
<1>9. ASSUME NEW o \in Origins(d), NEW p \in Origins(d), at[o] = at[p]
      PROVE  o = p
  <2>1. /\ o[1] = p[1]
        /\ inner[o[1]][o[2]] + Slot(o) = inner[p[1]][p[2]] + Slot(p)
    <3> DEFINE x == inner[o[1]][o[2]] + Slot(o)
               y == inner[p[1]][p[2]] + Slot(p)
    <3>1. x \in 1..Len(Parts(d)[o[1]]) /\ y \in 1..Len(Parts(d)[p[1]])
      BY <1>6
    <3>2. out[o[1]] + x = out[p[1]] + y
      BY <1>6, <1>9
    <3>3. o[1] \in 1..n /\ p[1] \in 1..n
      BY <1>6
    <3> HIDE DEF x, y
    <3>4. o[1] = p[1] /\ x = y
      BY <1>4, <3>1, <3>2, <3>3, OffsetsApart
    <3>5. QED
      BY <3>4 DEF x, y
  <2>2. o[2] = p[2] /\ Slot(o) = Slot(p)
    <3> HIDE DEF E
    <3>1. Offsets(inner[o[1]], E(o[1]), Len(Items(d, o[1])), Parts(d)[o[1]])
      BY <1>2, <1>6
    <3>2. /\ o[2] \in 1..Len(Items(d, o[1])) /\ p[2] \in 1..Len(Items(d, o[1]))
          /\ Slot(o) \in 1..Len(E(o[1])[o[2]]) /\ Slot(p) \in 1..Len(E(o[1])[p[2]])
          /\ inner[o[1]][o[2]] + Slot(o) = inner[o[1]][p[2]] + Slot(p)
      BY <1>6, <2>1
    <3>3. QED
      BY <3>1, <3>2, OffsetsApart
  <2>3. QED
    BY <2>1, <2>2, SlotDeterminesOrigin
<1>10. Places(at, d, F)
  <2> HIDE DEF at
  <2>1. QED
    BY <1>7, <1>8, <1>9 DEF Places
<1>11. QED
  BY <1>5, <1>10 DEF F

-----------------------------------------------------------------------------
(* Keys, and the skills of the file system.                                  *)

\* SetToSeq lists a finite set, each element once.
LEMMA SetToSeqLists ==
  ASSUME NEW S, IsFiniteSet(S)
  PROVE  /\ IsSeq(SetToSeq(S)) /\ ToSet(SetToSeq(S)) = S
         /\ \A i, j \in DOMAIN SetToSeq(S) : SetToSeq(S)[i] = SetToSeq(S)[j] => i = j
<1> DEFINE n == Cardinality(S)
           q == SetToSeq(S)
<1>1. n \in Nat /\ ExistsBijection(1..n, S)
  BY FS_CardinalityType
<1>2. \E f \in [1..n -> S] : IsInjective(f)
  BY <1>1 DEF ExistsBijection, Bijection, Injection
<1>3. q \in [1..n -> S] /\ IsInjective(q)
  <2> HIDE DEF n
  <2>1. q = CHOOSE f \in [1..n -> S] : IsInjective(f)
    BY DEF SetToSeq, n
  <2> HIDE DEF q
  <2>2. QED
    BY <1>2, <2>1
<1> HIDE DEF q
<1>4. q \in Surjection(1..n, S)
  <2>1. q \in Injection(1..n, S)
    BY <1>3 DEF Injection
  <2>2. Cardinality(1..n) = n
    BY <1>1, FS_Interval
  <2>3. QED
    BY <2>1, <2>2, FS_Injection
<1>5. ToSet(q) = S
  BY <1>3, <1>4 DEF ToSet, Surjection
<1>6. IsSeq(q)
  BY <1>1, <1>3, SeqIntro
<1>7. QED
  BY <1>3, <1>5, <1>6 DEF q, IsInjective

\* KeysDistinct, element by element.
LEMMA KeysDistinctForm ==
  ASSUME NEW s, IsSeq(s)
  PROVE  KeysDistinct(s) <=> \A i, j \in 1..Len(s) : Key(s[i]) = Key(s[j]) => i = j
<1>1. DOMAIN s = 1..Len(s)
  BY SeqDomain
<1>2. QED
  BY <1>1 DEF KeysDistinct, IsInjective

\* When the keys of a concatenation differ.
LEMMA KeysDistinctConcat ==
  ASSUME NEW s, NEW t, IsSeq(s), IsSeq(t), KeysDistinct(t)
  PROVE  KeysDistinct(s \o t) <=>
           /\ \A i, j \in 1..Len(s) : Key(s[i]) = Key(s[j]) => i = j
           /\ \A i \in 1..Len(s) : \A j \in 1..Len(t) : Key(s[i]) # Key(t[j])
<1> DEFINE u == s \o t
           l == Len(s)
           k == Len(t)
<1>1. /\ l \in Nat /\ k \in Nat /\ IsSeq(u) /\ Len(u) = l + k
      /\ \A i \in 1..l : u[i] = s[i]
      /\ \A i \in 1..k : u[l + i] = t[i]
  BY ConcatSeq, SeqDomain
<1>2. \A i, j \in 1..k : Key(t[i]) = Key(t[j]) => i = j
  BY KeysDistinctForm
<1> HIDE DEF u, l, k
<1>3. ASSUME \A i, j \in 1..Len(u) : Key(u[i]) = Key(u[j]) => i = j
      PROVE  /\ \A i, j \in 1..l : Key(s[i]) = Key(s[j]) => i = j
             /\ \A i \in 1..l : \A j \in 1..k : Key(s[i]) # Key(t[j])
  <2>1. \A i \in 1..l : i \in 1..(l + k)
    BY <1>1
  <2>2. \A j \in 1..k : l + j \in 1..(l + k)
    BY <1>1
  <2>3. \A i \in 1..l : \A j \in 1..k : i # l + j
    BY <1>1
  <2>4. QED
    BY <1>1, <1>3, <2>1, <2>2, <2>3
<1>4. ASSUME \A i, j \in 1..l : Key(s[i]) = Key(s[j]) => i = j,
             \A i \in 1..l : \A j \in 1..k : Key(s[i]) # Key(t[j]),
             NEW i \in 1..Len(u), NEW j \in 1..Len(u), Key(u[i]) = Key(u[j])
      PROVE  i = j
  <2>1. ASSUME NEW x \in 1..Len(u)
        PROVE  \/ x \in 1..l /\ u[x] = s[x]
               \/ x - l \in 1..k /\ u[x] = t[x - l]
    <3>1. x \in 1..l \/ (x - l \in 1..k /\ x = l + (x - l))
      BY <1>1
    <3>2. QED
      BY <1>1, <3>1
  <2>2. CASE i \in 1..l /\ j \in 1..l
    BY <1>1, <1>4, <2>2
  <2>3. CASE i - l \in 1..k /\ u[i] = t[i - l] /\ j - l \in 1..k /\ u[j] = t[j - l]
    <3>1. i - l = j - l
      BY <1>2, <1>4, <2>3
    <3>2. QED
      BY <1>1, <3>1
  <2>4. QED
    BY <1>4, <2>1, <2>2, <2>3
<1>5. KeysDistinct(u) <=> \A i, j \in 1..Len(u) : Key(u[i]) = Key(u[j]) => i = j
  BY <1>1, KeysDistinctForm
<1>6. QED
  BY <1>3, <1>4, <1>5 DEF u, l, k

\* The resources of the skills directory differ in their keys: a skill's from
\* another's by the name of its directory, a skill's from an override's by kind.
LEMMA SkillsListed ==
  ASSUME NEW d, IsDirectory(d)
  PROVE  /\ IsSeq(LoadSkillResources(d)) /\ KeysDistinct(LoadSkillResources(d))
         /\ \A r \in ToSet(LoadSkillResources(d)) : IsOther(r)
<1> DEFINE A == [i \in DOMAIN d.skills |-> SkillResource(d.skills[i], d.base)]
           O == {OverrideResource(slug) : slug \in d.overrides}
           B == SetToSeq(O)
<1>1. Len(d.skills) \in Nat /\ DOMAIN d.skills = 1..Len(d.skills)
  BY SeqDomain DEF IsDirectory
<1>2. IsSeq(A) /\ Len(A) = Len(d.skills)
  <2>1. A = [i \in 1..Len(d.skills) |-> A[i]]
    BY <1>1
  <2> HIDE DEF A
  <2>2. QED
    BY <1>1, <2>1, SeqIntro
<1>3. IsFiniteSet(O)
  <2> DEFINE f == [slug \in d.overrides |-> OverrideResource(slug)]
  <2>1. f \in Surjection(d.overrides, O)
    BY DEF Surjection
  <2>2. IsFiniteSet(d.overrides)
    BY DEF IsDirectory
  <2> HIDE DEF f, O
  <2>3. QED
    BY <2>1, <2>2, FS_Surjection
<1>4. /\ IsSeq(B) /\ ToSet(B) = O
      /\ \A i, j \in DOMAIN B : B[i] = B[j] => i = j
  BY <1>3, SetToSeqLists
<1>5. DOMAIN B = 1..Len(B) /\ DOMAIN A = 1..Len(A)
  BY <1>2, <1>4, SeqDomain
<1>6. ASSUME NEW i \in 1..Len(A)
      PROVE  /\ A[i].kind = "Skill" /\ A[i].name = d.skills[i].slug /\ i \in DOMAIN d.skills
  BY <1>1, <1>2 DEF SkillResource
<1>7. ASSUME NEW i \in 1..Len(B)
      PROVE  B[i].kind = "SkillConfig" /\ B[i] = OverrideResource(B[i].name)
  <2>1. B[i] \in O
    BY <1>4, <1>5 DEF ToSet
  <2>2. PICK slug : B[i] = OverrideResource(slug)
    BY <2>1
  <2>3. OverrideResource(slug).kind = "SkillConfig" /\ OverrideResource(slug).name = slug
    BY DEF OverrideResource
  <2> HIDE DEF B
  <2>4. QED
    BY <2>2, <2>3
<1> HIDE DEF A, B
<1>8. KeysDistinct(B)
  <2>1. ASSUME NEW i \in 1..Len(B), NEW j \in 1..Len(B), Key(B[i]) = Key(B[j])
        PROVE  i = j
    <3>1. B[i].name = B[j].name
      BY <2>1 DEF Key
    <3>2. B[i] = B[j]
      BY <1>7, <3>1
    <3>3. QED
      BY <1>4, <1>5, <3>2
  <2>2. QED
    BY <1>4, <2>1, KeysDistinctForm
<1>9. \A i, j \in 1..Len(A) : Key(A[i]) = Key(A[j]) => i = j
  <2>1. ASSUME NEW i \in 1..Len(A), NEW j \in 1..Len(A), Key(A[i]) = Key(A[j])
        PROVE  i = j
    <3>1. d.skills[i].slug = d.skills[j].slug
      BY <1>6, <2>1 DEF Key
    <3>2. QED
      BY <1>6, <3>1 DEF IsDirectory
  <2>2. QED
    BY <2>1
<1>10. \A i \in 1..Len(A) : \A j \in 1..Len(B) : Key(A[i]) # Key(B[j])
  <2>1. ASSUME NEW i \in 1..Len(A), NEW j \in 1..Len(B), Key(A[i]) = Key(B[j])
        PROVE  FALSE
    <3>1. A[i].kind = B[j].kind
      BY <2>1 DEF Key
    <3>2. QED
      BY <1>6, <1>7, <3>1
  <2>2. QED
    BY <2>1
<1>11. LoadSkillResources(d) = A \o B
  BY DEF LoadSkillResources, A, B
<1>12. KeysDistinct(A \o B)
  BY <1>2, <1>4, <1>8, <1>9, <1>10, KeysDistinctConcat
<1>13. IsSeq(A \o B) /\ \A r \in ToSet(A \o B) : IsOther(r)
  <2> DEFINE u == A \o B
             l == Len(A)
             k == Len(B)
  <2>1. /\ l \in Nat /\ k \in Nat /\ IsSeq(u) /\ Len(u) = l + k
        /\ \A i \in 1..l : u[i] = A[i]
        /\ \A i \in 1..k : u[l + i] = B[i]
    BY <1>2, <1>4, ConcatSeq, SeqDomain
  <2>2. DOMAIN u = 1..(l + k)
    BY <2>1, SeqDomain
  <2> HIDE DEF u, l, k
  <2>3. ASSUME NEW x \in 1..(l + k)
        PROVE  u[x].kind \in {"Skill", "SkillConfig"}
    <3>1. x \in 1..l \/ (x - l \in 1..k /\ x = l + (x - l))
      BY <2>1
    <3>2. QED
      BY <1>6, <1>7, <2>1, <3>1 DEF l, k
  <2>4. \A r \in ToSet(u) : IsOther(r)
    BY <2>2, <2>3 DEF ToSet, IsOther, Definition
  <2>5. QED
    BY <2>1, <2>4 DEF u
<1>14. QED
  BY <1>11, <1>12, <1>13

\* The list that LoadDir builds when every file is in order.
Merged(d) == FileItems(d) \o LoadSkillResources(d)

\* What WellFormed says of keys.
KeysApart(d) ==
  /\ \A o, p \in Origins(d) : Key(FromOrigin(d, o)) = Key(FromOrigin(d, p)) => o = p
  /\ \A o \in Origins(d), s \in ToSet(LoadSkillResources(d)) :
       Key(FromOrigin(d, o)) # Key(s)

\* The merged list holds exactly what the directory means, and the check for
\* duplicates of mergeManifests fails exactly when two origins, or an origin and a
\* skill, have the same key.
LEMMA MergedMeans ==
  ASSUME NEW d, IsDirectory(d)
  PROVE  /\ IsSeq(Merged(d)) /\ ToSet(Merged(d)) = Meaning(d)
         /\ \A r \in Meaning(d) : IsOther(r)
         /\ KeysDistinct(Merged(d)) <=> KeysApart(d)
<1> DEFINE F == FileItems(d)
           K == LoadSkillResources(d)
           u == Merged(d)
           l == Len(F)
           k == Len(K)
<1>1. IsSeq(F) /\ IsSeq(K) /\ KeysDistinct(K)
  BY FilesInPlace, SkillsListed
<1>2. PICK at : Places(at, d, F)
  BY FilesInPlace
<1>3. /\ l \in Nat /\ k \in Nat /\ IsSeq(u) /\ Len(u) = l + k
      /\ \A i \in 1..l : u[i] = F[i]
      /\ \A i \in 1..k : u[l + i] = K[i]
  BY <1>1, ConcatSeq, SeqDomain DEF Merged
<1>4. DOMAIN F = 1..l /\ DOMAIN K = 1..k /\ DOMAIN u = 1..(l + k)
  BY <1>1, <1>3, SeqDomain
<1> HIDE DEF F, K, u, l, k
<1>5. ToSet(F) = {FromOrigin(d, o) : o \in Origins(d)}
  BY <1>2, <1>4 DEF Places, ToSet, l
<1>6. ToSet(u) = ToSet(F) \cup ToSet(K)
  <2>1. ASSUME NEW x \in 1..(l + k)
        PROVE  \/ x \in 1..l /\ u[x] = F[x]
               \/ x - l \in 1..k /\ u[x] = K[x - l]
    <3>1. x \in 1..l \/ (x - l \in 1..k /\ x = l + (x - l))
      BY <1>3
    <3>2. QED
      BY <1>3, <3>1
  <2>2. \A i \in 1..l : i \in 1..(l + k) /\ u[i] = F[i]
    BY <1>3
  <2>3. \A i \in 1..k : l + i \in 1..(l + k) /\ u[l + i] = K[i]
    BY <1>3
  <2>4. ToSet(u) \subseteq ToSet(F) \cup ToSet(K)
    BY <1>4, <2>1 DEF ToSet
  <2>5. ToSet(F) \subseteq ToSet(u)
    BY <1>4, <2>2 DEF ToSet
  <2>6. ToSet(K) \subseteq ToSet(u)
    BY <1>4, <2>3 DEF ToSet
  <2>7. QED
    BY <2>4, <2>5, <2>6
<1>7. ToSet(u) = Meaning(d)
  BY <1>5, <1>6 DEF Meaning, K
<1>8. \A r \in Meaning(d) : IsOther(r)
  BY OriginIsSlot, SkillsListed DEF Meaning
<1>9. KeysDistinct(u) <=>
        /\ \A i, j \in 1..l : Key(F[i]) = Key(F[j]) => i = j
        /\ \A i \in 1..l : \A j \in 1..k : Key(F[i]) # Key(K[j])
  BY <1>1, KeysDistinctConcat DEF u, Merged, F, K, l, k
<1>10. ASSUME KeysApart(d)
       PROVE  KeysDistinct(u)
  <2>1. ASSUME NEW i \in 1..l, NEW j \in 1..l, Key(F[i]) = Key(F[j])
        PROVE  i = j
    <3>1. PICK o \in Origins(d) : at[o] = i
      BY <1>2 DEF Places, l
    <3>2. PICK p \in Origins(d) : at[p] = j
      BY <1>2 DEF Places, l
    <3>3. F[i] = FromOrigin(d, o) /\ F[j] = FromOrigin(d, p)
      BY <1>2, <3>1, <3>2 DEF Places
    <3>4. o = p
      BY <1>10, <2>1, <3>3 DEF KeysApart
    <3>5. QED
      BY <3>1, <3>2, <3>4
  <2>2. ASSUME NEW i \in 1..l, NEW j \in 1..k
        PROVE  Key(F[i]) # Key(K[j])
    <3>1. PICK o \in Origins(d) : F[i] = FromOrigin(d, o)
      BY <1>2 DEF Places, l
    <3>2. K[j] \in ToSet(K)
      BY <1>4 DEF ToSet
    <3>3. QED
      BY <1>10, <3>1, <3>2 DEF KeysApart, K
  <2>3. QED
    BY <1>9, <2>1, <2>2
<1>11. ASSUME KeysDistinct(u)
       PROVE  KeysApart(d)
  <2>1. ASSUME NEW o \in Origins(d), NEW p \in Origins(d),
               Key(FromOrigin(d, o)) = Key(FromOrigin(d, p))
        PROVE  o = p
    <3>1. /\ at[o] \in 1..l /\ at[p] \in 1..l
          /\ F[at[o]] = FromOrigin(d, o) /\ F[at[p]] = FromOrigin(d, p)
      BY <1>2 DEF Places, l
    <3>2. at[o] = at[p]
      BY <1>9, <1>11, <2>1, <3>1
    <3>3. QED
      BY <1>2, <3>2 DEF Places
  <2>2. ASSUME NEW o \in Origins(d), NEW s \in ToSet(K)
        PROVE  Key(FromOrigin(d, o)) # Key(s)
    <3>1. at[o] \in 1..l /\ F[at[o]] = FromOrigin(d, o)
      BY <1>2 DEF Places, l
    <3>2. PICK j \in 1..k : s = K[j]
      BY <1>4 DEF ToSet
    <3>3. QED
      BY <1>9, <1>11, <3>1, <3>2
  <2>3. QED
    BY <2>1, <2>2 DEF KeysApart, K
<1>12. QED
  BY <1>3, <1>7, <1>8, <1>10, <1>11 DEF u

\* The expansion that follows the merge changes nothing, as no definition is left.
LEMMA SecondExpansion ==
  ASSUME NEW s, IsSeq(s), \A r \in ToSet(s) : IsOther(r)
  PROVE  /\ ~ExpandFails(s)
         /\ IsSeq(ExpandComposites(s)) /\ ToSet(ExpandComposites(s)) = ToSet(s)
         /\ KeysDistinct(s) => KeysDistinct(ExpandComposites(s))
<1> DEFINE n == Len(s)
           e == Expanded(s)
           t == ExpandComposites(s)
<1>1. n \in Nat /\ DOMAIN s = 1..n
  BY SeqDomain
<1>2. \A i \in 1..n : IsOther(s[i]) /\ ~IsDefinition(s[i])
  BY <1>1 DEF ToSet, IsOther, IsDefinition
<1>3. Defined(s) = {}
  BY <1>1, <1>2 DEF Defined
<1>4. ~ExpandFails(s)
  BY <1>1, <1>2, <1>3 DEF ExpandFails
<1>5. e = [i \in 1..n |-> <<s[i]>>]
  BY <1>1, <1>2, <1>3 DEF Expanded, Expansion
<1>6. \A i \in 1..n : e[i] = <<s[i]>> /\ IsSeq(e[i]) /\ Len(e[i]) = 1 /\ e[i][1] = s[i]
  <2>1. \A x : <<x>> \in Seq({x}) /\ Len(<<x>>) = 1 /\ <<x>>[1] = x
    OBVIOUS
  <2>2. \A x : IsSeq(<<x>>)
    BY <2>1, SeqOver
  <2>3. QED
    BY <1>5, <2>1, <2>2
<1>7. IsSeq(e) /\ Len(e) = n /\ DOMAIN e = 1..n
  <2>1. e = [i \in 1..n |-> e[i]] /\ DOMAIN e = 1..n
    BY <1>5
  <2> HIDE DEF e, n
  <2>2. QED
    BY <1>1, <2>1, SeqIntro
<1>8. t = FlattenSeq(e)
  BY DEF ExpandComposites, Expanded
<1> HIDE DEF e, t, n
<1>9. IsSeq(t) /\ \E off : Offsets(off, e, n, t)
  BY <1>6, <1>7, <1>8, FlattenOffsets
<1>10. PICK off : Offsets(off, e, n, t)
  BY <1>9
<1>11. DOMAIN t = 1..Len(t)
  BY <1>9, SeqDomain
<1>12. ASSUME NEW i \in 1..n
       PROVE  off[i] + 1 \in 1..Len(t) /\ t[off[i] + 1] = s[i]
  <2>1. 1 \in 1..Len(e[i])
    BY <1>6
  <2>2. QED
    BY <1>6, <1>10, <2>1, OffsetsAt
<1>13. ASSUME NEW k \in 1..Len(t)
       PROVE  \E i \in 1..n : k = off[i] + 1
  <2>1. PICK i \in 1..n : \E j \in 1..Len(e[i]) : k = off[i] + j
    BY <1>10, OffsetsOnto
  <2>2. Len(e[i]) = 1
    BY <1>6
  <2>3. PICK j \in 1..Len(e[i]) : k = off[i] + j
    BY <2>1
  <2>4. j = 1
    BY <2>2
  <2>5. QED
    BY <2>3, <2>4
<1>14. ToSet(t) = ToSet(s)
  <2>1. DOMAIN s = 1..n
    BY <1>1
  <2>2. ASSUME NEW i \in DOMAIN s
        PROVE  \E k \in DOMAIN t : t[k] = s[i]
    BY <1>11, <1>12, <2>1
  <2>3. ASSUME NEW k \in DOMAIN t
        PROVE  \E i \in DOMAIN s : t[k] = s[i]
    <3>1. PICK i \in 1..n : k = off[i] + 1
      BY <1>11, <1>13
    <3>2. QED
      BY <1>12, <2>1, <3>1
  <2>4. QED
    BY <2>2, <2>3 DEF ToSet
<1>15. ASSUME KeysDistinct(s)
       PROVE  KeysDistinct(t)
  <2>1. ASSUME NEW x \in 1..Len(t), NEW y \in 1..Len(t), Key(t[x]) = Key(t[y])
        PROVE  x = y
    <3>1. PICK i \in 1..n : x = off[i] + 1
      BY <1>13
    <3>2. PICK j \in 1..n : y = off[j] + 1
      BY <1>13
    <3>3. Key(s[i]) = Key(s[j])
      BY <1>12, <2>1, <3>1, <3>2
    <3>4. i = j
      BY <1>15, <3>3, KeysDistinctForm DEF n
    <3>5. QED
      BY <3>1, <3>2, <3>4
  <2>2. QED
    BY <1>9, <2>1, KeysDistinctForm
<1>16. QED
  BY <1>4, <1>9, <1>14, <1>15 DEF t

-----------------------------------------------------------------------------
(* Validation, and the theorem.                                              *)

\* What WellFormed says of a resource in the set M of them all.
Fits(r, M) ==
  /\ r.kind \in Kinds /\ ValidName(r.kind, r.name)
  /\ r.spec # "nil" /\ ~InvalidSpec(r)
  /\ r.kind \in ReferencesChecked => r.refs \subseteq {Key(x) : x \in M}

\* Validate finds no error exactly when every resource fits the others.
LEMMA ValidateMeans ==
  ASSUME NEW s, IsSeq(s), KeysDistinct(s)
  PROVE  Validate(s) = {} <=> \A r \in ToSet(s) : Fits(r, ToSet(s))
<1>1. Len(s) \in Nat /\ DOMAIN s = 1..Len(s)
  BY SeqDomain
<1>2. ASSUME NEW i \in DOMAIN s
      PROVE  ErrorsOf(s, i) = {} <=> Fits(s[i], ToSet(s))
  <2>1. \A j \in 1..(i - 1) : j \in 1..Len(s) /\ j # i
    BY <1>1
  <2>2. ~\E j \in 1..(i - 1) : Key(s[j]) = Key(s[i])
    BY <1>1, <2>1, KeysDistinctForm
  <2>3. Unresolved(s, s[i]) = {} <=>
          (s[i].kind \in ReferencesChecked => s[i].refs \subseteq {Key(x) : x \in ToSet(s)})
    BY DEF Unresolved, ToSet
  <2>4. ErrorsOf(s, i) = {} <=>
          /\ s[i].kind \in Kinds
          /\ ValidName(s[i].kind, s[i].name)
          /\ ~\E j \in 1..(i - 1) : Key(s[j]) = Key(s[i])
          /\ s[i].spec # "nil"
          /\ ~InvalidSpec(s[i])
          /\ Unresolved(s, s[i]) = {}
    BY DEF ErrorsOf
  <2>5. QED
    BY <2>2, <2>3, <2>4 DEF Fits
<1>3. Validate(s) = {} <=> \A i \in DOMAIN s : ErrorsOf(s, i) = {}
  BY DEF Validate
<1>4. QED
  BY <1>2, <1>3 DEF ToSet

\* A list of resources with distinct keys is as long as the set of them.
LEMMA DistinctLength ==
  ASSUME NEW s, IsSeq(s), KeysDistinct(s)
  PROVE  Len(s) = Cardinality(ToSet(s))
<1> DEFINE n == Len(s)
           S == ToSet(s)
<1>1. n \in Nat /\ DOMAIN s = 1..n /\ s = [i \in 1..n |-> s[i]]
  BY SeqDomain
<1>2. \A i, j \in 1..n : s[i] = s[j] => i = j
  BY KeysDistinctForm
<1>3. s \in Bijection(1..n, S)
  BY <1>1, <1>2 DEF Bijection, Injection, Surjection, IsInjective, ToSet
<1>4. IsFiniteSet(1..n) /\ Cardinality(1..n) = n
  BY <1>1, FS_Interval
<1> HIDE DEF S
<1>5. Cardinality(S) = n
  BY <1>3, <1>4, FS_Bijection DEF ExistsBijection
<1>6. QED
  BY <1>5 DEF S

(* FileSource.Fetch on a directory succeeds exactly when the directory is   *)
(* well formed, and then returns what it means, each resource once.         *)
THEOREM FetchIsMeaning ==
  ASSUME NEW d, IsDirectory(d)
  PROVE  /\ Fetch(d).ok \in BOOLEAN
         /\ Fetch(d).ok <=> WellFormed(d)
         /\ Fetch(d).ok => /\ ToSet(Fetch(d).items) = Meaning(d)
                           /\ Len(Fetch(d).items) = Cardinality(Meaning(d))
                           /\ IsSeq(Fetch(d).items) /\ KeysDistinct(Fetch(d).items)
<1> DEFINE FilesOK == \A i \in DOMAIN d.files :
                        d.files[i].readable /\ ~ExpandFails(d.files[i].items)
           SkillsOK == \A i \in DOMAIN d.skills : d.skills[i].readable
           M == Merged(d)
           X == ExpandComposites(M)
<1>1. WellFormed(d) <=> /\ FilesOK /\ SkillsOK /\ KeysApart(d)
                        /\ \A r \in Meaning(d) : Fits(r, Meaning(d))
  BY DEF WellFormed, KeysApart, Fits
<1>2. Failed.ok = FALSE
  BY DEF Failed
<1>3. CASE ~FilesOK
  <2>1. PICK i \in DOMAIN d.files : ~(d.files[i].readable /\ ~ExpandFails(d.files[i].items))
    BY <1>3
  <2>2. LoadFile(d.files[i]) = Failed
    BY <2>1 DEF LoadFile
  <2>3. LoadDir(d) = Failed
    BY <1>2, <2>2 DEF LoadDir
  <2>4. Fetch(d) = Failed
    BY <1>2, <2>3 DEF Fetch
  <2>5. QED
    BY <1>1, <1>2, <1>3, <2>4
<1>4. CASE FilesOK
  <2>1. \A i \in DOMAIN d.files :
          LoadFile(d.files[i]) = Loaded(d.files[i].conn, ExpandComposites(Items(d, i)))
    BY <1>4 DEF LoadFile, Items
  <2>2. \A c, x : Loaded(c, x).ok = TRUE /\ Loaded(c, x).items = x
    BY DEF Loaded
  <2> DEFINE ps == [i \in DOMAIN d.files |-> LoadFile(d.files[i])]
  <2>3. /\ DOMAIN ps = DOMAIN d.files
        /\ \A i \in DOMAIN ps : ps[i].ok = TRUE /\ ps[i].items = ExpandComposites(Items(d, i))
    BY <2>1, <2>2
  <2>4. [i \in DOMAIN ps |-> ps[i].items] = Parts(d)
    BY <2>3 DEF Parts
  <2>5. FlattenSeq([i \in DOMAIN ps |-> ps[i].items]) \o LoadSkillResources(d) = M
    BY <2>4 DEF Merged, FileItems
  <2>6. /\ IsSeq(M) /\ ToSet(M) = Meaning(d) /\ \A r \in Meaning(d) : IsOther(r)
        /\ KeysDistinct(M) <=> KeysApart(d)
    BY MergedMeans
  <2>7. /\ ~ExpandFails(M) /\ IsSeq(X) /\ ToSet(X) = Meaning(d)
        /\ KeysDistinct(M) => KeysDistinct(X)
    BY <2>6, SecondExpansion
  <2>8. LoadDir(d) = IF \/ \E i \in DOMAIN ps : ~ps[i].ok
                        \/ \E i \in DOMAIN d.skills : ~d.skills[i].readable
                        \/ ~KeysDistinct(M)
                        \/ ExpandFails(M)
                     THEN Failed ELSE Loaded(FirstConnection(d.files), X)
    BY <2>5, Zenon DEF LoadDir
  <2> HIDE DEF M, X, ps
  <2>9. CASE ~(SkillsOK /\ KeysApart(d))
    <3>1. LoadDir(d) = Failed
      BY <2>6, <2>8, <2>9
    <3>2. Fetch(d) = Failed
      BY <1>2, <3>1 DEF Fetch
    <3>3. QED
      BY <1>1, <1>2, <2>9, <3>2
  <2>10. CASE SkillsOK /\ KeysApart(d)
    <3>1. LoadDir(d) = Loaded(FirstConnection(d.files), X)
      BY <2>3, <2>6, <2>7, <2>8, <2>10
    <3>2. LoadDir(d).ok = TRUE /\ LoadDir(d).items = X
      BY <2>2, <3>1
    <3>3. KeysDistinct(X)
      BY <2>6, <2>7, <2>10
    <3>4. Validate(X) = {} <=> \A r \in Meaning(d) : Fits(r, Meaning(d))
      BY <2>7, <3>3, ValidateMeans
    <3>5. Fetch(d) = IF Validate(X) = {} THEN LoadDir(d) ELSE Failed
      BY <3>2 DEF Fetch
    <3>6. Len(X) = Cardinality(Meaning(d))
      BY <2>7, <3>3, DistinctLength
    <3>7. QED
      BY <1>1, <1>2, <1>4, <2>7, <2>10, <3>2, <3>3, <3>4, <3>5, <3>6
  <2>11. QED
    BY <2>9, <2>10
<1>5. QED
  BY <1>3, <1>4
=============================================================================
