--------------------------- MODULE LibraryLemmas ---------------------------
(***************************************************************************)
(* Lemmas that the proofs share, about operators of the community modules: *)
(* FlattenSeq, sequences in which no element occurs twice, and             *)
(* SumFunctionOnSet. All rest on induction over the natural numbers, here  *)
(* in the form of sets that hold them all.                                 *)
(***************************************************************************)
EXTENDS Naturals, Sequences, SequencesExt, SequenceTheorems, FunctionTheorems,
        FiniteSetTheorems, WellFoundedInduction, TLAPS

\* A set of natural numbers that is not empty has a least member, and Min is it.
LEMMA Least ==
  ASSUME NEW T \in SUBSET Nat, T # {}
  PROVE  Min(T) \in T /\ \A y \in T : Min(T) <= y
  <1>1. PICK x \in T : \A y \in T : ~(<<y, x>> \in OpToRel(<, Nat))
    BY WFMin, NatLessThanWellFounded, Zenon
  <1>2. ASSUME NEW y \in T PROVE x <= y
    <2>1. SUFFICES ASSUME y < x PROVE FALSE
      OBVIOUS
    <2>2. <<y, x>> \in OpToRel(<, Nat)
      BY <2>1, Zenon DEF OpToRel
    <2> QED BY <1>1, <2>2, Zenon
  <1> QED BY <1>2 DEF Min

\* A set of numbers that holds 0 and every successor holds every number: the
\* induction the proofs below need, over sets.
LEMMA NatSet ==
  ASSUME NEW S, 0 \in S, \A k \in Nat : k \in S => k + 1 \in S
  PROVE  \A k \in Nat : k \in S
  <1>1. SUFFICES ASSUME Nat \ S # {} PROVE FALSE
    OBVIOUS
  <1>2. PICK x \in Nat \ S : \A y \in Nat \ S : x <= y
    BY <1>1, Least
  <1>3. x # 0 /\ x - 1 \in Nat
    BY <1>2
  <1>4. x - 1 \in Nat \ S
    BY <1>2, <1>3
  <1> QED BY <1>2, <1>3, <1>4

\* A sequence without its last element.
LEMMA FrontIs ==
  ASSUME NEW S, NEW s \in Seq(S), Len(s) > 0
  PROVE  /\ Front(s) \in Seq(S) /\ Len(Front(s)) = Len(s) - 1
         /\ \A i \in 1..(Len(s) - 1) : Front(s)[i] = s[i]
  <1>1. PICK n \in Nat : n = Len(s) - 1
    OBVIOUS
  <1>2. \A i \in 1..n : s[i] \in S
    BY <1>1
  <1>3. /\ SubSeq(s, 1, n) \in Seq(S) /\ Len(SubSeq(s, 1, n)) = n
        /\ \A i \in 1..n : SubSeq(s, 1, n)[i] = s[i]
    BY <1>2, SubSeqProperties
  <1>4. Front(s) = SubSeq(s, 1, n)
    BY <1>1 DEF Front
  <1> QED BY <1>1, <1>3, <1>4, Zenon

-----------------------------------------------------------------------------
(***************************************************************************)
(* FlattenSeq.                                                             *)
(***************************************************************************)

\* f[i] is the concatenation of the first i of ss, for i up to m.
Flattening(ss, m, f) == f = [i \in 1..m |-> IF i = 1 THEN ss[i] ELSE f[i-1] \o ss[i]]

Agree(f, g, m) == \A i \in 1..m : f[i] = g[i]

LEMMA FlatteningExists == ASSUME NEW ss, NEW m \in Nat PROVE \E f : Flattening(ss, m, f)
  <1> DEFINE S == {k \in Nat : \E f : Flattening(ss, k, f)}
  <1>1. 0 \in S
    <2>1. Flattening(ss, 0, [i \in 1..0 |-> 0])
      BY DEF Flattening
    <2> QED BY <2>1
  <1>2. ASSUME NEW k \in Nat, k \in S PROVE k + 1 \in S
    <2>1. PICK f : f = [i \in 1..k |-> IF i = 1 THEN ss[i] ELSE f[i-1] \o ss[i]]
      BY <1>2 DEF Flattening
    <2> DEFINE g == [i \in 1..(k+1) |-> IF i = 1 THEN ss[i] ELSE f[i-1] \o ss[i]]
    <2>2. \A i \in 1..k : g[i] = f[i]
      <3>1. \A i \in 1..k : f[i] = IF i = 1 THEN ss[i] ELSE f[i-1] \o ss[i]
        BY <2>1
      <3>2. \A i \in 1..k : i \in 1..(k+1)
        OBVIOUS
      <3> QED BY <3>1, <3>2
    <2>3. Flattening(ss, k + 1, g)
      <3>1. \A i \in 1..(k+1) : i # 1 => i - 1 \in 1..k
        OBVIOUS
      <3>2. \A i \in 1..(k+1) : g[i] = IF i = 1 THEN ss[i] ELSE g[i-1] \o ss[i]
        BY <2>2, <3>1
      <3> QED BY <3>2 DEF Flattening
    <2> QED BY <2>3
  <1> HIDE DEF S
  <1>3. m \in S
    BY <1>1, <1>2, NatSet
  <1> QED BY <1>3 DEF S

LEMMA FlatteningsAgree ==
  ASSUME NEW ss, NEW tt, NEW m \in Nat, NEW k \in Nat, m <= k, NEW f, NEW g,
         Flattening(ss, m, f), Flattening(tt, k, g), Agree(ss, tt, m)
  PROVE  Agree(f, g, m)
  <1> DEFINE S == {i \in Nat : i \in 1..m => f[i] = g[i]}
  <1>1. 0 \in S
    OBVIOUS
  <1>2. ASSUME NEW i \in Nat, i \in S PROVE i + 1 \in S
    <2>1. CASE i + 1 \in 1..m
      <3>1. i + 1 \in 1..k /\ ss[i+1] = tt[i+1] /\ (i + 1) - 1 = i
        BY <2>1 DEF Agree
      <3>2. /\ f[i+1] = IF i + 1 = 1 THEN ss[i+1] ELSE f[(i+1)-1] \o ss[i+1]
            /\ g[i+1] = IF i + 1 = 1 THEN tt[i+1] ELSE g[(i+1)-1] \o tt[i+1]
        BY <2>1, <3>1 DEF Flattening
      <3>3. i + 1 # 1 => f[i] = g[i]
        BY <1>2, <2>1
      <3>4. f[i+1] = g[i+1]
        BY <3>1, <3>2, <3>3
      <3> QED BY <3>4
    <2> QED BY <2>1
  <1> HIDE DEF S
  <1>3. \A i \in Nat : i \in S
    BY <1>1, <1>2, NatSet
  <1> QED BY <1>3 DEF S, Agree

\* The definition of FlattenSeq, with the function it chooses.
LEMMA FlattenSeqIs ==
  ASSUME NEW ss, Len(ss) \in Nat \ {0}, NEW f, Flattening(ss, Len(ss), f)
  PROVE  FlattenSeq(ss) = f[Len(ss)]
  <1> DEFINE g == CHOOSE h : h = [i \in 1..Len(ss) |-> IF i = 1 THEN ss[i] ELSE h[i-1] \o ss[i]]
  <1>1. FlattenSeq(ss) = g[Len(ss)]
    BY DEF FlattenSeq
  <1>2. Flattening(ss, Len(ss), g)
    BY DEF Flattening
  <1> HIDE DEF g
  <1>3. Agree(f, g, Len(ss))
    <2>1. Agree(ss, ss, Len(ss))
      BY DEF Agree
    <2> QED BY <1>2, <2>1, FlatteningsAgree
  <1> QED BY <1>1, <1>3 DEF Agree

LEMMA FlattenEmpty == FlattenSeq(<<>>) = <<>>
  BY DEF FlattenSeq

LEMMA FlattenType == ASSUME NEW R, NEW ss \in Seq(Seq(R)) PROVE FlattenSeq(ss) \in Seq(R)
  <1>1. CASE ss = <<>>
    BY <1>1, FlattenEmpty, EmptySeq
  <1>2. CASE ss # <<>>
    <2>1. Len(ss) \in Nat \ {0} /\ \A i \in 1..Len(ss) : ss[i] \in Seq(R)
      BY <1>2
    <2>2. PICK f : Flattening(ss, Len(ss), f)
      BY <2>1, FlatteningExists
    <2> DEFINE S == {i \in Nat : i \in 1..Len(ss) => f[i] \in Seq(R)}
    <2>3. 0 \in S
      OBVIOUS
    <2>4. ASSUME NEW i \in Nat, i \in S PROVE i + 1 \in S
      <3>1. CASE i + 1 \in 1..Len(ss)
        <4>1. f[i+1] = IF i + 1 = 1 THEN ss[i+1] ELSE f[(i+1)-1] \o ss[i+1]
          BY <2>2, <3>1 DEF Flattening
        <4>2. i # 0 => f[(i+1)-1] \in Seq(R)
          BY <2>1, <2>4, <3>1
        <4>3. ss[i+1] \in Seq(R)
          BY <2>1, <3>1
        <4>4. f[i+1] \in Seq(R)
          BY <4>1, <4>2, <4>3, ConcatProperties
        <4> QED BY <4>4
      <3> QED BY <3>1
    <2> HIDE DEF S
    <2>5. Len(ss) \in S
      BY <2>1, <2>3, <2>4, NatSet
    <2>6. f[Len(ss)] \in Seq(R)
      BY <2>1, <2>5 DEF S
    <2> QED BY <2>1, <2>2, <2>6, FlattenSeqIs
  <1> QED BY <1>1, <1>2

\* A sequence that grows by one appends it to what it flattens to.
LEMMA FlattenAppend ==
  ASSUME NEW R, NEW ss \in Seq(Seq(R)), NEW s \in Seq(R)
  PROVE  FlattenSeq(Append(ss, s)) = FlattenSeq(ss) \o s
  <1> DEFINE grown == Append(ss, s)
  <1>1. /\ Len(ss) \in Nat /\ Len(grown) = Len(ss) + 1 /\ grown[Len(ss) + 1] = s
        /\ \A i \in 1..Len(ss) : ss[i] = grown[i]
    BY AppendProperties
  <1>0. Len(grown) \in Nat /\ Len(ss) <= Len(grown) /\ Len(grown) \in 1..Len(grown)
    BY <1>1
  <1> HIDE DEF grown
  <1>2. PICK g : Flattening(grown, Len(grown), g)
    BY <1>0, FlatteningExists
  <1>3. FlattenSeq(grown) = g[Len(grown)]
    BY <1>1, <1>2, FlattenSeqIs
  <1>4. g[Len(grown)] = IF Len(grown) = 1 THEN grown[Len(grown)] ELSE g[Len(grown)-1] \o grown[Len(grown)]
    BY <1>0, <1>2 DEF Flattening
  <1>5. CASE ss = <<>>
    <2>1. FlattenSeq(grown) = s
      BY <1>1, <1>3, <1>4, <1>5
    <2> QED BY <1>5, <2>1, FlattenEmpty, ConcatEmptySeq DEF grown
  <1>6. CASE ss # <<>>
    <2>1. Len(ss) \in Nat \ {0}
      BY <1>6
    <2>2. PICK f : Flattening(ss, Len(ss), f)
      BY <2>1, FlatteningExists
    <2>3. FlattenSeq(ss) = f[Len(ss)]
      BY <2>1, <2>2, FlattenSeqIs
    <2>4. Agree(f, g, Len(ss))
      <3>1. Agree(ss, grown, Len(ss))
        BY <1>1 DEF Agree
      <3> QED BY <1>0, <1>2, <2>1, <2>2, <3>1, FlatteningsAgree
    <2>5. Len(grown) # 1 /\ Len(grown) - 1 = Len(ss) /\ Len(ss) \in 1..Len(ss)
      BY <1>1, <2>1
    <2>6. FlattenSeq(grown) = f[Len(ss)] \o s
      BY <1>3, <1>4, <2>4, <2>5, <1>1 DEF Agree
    <2> QED BY <2>3, <2>6 DEF grown
  <1> QED BY <1>5, <1>6

-----------------------------------------------------------------------------
(***************************************************************************)
(* Sequences without repetitions, and what is in them.                     *)
(***************************************************************************)
Once(s) == \A i, j \in 1..Len(s) : s[i] = s[j] => i = j
Apart(s, t) == \A x \in ToSet(s) : x \notin ToSet(t)

LEMMA InToSet ==
  ASSUME NEW R, NEW s \in Seq(R)
  PROVE  \A x : x \in ToSet(s) <=> \E i \in 1..Len(s) : s[i] = x
  BY DEF ToSet

LEMMA EmptyOnce == Once(<<>>) /\ ToSet(<<>>) = {}
  BY DEF Once, ToSet

LEMMA AppendOnce ==
  ASSUME NEW R, NEW s \in Seq(R), NEW e \in R
  PROVE  /\ Append(s, e) \in Seq(R)
         /\ \A x : x \in ToSet(Append(s, e)) <=> x \in ToSet(s) \/ x = e
         /\ Once(s) /\ e \notin ToSet(s) => Once(Append(s, e))
  <1> DEFINE t == Append(s, e)
  <1>1. /\ t \in Seq(R) /\ Len(t) = Len(s) + 1 /\ t[Len(s) + 1] = e
        /\ Len(s) \in Nat /\ \A i \in 1..Len(s) : t[i] = s[i]
    BY AppendProperties
  <1> HIDE DEF t
  <1>2. \A i \in 1..Len(t) : i = Len(s) + 1 \/ i \in 1..Len(s)
    BY <1>1
  <1>3. \A i \in 1..Len(s) : i \in 1..Len(t)
    BY <1>1
  <1>4. ASSUME NEW x PROVE x \in ToSet(t) <=> x \in ToSet(s) \/ x = e
    <2>1. Len(s) + 1 \in 1..Len(t)
      BY <1>1
    <2>2. x \in ToSet(s) => \E i \in 1..Len(t) : t[i] = x
      <3>1. SUFFICES ASSUME NEW i \in 1..Len(s), s[i] = x PROVE \E k \in 1..Len(t) : t[k] = x
        BY InToSet
      <3> QED BY <1>1, <1>3, <3>1
    <2>3. ASSUME NEW i \in 1..Len(t), t[i] = x PROVE x \in ToSet(s) \/ x = e
      BY <1>1, <1>2, <2>3, InToSet
    <2> QED BY <1>1, <2>1, <2>2, <2>3, InToSet
  <1>5. ASSUME Once(s), e \notin ToSet(s) PROVE Once(t)
    <2>1. \A i \in 1..Len(s) : s[i] # e
      BY <1>5, InToSet
    <2> QED BY <1>1, <1>2, <1>5, <2>1 DEF Once
  <1> QED BY <1>1, <1>4, <1>5 DEF t

LEMMA ConcatOnce ==
  ASSUME NEW R, NEW s \in Seq(R), NEW t \in Seq(R)
  PROVE  /\ s \o t \in Seq(R)
         /\ \A x : x \in ToSet(s \o t) <=> x \in ToSet(s) \/ x \in ToSet(t)
         /\ Once(s) /\ Once(t) /\ Apart(s, t) => Once(s \o t)
  <1> DEFINE u == s \o t
  <1>1. /\ u \in Seq(R) /\ Len(u) = Len(s) + Len(t) /\ Len(s) \in Nat /\ Len(t) \in Nat
        /\ \A i \in 1..(Len(s) + Len(t)) : u[i] = IF i <= Len(s) THEN s[i] ELSE t[i - Len(s)]
    BY ConcatProperties
  <1> HIDE DEF u
  <1>2. /\ \A i \in 1..Len(s) : i \in 1..Len(u) /\ u[i] = s[i]
        /\ \A i \in 1..Len(t) : i + Len(s) \in 1..Len(u) /\ u[i + Len(s)] = t[i]
    <2>1. ASSUME NEW i \in 1..Len(s) PROVE i \in 1..Len(u) /\ u[i] = s[i]
      BY <1>1
    <2>2. ASSUME NEW i \in 1..Len(t) PROVE i + Len(s) \in 1..Len(u) /\ u[i + Len(s)] = t[i]
      <3>1. i + Len(s) \in 1..(Len(s) + Len(t)) /\ ~(i + Len(s) <= Len(s)) /\ (i + Len(s)) - Len(s) = i
        BY <1>1
      <3> QED BY <1>1, <3>1
    <2> QED BY <2>1, <2>2
  <1>3. \A i \in 1..Len(u) : \/ i \in 1..Len(s) /\ u[i] = s[i]
                             \/ i - Len(s) \in 1..Len(t) /\ u[i] = t[i - Len(s)]
    BY <1>1
  <1>4. ASSUME NEW x PROVE x \in ToSet(u) <=> x \in ToSet(s) \/ x \in ToSet(t)
    <2>1. ASSUME NEW i \in 1..Len(s), s[i] = x PROVE x \in ToSet(u)
      BY <1>1, <1>2, <2>1, InToSet
    <2>2. ASSUME NEW i \in 1..Len(t), t[i] = x PROVE x \in ToSet(u)
      <3>1. i + Len(s) \in 1..Len(u) /\ u[i + Len(s)] = x
        BY <1>2, <2>2
      <3> QED BY <1>1, <3>1, InToSet
    <2>3. ASSUME NEW i \in 1..Len(u), u[i] = x PROVE x \in ToSet(s) \/ x \in ToSet(t)
      BY <1>3, <2>3, InToSet
    <2> QED BY <1>1, <2>1, <2>2, <2>3, InToSet
  <1>5. ASSUME Once(s), Once(t), Apart(s, t) PROVE Once(u)
    <2>1. \A i \in 1..Len(s), j \in 1..Len(t) : s[i] # t[j]
      BY <1>5, InToSet DEF Apart
    <2>2. SUFFICES ASSUME NEW i \in 1..Len(u), NEW j \in 1..Len(u), u[i] = u[j] PROVE i = j
      BY DEF Once
    <2>3. CASE i \in 1..Len(s) /\ u[i] = s[i]
      <3>1. j \in 1..Len(s) /\ u[j] = s[j]
        BY <1>3, <2>1, <2>2, <2>3
      <3> QED BY <1>5, <2>2, <2>3, <3>1 DEF Once
    <2>4. CASE i - Len(s) \in 1..Len(t) /\ u[i] = t[i - Len(s)]
      <3>1. j - Len(s) \in 1..Len(t) /\ u[j] = t[j - Len(s)]
        BY <1>3, <2>1, <2>2, <2>4
      <3>2. i - Len(s) = j - Len(s)
        BY <1>5, <2>2, <2>4, <3>1 DEF Once
      <3> QED BY <1>1, <3>2
    <2> QED BY <1>3, <2>3, <2>4
  <1> QED BY <1>1, <1>4, <1>5 DEF u

LEMMA SplitOnce ==
  ASSUME NEW R, NEW s \in Seq(R), NEW k \in 0..Len(s)
  PROVE  LET front == SubSeq(s, 1, k)
             back  == SubSeq(s, k + 1, Len(s))
         IN  /\ front \in Seq(R) /\ back \in Seq(R)
             /\ \A x : x \in ToSet(s) <=> x \in ToSet(front) \/ x \in ToSet(back)
             /\ Once(s) => Once(front) /\ Once(back) /\ Apart(front, back)
  <1> DEFINE front == SubSeq(s, 1, k)
             back  == SubSeq(s, k + 1, Len(s))
  <1>0. Len(s) \in Nat /\ k \in Nat /\ k <= Len(s) /\ \A i \in 1..Len(s) : s[i] \in R
    OBVIOUS
  <1>1. front \in Seq(R) /\ Len(front) = k /\ \A i \in 1..k : front[i] = s[i]
    <2>1. \A i \in 1..k : s[i] \in R
      BY <1>0
    <2>2. /\ front \in Seq(R) /\ Len(front) = IF 1 <= k THEN k - 1 + 1 ELSE 0
          /\ \A i \in 1..(k - 1 + 1) : front[i] = s[1 + i - 1]
      BY <1>0, <2>1, SubSeqProperties
    <2> QED BY <1>0, <2>2
  <1>2. /\ back \in Seq(R) /\ Len(back) = Len(s) - k
        /\ \A i \in 1..(Len(s) - k) : back[i] = s[i + k]
    <2>1. \A i \in (k + 1)..Len(s) : s[i] \in R
      BY <1>0
    <2>2. /\ back \in Seq(R) /\ Len(back) = IF k + 1 <= Len(s) THEN Len(s) - (k + 1) + 1 ELSE 0
          /\ \A i \in 1..(Len(s) - (k + 1) + 1) : back[i] = s[(k + 1) + i - 1]
      BY <1>0, <2>1, SubSeqProperties
    <2>3. \A i \in 1..(Len(s) - k) : i \in 1..(Len(s) - (k + 1) + 1) /\ (k + 1) + i - 1 = i + k
      BY <1>0
    <2> QED BY <1>0, <2>2, <2>3
  <1> HIDE DEF front, back
  <1>3. ASSUME NEW x PROVE x \in ToSet(s) <=> x \in ToSet(front) \/ x \in ToSet(back)
    <2>1. ASSUME NEW i \in 1..Len(s), s[i] = x PROVE x \in ToSet(front) \/ x \in ToSet(back)
      <3>1. CASE i <= k
        <4>1. i \in 1..Len(front) /\ front[i] = x
          BY <1>0, <1>1, <2>1, <3>1
        <4> QED BY <1>1, <4>1, InToSet
      <3>2. CASE i > k
        <4>1. i - k \in 1..(Len(s) - k) /\ (i - k) + k = i
          BY <1>0, <3>2
        <4>2. i - k \in 1..Len(back) /\ back[i - k] = x
          BY <1>2, <2>1, <4>1
        <4> QED BY <1>2, <4>2, InToSet
      <3> QED BY <1>0, <3>1, <3>2
    <2>2. ASSUME NEW i \in 1..Len(front), front[i] = x PROVE x \in ToSet(s)
      <3>1. i \in 1..Len(s) /\ s[i] = x
        BY <1>0, <1>1, <2>2
      <3> QED BY <3>1, InToSet
    <2>3. ASSUME NEW i \in 1..Len(back), back[i] = x PROVE x \in ToSet(s)
      <3>1. i + k \in 1..Len(s) /\ s[i + k] = x
        BY <1>0, <1>2, <2>3
      <3> QED BY <3>1, InToSet
    <2> QED BY <1>1, <1>2, <2>1, <2>2, <2>3, InToSet
  <1>4. ASSUME Once(s) PROVE Once(front) /\ Once(back) /\ Apart(front, back)
    <2>1. Once(front)
      BY <1>0, <1>1, <1>4 DEF Once
    <2>2. Once(back)
      <3>1. SUFFICES ASSUME NEW i \in 1..(Len(s) - k), NEW j \in 1..(Len(s) - k), back[i] = back[j]
                     PROVE i = j
        BY <1>2 DEF Once
      <3>2. i + k \in 1..Len(s) /\ j + k \in 1..Len(s) /\ s[i + k] = s[j + k]
        BY <1>0, <1>2, <3>1
      <3>3. i + k = j + k
        BY <1>4, <3>2 DEF Once
      <3> QED BY <1>0, <3>3
    <2>3. Apart(front, back)
      <3>1. SUFFICES ASSUME NEW i \in 1..k, NEW j \in 1..(Len(s) - k), front[i] = back[j] PROVE FALSE
        BY <1>1, <1>2, InToSet DEF Apart
      <3>2. i \in 1..Len(s) /\ j + k \in 1..Len(s) /\ s[i] = s[j + k] /\ i # j + k
        BY <1>0, <1>1, <1>2, <3>1
      <3> QED BY <1>4, <3>2 DEF Once
    <2> QED BY <2>1, <2>2, <2>3
  <1> QED BY <1>1, <1>2, <1>3, <1>4 DEF front, back

\* The elements of FlattenSeq are those of its parts, each once when the parts
\* have none twice and none in common.
LEMMA FlattenElements ==
  ASSUME NEW R, NEW ss \in Seq(Seq(R))
  PROVE  /\ \A x : x \in ToSet(FlattenSeq(ss)) <=> \E i \in 1..Len(ss) : x \in ToSet(ss[i])
         /\ (\A i, j \in 1..Len(ss) : Once(ss[i]) /\ (i # j => Apart(ss[i], ss[j])))
              => Once(FlattenSeq(ss))
  <1>1. CASE ss = <<>>
    <2>1. FlattenSeq(ss) = <<>> /\ Len(ss) = 0
      BY <1>1, FlattenEmpty
    <2> QED BY <2>1, EmptyOnce
  <1>2. CASE ss # <<>>
    <2> DEFINE m == Len(ss)
               Fine == \A i, j \in 1..m : Once(ss[i]) /\ (i # j => Apart(ss[i], ss[j]))
               Elements(f, i) == \A x : x \in ToSet(f[i]) <=> \E k \in 1..i : x \in ToSet(ss[k])
    <2>1. m \in Nat \ {0} /\ \A i \in 1..m : ss[i] \in Seq(R)
      BY <1>2
    <2>2. PICK f : Flattening(ss, m, f)
      BY <2>1, FlatteningExists
    <2> DEFINE S == {i \in Nat : i \in 1..m =>
                        f[i] \in Seq(R) /\ Elements(f, i) /\ (Fine => Once(f[i]))}
    <2>3. 0 \in S
      OBVIOUS
    <2>4. ASSUME NEW i \in Nat, i \in S PROVE i + 1 \in S
      <3>1. SUFFICES ASSUME i + 1 \in 1..m
                     PROVE  f[i+1] \in Seq(R) /\ Elements(f, i+1) /\ (Fine => Once(f[i+1]))
        OBVIOUS
      <3>2. f[i+1] = IF i + 1 = 1 THEN ss[i+1] ELSE f[(i+1)-1] \o ss[i+1]
        BY <2>2, <3>1 DEF Flattening
      <3>3. ss[i+1] \in Seq(R)
        BY <2>1, <3>1
      <3>4. CASE i = 0
        <4>1. f[i+1] = ss[i+1]
          BY <3>2, <3>4
        <4>2. \A k \in 1..(i+1) : k = i + 1
          BY <3>4
        <4>3. Elements(f, i+1)
          BY <3>4, <4>1, <4>2
        <4> QED BY <3>1, <3>3, <4>1, <4>3
      <3>5. CASE i # 0
        <4>1. i \in 1..m /\ (i + 1) - 1 = i
          BY <2>1, <3>1, <3>5
        <4>2. f[i] \in Seq(R) /\ Elements(f, i) /\ (Fine => Once(f[i]))
          BY <2>4, <4>1
        <4>3. f[i+1] = f[i] \o ss[i+1]
          <5>1. i + 1 # 1
            BY <3>5
          <5> QED BY <3>2, <4>1, <5>1, Zenon
        <4>4. /\ f[i+1] \in Seq(R)
              /\ \A x : x \in ToSet(f[i+1]) <=> x \in ToSet(f[i]) \/ x \in ToSet(ss[i+1])
              /\ Once(f[i]) /\ Once(ss[i+1]) /\ Apart(f[i], ss[i+1]) => Once(f[i+1])
          BY <3>3, <4>2, <4>3, ConcatOnce
        <4>5. \A k : k \in 1..(i+1) <=> k \in 1..i \/ k = i + 1
          OBVIOUS
        <4>6. Elements(f, i+1)
          BY <4>2, <4>4, <4>5
        <4>7. Fine => Apart(f[i], ss[i+1])
          <5>1. SUFFICES ASSUME Fine, NEW x \in ToSet(f[i]), x \in ToSet(ss[i+1]) PROVE FALSE
            BY DEF Apart
          <5>2. PICK k \in 1..i : x \in ToSet(ss[k])
            BY <4>2, <5>1
          <5>3. k \in 1..m /\ i + 1 \in 1..m /\ k # i + 1
            BY <2>1, <3>1
          <5> QED BY <5>1, <5>2, <5>3 DEF Apart
        <4>8. Fine => Once(ss[i+1])
          BY <3>1
        <4> QED BY <4>2, <4>4, <4>6, <4>7, <4>8
      <3> QED BY <3>4, <3>5
    <2> HIDE DEF S
    <2>5. m \in S
      BY <2>1, <2>3, <2>4, NatSet
    <2>6. Elements(f, m) /\ (Fine => Once(f[m]))
      BY <2>1, <2>5 DEF S
    <2>7. FlattenSeq(ss) = f[m]
      BY <2>1, <2>2, FlattenSeqIs
    <2> QED BY <2>6, <2>7
  <1> QED BY <1>1, <1>2

\* What is left when the first element is taken.
LEMMA TailOnce ==
  ASSUME NEW R, NEW s \in Seq(R), s # <<>>
  PROVE  /\ Head(s) \in R /\ Tail(s) \in Seq(R) /\ Len(Tail(s)) = Len(s) - 1
         /\ s[1] = Head(s) /\ \A i \in 1..Len(Tail(s)) : Tail(s)[i] = s[i+1]
         /\ \A x : x \in ToSet(s) <=> x = Head(s) \/ x \in ToSet(Tail(s))
         /\ Once(s) => Once(Tail(s)) /\ Head(s) \notin ToSet(Tail(s))
  <1> DEFINE t == Tail(s)
             h == Head(s)
  <1>1. /\ Len(s) \in Nat \ {0} /\ h \in R /\ t \in Seq(R) /\ Len(t) = Len(s) - 1
        /\ s[1] = h /\ \A i \in 1..Len(t) : t[i] = s[i+1]
    OBVIOUS
  <1> HIDE DEF t, h
  <1>2. ASSUME NEW x PROVE x \in ToSet(s) <=> x = h \/ x \in ToSet(t)
    <2>1. ASSUME NEW i \in 1..Len(s), s[i] = x PROVE x = h \/ x \in ToSet(t)
      <3>1. CASE i = 1
        BY <1>1, <2>1, <3>1
      <3>2. CASE i # 1
        <4>1. i - 1 \in 1..Len(t) /\ (i - 1) + 1 = i
          BY <1>1, <3>2
        <4>2. t[i-1] = x
          BY <1>1, <2>1, <4>1
        <4> QED BY <1>1, <4>1, <4>2, InToSet
      <3> QED BY <3>1, <3>2
    <2>2. x = h => x \in ToSet(s)
      <3>1. 1 \in 1..Len(s)
        BY <1>1
      <3> QED BY <1>1, <3>1, InToSet
    <2>3. ASSUME NEW i \in 1..Len(t), t[i] = x PROVE x \in ToSet(s)
      <3>1. i + 1 \in 1..Len(s) /\ s[i+1] = x
        BY <1>1, <2>3
      <3> QED BY <3>1, InToSet
    <2> QED BY <1>1, <2>1, <2>2, <2>3, InToSet
  <1>3. ASSUME Once(s) PROVE Once(t) /\ h \notin ToSet(t)
    <2>1. \A i \in 1..Len(t) : i + 1 \in 1..Len(s)
      BY <1>1
    <2>2. Once(t)
      <3>1. SUFFICES ASSUME NEW i \in 1..Len(t), NEW j \in 1..Len(t), t[i] = t[j] PROVE i = j
        BY DEF Once
      <3>2. s[i+1] = s[j+1]
        BY <1>1, <3>1
      <3>3. i + 1 = j + 1
        BY <1>3, <2>1, <3>2 DEF Once
      <3> QED BY <1>1, <3>3
    <2>3. ASSUME h \in ToSet(t) PROVE FALSE
      <3>1. PICK i \in 1..Len(t) : t[i] = h
        BY <1>1, <2>3, InToSet
      <3>2. s[i+1] = s[1] /\ 1 \in 1..Len(s)
        BY <1>1, <3>1
      <3>3. i + 1 = 1
        BY <1>3, <2>1, <3>2 DEF Once
      <3> QED BY <1>1, <3>3
    <2> QED BY <2>2, <2>3
  <1> QED BY <1>1, <1>2, <1>3 DEF t, h

\* A sequence without repetitions is as long as it has elements.
LEMMA OnceCardinality ==
  ASSUME NEW R, NEW s \in Seq(R), Once(s)
  PROVE  IsFiniteSet(ToSet(s)) /\ Cardinality(ToSet(s)) = Len(s)
  <1>1. Len(s) \in Nat /\ s \in [1..Len(s) -> ToSet(s)]
    BY DEF ToSet
  <1>2. s \in Bijection(1..Len(s), ToSet(s))
    <2>1. \A i \in 1..Len(s), j \in 1..Len(s) : s[i] = s[j] => i = j
      BY DEF Once
    <2>2. \A x \in ToSet(s) : \E i \in 1..Len(s) : s[i] = x
      BY InToSet
    <2> QED BY <1>1, <2>1, <2>2, Fun_IsBij
  <1>3. ExistsBijection(1..Len(s), ToSet(s))
    BY <1>2 DEF ExistsBijection
  <1> QED BY <1>1, <1>3, FS_CountingElements, FS_NatBijection

-----------------------------------------------------------------------------
(***************************************************************************)
(* SumFunctionOnSet.                                                       *)
(***************************************************************************)

\* Every subset of a finite set is in W when W has the empty set and, with all
\* sets that lack one element of a set, that set.
LEMMA SubsetSet ==
  ASSUME NEW S, IsFiniteSet(S), NEW W, {} \in W,
         \A T \in SUBSET S : T # {} /\ (\A x \in T : T \ {x} \in W) => T \in W
  PROVE  \A T \in SUBSET S : T \in W
  <1> DEFINE K == {k \in Nat : \A T \in SUBSET S : Cardinality(T) = k => T \in W}
  <1>0. \A T \in SUBSET S : IsFiniteSet(T) /\ Cardinality(T) \in Nat
    BY FS_Subset, FS_CardinalityType
  <1>1. 0 \in K
    BY <1>0, FS_EmptySet
  <1>2. ASSUME NEW k \in Nat, k \in K PROVE k + 1 \in K
    <2>1. SUFFICES ASSUME NEW T \in SUBSET S, Cardinality(T) = k + 1 PROVE T \in W
      OBVIOUS
    <2>2. T # {}
      BY <2>1, FS_EmptySet
    <2>3. ASSUME NEW x \in T PROVE T \ {x} \in W
      <3>1. Cardinality(T \ {x}) = (k + 1) - 1 /\ T \ {x} \in SUBSET S
        BY <1>0, <2>1, FS_RemoveElement
      <3> QED BY <1>2, <3>1
    <2> QED BY <2>2, <2>3
  <1> HIDE DEF K
  <1>3. \A k \in Nat : k \in K
    BY <1>1, <1>2, NatSet
  <1> QED BY <1>0, <1>3 DEF K

Pick(s) == CHOOSE x \in s : TRUE

\* it[s] is the sum of f over s, for the sets s of D.
Summing(f, D, it) == it = [s \in D |-> IF s = {} THEN 0 ELSE f[Pick(s)] + it[s \ {Pick(s)}]]

LEMMA SummingExists ==
  ASSUME NEW f, NEW S, IsFiniteSet(S) PROVE \E it : Summing(f, SUBSET S, it)
  <1> DEFINE D(k) == {s \in SUBSET S : Cardinality(s) <= k}
             K == {k \in Nat : \E it : Summing(f, D(k), it)}
  <1>0. \A T \in SUBSET S : IsFiniteSet(T) /\ Cardinality(T) \in Nat /\ Cardinality(T) <= Cardinality(S)
    BY FS_Subset, FS_CardinalityType
  <1>1. 0 \in K
    <2>1. D(0) = {{}}
      <3>1. ASSUME NEW s \in D(0) PROVE s = {}
        BY <1>0, FS_EmptySet
      <3>2. {} \in D(0)
        BY FS_EmptySet
      <3> QED BY <3>1, <3>2
    <2>2. Summing(f, D(0), [s \in D(0) |-> 0])
      BY <2>1 DEF Summing
    <2> QED BY <2>2
  <1>2. ASSUME NEW k \in Nat, k \in K PROVE k + 1 \in K
    <2>0. PICK D0, D1 : D0 = D(k) /\ D1 = D(k + 1)
      OBVIOUS
    <2>1. PICK it : Summing(f, D0, it)
      BY <1>2, <2>0
    <2>2. \A s \in D0 : s \in D1
      BY <1>0, <2>0
    <2>3. ASSUME NEW s \in D1, s # {} PROVE s \ {Pick(s)} \in D0
      <3>1. Pick(s) \in s
        BY <2>3 DEF Pick
      <3>2. Cardinality(s \ {Pick(s)}) = Cardinality(s) - 1
        BY <1>0, <2>0, <3>1, FS_RemoveElement
      <3>3. Cardinality(s) \in Nat /\ Cardinality(s) <= k + 1
        BY <1>0, <2>0
      <3> QED BY <2>0, <3>2, <3>3
    <2>4. PICK g : g = [s \in D1 |-> IF s = {} THEN 0 ELSE f[Pick(s)] + it[s \ {Pick(s)}]]
      OBVIOUS
    <2>5. \A s \in D0 : it[s] = IF s = {} THEN 0 ELSE f[Pick(s)] + it[s \ {Pick(s)}]
      BY <2>1 DEF Summing
    <2>6. \A s \in D0 : g[s] = it[s]
      <3> HIDE DEF D, K
      <3> QED BY <2>2, <2>4, <2>5
    <2>7. \A s \in D1 : g[s] = IF s = {} THEN 0 ELSE f[Pick(s)] + g[s \ {Pick(s)}]
      <3> HIDE DEF D, K
      <3> QED BY <2>3, <2>4, <2>6
    <2>8. Summing(f, D1, g)
      <3> HIDE DEF D, K
      <3>1. g = [s \in D1 |-> g[s]]
        BY <2>4
      <3>2. g = [s \in D1 |-> IF s = {} THEN 0 ELSE f[Pick(s)] + g[s \ {Pick(s)}]]
        BY <2>7, <3>1
      <3> QED BY <3>2 DEF Summing
    <2>9. \E jt : Summing(f, D(k + 1), jt)
      <3> HIDE DEF D, K
      <3> QED BY <2>0, <2>8, Zenon
    <2>10. k + 1 \in Nat
      OBVIOUS
    <2> HIDE DEF D
    <2> QED BY <2>9, <2>10
  <1>3. Cardinality(S) \in K
    <2> HIDE DEF K
    <2> QED BY <1>0, <1>1, <1>2, NatSet
  <1>4. D(Cardinality(S)) = SUBSET S
    BY <1>0
  <1> HIDE DEF D
  <1> QED BY <1>3, <1>4

LEMMA SummingsAgree ==
  ASSUME NEW T, IsFiniteSet(T), NEW D, SUBSET T \subseteq D, NEW f, NEW g, NEW it, NEW jt,
         Summing(f, SUBSET T, it), Summing(g, D, jt), \A x \in T : f[x] = g[x]
  PROVE  it[T] = jt[T]
  <1> DEFINE W == {s \in SUBSET T : it[s] = jt[s]}
  <1>1. \A s \in SUBSET T : /\ it[s] = IF s = {} THEN 0 ELSE f[Pick(s)] + it[s \ {Pick(s)}]
                            /\ jt[s] = IF s = {} THEN 0 ELSE g[Pick(s)] + jt[s \ {Pick(s)}]
    BY DEF Summing
  <1>2. {} \in W
    BY <1>1
  <1>3. ASSUME NEW s \in SUBSET T, s # {}, \A x \in s : s \ {x} \in W PROVE s \in W
    <2>1. Pick(s) \in s
      BY <1>3 DEF Pick
    <2>2. it[s \ {Pick(s)}] = jt[s \ {Pick(s)}] /\ f[Pick(s)] = g[Pick(s)]
      BY <1>3, <2>1
    <2> QED BY <1>1, <1>3, <2>2
  <1> HIDE DEF W
  <1>4. T \in W
    <2>1. T \in SUBSET T
      OBVIOUS
    <2> QED BY <1>2, <1>3, <2>1, SubsetSet
  <1> QED BY <1>4 DEF W

\* The definition of SumFunctionOnSet, with the function it chooses.
LEMMA SumIs ==
  ASSUME NEW f, NEW S, IsFiniteSet(S), NEW it, Summing(f, SUBSET S, it)
  PROVE  SumFunctionOnSet(f, S) = it[S]
  <1> DEFINE jt == CHOOSE jt : jt = [s \in SUBSET S |->
                     IF s = {} THEN 0 ELSE f[CHOOSE x \in s : TRUE] + jt[s \ {CHOOSE x \in s : TRUE}]]
  <1>1. SumFunctionOnSet(f, S) = jt[S]
    BY DEF SumFunctionOnSet, FoldFunctionOnSet, MapThenFoldSet
  <1>2. Summing(f, SUBSET S, jt)
    BY DEF Summing, Pick
  <1> HIDE DEF jt
  <1> QED BY <1>1, <1>2, SummingsAgree

LEMMA SumEmpty == ASSUME NEW f PROVE SumFunctionOnSet(f, {}) = 0
  <1>1. IsFiniteSet({})
    BY FS_EmptySet
  <1>2. PICK it : Summing(f, SUBSET {}, it)
    BY <1>1, SummingExists
  <1>3. it[{}] = 0
    BY <1>2 DEF Summing
  <1> QED BY <1>1, <1>2, <1>3, SumIs

LEMMA SumPicks ==
  ASSUME NEW f, NEW S, IsFiniteSet(S), S # {}
  PROVE  SumFunctionOnSet(f, S) = f[Pick(S)] + SumFunctionOnSet(f, S \ {Pick(S)})
  <1>1. PICK T : T = S \ {Pick(S)}
    OBVIOUS
  <1>2. IsFiniteSet(T) /\ T \in SUBSET S /\ Pick(S) \in S
    BY <1>1, FS_Subset DEF Pick
  <1>3. PICK it : Summing(f, SUBSET S, it)
    BY SummingExists
  <1>4. PICK jt : Summing(f, SUBSET T, jt)
    BY <1>2, SummingExists
  <1>5. jt[T] = it[T]
    <2>1. PICK D : D = SUBSET S
      OBVIOUS
    <2>2. SUBSET T \subseteq D
      BY <1>2, <2>1
    <2>3. Summing(f, D, it)
      BY <1>3, <2>1
    <2> QED BY <1>2, <1>4, <2>2, <2>3, SummingsAgree
  <1>6. it[S] = f[Pick(S)] + it[T]
    BY <1>1, <1>3 DEF Summing
  <1>7. SumFunctionOnSet(f, S) = it[S] /\ SumFunctionOnSet(f, T) = jt[T]
    BY <1>2, <1>3, <1>4, SumIs
  <1> QED BY <1>1, <1>5, <1>6, <1>7

LEMMA SumSame ==
  ASSUME NEW f, NEW g, NEW S, IsFiniteSet(S), \A x \in S : f[x] = g[x]
  PROVE  SumFunctionOnSet(f, S) = SumFunctionOnSet(g, S)
  <1>1. PICK it : Summing(f, SUBSET S, it)
    BY SummingExists
  <1>2. PICK jt : Summing(g, SUBSET S, jt)
    BY SummingExists
  <1>3. it[S] = jt[S]
    BY <1>1, <1>2, SummingsAgree
  <1> QED BY <1>1, <1>2, <1>3, SumIs

LEMMA SumType ==
  ASSUME NEW S, IsFiniteSet(S), NEW f, \A x \in S : f[x] \in Nat
  PROVE  SumFunctionOnSet(f, S) \in Nat
  <1> DEFINE W == {T \in SUBSET S : SumFunctionOnSet(f, T) \in Nat}
  <1>1. {} \in W
    BY SumEmpty
  <1>2. ASSUME NEW T \in SUBSET S, T # {}, \A x \in T : T \ {x} \in W PROVE T \in W
    <2>1. Pick(T) \in T /\ IsFiniteSet(T)
      BY <1>2, FS_Subset DEF Pick
    <2>2. SumFunctionOnSet(f, T \ {Pick(T)}) \in Nat /\ f[Pick(T)] \in Nat
      BY <1>2, <2>1
    <2> QED BY <1>2, <2>1, <2>2, SumPicks
  <1> HIDE DEF W
  <1>3. S \in SUBSET S
    OBVIOUS
  <1>4. S \in W
    BY <1>1, <1>2, <1>3, SubsetSet
  <1> QED BY <1>4 DEF W

\* A sum of natural numbers, and any one of them taken out of it.
LEMMA SumTakes ==
  ASSUME NEW S, IsFiniteSet(S), NEW f, \A x \in S : f[x] \in Nat
  PROVE  \A x \in S : SumFunctionOnSet(f, S) = f[x] + SumFunctionOnSet(f, S \ {x})
  <1> DEFINE Total(T) == SumFunctionOnSet(f, T)
             W == {T \in SUBSET S : \A x \in T : Total(T) = f[x] + Total(T \ {x})}
  <1>0. ASSUME NEW T \in SUBSET S PROVE IsFiniteSet(T) /\ Total(T) \in Nat
    BY FS_Subset, SumType
  <1>1. {} \in W
    OBVIOUS
  <1>2. ASSUME NEW T \in SUBSET S, T # {}, \A x \in T : T \ {x} \in W PROVE T \in W
    <2>1. PICK c \in T : c = Pick(T)
      BY <1>2 DEF Pick
    <2>2. Total(T) = f[c] + Total(T \ {c})
      BY <1>0, <1>2, <2>1, SumPicks
    <2> HIDE DEF Total
    <2>3. ASSUME NEW x \in T, x # c PROVE Total(T) = f[x] + Total(T \ {x})
      <3>1. PICK U \in SUBSET S : (T \ {c}) \ {x} = U /\ (T \ {x}) \ {c} = U
        OBVIOUS
      <3>2. Total(T \ {c}) = f[x] + Total(U)
        BY <1>2, <2>3, <3>1
      <3>3. Total(T \ {x}) = f[c] + Total(U)
        BY <1>2, <2>3, <3>1
      <3>4. f[c] \in Nat /\ f[x] \in Nat /\ Total(U) \in Nat
        BY <1>0
      <3> QED BY <2>2, <3>2, <3>3, <3>4
    <2> QED BY <2>2, <2>3
  <1> HIDE DEF W
  <1>3. S \in SUBSET S
    OBVIOUS
  <1>4. S \in W
    BY <1>1, <1>2, <1>3, SubsetSet
  <1> QED BY <1>4 DEF W

\* A sum in which one element changes.
LEMMA SumChanges ==
  ASSUME NEW S, IsFiniteSet(S), NEW f, NEW g, \A x \in S : f[x] \in Nat /\ g[x] \in Nat,
         NEW e \in S, \A x \in S : x # e => f[x] = g[x]
  PROVE  SumFunctionOnSet(f, S) + g[e] = SumFunctionOnSet(g, S) + f[e]
  <1> DEFINE T == S \ {e}
  <1>1. IsFiniteSet(T)
    BY FS_RemoveElement
  <1>2. SumFunctionOnSet(f, T) = SumFunctionOnSet(g, T)
    BY <1>1, SumSame
  <1>3. SumFunctionOnSet(f, T) \in Nat
    BY <1>1, SumType
  <1>4. /\ SumFunctionOnSet(f, S) = f[e] + SumFunctionOnSet(f, T)
        /\ SumFunctionOnSet(g, S) = g[e] + SumFunctionOnSet(g, T)
    BY SumTakes
  <1> HIDE DEF T
  <1> QED BY <1>2, <1>3, <1>4
=============================================================================
