----------------------------- MODULE FoldLemmas -----------------------------
(***************************************************************************)
(* Lemmas about the folds the models are written with: the sum of a        *)
(* function over a finite set, and the concatenation of a sequence of      *)
(* sequences. Both are recursive functions; induction is done here with    *)
(* least counterexamples, from the well-foundedness of < on Nat.           *)
(***************************************************************************)
EXTENDS Integers, FiniteSetsExt, SequencesExt, FiniteSetTheorems, SequenceTheorems,
        WellFoundedInduction, TLAPS

\* A set of numbers that is not empty has a least member.
LEMMA NatMin ==
  ASSUME NEW S \in SUBSET Nat, S # {}
  PROVE  \E n \in S : \A m \in S : n <= m
<1>1. PICK x \in S : \A y \in S : <<y, x>> \notin OpToRel(<, Nat)
  BY NatLessThanWellFounded, WFMin, Zenon
<1>2. \A y \in S : ~(y < x)
  BY <1>1 DEF OpToRel
<1> QED
  BY <1>2

\* Induction: a set that contains 0 and is closed under successors is Nat.
LEMMA NatInduct ==
  ASSUME NEW S, 0 \in S, \A n \in Nat : n \in S => n + 1 \in S
  PROVE  Nat \subseteq S
<1> SUFFICES ASSUME Nat \ S # {} PROVE FALSE
  OBVIOUS
<1>1. PICK n \in Nat \ S : \A m \in Nat \ S : n <= m
  BY NatMin
<1>2. n # 0 /\ n - 1 \in Nat
  BY <1>1
<1>3. n - 1 \in S
  BY <1>1, <1>2
<1> QED
  BY <1>1, <1>2, <1>3

-----------------------------------------------------------------------------
(* Sums.                                                                   *)

SumOf(F, S) == MapThenSumSet(LAMBDA x : F[x], S)

\* g[s] is the sum of F over s, for every part s of S, as the fold computes it.
PartSums(F, S, g) ==
  g = [s \in SUBSET S |->
         IF s = {} THEN 0 ELSE F[CHOOSE x \in s : TRUE] + g[s \ {CHOOSE x \in s : TRUE}]]

LEMMA PartSmaller ==
  ASSUME NEW s, IsFiniteSet(s), s # {}
  PROVE  LET x == CHOOSE x \in s : TRUE
         IN  /\ x \in s /\ IsFiniteSet(s \ {x})
             /\ Cardinality(s) \in Nat /\ Cardinality(s \ {x}) = Cardinality(s) - 1
             /\ Cardinality(s \ {x}) \in Nat
BY FS_RemoveElement, FS_CardinalityType, Zenon

LEMMA SumsExist ==
  ASSUME NEW F, NEW S, IsFiniteSet(S)
  PROVE  \E g : PartSums(F, S, g)
<1> DEFINE Part(s) == s \ {CHOOSE x \in s : TRUE}
           Body(g, s) == IF s = {} THEN 0 ELSE F[CHOOSE x \in s : TRUE] + g[Part(s)]
           Good(n) == \E g : \A s \in SUBSET S : Cardinality(s) <= n => g[s] = Body(g, s)
           Lengths == {n \in Nat : Good(n)}
<1>1. \A s \in SUBSET S :
        /\ Cardinality(s) \in Nat /\ Part(s) \in SUBSET S
        /\ s # {} => Cardinality(Part(s)) = Cardinality(s) - 1
        /\ Cardinality(s) = 0 => s = {}
  BY FS_Subset, FS_EmptySet, FS_CardinalityType, PartSmaller
<1> HIDE DEF Part
<1>2. Good(0)
  <2> DEFINE g == [s \in SUBSET S |-> 0]
  <2>1. \A s \in SUBSET S : Cardinality(s) <= 0 => g[s] = Body(g, s)
    BY <1>1
  <2> QED
    BY <2>1, Zenon
<1>3. ASSUME NEW n \in Nat, Good(n) PROVE Good(n + 1)
  <2>1. PICK g : \A s \in SUBSET S : Cardinality(s) <= n => g[s] = Body(g, s)
    BY <1>3, Zenon
  <2> DEFINE h == [s \in SUBSET S |-> IF Cardinality(s) <= n THEN g[s] ELSE Body(g, s)]
  <2>2. \A s \in SUBSET S : h[s] = Body(g, s)
    BY <2>1, Zenon
  <2>3. ASSUME NEW s \in SUBSET S, Cardinality(s) <= n + 1, s # {} PROVE h[Part(s)] = g[Part(s)]
    <3>1. Cardinality(Part(s)) <= n /\ Part(s) \in SUBSET S
      BY <1>1, <2>3
    <3> QED
      BY <3>1, Zenon
  <2> HIDE DEF h
  <2>4. \A s \in SUBSET S : Cardinality(s) <= n + 1 => h[s] = Body(h, s)
    BY <2>2, <2>3, Zenon
  <2> QED
    BY <2>4, Zenon
<1>4. Cardinality(S) \in Lengths
  <2> HIDE DEF Good
  <2>1. 0 \in Lengths
    BY <1>2
  <2>2. \A n \in Nat : n \in Lengths => n + 1 \in Lengths
    BY <1>3
  <2>3. Nat \subseteq Lengths
    <3> HIDE DEF Lengths
    <3> QED
      BY <2>1, <2>2, NatInduct
  <2> QED
    BY <2>3, FS_CardinalityType
<1>5. PICK g : \A s \in SUBSET S : Cardinality(s) <= Cardinality(S) => g[s] = Body(g, s)
  BY <1>4, Zenon
<1>6. \A s \in SUBSET S : Cardinality(s) <= Cardinality(S)
  BY FS_Subset
<1> DEFINE h == [s \in SUBSET S |-> g[s]]
<1>7. \A s \in SUBSET S : h[s] = Body(h, s)
  BY <1>1, <1>5, <1>6, Zenon
<1>8. h = [s \in SUBSET S |-> Body(h, s)]
  <2>1. h = [s \in SUBSET S |-> h[s]]
    BY Zenon
  <2> HIDE DEF h
  <2> QED
    BY <2>1, <1>7, Zenon
<1> HIDE DEF h
<1>9. PartSums(F, S, h)
  BY <1>8, Zenon DEF PartSums, Part
<1> QED
  BY <1>9, Zenon

LEMMA SumOfIs ==
  ASSUME NEW F, NEW S, IsFiniteSet(S)
  PROVE  \E g : PartSums(F, S, g) /\ SumOf(F, S) = g[S]
<1> DEFINE g == CHOOSE h : PartSums(F, S, h)
<1>1. PartSums(F, S, g)
  BY SumsExist, Zenon
<1>2. SumOf(F, S) = g[S]
  BY DEF SumOf, MapThenSumSet, MapThenFoldSet, PartSums
<1> QED
  BY <1>1, <1>2, Zenon

\* The sums over a part of a set are those over the set, as long as the functions
\* agree on it.
LEMMA SumsAgree ==
  ASSUME NEW F, NEW G, NEW A, NEW B, IsFiniteSet(A), B \subseteq A,
         NEW g, NEW h, PartSums(F, A, g), PartSums(G, B, h), \A x \in B : F[x] = G[x]
  PROVE  g[B] = h[B]
<1> DEFINE Parts(n) == {t \in SUBSET B : Cardinality(t) <= n}
           Same == {n \in Nat : \A t \in Parts(n) : g[t] = h[t]}
<1>1. \A t \in SUBSET B : IsFiniteSet(t) /\ Cardinality(t) \in Nat /\ (Cardinality(t) = 0 => t = {})
  BY FS_Subset, FS_EmptySet, FS_CardinalityType
<1>2. g[{}] = 0 /\ h[{}] = 0
  BY Zenon DEF PartSums
<1>3. 0 \in Same
  BY <1>1, <1>2
<1>4. ASSUME NEW n \in Nat, n \in Same PROVE n + 1 \in Same
  <2> SUFFICES ASSUME NEW t \in Parts(n + 1), t # {} PROVE g[t] = h[t]
    <3>1. \A t \in Parts(n + 1) : t = {} => g[t] = h[t]
      BY <1>2
    <3> QED
      BY <3>1
  <2> DEFINE x == CHOOSE x \in t : TRUE
  <2>1. t \in SUBSET B /\ x \in t /\ x \in B /\ t \ {x} \in SUBSET B
        /\ t \in SUBSET A /\ t \in SUBSET B
    BY Zenon
  <2>2. t \ {x} \in Parts(n)
    BY <1>1, <2>1, PartSmaller
  <2>3. g[t \ {x}] = h[t \ {x}]
    BY <1>4, <2>2
  <2>4. g[t] = F[x] + g[t \ {x}] /\ h[t] = G[x] + h[t \ {x}]
    BY <2>1, Zenon DEF PartSums
  <2> QED
    BY <2>1, <2>3, <2>4, Zenon
<1>5. Nat \subseteq Same
  <2> HIDE DEF Same
  <2> QED
    BY <1>3, <1>4, NatInduct
<1> QED
  BY <1>1, <1>5

LEMMA SumEmpty ==
  ASSUME NEW F
  PROVE  SumOf(F, {}) = 0
<1>1. PICK g : PartSums(F, {}, g) /\ SumOf(F, {}) = g[{}]
  BY SumOfIs, FS_EmptySet, Zenon
<1> QED
  BY <1>1, Zenon DEF PartSums

LEMMA SumCongruent ==
  ASSUME NEW F, NEW G, NEW S, IsFiniteSet(S), \A x \in S : F[x] = G[x]
  PROVE  SumOf(F, S) = SumOf(G, S)
<1>1. PICK g : PartSums(F, S, g) /\ SumOf(F, S) = g[S]
  BY SumOfIs
<1>2. PICK h : PartSums(G, S, h) /\ SumOf(G, S) = h[S]
  BY SumOfIs
<1>3. S \subseteq S
  OBVIOUS
<1>4. g[S] = h[S]
  BY <1>1, <1>2, <1>3, SumsAgree, SMT
<1> QED
  BY <1>1, <1>2, <1>4

LEMMA SumsOfPart ==
  ASSUME NEW F, NEW S, IsFiniteSet(S), NEW P, P \subseteq S, NEW g, NEW h,
         PartSums(F, S, g), PartSums(F, P, h)
  PROVE  g[P] = h[P]
<1>2. \A y \in P : F[y] = F[y]
  OBVIOUS
<1> QED
  BY <1>2, SumsAgree

\* The sum, with the member that the fold takes first.
LEMMA SumFirst ==
  ASSUME NEW F, NEW S, IsFiniteSet(S), S # {}
  PROVE  \E x \in S : SumOf(F, S) = F[x] + SumOf(F, S \ {x})
<1>1. PICK g : PartSums(F, S, g) /\ SumOf(F, S) = g[S]
  BY SumOfIs
<1>2. PICK x \in S : g[S] = F[x] + g[S \ {x}]
  <2>1. (CHOOSE x \in S : TRUE) \in S
    OBVIOUS
  <2>2. g[S] = F[CHOOSE x \in S : TRUE] + g[S \ {CHOOSE x \in S : TRUE}]
    BY <1>1, Zenon DEF PartSums
  <2> QED
    BY <2>1, <2>2, Zenon
<1>3. PICK h : PartSums(F, S \ {x}, h) /\ SumOf(F, S \ {x}) = h[S \ {x}]
  <2>1. IsFiniteSet(S \ {x})
    BY FS_Subset
  <2> QED
    BY <2>1, SumOfIs
<1>4. S \ {x} \subseteq S
  OBVIOUS
<1>5. g[S \ {x}] = h[S \ {x}]
  BY <1>1, <1>3, <1>4, SumsOfPart
<1> QED
  BY <1>1, <1>2, <1>3, <1>5

\* Induction over the parts of a finite set, by their size.
LEMMA PartsInduct ==
  ASSUME NEW S, IsFiniteSet(S), NEW T, {} \in T,
         \A s \in SUBSET S : s # {} /\ (\A x \in s : s \ {x} \in T) => s \in T
  PROVE  SUBSET S \subseteq T
<1> DEFINE All == {n \in Nat : \A s \in SUBSET S : Cardinality(s) <= n => s \in T}
<1>1. \A s \in SUBSET S : IsFiniteSet(s) /\ Cardinality(s) \in Nat /\ (Cardinality(s) = 0 => s = {})
  BY FS_Subset, FS_EmptySet, FS_CardinalityType
<1>2. 0 \in All
  BY <1>1
<1>3. ASSUME NEW n \in Nat, n \in All PROVE n + 1 \in All
  <2> SUFFICES ASSUME NEW s \in SUBSET S, Cardinality(s) <= n + 1, s # {} PROVE s \in T
    <3>1. n + 1 \in Nat
      OBVIOUS
    <3> QED
      BY <3>1, Zenon
  <2>1. ASSUME NEW x \in s PROVE s \ {x} \in T
    <3>1. s \ {x} \in SUBSET S /\ Cardinality(s \ {x}) = Cardinality(s) - 1
      BY <1>1, FS_RemoveElement
    <3>2. Cardinality(s \ {x}) <= n
      BY <1>1, <3>1
    <3> QED
      BY <1>3, <3>1, <3>2
  <2> QED
    BY <2>1
<1>4. Nat \subseteq All
  <2> HIDE DEF All
  <2> QED
    BY <1>2, <1>3, NatInduct
<1> QED
  BY <1>1, <1>4

LEMMA SumType ==
  ASSUME NEW S, IsFiniteSet(S), NEW F, \A x \in S : F[x] \in Nat
  PROVE  SumOf(F, S) \in Nat
<1> DEFINE T == {s \in SUBSET S : SumOf(F, s) \in Nat}
<1>1. {} \in T
  BY SumEmpty
<1>2. \A s \in SUBSET S : s # {} /\ (\A x \in s : s \ {x} \in T) => s \in T
  <2> SUFFICES ASSUME NEW s \in SUBSET S, s # {}, \A x \in s : SumOf(F, s \ {x}) \in Nat
               PROVE  SumOf(F, s) \in Nat
    BY Zenon
  <2>1. PICK x \in s : SumOf(F, s) = F[x] + SumOf(F, s \ {x})
    BY SumFirst, FS_Subset
  <2> QED
    BY <2>1
<1> HIDE DEF T
<1>3. SUBSET S \subseteq T
  BY <1>1, <1>2, PartsInduct
<1> QED
  BY <1>3 DEF T

\* The sum, with any of the members taken first.
LEMMA SumTake ==
  ASSUME NEW S, IsFiniteSet(S), NEW F, \A x \in S : F[x] \in Nat, NEW y \in S
  PROVE  SumOf(F, S) = F[y] + SumOf(F, S \ {y})
<1> DEFINE T == {s \in SUBSET S : \A z \in s : SumOf(F, s) = F[z] + SumOf(F, s \ {z})}
<1>1. {} \in T
  OBVIOUS
<1>2. \A s \in SUBSET S : s # {} /\ (\A x \in s : s \ {x} \in T) => s \in T
  <2> SUFFICES ASSUME NEW s \in SUBSET S, s # {}, \A x \in s : s \ {x} \in T, NEW z \in s
               PROVE  SumOf(F, s) = F[z] + SumOf(F, s \ {z})
    BY Zenon
  <2>1. PICK x \in s : SumOf(F, s) = F[x] + SumOf(F, s \ {x})
    BY SumFirst, FS_Subset
  <2>2. CASE x # z
    <3>1. SumOf(F, s \ {x}) = F[z] + SumOf(F, (s \ {x}) \ {z})
      BY <2>2
    <3>2. SumOf(F, s \ {z}) = F[x] + SumOf(F, (s \ {z}) \ {x})
      BY <2>2
    <3>3. (s \ {x}) \ {z} = (s \ {z}) \ {x} /\ IsFiniteSet((s \ {x}) \ {z})
      BY FS_Subset
    <3>4. SumOf(F, (s \ {x}) \ {z}) \in Nat
      BY <3>3, SumType
    <3> QED
      BY <2>1, <3>1, <3>2, <3>3, <3>4
  <2> QED
    BY <2>1, <2>2
<1> HIDE DEF T
<1>3. SUBSET S \subseteq T
  BY <1>1, <1>2, PartsInduct
<1> QED
  BY <1>3 DEF T

\* A part of a set has no larger a sum.
LEMMA SumOfPart ==
  ASSUME NEW S, IsFiniteSet(S), NEW F, \A x \in S : F[x] \in Nat, NEW P \in SUBSET S
  PROVE  SumOf(F, P) <= SumOf(F, S)
<1> DEFINE T == {s \in SUBSET S : P \subseteq s => SumOf(F, P) <= SumOf(F, s)}
<1>1. {} \in T
  <2>1. P \subseteq {} => SumOf(F, P) <= SumOf(F, {})
    <3>1. P \subseteq {} => P = {}
      OBVIOUS
    <3> QED
      BY <3>1, SumEmpty
  <2> QED
    BY <2>1, Zenon
<1>2. \A s \in SUBSET S : s # {} /\ (\A x \in s : s \ {x} \in T) => s \in T
  <2> SUFFICES ASSUME NEW s \in SUBSET S, s # {}, \A x \in s : s \ {x} \in T, P \subseteq s, P # s
               PROVE  SumOf(F, P) <= SumOf(F, s)
    BY SumType, FS_Subset
  <2>1. PICK x \in s : x \notin P
    OBVIOUS
  <2>2. SumOf(F, P) <= SumOf(F, s \ {x})
    BY <2>1
  <2>3. SumOf(F, s) = F[x] + SumOf(F, s \ {x})
    BY SumTake, FS_Subset
  <2>4. SumOf(F, P) \in Nat /\ SumOf(F, s \ {x}) \in Nat
    BY SumType, FS_Subset
  <2> QED
    BY <2>2, <2>3, <2>4
<1> HIDE DEF T
<1>3. SUBSET S \subseteq T
  BY <1>1, <1>2, PartsInduct
<1> QED
  BY <1>3 DEF T

-----------------------------------------------------------------------------
(* Concatenations.                                                         *)

\* g[i] is the concatenation of the first i members of seqs, as FlattenSeq
\* computes it.
Flats(seqs, g) ==
  g = [i \in 1 .. Len(seqs) |-> IF i = 1 THEN seqs[i] ELSE g[i - 1] \o seqs[i]]

LEMMA FlatsExist ==
  ASSUME NEW seqs, Len(seqs) \in Nat
  PROVE  \E g : Flats(seqs, g)
<1> DEFINE Body(g, i) == IF i = 1 THEN seqs[i] ELSE g[i - 1] \o seqs[i]
           Good(n) == \E g : \A i \in 1 .. Len(seqs) : i <= n => g[i] = Body(g, i)
           Lengths == {n \in Nat : Good(n)}
<1>1. Good(0)
  OBVIOUS
<1>2. ASSUME NEW n \in Nat, Good(n) PROVE Good(n + 1)
  <2>1. PICK g : \A i \in 1 .. Len(seqs) : i <= n => g[i] = Body(g, i)
    BY <1>2, Zenon
  <2> DEFINE h == [i \in 1 .. Len(seqs) |-> IF i <= n THEN g[i] ELSE Body(g, i)]
  <2>2. \A i \in 1 .. Len(seqs) : h[i] = Body(g, i)
    BY <2>1, Zenon
  <2>3. \A i \in 1 .. Len(seqs) : i <= n + 1 /\ i # 1 => h[i - 1] = g[i - 1]
    <3> TAKE i \in 1 .. Len(seqs)
    <3> HAVE i <= n + 1 /\ i # 1
    <3>1. i - 1 \in 1 .. Len(seqs) /\ i - 1 <= n
      OBVIOUS
    <3> QED
      BY <3>1, Zenon
  <2> HIDE DEF h
  <2>4. \A i \in 1 .. Len(seqs) : i <= n + 1 => h[i] = Body(h, i)
    BY <2>2, <2>3, Zenon
  <2> QED
    BY <2>4, Zenon
<1>3. Len(seqs) \in Lengths
  <2> HIDE DEF Good
  <2>1. 0 \in Lengths /\ \A n \in Nat : n \in Lengths => n + 1 \in Lengths
    BY <1>1, <1>2
  <2>2. Nat \subseteq Lengths
    <3> HIDE DEF Lengths
    <3> QED
      BY <2>1, NatInduct
  <2> QED
    BY <2>2
<1>4. PICK g : \A i \in 1 .. Len(seqs) : i <= Len(seqs) => g[i] = Body(g, i)
  BY <1>3, Zenon
<1>5. \A i \in 1 .. Len(seqs) : i <= Len(seqs) /\ (i # 1 => i - 1 \in 1 .. Len(seqs))
  OBVIOUS
<1> DEFINE h == [i \in 1 .. Len(seqs) |-> g[i]]
<1>6. \A i \in 1 .. Len(seqs) : h[i] = Body(h, i)
  BY <1>4, <1>5, Zenon
<1>7. h = [i \in 1 .. Len(seqs) |-> Body(h, i)]
  <2>1. h = [i \in 1 .. Len(seqs) |-> h[i]]
    BY Zenon
  <2> HIDE DEF h
  <2> QED
    BY <2>1, <1>6, Zenon
<1> HIDE DEF h
<1>8. Flats(seqs, h)
  BY <1>7, Zenon DEF Flats
<1> QED
  BY <1>8, Zenon

LEMMA FlattenIs ==
  ASSUME NEW seqs, Len(seqs) \in Nat \ {0}
  PROVE  \E g : Flats(seqs, g) /\ FlattenSeq(seqs) = g[Len(seqs)]
<1> DEFINE g == CHOOSE h : Flats(seqs, h)
<1>1. Flats(seqs, g)
  BY FlatsExist, Zenon
<1>2. FlattenSeq(seqs) = g[Len(seqs)]
  BY DEF FlattenSeq, Flats
<1> QED
  BY <1>1, <1>2, Zenon

\* The concatenations of a prefix are those of the sequence.
LEMMA FlatsAgree ==
  ASSUME NEW s, NEW t, Len(s) \in Nat, Len(t) \in Nat, NEW g, NEW h,
         Flats(s, g), Flats(t, h), Len(s) <= Len(t), \A i \in 1 .. Len(s) : s[i] = t[i]
  PROVE  \A i \in 1 .. Len(s) : g[i] = h[i]
<1> DEFINE m == Len(s)
           Same == {n \in Nat : n = 0 \/ n > m \/ g[n] = h[n]}
<1>1. 0 \in Same
  OBVIOUS
<1>2. ASSUME NEW n \in Nat, n \in Same PROVE n + 1 \in Same
  <2> SUFFICES ASSUME n + 1 <= m PROVE g[n + 1] = h[n + 1]
    OBVIOUS
  <2>1. n + 1 \in 1 .. Len(s) /\ n + 1 \in 1 .. Len(t) /\ n + 1 \in 1 .. m
        /\ (n + 1) - 1 = n /\ (n + 1 = 1 <=> n = 0)
    OBVIOUS
  <2>2. g[n + 1] = IF n + 1 = 1 THEN s[n + 1] ELSE g[(n + 1) - 1] \o s[n + 1]
    BY <2>1, Zenon DEF Flats
  <2>3. h[n + 1] = IF n + 1 = 1 THEN t[n + 1] ELSE h[(n + 1) - 1] \o t[n + 1]
    BY <2>1, Zenon DEF Flats
  <2>4. n # 0 => g[n] = h[n]
    BY <1>2
  <2> QED
    BY <2>1, <2>2, <2>3, <2>4, Zenon
<1>3. Nat \subseteq Same
  <2> HIDE DEF Same
  <2> QED
    BY <1>1, <1>2, NatInduct
<1> QED
  BY <1>3

LEMMA FlattenEmpty == FlattenSeq(<<>>) = <<>>
BY EmptySeq DEF FlattenSeq

\* One sequence more: it comes at the end.
LEMMA FlattenAppend ==
  ASSUME NEW S, NEW seqs \in Seq(Seq(S)), NEW x \in Seq(S)
  PROVE  FlattenSeq(Append(seqs, x)) = FlattenSeq(seqs) \o x
<1> DEFINE t == Append(seqs, x)
           n == Len(seqs)
<1>1. /\ t \in Seq(Seq(S)) /\ n \in Nat /\ Len(t) = n + 1 /\ t[n + 1] = x
      /\ \A i \in 1 .. n : seqs[i] = t[i]
  BY AppendProperties
<1> HIDE DEF t
<1>2. PICK h : Flats(t, h) /\ FlattenSeq(t) = h[n + 1]
  <2>1. Len(t) \in Nat \ {0}
    BY <1>1
  <2>2. \E h : Flats(t, h) /\ FlattenSeq(t) = h[Len(t)]
    BY <2>1, FlattenIs
  <2> QED
    BY <1>1, <2>2
<1>3. h[n + 1] = IF n + 1 = 1 THEN t[n + 1] ELSE h[(n + 1) - 1] \o t[n + 1]
  <2>1. n + 1 \in 1 .. Len(t)
    BY <1>1
  <2> QED
    BY <1>2, <2>1, Zenon DEF Flats
<1>4. CASE n = 0
  <2>1. seqs = <<>>
    BY <1>4, EmptySeq
  <2>2. FlattenSeq(seqs) \o x = x
    BY <2>1, FlattenEmpty, ConcatEmptySeq
  <2> QED
    BY <1>1, <1>2, <1>3, <1>4, <2>2 DEF t
<1>5. CASE n # 0
  <2>1. PICK g : Flats(seqs, g) /\ FlattenSeq(seqs) = g[n]
    BY <1>1, <1>5, FlattenIs
  <2>2. Len(t) \in Nat /\ Len(seqs) <= Len(t) /\ n \in 1 .. n
    BY <1>1, <1>5
  <2>3. \A i \in 1 .. n : g[i] = h[i]
    BY <1>1, <1>2, <2>1, <2>2, FlatsAgree
  <2>4. (n + 1) - 1 = n /\ n + 1 # 1
    BY <1>1, <1>5
  <2> QED
    BY <1>1, <1>2, <1>3, <2>1, <2>2, <2>3, <2>4 DEF t
<1> QED
  BY <1>4, <1>5

LEMMA FlattenMore ==
  ASSUME NEW S, NEW s \in Seq(Seq(S)), NEW t \in Seq(Seq(S)), Len(t) = Len(s) + 1,
         \A i \in 1 .. Len(s) : t[i] = s[i]
  PROVE  FlattenSeq(t) = FlattenSeq(s) \o t[Len(t)]
<1> DEFINE x == t[Len(t)]
<1>1. x \in Seq(S) /\ Len(s) \in Nat
  OBVIOUS
<1>2. t = Append(s, x)
  <2>1. /\ Append(s, x) \in Seq(Seq(S)) /\ Len(Append(s, x)) = Len(t)
        /\ \A i \in 1 .. Len(t) : t[i] = Append(s, x)[i]
    BY <1>1
  <2> HIDE DEF x
  <2> QED
    BY <2>1, SeqEqual
<1> HIDE DEF x
<1>3. FlattenSeq(t) = FlattenSeq(s) \o x
  BY <1>1, <1>2, FlattenAppend
<1> QED
  BY <1>3 DEF x

\* The concatenation of one sequence, and of two.
LEMMA FlattenOne ==
  ASSUME NEW S, NEW x \in Seq(S)
  PROVE  FlattenSeq(<<x>>) = x
<1>1. FlattenSeq(Append(<<>>, x)) = FlattenSeq(<<>>) \o x
  <2>1. <<>> \in Seq(Seq(S))
    OBVIOUS
  <2> QED
    BY <2>1, FlattenAppend
<1>2. Append(<<>>, x) = <<x>>
  OBVIOUS
<1>3. FlattenSeq(<<>>) \o x = x
  BY FlattenEmpty, ConcatEmptySeq
<1> QED
  BY <1>1, <1>2, <1>3

LEMMA FlattenTwo ==
  ASSUME NEW S, NEW x \in Seq(S), NEW y \in Seq(S)
  PROVE  FlattenSeq(<<x, y>>) = x \o y
<1>1. FlattenSeq(Append(<<x>>, y)) = FlattenSeq(<<x>>) \o y
  <2>1. <<x>> \in Seq(Seq(S))
    OBVIOUS
  <2> QED
    BY <2>1, FlattenAppend
<1>2. Append(<<x>>, y) = <<x, y>>
  <2> DEFINE T == {x, y}
             s == <<x>>
             t == Append(s, y)
  <2>1. s \in Seq(T) /\ Len(s) = 1 /\ s[1] = x /\ y \in T /\ <<x, y>> \in Seq(T)
        /\ Len(<<x, y>>) = 2 /\ <<x, y>>[1] = x /\ <<x, y>>[2] = y
    OBVIOUS
  <2> HIDE DEF T, s
  <2>2. t \in Seq(T) /\ Len(t) = 2 /\ t[1] = x /\ t[2] = y
    <3>1. s \in Seq(T) /\ y \in T
      BY <2>1
    <3>2. /\ t \in Seq(T) /\ Len(t) = Len(s) + 1 /\ t[Len(s) + 1] = y
          /\ \A i \in 1 .. Len(s) : t[i] = s[i]
      BY ONLY <3>1
    <3>3. Len(s) = 1 /\ s[1] = x
      BY <2>1
    <3> HIDE DEF t
    <3> QED
      BY ONLY <3>2, <3>3
  <2> HIDE DEF t
  <2>3. \A i \in 1 .. 2 : t[i] = <<x, y>>[i]
    <3>1. \A i \in 1 .. 2 : i = 1 \/ i = 2
      OBVIOUS
    <3> QED
      BY <2>1, <2>2, <3>1
  <2>4. t = <<x, y>>
    BY <2>1, <2>2, <2>3, SeqEqual
  <2> QED
    BY <2>4 DEF t, s
<1> QED
  BY <1>1, <1>2, FlattenOne

\* Induction over the prefixes of a sequence.
LEMMA FlattenType ==
  ASSUME NEW S, NEW seqs \in Seq(Seq(S))
  PROVE  FlattenSeq(seqs) \in Seq(S)
<1> DEFINE T == {n \in Nat : \A s \in Seq(Seq(S)) : Len(s) = n => FlattenSeq(s) \in Seq(S)}
<1>1. 0 \in T
  BY FlattenEmpty, EmptySeq
<1>2. ASSUME NEW n \in Nat, n \in T PROVE n + 1 \in T
  <2> SUFFICES ASSUME NEW s \in Seq(Seq(S)), Len(s) = n + 1 PROVE FlattenSeq(s) \in Seq(S)
    OBVIOUS
  <2> DEFINE r == SubSeq(s, 1, n)
             x == s[n + 1]
  <2>1. r \in Seq(Seq(S)) /\ Len(r) = n /\ x \in Seq(S) /\ s = Append(r, x)
    OBVIOUS
  <2>2. FlattenSeq(r) \in Seq(S)
    BY <1>2, <2>1
  <2> HIDE DEF r, x
  <2>3. FlattenSeq(s) = FlattenSeq(r) \o x
    BY <2>1, FlattenAppend
  <2> QED
    BY <2>1, <2>2, <2>3, ConcatProperties
<1>3. Nat \subseteq T
  <2> HIDE DEF T
  <2> QED
    BY <1>1, <1>2, NatInduct
<1> QED
  BY <1>3, LenProperties
=============================================================================
