---------------------------- MODULE ReduceProofs ----------------------------
(***************************************************************************)
(* Proofs about the reducer, for every command line, every program and      *)
(* whatever the oracle answers: its types, that what it writes is           *)
(* 1-minimal, and that it implements Shrink.                                *)
(***************************************************************************)
EXTENDS Reduce, FiniteSetTheorems, SequenceTheorems, WellFoundedInduction, TLAPS

-----------------------------------------------------------------------------
(* Recursion over an index.                                                 *)

\* A nonempty set of numbers has a least one.
LEMMA LeastNat ==
    ASSUME NEW S \in SUBSET Nat, S # {}
    PROVE  \E m \in S : \A k \in S : m <= k
  <1>1. PICK m \in S : \A k \in S : ~(<<k, m>> \in OpToRel(<, Nat))
    BY NatLessThanWellFounded, WFMin
  <1>2. \A k \in S : ~(k < m)
    BY <1>1 DEF OpToRel
  <1> QED BY <1>2

\* What is computed from its predecessor, step by step.
Iterated(f, a, g, N) == \A k \in 0 .. N : f[k] = IF k = 0 THEN a ELSE g[<<f[k - 1], k>>]

LEMMA IterateExists ==
    ASSUME NEW S, NEW N \in Nat, NEW a \in S, NEW g \in [S \X (1 .. N) -> S]
    PROVE  \E f \in [0 .. N -> S] : Iterated(f, a, g, N)
  <1> USE DEF Iterated
  <1> DEFINE Is(m, f) == Iterated(f, a, g, m)
             Bad == {m \in 0 .. N : ~ \E f \in [0 .. m -> S] : Is(m, f)}
  <1>1. SUFFICES ASSUME Bad # {} PROVE FALSE
    OBVIOUS
  <1>2. PICK m \in Bad : \A k \in Bad : m <= k
    <2>1. Bad \in SUBSET Nat
      OBVIOUS
    <2> HIDE DEF Bad
    <2> QED BY <1>1, <2>1, LeastNat
  <1>3. CASE m = 0
    <2> DEFINE f == [c \in 0 .. 0 |-> a]
    <2>1. f \in [0 .. 0 -> S] /\ Is(0, f)
      OBVIOUS
    <2> QED BY <1>2, <1>3, <2>1
  <1>4. CASE m # 0
    <2>0. m \in Nat /\ m \in 1 .. N /\ m - 1 \in 0 .. N
      BY <1>2, <1>4
    <2>1. m - 1 \notin Bad
      <3> HIDE DEF Bad
      <3> QED BY <1>2, <2>0
    <2>2. PICK h \in [0 .. (m - 1) -> S] : Is(m - 1, h)
      BY <2>0, <2>1
    <2> DEFINE x == g[<<h[m - 1], m>>]
               f == [c \in 0 .. m |-> IF c = m THEN x ELSE h[c]]
    <2>3. x \in S
      BY <2>0, <2>2
    <2> HIDE DEF x
    <2>4. f \in [0 .. m -> S]
      BY <2>0, <2>2, <2>3
    <2>5. ASSUME NEW c \in 0 .. m
          PROVE  f[c] = IF c = 0 THEN a ELSE g[<<f[c - 1], c>>]
      <3>1. CASE c = m
        <4>1. f[m - 1] = h[m - 1] /\ f[m] = x
          BY <2>0
        <4> HIDE DEF f
        <4> QED BY <1>4, <3>1, <4>1 DEF x
      <3>2. CASE c # m
        <4>1. c \in 0 .. (m - 1) /\ f[c] = h[c] /\ (c # 0 => f[c - 1] = h[c - 1])
          BY <2>0, <3>2
        <4>2. h[c] = IF c = 0 THEN a ELSE g[<<h[c - 1], c>>]
          BY <2>2, <4>1
        <4> HIDE DEF f
        <4> QED BY <4>1, <4>2
      <3> QED BY <3>1, <3>2
    <2> HIDE DEF f
    <2>6. Is(m, f)
      BY <2>5
    <2> HIDE DEF Is
    <2> QED BY <1>2, <2>4, <2>6
  <1> QED BY <1>3, <1>4

\* It stays in the set the steps stay in.
LEMMA IterateTyped ==
    ASSUME NEW S, NEW N \in Nat, NEW a \in S, NEW g \in [S \X (1 .. N) -> S], NEW f, Iterated(f, a, g, N),
           NEW k \in 0 .. N
    PROVE  f[k] \in S
  <1> DEFINE Bad == {m \in 0 .. N : f[m] \notin S}
  <1>1. SUFFICES ASSUME Bad # {} PROVE FALSE
    OBVIOUS
  <1>2. PICK m \in Bad : \A j \in Bad : m <= j
    <2>1. Bad \in SUBSET Nat
      OBVIOUS
    <2> HIDE DEF Bad
    <2> QED BY <1>1, <2>1, LeastNat
  <1>3. m # 0
    BY <1>2 DEF Iterated
  <1>4. m - 1 \in 0 .. N /\ m - 1 \notin Bad
    BY <1>2, <1>3
  <1>5. f[m - 1] \in S /\ f[m] = g[<<f[m - 1], m>>]
    BY <1>2, <1>3, <1>4 DEF Iterated
  <1> QED BY <1>2, <1>3, <1>5

-----------------------------------------------------------------------------
(* Flattening a sequence of sequences.                                      *)

LEMMA Flattened ==
    ASSUME NEW S, NEW ss \in Seq(Seq(S))
    PROVE  FlattenSeq(ss) \in Seq(S)
  <1>0. Len(ss) \in Nat /\ ss \in [1 .. Len(ss) -> Seq(S)]
    OBVIOUS
  <1>1. CASE Len(ss) = 0
    <2>1. ss = <<>>
      BY <1>1
    <2> QED BY <1>1, <2>1 DEF FlattenSeq
  <1>2. CASE Len(ss) # 0
    <2> DEFINE N == Len(ss)
               Flat(f) == f = [i \in 1 .. N |-> IF i = 1 THEN ss[i] ELSE f[i - 1] \o ss[i]]
               flat == CHOOSE f : Flat(f)
               Join(s, i) == s \o ss[i]
               g == [q \in Seq(S) \X (1 .. N) |-> Join(q[1], q[2])]
    <2>1. FlattenSeq(ss) = flat[N]
      BY <1>2 DEF FlattenSeq
    <2>2. N \in Nat /\ N >= 1
      BY <1>0, <1>2
    <2>3. g \in [Seq(S) \X (1 .. N) -> Seq(S)]
      <3> SUFFICES ASSUME NEW q \in Seq(S) \X (1 .. N) PROVE Join(q[1], q[2]) \in Seq(S)
        OBVIOUS
      <3>1. q[1] \in Seq(S) /\ ss[q[2]] \in Seq(S)
        BY <1>0
      <3> HIDE DEF N
      <3> QED BY <3>1, ConcatProperties
    <2>4. PICK e \in Seq(S) : e = <<>>
      <3>1. <<>> \in Seq(S)
        BY EmptySeq
      <3> QED BY <3>1
    <2>5. \A s \in Seq(S), i \in 1 .. N : g[<<s, i>>] = Join(s, i)
      <3> HIDE DEF Join
      <3> QED OBVIOUS
    <2>a. \A i \in 1 .. N : Join(e, i) = ss[i]
      <3> SUFFICES ASSUME NEW i \in 1 .. N PROVE <<>> \o ss[i] = ss[i]
        BY <2>4
      <3>1. ss[i] \in Seq(S)
        BY <1>0
      <3> QED BY <3>1, ConcatEmptySeq
    <2>b. \A s \in Seq(S), i \in 1 .. N : Join(s, i) \in Seq(S)
      <3> SUFFICES ASSUME NEW s \in Seq(S), NEW i \in 1 .. N PROVE s \o ss[i] \in Seq(S)
        OBVIOUS
      <3>1. ss[i] \in Seq(S)
        BY <1>0
      <3> QED BY <3>1, ConcatProperties
    <2>c. \A f : Flat(f) <=> f = [i \in 1 .. N |-> IF i = 1 THEN ss[i] ELSE Join(f[i - 1], i)]
      OBVIOUS
    <2>d. \A i \in 1 .. N : ss[i] \in Seq(S)
      BY <1>0
    <2> HIDE DEF N, g, Join, Flat
    <2>6. PICK h \in [0 .. N -> Seq(S)] : Iterated(h, e, g, N)
      BY <2>2, <2>3, <2>4, IterateExists
    <2>7. \A i \in 1 .. N : h[i] = Join(h[i - 1], i)
      <3> SUFFICES ASSUME NEW i \in 1 .. N PROVE h[i] = Join(h[i - 1], i)
        OBVIOUS
      <3>1. i \in 0 .. N /\ i # 0 /\ i - 1 \in 0 .. N
        BY <2>2
      <3>2. h[i] = g[<<h[i - 1], i>>]
        BY <2>6, <3>1 DEF Iterated
      <3> QED BY <2>5, <3>1, <3>2
    <2>8. h[1] = ss[1]
      <3>1. h[0] = e
        <4>1. 0 \in 0 .. N
          BY <2>2
        <4> QED BY <2>6, <4>1 DEF Iterated
      <3> QED BY <2>2, <2>7, <2>a, <3>1
    <2>9. Flat([i \in 1 .. N |-> h[i]])
      <3> DEFINE f == [i \in 1 .. N |-> h[i]]
      <3>1. ASSUME NEW i \in 1 .. N PROVE h[i] = IF i = 1 THEN ss[i] ELSE Join(f[i - 1], i)
        <4>1. CASE i = 1
          BY <2>8, <4>1
        <4>2. CASE i # 1
          <5>1. f[i - 1] = h[i - 1]
            BY <2>2, <4>2
          <5> HIDE DEF f
          <5> QED BY <2>7, <4>2, <5>1
        <4> QED BY <4>1, <4>2
      <3>2. f = [i \in 1 .. N |-> IF i = 1 THEN ss[i] ELSE Join(f[i - 1], i)]
        BY <3>1
      <3> HIDE DEF f
      <3>3. Flat(f)
        BY <2>c, <3>2
      <3> QED BY <3>3 DEF f
    <2>10. Flat(flat)
      BY <2>9
    <2> HIDE DEF flat
    <2>11. \A i \in 1 .. N : flat[i] \in Seq(S)
      <3> DEFINE Bad == {i \in 1 .. N : flat[i] \notin Seq(S)}
      <3>1. SUFFICES ASSUME Bad # {} PROVE FALSE
        OBVIOUS
      <3>2. PICK m \in Bad : \A j \in Bad : m <= j
        <4>1. Bad \in SUBSET Nat
          BY <2>2
        <4> HIDE DEF Bad
        <4> QED BY <3>1, <4>1, LeastNat
      <3>3. ss[m] \in Seq(S) /\ m \in 1 .. N
        BY <2>d, <3>2
      <3>4. flat[m] = IF m = 1 THEN ss[m] ELSE Join(flat[m - 1], m)
        BY <2>10, <2>c, <3>3
      <3>5. m # 1
        BY <3>2, <3>3, <3>4
      <3>6. m - 1 \in 1 .. N /\ m - 1 \notin Bad
        BY <2>2, <3>2, <3>3, <3>5
      <3>7. flat[m - 1] \in Seq(S)
        BY <3>6
      <3> QED BY <3>2, <3>3, <3>4, <3>5, <3>7, <2>b
    <2> QED BY <2>1, <2>2, <2>11
  <1> QED BY <1>1, <1>2

-----------------------------------------------------------------------------
(* Deletion.                                                                *)

LEMMA Counted ==
    ASSUME NEW N \in Nat, NEW kept \in SUBSET (1 .. N)
    PROVE  /\ IsFiniteSet(kept) /\ Cardinality(kept) \in 0 .. N
           /\ Cardinality(kept) = N => kept = 1 .. N
           /\ \A i : Position(kept, i) \in Nat /\ Position(kept, i) <= Cardinality(kept)
  <1>1. IsFiniteSet(1 .. N) /\ Cardinality(1 .. N) = N
    BY FS_Interval
  <1>2. IsFiniteSet(kept) /\ Cardinality(kept) <= N /\ (Cardinality(kept) = N => kept = 1 .. N)
    BY <1>1, FS_Subset
  <1>3. Cardinality(kept) \in Nat
    BY <1>2, FS_CardinalityType
  <1>4. ASSUME NEW i PROVE Position(kept, i) \in Nat /\ Position(kept, i) <= Cardinality(kept)
    <2> DEFINE T == {j \in kept : j <= i}
    <2>1. T \in SUBSET kept
      OBVIOUS
    <2>2. IsFiniteSet(T) /\ Cardinality(T) <= Cardinality(kept)
      BY <1>2, <2>1, FS_Subset
    <2>3. Cardinality(T) \in Nat
      BY <2>2, FS_CardinalityType
    <2> QED BY <2>2, <2>3 DEF Position
  <1> QED BY <1>2, <1>3, <1>4

\* Every index up to the number of instructions kept is that of one of them.
LEMMA KeptAt ==
    ASSUME NEW N \in Nat, NEW kept \in SUBSET (1 .. N), NEW k \in 1 .. Cardinality(kept)
    PROVE  Kept(kept, k) \in kept /\ Position(kept, Kept(kept, k)) = k
  <1>0. IsFiniteSet(kept) /\ Cardinality(kept) \in Nat /\ \A i : Position(kept, i) \in Nat
    BY Counted
  <1>1. SUFFICES \E i \in kept : Position(kept, i) = k
    BY DEF Kept
  <1>a. \A j \in kept : j \in Nat /\ 1 <= j /\ j <= N
    OBVIOUS
  <1> DEFINE Below(i) == {j \in kept : j <= i}
             S == {m \in Nat : Position(kept, m) >= k}
  <1>2. N \in S
    <2>1. Below(N) = kept
      BY <1>a
    <2>2. Position(kept, N) = Cardinality(kept)
      BY <2>1 DEF Position
    <2> QED BY <1>0, <2>2
  <1>3. PICK m \in S : \A l \in S : m <= l
    <2>1. S \in SUBSET Nat /\ S # {}
      BY <1>2
    <2> HIDE DEF S
    <2> QED BY <2>1, LeastNat
  <1>4. m # 0
    <2>1. Below(0) = {}
      <3> SUFFICES ASSUME NEW j \in kept, j <= 0 PROVE FALSE
        OBVIOUS
      <3> QED BY <1>a
    <2>2. Position(kept, 0) = 0
      BY <2>1, FS_EmptySet DEF Position
    <2> QED BY <1>0, <1>3, <2>2
  <1>5. m - 1 \in Nat /\ m \in Nat /\ Position(kept, m - 1) < k
    <2>1. m \in Nat /\ m - 1 \in Nat
      BY <1>3, <1>4
    <2>2. m - 1 \notin S
      <3> HIDE DEF S
      <3> QED BY <1>3, <2>1
    <2> QED BY <1>0, <2>1, <2>2
  <1>6. m \in kept
    <2> SUFFICES ASSUME m \notin kept PROVE FALSE
      OBVIOUS
    <2>1. Below(m) = Below(m - 1)
      <3> SUFFICES ASSUME NEW j \in kept PROVE j <= m <=> j <= m - 1
        OBVIOUS
      <3>1. j \in Nat /\ j # m
        BY <1>a
      <3> QED BY <1>5, <3>1
    <2>2. Position(kept, m) = Position(kept, m - 1)
      BY <2>1 DEF Position
    <2> QED BY <1>0, <1>3, <1>5, <2>2
  <1>7. Position(kept, m) = Position(kept, m - 1) + 1
    <2>a. \A j \in kept : j <= m <=> j <= m - 1 \/ j = m
      BY <1>5, <1>a
    <2>b. ~(m <= m - 1) /\ m <= m
      BY <1>5
    <2>1. Below(m) = Below(m - 1) \cup {m} /\ m \notin Below(m - 1)
      BY <1>6, <2>a, <2>b
    <2>2. IsFiniteSet(Below(m - 1))
      BY <1>0, FS_Subset
    <2> HIDE DEF Below
    <2>3. Cardinality(Below(m)) = Cardinality(Below(m - 1)) + 1
      BY <2>1, <2>2, FS_AddElement
    <2> QED BY <2>3 DEF Position, Below
  <1>8. Position(kept, m) = k
    BY <1>0, <1>3, <1>5, <1>7
  <1> QED BY <1>6, <1>8

\* Where everything is kept, every instruction keeps its place.
LEMMA AllKept ==
    ASSUME NEW N \in Nat, NEW i \in 1 .. N
    PROVE  Position(1 .. N, i) = i
  <1>1. {j \in 1 .. N : j <= i} = 1 .. i
    OBVIOUS
  <1>2. Cardinality(1 .. i) = i
    BY FS_Interval
  <1> QED BY <1>1, <1>2 DEF Position

LEMMA ProgramFacts ==
    ASSUME NEW p \in Programs
    PROVE  /\ Len(p) \in Nat /\ DOMAIN p = 1 .. Len(p)
           /\ \A pc \in DOMAIN p : p[pc] \in Insns
           /\ p # None <=> Len(p) > 0
           /\ None \in Programs
  BY DEF Programs, None

\* A deletion yields a program with as many instructions as it keeps, or
\* nothing.
LEMMA Deleted ==
    ASSUME NEW p \in Programs, NEW R
    PROVE  /\ delete_insns(p, R) \in Programs
           /\ delete_insns(p, R) # None => Len(delete_insns(p, R)) = Cardinality(DOMAIN p \ R)
  <1> DEFINE kept == DOMAIN p \ R
             N == Cardinality(kept)
             old(k) == Kept(kept, k)
             new(k) == IF Based(p[old(k)])
                       THEN [p[old(k)] EXCEPT !.off = Position(kept, Target(p, old(k))) - k - 1]
                       ELSE p[old(k)]
             d == [k \in 1 .. N |-> new(k)]
  <1>1. delete_insns(p, R) = None \/ delete_insns(p, R) = d
    BY DEF delete_insns
  <1>2. kept \in SUBSET (1 .. Len(p)) /\ Len(p) \in Nat
    BY ProgramFacts
  <1>3. N \in Nat /\ \A i : Position(kept, i) \in Nat
    <2> HIDE DEF kept
    <2> QED BY <1>2, Counted
  <1>4. ASSUME NEW k \in 1 .. N PROVE new(k) \in Insns
    <2>1. old(k) \in kept
      <3> HIDE DEF kept
      <3> QED BY <1>2, KeptAt
    <2>2. p[old(k)] \in Insns
      BY <2>1, ProgramFacts
    <2> DEFINE o == Position(kept, Target(p, old(k))) - k - 1
               i == p[old(k)]
    <2>3. o \in Int
      BY <1>3
    <2> HIDE DEF o, i
    <2>4. i \in Insns => [i EXCEPT !.off = o] \in Insns
      BY <2>3 DEF Insns
    <2> QED BY <2>2, <2>4 DEF i, o
  <1> HIDE DEF new, N
  <1>5. d \in Programs /\ Len(d) = N
    BY <1>3, <1>4 DEF Programs
  <1> HIDE DEF d
  <1> QED BY <1>1, <1>5, ProgramFacts DEF N

\* What a pass may propose instead of p: nothing, p, or something lighter.
Candidates(p) == {c \in Programs : c = None \/ c = p \/ Lighter(c, p)}

LEMMA DeletedLighter ==
    ASSUME NEW p \in Programs, NEW R, R \cap DOMAIN p # {}
    PROVE  /\ delete_insns(p, R) \in Candidates(p)
           /\ delete_insns(p, R) # None => Len(delete_insns(p, R)) < Len(p)
  <1> DEFINE kept == DOMAIN p \ R
             d == delete_insns(p, R)
  <1>1. Len(p) \in Nat /\ DOMAIN p = 1 .. Len(p) /\ d \in Programs
    BY ProgramFacts, Deleted
  <1>2. kept \in SUBSET (1 .. Len(p)) /\ kept # 1 .. Len(p)
    BY <1>1
  <1>3. Cardinality(kept) < Len(p)
    <2> HIDE DEF kept
    <2> QED BY <1>1, <1>2, Counted
  <1>4. d # None => Len(d) = Cardinality(kept)
    BY Deleted
  <1> HIDE DEF d, kept
  <1> QED BY <1>1, <1>3, <1>4 DEF Candidates, Lighter, d

-----------------------------------------------------------------------------
(* What the passes propose is lighter.                                      *)

LEMMA BurdenAt ==
    ASSUME NEW i
    PROVE  /\ Burden(i)[1] = IF Conditional(i) THEN 1 ELSE 0
           /\ Burden(i)[2] = IF x_form_source(i) THEN 1 ELSE 0
           /\ Burden(i)[3] = i.dst + i.src
           /\ Burden(i)[4] = Magnitude(i.imm)
           /\ Burden(i)[5] = IF stack_offset(i) THEN Magnitude(i.off) ELSE 0
  BY DEF Burden

LEMMA LowerAt ==
    ASSUME NEW i, NEW j, NEW k \in 1 .. 5, Burden(i)[k] < Burden(j)[k],
           k > 1 => Burden(i)[1] = Burden(j)[1], k > 2 => Burden(i)[2] = Burden(j)[2],
           k > 3 => Burden(i)[3] = Burden(j)[3], k > 4 => Burden(i)[4] = Burden(j)[4]
    PROVE  Lower(i, j)
  <1>1. ASSUME NEW m \in 1 .. k - 1 PROVE Burden(i)[m] = Burden(j)[m]
    <2>1. m = 1 \/ m = 2 \/ m = 3 \/ m = 4
      OBVIOUS
    <2> QED BY <2>1
  <1> QED BY <1>1 DEF Lower

LEMMA PatchLighter ==
    ASSUME NEW p \in Programs, NEW pc \in DOMAIN p, NEW i \in Insns, i = p[pc] \/ Lower(i, p[pc])
    PROVE  [p EXCEPT ![pc] = i] \in Candidates(p)
  <1> DEFINE c == [p EXCEPT ![pc] = i]
  <1>1. Len(p) \in Nat /\ DOMAIN p = 1 .. Len(p)
    BY ProgramFacts
  <1>2. c \in Programs /\ Len(c) = Len(p)
    BY <1>1, ExceptSeq DEF Programs
  <1>3. DOMAIN c = DOMAIN p
    OBVIOUS
  <1>4. \A k \in DOMAIN c : c[k] = p[k] \/ Lower(c[k], p[k])
    <2> SUFFICES ASSUME NEW k \in DOMAIN p PROVE c[k] = p[k] \/ Lower(c[k], p[k])
      BY <1>3
    <2>1. CASE k = pc
      <3>1. c[k] = i
        BY <2>1
      <3> HIDE DEF c
      <3> QED BY <2>1, <3>1
    <2>2. CASE k # pc
      <3>1. c[k] = p[k]
        BY <2>2
      <3> HIDE DEF c
      <3> QED BY <3>1
    <2> QED BY <2>1, <2>2
  <1> HIDE DEF c
  <1>5. c = p \/ Lighter(c, p)
    BY <1>2, <1>4 DEF Lighter
  <1>6. c \in Candidates(p)
    BY <1>2, <1>5 DEF Candidates
  <1> QED BY <1>6 DEF c

LEMMA WithoutLighter ==
    ASSUME NEW p \in Programs, NEW R \in SUBSET DOMAIN p
    PROVE  /\ Without(p, R) \in Candidates(p)
           /\ Without(p, R) # None => Len(Without(p, R)) < Len(p)
  <1>1. CASE R = {}
    BY <1>1, ProgramFacts DEF Without, Candidates
  <1>2. CASE R # {}
    <2>1. R \cap DOMAIN p # {}
      BY <1>2
    <2>2. Without(p, R) = delete_insns(p, R)
      BY <1>2 DEF Without
    <2> QED BY <2>1, <2>2, DeletedLighter
  <1> QED BY <1>1, <1>2

LEMMA DeadCodeLighter ==
    ASSUME NEW p \in Programs
    PROVE  dead_code(p) \in Candidates(p) /\ (dead_code(p) # None => Len(dead_code(p)) < Len(p))
  <1> DEFINE R == DOMAIN p \ reachable(p, <<0, 0>>)
  <1>1. R \in SUBSET DOMAIN p /\ dead_code(p) = Without(p, R)
    BY DEF dead_code
  <1> HIDE DEF R
  <1> QED BY <1>1, WithoutLighter

LEMMA SliceLighter ==
    ASSUME NEW p \in Programs, NEW anchor
    PROVE  /\ slice_to_anchor(p, anchor) \in Candidates(p)
           /\ slice_to_anchor(p, anchor) # None => Len(slice_to_anchor(p, anchor)) < Len(p)
  <1> DEFINE R == {pc \in DOMAIN p \ backward_reachable(p, anchor) : p[pc].op # "exit"}
  <1>1. R \in SUBSET DOMAIN p /\ (slice_to_anchor(p, anchor) = None \/ slice_to_anchor(p, anchor) = Without(p, R))
    BY DEF slice_to_anchor
  <1>2. None \in Candidates(p)
    BY ProgramFacts DEF Candidates
  <1> HIDE DEF R
  <1> QED BY <1>1, <1>2, WithoutLighter

LEMMA DeadSidesLighter ==
    ASSUME NEW p \in Programs, NEW pc \in DOMAIN p
    PROVE  DeadSides(p, pc) \in Seq(Candidates(p))
  <1> DEFINE i == [op |-> "ja", dst |-> 0, src |-> 0, imm |-> 0, off |-> p[pc].off]
             j == [p EXCEPT ![pc] = i]
             d == delete_insns(p, {pc})
             A == IF pc + 1 \in DOMAIN p /\ pc + 1 \notin reachable(p, <<pc, pc + 1>>) THEN <<j>> ELSE <<>>
             B == IF Target(p, pc) \notin reachable(p, <<pc, Target(p, pc)>>) THEN <<d>> ELSE <<>>
  <1>1. d \in Candidates(p)
    BY DeletedLighter
  <1>2. CASE ~(Conditional(p[pc]) /\ Based(p[pc]) /\ Target(p, pc) \in DOMAIN p)
    BY <1>2 DEF DeadSides
  <1>3. CASE Conditional(p[pc]) /\ Based(p[pc]) /\ Target(p, pc) \in DOMAIN p
    <2>1. DeadSides(p, pc) = A \o B
      BY <1>3 DEF DeadSides
    <2>2. p[pc] \in Insns
      BY ProgramFacts
    <2>3. i \in Insns /\ ~Conditional(i)
      BY <2>2 DEF Insns, Ops, Conditional
    <2> HIDE DEF i
    <2>4. Lower(i, p[pc])
      BY <1>3, <2>3, BurdenAt, LowerAt
    <2>5. j \in Candidates(p)
      BY <2>3, <2>4, PatchLighter
    <2> HIDE DEF j, d
    <2>6. A \in Seq(Candidates(p)) /\ B \in Seq(Candidates(p))
      BY <1>1, <2>5
    <2> HIDE DEF A, B
    <2> QED BY <2>1, <2>6, ConcatProperties
  <1> QED BY <1>2, <1>3

LEMMA CfgLighter ==
    ASSUME NEW p \in Programs, NEW anchor
    PROVE  cfg_candidates(p, anchor) \in Seq(Candidates(p))
  <1> DEFINE a == dead_code(p)
             b == slice_to_anchor(p, anchor)
             c == IF a = None THEN None ELSE slice_to_anchor(a, anchor)
             S == Candidates(p)
             D(pc) == DeadSides(p, pc)
             ss == [pc \in DOMAIN p |-> D(pc)]
  <1>1. a \in S /\ b \in S
    BY DeadCodeLighter, SliceLighter
  <1>2. c \in S
    <2>1. CASE a = None
      BY <2>1, ProgramFacts DEF Candidates
    <2>2. CASE a # None
      <3>1. a \in Programs /\ Len(a) < Len(p)
        BY <1>1, <2>2, DeadCodeLighter DEF Candidates
      <3>2. c \in Programs /\ (c # None => Len(c) < Len(a))
        BY <2>2, <3>1, SliceLighter DEF Candidates
      <3> HIDE DEF a, c
      <3>3. c # None => Len(c) < Len(p)
        BY <3>1, <3>2, ProgramFacts
      <3> QED BY <3>2, <3>3 DEF Candidates, Lighter
    <2> QED BY <2>1, <2>2
  <1>3. FlattenSeq(ss) \in Seq(S)
    <2>1. \A pc \in DOMAIN p : D(pc) \in Seq(S)
      BY DeadSidesLighter
    <2>2. DOMAIN p = 1 .. Len(p) /\ Len(p) \in Nat
      BY ProgramFacts
    <2> HIDE DEF D, S
    <2>3. ss \in Seq(Seq(S))
      BY <2>1, <2>2
    <2> HIDE DEF ss
    <2> QED BY <2>3, Flattened
  <1>4. cfg_candidates(p, anchor) = <<a, b, c>> \o FlattenSeq(ss)
    BY DEF cfg_candidates, simplify_dead_side
  <1> HIDE DEF a, b, c, S, ss
  <1>5. <<a, b, c>> \in Seq(S)
    BY <1>1, <1>2
  <1>6. <<a, b, c>> \o FlattenSeq(ss) \in Seq(S)
    BY <1>3, <1>5, ConcatProperties
  <1> QED BY <1>4, <1>6 DEF S

LEMMA ImmediatesLighter ==
    ASSUME NEW p \in Programs, NEW pc \in DOMAIN p
    PROVE  Immediates(p, pc) \in Seq(Candidates(p))
  <1> DEFINE v(m) == VALUE_POOL[m]
             x(m) == IF Magnitude(v(m)) < Magnitude(p[pc].imm)
                     THEN Patch(p, pc, [p[pc] EXCEPT !.imm = v(m)]) ELSE None
  <1>1. ASSUME NEW m \in 1 .. 5 PROVE x(m) \in Candidates(p)
    <2>1. CASE Magnitude(v(m)) < Magnitude(p[pc].imm)
      <3> DEFINE i == [p[pc] EXCEPT !.imm = v(m)]
      <3>1. v(m) \in Int
        BY ImmAssumption DEF VALUE_POOL
      <3>2. p[pc] \in Insns
        BY ProgramFacts
      <3> HIDE DEF v
      <3>3. /\ i \in Insns /\ i.imm = v(m)
            /\ i.op = p[pc].op /\ i.dst = p[pc].dst /\ i.src = p[pc].src
        BY <3>1, <3>2 DEF Insns
      <3> HIDE DEF i
      <3>4. (Conditional(i) <=> Conditional(p[pc])) /\ (x_form_source(i) <=> x_form_source(p[pc]))
        BY <3>3 DEF Conditional, x_form_source
      <3>5. Burden(i)[1] = Burden(p[pc])[1] /\ Burden(i)[2] = Burden(p[pc])[2]
        BY <3>4, BurdenAt
      <3>6. Burden(i)[3] = Burden(p[pc])[3] /\ Burden(i)[4] < Burden(p[pc])[4]
        BY <2>1, <3>3, BurdenAt
      <3>7. Lower(i, p[pc])
        BY <3>5, <3>6, LowerAt
      <3>8. [p EXCEPT ![pc] = i] \in Candidates(p)
        BY <3>3, <3>7, PatchLighter
      <3> QED BY <2>1, <3>8 DEF i, Patch
    <2>2. CASE ~(Magnitude(v(m)) < Magnitude(p[pc].imm))
      BY <2>2, ProgramFacts DEF Candidates
    <2> QED BY <2>1, <2>2
  <1>2. Immediates(p, pc) = <<>> \/ Immediates(p, pc) = [m \in 1 .. 5 |-> x(m)]
    BY DEF Immediates
  <1> HIDE DEF x
  <1>3. [m \in 1 .. 5 |-> x(m)] \in Seq(Candidates(p)) /\ <<>> \in Seq(Candidates(p))
    BY <1>1
  <1> QED BY <1>2, <1>3

\* The constants that operand_candidates knows are constants.
LEMMA KnownTyped ==
    ASSUME NEW p \in Programs, NEW pc \in DOMAIN p
    PROVE  Known(p, pc) \in [0 .. 10 -> SUBSET Int]
  <1> DEFINE T == [0 .. 10 -> SUBSET Int]
             z == [r \in 0 .. 10 |-> {}]
             A(k, m) == apply_def(k, p[m])
             Is(f) == f = [m \in 0 .. pc |-> IF m = 0 THEN z ELSE A(f[m - 1], m)]
             K == CHOOSE f : Is(f)
             g == [q \in T \X (1 .. pc) |-> A(q[1], q[2])]
  <1>1. Known(p, pc) = K[pc - 1]
    BY DEF Known
  <1>2. pc \in Nat /\ pc >= 1 /\ pc <= Len(p) /\ Len(p) \in Nat /\ DOMAIN p = 1 .. Len(p)
    BY ProgramFacts
  <1>3. z \in T
    OBVIOUS
  <1>4. ASSUME NEW k \in T, NEW m \in 1 .. pc PROVE A(k, m) \in T
    <2>1. p[m] \in Insns
      BY <1>2, ProgramFacts
    <2> DEFINE i == p[m]
    <2>2. i.dst \in 0 .. 10 /\ i.src \in 0 .. 10 /\ i.imm \in Int
      BY <2>1 DEF Insns
    <2> HIDE DEF i
    <2>3. apply_def(k, i) \in T
      BY <2>2 DEF apply_def
    <2> QED BY <2>3 DEF i
  <1> HIDE DEF T, z, A
  <1>5. g \in [T \X (1 .. pc) -> T]
    BY <1>4
  <1>6. \A k \in T, m \in 1 .. pc : g[<<k, m>>] = A(k, m)
    OBVIOUS
  <1> HIDE DEF g
  <1>7. PICK f \in [0 .. pc -> T] : Iterated(f, z, g, pc)
    BY <1>2, <1>3, <1>5, IterateExists
  <1>8. Is(f)
    <2> SUFFICES ASSUME NEW m \in 0 .. pc PROVE f[m] = IF m = 0 THEN z ELSE A(f[m - 1], m)
      OBVIOUS
    <2>1. m # 0 => m \in 1 .. pc /\ m - 1 \in 0 .. pc
      BY <1>2
    <2> QED BY <1>6, <1>7, <2>1 DEF Iterated
  <1>9. Is(K)
    BY <1>8
  <1> HIDE DEF K
  <1>10. \A m \in 0 .. pc : K[m] \in T
    <2> DEFINE Bad == {m \in 0 .. pc : K[m] \notin T}
    <2>1. SUFFICES ASSUME Bad # {} PROVE FALSE
      OBVIOUS
    <2>2. PICK m \in Bad : \A j \in Bad : m <= j
      <3>1. Bad \in SUBSET Nat
        BY <1>2
      <3> HIDE DEF Bad
      <3> QED BY <2>1, <3>1, LeastNat
    <2>3. m \in 0 .. pc /\ K[m] = IF m = 0 THEN z ELSE A(K[m - 1], m)
      BY <1>9, <2>2
    <2>4. m # 0
      BY <1>3, <2>2, <2>3
    <2>5. m - 1 \in 0 .. pc /\ m - 1 \notin Bad /\ m \in 1 .. pc
      BY <1>2, <2>2, <2>3, <2>4
    <2> QED BY <1>4, <2>2, <2>3, <2>4, <2>5
  <1>11. pc - 1 \in 0 .. pc
    BY <1>2
  <1>12. Known(p, pc) \in T
    BY ONLY <1>1, <1>10, <1>11
  <1> QED BY ONLY <1>12 DEF T

LEMMA AluFormsLighter ==
    ASSUME NEW p \in Programs, NEW pc \in DOMAIN p
    PROVE  AluForms(p, pc) \in Seq(Candidates(p))
  <1>1. CASE ~x_form_source(p[pc]) \/ Known(p, pc)[p[pc].src] = {}
    BY <1>1 DEF AluForms
  <1>2. CASE x_form_source(p[pc]) /\ Known(p, pc)[p[pc].src] # {}
    <2> DEFINE v == CHOOSE v \in Known(p, pc)[p[pc].src] : TRUE
               o == KForm[p[pc].op]
               i == [p[pc] EXCEPT !.op = o, !.src = 0, !.imm = v]
    <2>1. p[pc] \in Insns
      BY ProgramFacts
    <2>2. v \in Int
      <3>1. p[pc].src \in 0 .. 10
        BY <2>1 DEF Insns
      <3>2. Known(p, pc)[p[pc].src] \in SUBSET Int
        BY <3>1, KnownTyped
      <3> QED BY <1>2, <3>2
    <2>3. o \in {"movimm", "addimm"}
      BY <1>2 DEF x_form_source, KForm
    <2>4. AluForms(p, pc) = <<[p EXCEPT ![pc] = i]>>
      BY <1>2 DEF AluForms, Patch
    <2> HIDE DEF v, o
    <2>5. i = [op |-> o, dst |-> p[pc].dst, src |-> 0, imm |-> v, off |-> p[pc].off]
      <3> DEFINE q == p[pc]
                 h == [q EXCEPT !.op = o]
                 l == [h EXCEPT !.src = 0]
      <3>1. i = [l EXCEPT !.imm = v]
        OBVIOUS
      <3>2. q \in Insns
        BY <2>1
      <3> HIDE DEF q, i
      <3>3. h = [op |-> o, dst |-> q.dst, src |-> q.src, imm |-> q.imm, off |-> q.off]
        BY <3>2 DEF Insns
      <3> HIDE DEF h
      <3>4. l = [op |-> o, dst |-> q.dst, src |-> 0, imm |-> q.imm, off |-> q.off]
        BY <3>3
      <3> HIDE DEF l
      <3> QED BY <3>1, <3>4 DEF q
    <2> HIDE DEF i
    <2>6. i \in Insns
      BY <2>1, <2>2, <2>3, <2>5 DEF Insns, Ops
    <2>7. ~Conditional(i) /\ ~x_form_source(i) /\ ~Conditional(p[pc])
      BY <1>2, <2>3, <2>5 DEF Conditional, x_form_source
    <2>8. Burden(i)[1] = Burden(p[pc])[1] /\ Burden(i)[2] < Burden(p[pc])[2]
      BY <1>2, <2>7, BurdenAt
    <2>9. Lower(i, p[pc])
      BY <2>8, LowerAt
    <2>10. [p EXCEPT ![pc] = i] \in Candidates(p)
      BY <2>6, <2>9, PatchLighter
    <2> QED BY <2>4, <2>10
  <1> QED BY <1>1, <1>2

LEMMA RenameLower ==
    ASSUME NEW i \in Insns, NEW from \in 1 .. 9, NEW to \in 1 .. 9, to < from
    PROVE  /\ rename_reg(i, from, to) \in Insns
           /\ rename_reg(i, from, to) = i \/ Lower(rename_reg(i, from, to), i)
  <1> DEFINE d == IF i.dst = from THEN to ELSE i.dst
             s == IF i.src = from THEN to ELSE i.src
             j == rename_reg(i, from, to)
  <1>1. i.dst \in 0 .. 10 /\ i.src \in 0 .. 10
    BY DEF Insns
  <1>2. d \in 0 .. 10 /\ s \in 0 .. 10 /\ d <= i.dst /\ s <= i.src
    BY <1>1
  <1>3. j = [op |-> i.op, dst |-> d, src |-> s, imm |-> i.imm, off |-> i.off]
    <2>1. j = [i EXCEPT !.dst = d, !.src = s]
      BY DEF rename_reg
    <2> DEFINE h == [i EXCEPT !.dst = d]
    <2>2. j = [h EXCEPT !.src = s]
      BY <2>1
    <2> HIDE DEF d, s, j
    <2>3. h = [op |-> i.op, dst |-> d, src |-> i.src, imm |-> i.imm, off |-> i.off]
      BY DEF Insns
    <2> HIDE DEF h
    <2> QED BY <2>2, <2>3
  <1> HIDE DEF d, s, j
  <1>4. j \in Insns
    BY <1>2, <1>3 DEF Insns
  <1>5. CASE d = i.dst /\ s = i.src
    <2>1. j = i
      BY <1>3, <1>5 DEF Insns
    <2> QED BY <1>4, <2>1 DEF j
  <1>6. CASE ~(d = i.dst /\ s = i.src)
    <2>1. d + s < i.dst + i.src
      BY <1>1, <1>2, <1>6
    <2>2. (Conditional(j) <=> Conditional(i)) /\ (x_form_source(j) <=> x_form_source(i))
      BY <1>3 DEF Conditional, x_form_source
    <2>3. j.dst = d /\ j.src = s
      BY <1>3
    <2>4. Burden(j)[1] = Burden(i)[1] /\ Burden(j)[2] = Burden(i)[2] /\ Burden(j)[3] < Burden(i)[3]
      BY <2>1, <2>2, <2>3, BurdenAt
    <2>5. Lower(j, i)
      BY <2>4, LowerAt
    <2> QED BY <1>4, <2>5 DEF j
  <1> QED BY <1>5, <1>6

LEMMA LoweredLighter ==
    ASSUME NEW p \in Programs
    PROVE  Lowered(p) \in Seq(Candidates(p))
  <1>1. CASE Free(p) = {}
    BY <1>1 DEF Lowered
  <1>2. CASE Free(p) # {}
    <2> DEFINE U == Used(p)
               F == Free(p)
               from == Max(U)
               to == Min(F)
               r(pc) == rename_reg(p[pc], from, to)
               c == [pc \in DOMAIN p |-> r(pc)]
    <2>a. U \in SUBSET (1 .. 9)
      BY DEF Used
    <2>b. F \in SUBSET (1 .. 9) /\ F # {}
      BY <1>2 DEF Free
    <2>c. \A f \in F : \E h \in U : f < h
      BY DEF Free
    <2>d. U # {}
      BY <2>b, <2>c
    <2>1. U \in SUBSET (1 .. 9) /\ F \in SUBSET (1 .. 9) /\ F # {} /\ \A f \in F : \E h \in U : f < h
      BY <2>a, <2>b, <2>c
    <2>2. Lowered(p) = <<c>>
      BY <1>2 DEF Lowered, lowering_pair
    <2> HIDE DEF U, F
    <2>3. from \in U /\ \A y \in U : from >= y
      <3>1. PICK l \in {9 - u : u \in U} : \A k \in {9 - u : u \in U} : l <= k
        <4>1. \A u \in U : 9 - u \in Nat
          BY <2>a
        <4>2. {9 - u : u \in U} \in SUBSET Nat /\ {9 - u : u \in U} # {}
          BY <4>1, <2>d
        <4> QED BY <4>2, LeastNat
      <3>2. PICK u \in U : l = 9 - u
        BY <3>1
      <3>3. ASSUME NEW y \in U PROVE u >= y
        <4>1. u \in 1 .. 9 /\ y \in 1 .. 9
          BY <2>a, <3>2
        <4>2. l <= 9 - y
          BY <3>1
        <4> QED BY <3>2, <4>1, <4>2
      <3> QED BY <3>3 DEF Max
    <2>4. to \in F /\ \A y \in F : to <= y
      <3>1. PICK l \in F : \A k \in F : l <= k
        BY <2>1, LeastNat
      <3> QED BY <3>1 DEF Min
    <2> HIDE DEF from, to
    <2>5. from \in 1 .. 9 /\ to \in 1 .. 9 /\ to < from
      <3>1. PICK h \in U : to < h
        BY <2>1, <2>4
      <3>2. from \in 1 .. 9 /\ to \in 1 .. 9 /\ h \in 1 .. 9 /\ from >= h
        BY <2>1, <2>3, <2>4, <3>1
      <3> QED BY <3>1, <3>2
    <2>6. \A pc \in DOMAIN p : r(pc) \in Insns /\ (r(pc) = p[pc] \/ Lower(r(pc), p[pc]))
      BY <2>5, ProgramFacts, RenameLower
    <2>7. Len(p) \in Nat /\ DOMAIN p = 1 .. Len(p)
      BY ProgramFacts
    <2> HIDE DEF r
    <2>8. c \in Programs /\ Len(c) = Len(p) /\ DOMAIN c = DOMAIN p
      BY <2>6, <2>7 DEF Programs
    <2>9. \A pc \in DOMAIN c : c[pc] = p[pc] \/ Lower(c[pc], p[pc])
      BY <2>6, <2>8
    <2> HIDE DEF c
    <2>10. c \in Candidates(p)
      BY <2>8, <2>9 DEF Candidates, Lighter
    <2> QED BY <2>2, <2>10
  <1> QED BY <1>1, <1>2

LEMMA OffsetsLighter ==
    ASSUME NEW p \in Programs, NEW pc \in DOMAIN p
    PROVE  Offsets(p, pc) \in Seq(Candidates(p))
  <1> DEFINE M == (Magnitude(p[pc].off) \div 8) - 1
             o(k) == IF p[pc].off < 0 THEN -(8 * k) ELSE 8 * k
             x(k) == Patch(p, pc, [p[pc] EXCEPT !.off = o(k)])
  <1>1. p[pc] \in Insns /\ p[pc].off \in Int
    BY ProgramFacts DEF Insns
  <1>2. Magnitude(p[pc].off) \in Nat
    BY <1>1 DEF Magnitude
  <1>3. M \in Int
    BY <1>2
  <1>4. ASSUME NEW k \in 1 .. M, stack_offset(p[pc]) PROVE x(k) \in Candidates(p)
    <2>1. 8 * k < Magnitude(p[pc].off) /\ k \in Nat
      <3> DEFINE g == Magnitude(p[pc].off)
      <3>1. g \in Nat /\ k \in Nat /\ k <= (g \div 8) - 1
        BY <1>2
      <3> HIDE DEF g
      <3>2. 8 * k < g
        BY ONLY <3>1
      <3> QED BY <3>1, <3>2 DEF g
    <2> DEFINE y == o(k)
               i == [p[pc] EXCEPT !.off = y]
    <2>2. y \in Int /\ Magnitude(y) = 8 * k
      BY <1>1, <2>1 DEF Magnitude
    <2> HIDE DEF y
    <2>3. i = [op |-> p[pc].op, dst |-> p[pc].dst, src |-> p[pc].src, imm |-> p[pc].imm, off |-> y]
      BY <1>1 DEF Insns
    <2> HIDE DEF i
    <2>4. i \in Insns
      BY <1>1, <2>2, <2>3 DEF Insns
    <2>5. /\ Conditional(i) <=> Conditional(p[pc])
          /\ x_form_source(i) <=> x_form_source(p[pc])
          /\ stack_offset(i)
      BY <1>4, <2>3 DEF Conditional, x_form_source, stack_offset
    <2>6. Burden(i)[1] = Burden(p[pc])[1] /\ Burden(i)[2] = Burden(p[pc])[2]
      BY <2>5, BurdenAt
    <2>7. Burden(i)[3] = Burden(p[pc])[3] /\ Burden(i)[4] = Burden(p[pc])[4]
      BY <2>3, BurdenAt
    <2>8. Burden(i)[5] < Burden(p[pc])[5]
      <3>1. Burden(i)[5] = Magnitude(y)
        BY <2>3, <2>5, BurdenAt
      <3>2. Burden(p[pc])[5] = Magnitude(p[pc].off)
        BY <1>4, BurdenAt
      <3> QED BY <2>1, <2>2, <3>1, <3>2
    <2>9. Lower(i, p[pc])
      BY <2>6, <2>7, <2>8, LowerAt
    <2>10. [p EXCEPT ![pc] = i] \in Candidates(p)
      BY <2>4, <2>9, PatchLighter
    <2> QED BY <2>10 DEF i, y, Patch
  <1>5. CASE ~stack_offset(p[pc])
    BY <1>5 DEF Offsets
  <1>6. CASE stack_offset(p[pc])
    <2>1. Offsets(p, pc) = [k \in 1 .. M |-> x(k)]
      BY <1>6 DEF Offsets
    <2> HIDE DEF M, x
    <2>2. \A k \in 1 .. M : x(k) \in Candidates(p)
      BY <1>4, <1>6
    <2>3. CASE M >= 0
      <3>1. [k \in 1 .. M |-> x(k)] \in Seq(Candidates(p))
        BY <1>3, <2>2, <2>3
      <3> QED BY <2>1, <3>1
    <2>4. CASE M < 0
      <3>1. 1 .. M = {} /\ 1 .. 0 = {}
        BY <1>3, <2>4
      <3>2. [k \in 1 .. M |-> x(k)] = [k \in 1 .. 0 |-> x(k)]
        BY <3>1
      <3>3. [k \in 1 .. 0 |-> x(k)] \in Seq(Candidates(p))
        OBVIOUS
      <3> QED BY <2>1, <3>2, <3>3
    <2> QED BY <1>3, <2>3, <2>4
  <1> QED BY <1>5, <1>6

LEMMA OperandLighter ==
    ASSUME NEW p \in Programs
    PROVE  operand_candidates(p) \in Seq(Candidates(p))
  <1> DEFINE S == Candidates(p)
             I(pc) == Immediates(p, pc)
             A(pc) == AluForms(p, pc)
             O(pc) == Offsets(p, pc)
             is == [pc \in DOMAIN p |-> I(pc)]
             as == [pc \in DOMAIN p |-> A(pc)]
             os == [pc \in DOMAIN p |-> O(pc)]
  <1>1. DOMAIN p = 1 .. Len(p) /\ Len(p) \in Nat
    BY ProgramFacts
  <1>2. operand_candidates(p) = FlattenSeq(is) \o FlattenSeq(as) \o Lowered(p) \o FlattenSeq(os)
    BY DEF operand_candidates
  <1>3. Lowered(p) \in Seq(S)
    BY LoweredLighter
  <1>4. \A pc \in DOMAIN p : I(pc) \in Seq(S) /\ A(pc) \in Seq(S) /\ O(pc) \in Seq(S)
    BY ImmediatesLighter, AluFormsLighter, OffsetsLighter
  <1> HIDE DEF S, I, A, O
  <1>5. is \in Seq(Seq(S)) /\ as \in Seq(Seq(S)) /\ os \in Seq(Seq(S))
    BY <1>1, <1>4
  <1> HIDE DEF is, as, os
  <1>6. FlattenSeq(is) \in Seq(S) /\ FlattenSeq(as) \in Seq(S) /\ FlattenSeq(os) \in Seq(S)
    BY <1>5, Flattened
  <1> DEFINE x == FlattenSeq(is)
             y == FlattenSeq(as)
             w == FlattenSeq(os)
             l == Lowered(p)
  <1> HIDE DEF x, y, w, l
  <1>7. x \in Seq(S) /\ y \in Seq(S) /\ w \in Seq(S) /\ l \in Seq(S)
    BY <1>3, <1>6 DEF x, y, w, l
  <1>8. x \o y \in Seq(S)
    BY <1>7, ConcatProperties
  <1>9. (x \o y) \o l \in Seq(S)
    BY <1>7, <1>8, ConcatProperties
  <1>10. ((x \o y) \o l) \o w \in Seq(S)
    BY <1>7, <1>9, ConcatProperties
  <1> QED BY <1>2, <1>10 DEF x, y, w, l, S

-----------------------------------------------------------------------------
(* The invariant.                                                           *)

Reducing == {"cycle", "cfg", "ddmin", "ddmin_done", "operand", "recheck", "write"}

Typed ==
    /\ setup \in Setups
    /\ phase \in Phases /\ result \in {"idle", "reducing", "confirmed", "failed"}
    /\ phase \in Reducing <=> result = "reducing"
    /\ exit \in {-1, 0, 1, 2, 101}
    /\ idx \in 1 .. Len(setup.findings) + 1 /\ failed \in 0 .. idx - 1
    /\ phase \in Reducing => idx <= Len(setup.findings)
    /\ current \in Programs

\* The oracle's memory holds answers, and as many as it paid for.
Remembered ==
    /\ IsFiniteSet(DOMAIN cache) /\ checks = Cardinality(DOMAIN cache)
    /\ \A c \in DOMAIN cache : cache[c].kind \in {"yes", "no"}
    /\ setup.budget > 0 => checks <= setup.budget

Queued == phase \in {"cfg", "operand"} => queue \in Seq(Candidates(current))

\* What ddmin holds: the reproducer, or a shorter program known to preserve
\* the finding, which is what keep leaves of the reproducer.
Minimising ==
    /\ phase \in {"ddmin", "ddmin_done"} =>
        best = current \/ (best \in Programs /\ best \in Preserving /\ Len(best) < Len(current))
    /\ phase = "ddmin" =>
        /\ Len(current) >= 2 /\ keep \subseteq DOMAIN current
        /\ n \in Nat /\ n >= 2 /\ chunk \in 0 .. n
        /\ best = IF keep = DOMAIN current THEN current ELSE delete_insns(current, DOMAIN current \ keep)

\* The oracle refused the program without its i-th instruction, or there is
\* no such program.
SingleRefused(i) ==
    LET d == delete_insns(current, {i}) IN d # None => d \in DOMAIN cache /\ cache[d].kind = "no"

\* Single deletions were tried in vain, or ddmin does not apply.
Exhausted ==
    \/ budget_exhausted \/ Len(current) < 2
    \/ current \in DOMAIN cache /\ cache[current].kind # "yes"
    \/ \A i \in DOMAIN current : SingleRefused(i)

\* At the finest granularity the chunks behind are single instructions; a
\* cycle that changed nothing has tried them all.
Tried ==
    /\ phase = "ddmin" /\ keep = DOMAIN current /\ n >= Len(current) =>
        \A i \in DOMAIN current : i <= chunk => SingleRefused(i)
    /\ phase = "ddmin_done" /\ best = current => Exhausted
    /\ phase = "operand" /\ ~progress => Exhausted
    /\ phase \in {"recheck", "write"} => Exhausted

\* What the oracle says yes with, and what the reproducer was taken for, are
\* sides.
Sided ==
    /\ phase \in Reducing => baseline.p \in ProgramSides /\ sides.p \in ProgramSides
    /\ \A c \in DOMAIN cache : cache[c].kind = "yes" => cache[c].sides.p \in ProgramSides

\* No re-check before the fixpoint; what is being written passed its own, and
\* only the findings behind have been written.
Rechecked ==
    /\ phase \in Reducing \ {"write"} => final = NoSides
    /\ phase = "write" => final # NoSides /\ preserves(Finding, final)
    /\ DOMAIN written \subseteq 1 .. idx - 1

Inv == Typed /\ Remembered /\ Queued /\ Minimising /\ Tried /\ Sided /\ Rechecked

LEMMA SetupFacts ==
    ASSUME setup \in Setups
    PROVE  /\ setup.budget \in Nat /\ Len(setup.findings) \in Nat
           /\ \A f \in 1 .. Len(setup.findings) : setup.findings[f].prog \in Programs
           /\ setup.findings = <<>> <=> Len(setup.findings) = 0
  <1>1. setup.findings \in Seq([label : STRING, p : ProgramSides, k : KernelSides, prog : Programs])
    BY SetupsAssumption
  <1>2. \A f \in 1 .. Len(setup.findings) :
            setup.findings[f] \in [label : STRING, p : ProgramSides, k : KernelSides, prog : Programs]
    BY <1>1, ElementOfSeq
  <1>3. \A f \in 1 .. Len(setup.findings) : setup.findings[f].prog \in Programs
    BY <1>2
  <1> QED BY <1>1, <1>3, SetupsAssumption, EmptySeq

LEMMA AnswerKinds ==
    ASSUME Remembered, NEW c, NEW a \in Answers(c)
    PROVE  /\ a.kind \in {"yes", "no", "none"}
           /\ c \in DOMAIN cache => a = cache[c] /\ a.kind # "none"
           /\ a.kind = "none" => budget_exhausted
           /\ c \notin DOMAIN cache /\ a.kind # "none" => ~budget_exhausted
  <1>1. CASE c \in DOMAIN cache
    BY <1>1 DEF Answers, Remembered
  <1>2. CASE c \notin DOMAIN cache /\ budget_exhausted
    BY <1>2 DEF Answers, NoBudget
  <1>3. CASE c \notin DOMAIN cache /\ ~budget_exhausted
    <2>1. a \in Evaluations(c)
      BY <1>3 DEF Answers
    <2>2. a.kind \in {"yes", "no"}
      BY <2>1 DEF Evaluations, Judged, No
    <2> QED BY <1>3, <2>2
  <1> QED BY <1>1, <1>2, <1>3

\* What one question to the oracle does to its memory.
LEMMA Remembers ==
    ASSUME Remembered, setup \in Setups, setup' = setup, NEW c, NEW a \in Answers(c), Remember(c, a)
    PROVE  /\ Remembered'
           /\ \A d \in DOMAIN cache : d \in DOMAIN cache' /\ cache'[d] = cache[d]
           /\ a.kind # "none" => c \in DOMAIN cache' /\ cache'[c] = a
           /\ Preserving' = IF a.kind = "yes" THEN Preserving \cup {c} ELSE Preserving
           /\ budget_exhausted => budget_exhausted'
  <1>0. checks \in Nat /\ setup.budget \in Nat
    BY SetupFacts, FS_CardinalityType DEF Remembered
  <1>1. CASE c \in DOMAIN cache \/ a.kind = "none"
    <2>1. cache' = cache /\ checks' = checks
      BY <1>1 DEF Remember, mind
    <2>2. Remembered'
      BY <2>1 DEF Remembered
    <2>3. budget_exhausted => budget_exhausted'
      BY <2>1 DEF budget_exhausted
    <2>4. a.kind # "none" => c \in DOMAIN cache' /\ cache'[c] = a
      BY <1>1, <2>1, AnswerKinds
    <2>5. Preserving' = Preserving
      BY <2>1 DEF Preserving
    <2>6. a.kind = "yes" => c \in Preserving
      BY <1>1, AnswerKinds DEF Preserving
    <2> QED BY <2>1, <2>2, <2>3, <2>4, <2>5, <2>6
  <1>2. CASE c \notin DOMAIN cache /\ a.kind # "none"
    <2>1. cache' = With(cache, c, a) /\ checks' = checks + 1
      BY <1>2 DEF Remember
    <2>2. /\ DOMAIN cache' = DOMAIN cache \cup {c} /\ cache'[c] = a
          /\ \A d \in DOMAIN cache : cache'[d] = cache[d]
      BY <1>2, <2>1 DEF With
    <2>3. a.kind \in {"yes", "no"} /\ ~budget_exhausted
      BY <1>2, AnswerKinds
    <2>4. IsFiniteSet(DOMAIN cache') /\ Cardinality(DOMAIN cache') = Cardinality(DOMAIN cache) + 1
      BY <1>2, <2>2, FS_AddElement DEF Remembered
    <2>5. \A d \in DOMAIN cache' : cache'[d].kind \in {"yes", "no"}
      BY <2>2, <2>3 DEF Remembered
    <2>6. setup.budget > 0 => checks + 1 <= setup.budget
      BY <1>0, <2>3 DEF budget_exhausted
    <2>7. Remembered'
      BY <2>1, <2>4, <2>5, <2>6 DEF Remembered
    <2>8. Preserving' = IF a.kind = "yes" THEN Preserving \cup {c} ELSE Preserving
      BY <1>2, <2>2, <2>3 DEF Preserving
    <2> QED BY <2>2, <2>3, <2>7, <2>8
  <1> QED BY <1>1, <1>2

LEMMA InitInv == Init => Inv
  <1> SUFFICES ASSUME Init PROVE Inv
    OBVIOUS
  <1>1. Typed
    BY SetupFacts, ProgramFacts DEF Init, Typed, Phases, Reducing, Programs, None
  <1>2. Remembered
    <2>1. DOMAIN cache = {} /\ checks = 0
      BY DEF Init
    <2> QED BY <2>1, FS_EmptySet, SetupFacts DEF Remembered, Init
  <1>3. Queued /\ Minimising /\ Tried
    BY DEF Init, Queued, Minimising, Tried
  <1>4. Sided /\ Rechecked
    <2>1. DOMAIN cache = {} /\ DOMAIN written = {}
      BY DEF Init
    <2> QED BY <2>1 DEF Init, Sided, Rechecked, Reducing
  <1> QED BY <1>1, <1>2, <1>3, <1>4 DEF Inv

\* The programs a step may put in the reproducer's place.
LEMMA HeadTyped ==
    ASSUME Typed, Queued, phase \in {"cfg", "operand"}, queue # <<>>
    PROVE  /\ Head(queue) \in Programs /\ (~Idle(Head(queue)) => Lighter(Head(queue), current))
           /\ Tail(queue) \in Seq(Candidates(current))
  <1>1. queue \in Seq(Candidates(current))
    BY DEF Queued
  <1>2. Head(queue) \in Candidates(current) /\ Tail(queue) \in Seq(Candidates(current))
    BY <1>1, HeadTailProperties
  <1> QED BY <1>2 DEF Candidates, Idle

\* What TryChunk asks for, and what becomes of the answer.
Tested == delete_insns(current, DOMAIN current \ Candidate)

LEMMA ChunkTried ==
    ASSUME Remembered, TryChunk
    PROVE  /\ phase = "ddmin" /\ chunk < n /\ Candidate # keep /\ Tested # None
           /\ Still /\ UNCHANGED <<current, sides, queue, progress>>
           /\ \E a \in Answers(Tested) :
                /\ Remember(Tested, a)
                /\ \/ /\ a.kind = "yes" /\ keep' = Candidate /\ best' = Tested
                      /\ n' = Max({n - 1, 2}) /\ chunk' = 0 /\ phase' = phase
                   \/ a.kind = "no" /\ chunk' = chunk + 1 /\ UNCHANGED <<phase, keep, n, best>>
                   \/ a.kind = "none" /\ phase' = "ddmin_done" /\ UNCHANGED <<keep, n, chunk, best>>
  <1> DEFINE T == Tested
  <1>1. /\ phase = "ddmin" /\ chunk < n /\ Candidate # keep /\ T # None
        /\ Still /\ UNCHANGED <<current, sides, queue, progress>>
    BY DEF TryChunk, Tested
  <1>2. PICK a \in Answers(T) :
            /\ Remember(T, a)
            /\ CASE a.kind = "yes" ->
                       /\ keep' = Candidate /\ best' = T
                       /\ n' = Max({n - 1, 2}) /\ chunk' = 0 /\ UNCHANGED phase
                 [] a.kind = "no" -> chunk' = chunk + 1 /\ UNCHANGED <<phase, keep, n, best>>
                 [] a.kind = "none" -> phase' = "ddmin_done" /\ UNCHANGED dd
    BY DEF TryChunk, Tested
  <1>3. a.kind \in {"yes", "no", "none"}
    BY AnswerKinds
  <1> HIDE DEF T
  <1>4. \/ /\ a.kind = "yes" /\ keep' = Candidate /\ best' = T
           /\ n' = Max({n - 1, 2}) /\ chunk' = 0 /\ phase' = phase
        \/ a.kind = "no" /\ chunk' = chunk + 1 /\ UNCHANGED <<phase, keep, n, best>>
        \/ a.kind = "none" /\ phase' = "ddmin_done" /\ UNCHANGED <<keep, n, chunk, best>>
    BY <1>2, <1>3 DEF dd
  <1> QED BY <1>1, <1>2, <1>4 DEF T

LEMMA TypedStep == Inv /\ [Next]_vars => Typed'
  <1> SUFFICES ASSUME Inv, [Next]_vars PROVE Typed'
    OBVIOUS
  <1>0. Typed /\ Queued /\ Minimising
    BY DEF Inv
  <1>s. Len(setup.findings) \in Nat /\ \A f \in 1 .. Len(setup.findings) : setup.findings[f].prog \in Programs
    BY <1>0, SetupFacts DEF Typed
  <1> USE <1>0, <1>s DEF Typed, Phases, Reducing, Still, Stop, GiveUp
  <1>1. CASE Unparsable
    <2>1. /\ phase = "next" /\ idx <= Len(setup.findings)
          /\ UNCHANGED <<setup, baseline, current, sides, queue, progress, dd, mind, final, written>>
      BY <1>1 DEF Unparsable
    <2>2. Stop(101) \/ GiveUp
      BY <1>1 DEF Unparsable
    <2>3. CASE Stop(101)
      BY <2>1, <2>3
    <2>4. CASE GiveUp
      BY <2>1, <2>4
    <2> QED BY <2>2, <2>3, <2>4
  <1>2. CASE load_and_replay
    <2>1. setup' = setup /\ phase = "next" /\ idx <= Len(setup.findings)
      BY <1>2 DEF load_and_replay
    <2>2. \/ /\ phase' = "cycle" /\ result' = "reducing" /\ current' = Finding.prog
             /\ UNCHANGED <<idx, failed, exit>>
          \/ Stop(2) /\ UNCHANGED current
          \/ GiveUp /\ UNCHANGED current
      BY <1>2 DEF load_and_replay
    <2>3. Finding.prog \in Programs
      BY <2>1 DEF Finding
    <2> HIDE DEF Stop, GiveUp
    <2>4. CASE /\ phase' = "cycle" /\ result' = "reducing" /\ current' = Finding.prog
               /\ UNCHANGED <<idx, failed, exit>>
      BY <2>1, <2>3, <2>4
    <2>5. CASE Stop(2) /\ UNCHANGED current
      BY <2>1, <2>5 DEF Stop
    <2>6. CASE GiveUp /\ UNCHANGED current
      BY <2>1, <2>6 DEF GiveUp
    <2> QED BY <2>2, <2>4, <2>5, <2>6
  <1>3. CASE ReplayRefused
    BY <1>3 DEF ReplayRefused
  <1>4. CASE StartCycle
    BY <1>4 DEF StartCycle
  <1>5. CASE SkipCandidate
    BY <1>5 DEF SkipCandidate
  <1>6. CASE TryCandidate
    <2>1. current' = current \/ current' = Head(queue)
      BY <1>6 DEF TryCandidate
    <2>2. Head(queue) \in Programs
      BY <1>6, HeadTyped DEF TryCandidate
    <2>3. UNCHANGED <<setup, idx, result, failed, exit, phase>>
      BY <1>6 DEF TryCandidate
    <2> QED BY <2>1, <2>2, <2>3
  <1>7. CASE StartDdmin
    <2>1. phase = "cfg" /\ phase' \in {"ddmin", "ddmin_done"} /\ UNCHANGED <<setup, idx, result, failed, exit, current>>
      BY <1>7 DEF StartDdmin
    <2> QED BY <2>1
  <1>8. CASE SkipChunk
    BY <1>8 DEF SkipChunk
  <1>9. CASE TryChunk
    <2>1. phase = "ddmin" /\ phase' \in {"ddmin", "ddmin_done"} /\ UNCHANGED <<setup, idx, result, failed, exit, current>>
      BY <1>9, ChunkTried DEF Inv
    <2> QED BY <2>1
  <1>10. CASE Refine
    BY <1>10 DEF Refine
  <1>11. CASE LeaveDdmin
    BY <1>11 DEF LeaveDdmin
  <1>12. CASE StartOperand
    <2>1. best \in Programs
      BY <1>12 DEF StartOperand, Minimising
    <2> QED BY <1>12, <2>1 DEF StartOperand
  <1>13. CASE EndCycle
    BY <1>13 DEF EndCycle
  <1>14. CASE Recheck
    BY <1>14 DEF Recheck
  <1>15. CASE RecheckRefused
    BY <1>15 DEF RecheckRefused
  <1>16. CASE write_artifacts
    BY <1>16 DEF write_artifacts
  <1>17. CASE WriteFails
    BY <1>17 DEF WriteFails
  <1>18. CASE Panics
    BY <1>18 DEF Panics
  <1>19. CASE Finish
    BY <1>19 DEF Finish
  <1>20. CASE UNCHANGED vars
    BY <1>20 DEF vars
  <1> QED BY <1>1, <1>2, <1>3, <1>4, <1>5, <1>6, <1>7, <1>8, <1>9, <1>10, <1>11, <1>12, <1>13, <1>14, <1>15,
             <1>16, <1>17, <1>18, <1>19, <1>20 DEF Next

\* The only ways the oracle's memory changes: a new finding clears it, a
\* question extends it.
LEMMA MindStep ==
    ASSUME Inv, [Next]_vars
    PROVE  /\ setup' = setup
           /\ \/ UNCHANGED mind
              \/ phase = "next" /\ phase' = "cycle" /\ cache' = <<>> /\ checks' = 0
              \/ \E c : \E a \in Answers(c) : Remember(c, a)
  <1>1. CASE load_and_replay
    <2>1. setup' = setup /\ phase = "next"
      BY <1>1 DEF load_and_replay
    <2>2. UNCHANGED mind \/ (phase' = "cycle" /\ cache' = <<>> /\ checks' = 0)
      BY <1>1 DEF load_and_replay
    <2> QED BY <2>1, <2>2
  <1>2. CASE TryCandidate
    <2>1. setup' = setup /\ \E a \in Answers(Head(queue)) : Remember(Head(queue), a)
      BY <1>2 DEF TryCandidate, Still
    <2> QED BY <2>1
  <1>3. CASE StartDdmin
    <2>1. setup' = setup /\ (UNCHANGED mind \/ \E a \in Answers(current) : Remember(current, a))
      BY <1>3 DEF StartDdmin, Still
    <2> QED BY <2>1
  <1>4. CASE TryChunk
    <2>1. setup' = setup /\ \E a \in Answers(Tested) : Remember(Tested, a)
      BY <1>4, ChunkTried DEF Inv, Still
    <2> QED BY <2>1
  <1>5. CASE Unparsable \/ ReplayRefused \/ StartCycle \/ SkipCandidate \/ SkipChunk \/ Refine
    BY <1>5 DEF Unparsable, ReplayRefused, StartCycle, SkipCandidate, SkipChunk, Refine, Still
  <1>6. CASE LeaveDdmin \/ StartOperand \/ EndCycle \/ Recheck \/ RecheckRefused
    BY <1>6 DEF LeaveDdmin, StartOperand, EndCycle, Recheck, RecheckRefused, Still
  <1>7. CASE write_artifacts \/ WriteFails \/ Panics \/ Finish
    BY <1>7 DEF write_artifacts, WriteFails, Panics, Finish
  <1>8. CASE UNCHANGED vars
    BY <1>8 DEF vars
  <1> QED BY <1>1, <1>2, <1>3, <1>4, <1>5, <1>6, <1>7, <1>8 DEF Next

LEMMA RememberedStep == Inv /\ [Next]_vars => Remembered'
  <1> SUFFICES ASSUME Inv, [Next]_vars PROVE Remembered'
    OBVIOUS
  <1>1. Remembered /\ setup \in Setups /\ setup' = setup
    BY MindStep DEF Inv, Typed
  <1>2. CASE UNCHANGED mind
    BY <1>1, <1>2 DEF mind, Remembered
  <1>3. CASE cache' = <<>> /\ checks' = 0
    <2>1. DOMAIN cache' = {}
      BY <1>3
    <2> QED BY <1>1, <1>3, <2>1, FS_EmptySet, SetupFacts DEF Remembered
  <1>4. CASE \E c : \E a \in Answers(c) : Remember(c, a)
    BY <1>1, <1>4, Remembers
  <1> QED BY <1>2, <1>3, <1>4, MindStep

\* During a reduction nothing is forgotten.
LEMMA MindGrows ==
    ASSUME Inv, [Next]_vars, phase \in Reducing
    PROVE  /\ \A d \in DOMAIN cache : d \in DOMAIN cache' /\ cache'[d] = cache[d]
           /\ Preserving \subseteq Preserving'
           /\ budget_exhausted => budget_exhausted'
  <1>1. Remembered /\ setup \in Setups /\ setup' = setup /\ phase # "next"
    BY MindStep DEF Inv, Typed, Reducing
  <1>2. CASE UNCHANGED mind
    <2>1. cache' = cache /\ checks' = checks
      BY <1>2 DEF mind
    <2> QED BY <1>1, <2>1 DEF Preserving, budget_exhausted
  <1>3. CASE \E c : \E a \in Answers(c) : Remember(c, a)
    BY <1>1, <1>3, Remembers
  <1> QED BY <1>1, <1>2, <1>3, MindStep

LEMMA QueuedStep == Inv /\ [Next]_vars => Queued'
  <1> SUFFICES ASSUME Inv, [Next]_vars, phase' \in {"cfg", "operand"}
               PROVE  queue' \in Seq(Candidates(current'))
    BY DEF Queued, Candidates, Lighter
  <1>0. Typed /\ Queued /\ Minimising /\ Remembered /\ current \in Programs
    BY DEF Inv, Typed
  <1>1. CASE StartCycle
    <2>1. current' = current /\ \E anchor \in 0 .. Len(current) : queue' = cfg_candidates(current, anchor)
      BY <1>1 DEF StartCycle
    <2> QED BY <1>0, <2>1, CfgLighter
  <1>2. CASE SkipCandidate
    <2>1. current' = current /\ queue' = Tail(queue)
      BY <1>2 DEF SkipCandidate
    <2> QED BY <1>0, <1>2, <2>1, HeadTyped DEF SkipCandidate
  <1>3. CASE TryCandidate
    <2>1. queue' = <<>> \/ (current' = current /\ queue' = Tail(queue))
      BY <1>3 DEF TryCandidate
    <2>2. Tail(queue) \in Seq(Candidates(current))
      BY <1>0, <1>3, HeadTyped DEF TryCandidate
    <2>3. <<>> \in Seq(Candidates(current'))
      BY EmptySeq
    <2> QED BY <2>1, <2>2, <2>3
  <1>4. CASE StartOperand
    <2>1. current' = best /\ queue' = operand_candidates(best) /\ best \in Programs
      BY <1>0, <1>4 DEF StartOperand, Minimising
    <2> QED BY <2>1, OperandLighter
  <1>5. CASE Unparsable \/ ReplayRefused \/ load_and_replay
    <2>1. phase = "next" /\ phase' \in {"next", "ended", "cycle"}
      BY <1>5 DEF Unparsable, ReplayRefused, load_and_replay, Stop, GiveUp
    <2> QED BY <2>1
  <1>6. CASE StartDdmin
    <2>1. phase' \in {"ddmin", "ddmin_done"}
      BY <1>6 DEF StartDdmin
    <2> QED BY <2>1
  <1>7. CASE TryChunk
    <2>1. phase' \in {"ddmin", "ddmin_done"}
      BY <1>0, <1>7, ChunkTried
    <2> QED BY <2>1
  <1>8. CASE SkipChunk \/ Refine \/ LeaveDdmin \/ EndCycle
    <2>1. phase' \notin {"cfg", "operand"}
      BY <1>8 DEF SkipChunk, Refine, LeaveDdmin, EndCycle
    <2> QED BY <2>1
  <1>9. CASE Recheck \/ RecheckRefused \/ write_artifacts \/ WriteFails \/ Panics \/ Finish
    <2>1. phase' \notin {"cfg", "operand"}
      BY <1>9 DEF Recheck, RecheckRefused, write_artifacts, WriteFails, Panics, Finish, Stop, GiveUp
    <2> QED BY <2>1
  <1>10. CASE UNCHANGED vars
    BY <1>0, <1>10 DEF vars, Queued
  <1> QED BY <1>1, <1>2, <1>3, <1>4, <1>5, <1>6, <1>7, <1>8, <1>9, <1>10 DEF Next

\* Candidate leaves something of what is kept out.
LEMMA CandidateKeeps == Candidate \subseteq keep
  BY DEF Candidate

LEMMA TestedShorter ==
    ASSUME Typed, Minimising, phase = "ddmin", Candidate # keep, Tested # None
    PROVE  Tested \in Programs /\ Len(Tested) < Len(current) /\ Candidate # DOMAIN current
  <1> DEFINE R == DOMAIN current \ Candidate
  <1>1. keep \subseteq DOMAIN current /\ current \in Programs
    BY DEF Typed, Minimising
  <1>2. R \cap DOMAIN current # {} /\ Candidate # DOMAIN current
    BY <1>1, CandidateKeeps
  <1>3. Tested = delete_insns(current, R)
    BY DEF Tested
  <1> HIDE DEF R
  <1> QED BY <1>1, <1>2, <1>3, Deleted, DeletedLighter

LEMMA PairMax ==
    ASSUME NEW a \in Nat, NEW b \in Nat
    PROVE  Max({a, b}) \in Nat /\ Max({a, b}) >= a /\ Max({a, b}) >= b
  <1>1. \E x \in {a, b} : \A y \in {a, b} : x >= y
    OBVIOUS
  <1>2. Max({a, b}) \in {a, b} /\ \A y \in {a, b} : Max({a, b}) >= y
    BY <1>1 DEF Max
  <1> QED BY <1>2

LEMMA PairMin ==
    ASSUME NEW a \in Nat, NEW b \in Nat
    PROVE  Min({a, b}) \in {a, b}
  <1>1. \E x \in {a, b} : \A y \in {a, b} : x =< y
    OBVIOUS
  <1> QED BY <1>1 DEF Min

LEMMA MinimisingStep == Inv /\ [Next]_vars => Minimising'
  <1> SUFFICES ASSUME Inv, [Next]_vars, phase' \in {"ddmin", "ddmin_done"} PROVE Minimising'
    BY DEF Minimising
  <1>0. Typed /\ Minimising /\ Remembered /\ current \in Programs /\ Len(current) \in Nat
    BY ProgramFacts DEF Inv, Typed
  <1>1. CASE StartDdmin
    <2>1. phase = "cfg" /\ current' = current /\ best' = current
      BY <1>1 DEF StartDdmin
    <2>2. phase' = "ddmin" => Len(current) >= 2 /\ keep' = DOMAIN current /\ n' = 2 /\ chunk' = 0
      BY <1>0, <1>1 DEF StartDdmin
    <2> QED BY <2>1, <2>2 DEF Minimising
  <1>2. CASE SkipChunk
    <2>1. phase = "ddmin" /\ chunk < n /\ chunk' = chunk + 1 /\ UNCHANGED <<phase, current, keep, n, best, mind>>
      BY <1>2 DEF SkipChunk
    <2>2. Preserving' = Preserving
      BY <2>1 DEF mind, Preserving
    <2> QED BY <1>0, <2>1, <2>2 DEF Minimising
  <1>3. CASE TryChunk
    <2>1. /\ phase = "ddmin" /\ chunk < n /\ Candidate # keep /\ Tested # None
          /\ current' = current /\ setup' = setup
      BY <1>0, <1>3, ChunkTried DEF Still
    <2>2. PICK a \in Answers(Tested) :
                /\ Remember(Tested, a)
                /\ \/ /\ a.kind = "yes" /\ keep' = Candidate /\ best' = Tested
                      /\ n' = Max({n - 1, 2}) /\ chunk' = 0 /\ phase' = phase
                   \/ a.kind = "no" /\ chunk' = chunk + 1 /\ UNCHANGED <<phase, keep, n, best>>
                   \/ a.kind = "none" /\ phase' = "ddmin_done" /\ UNCHANGED <<keep, n, chunk, best>>
      BY <1>0, <1>3, ChunkTried
    <2>3. Preserving \subseteq Preserving' /\ (a.kind = "yes" => Tested \in Preserving')
      BY <1>0, <2>1, <2>2, Remembers DEF Typed
    <2>4. CASE /\ a.kind = "yes" /\ keep' = Candidate /\ best' = Tested
               /\ n' = Max({n - 1, 2}) /\ chunk' = 0 /\ phase' = phase
      <3>1. Tested \in Programs /\ Len(Tested) < Len(current) /\ Candidate # DOMAIN current
        BY <1>0, <2>1, TestedShorter
      <3>2. best' \in Programs /\ best' \in Preserving' /\ Len(best') < Len(current')
        BY <2>1, <2>3, <2>4, <3>1
      <3>3. keep' \subseteq DOMAIN current' /\ Len(current') >= 2
        BY <1>0, <2>1, <2>4, CandidateKeeps DEF Minimising
      <3>4. n' \in Nat /\ n' >= 2 /\ chunk' \in 0 .. n'
        <4>1. n - 1 \in Nat
          BY <1>0, <2>1 DEF Minimising
        <4> QED BY <2>4, <4>1, PairMax
      <3>5. best' = delete_insns(current', DOMAIN current' \ keep') /\ keep' # DOMAIN current'
        BY <2>1, <2>4, <3>1 DEF Tested
      <3> QED BY <3>2, <3>3, <3>4, <3>5 DEF Minimising
    <2>5. CASE a.kind = "no" /\ chunk' = chunk + 1 /\ UNCHANGED <<phase, keep, n, best>>
      BY <1>0, <2>1, <2>3, <2>5 DEF Minimising
    <2>6. CASE a.kind = "none" /\ phase' = "ddmin_done" /\ UNCHANGED <<keep, n, chunk, best>>
      BY <1>0, <2>1, <2>3, <2>6 DEF Minimising
    <2> QED BY <2>2, <2>4, <2>5, <2>6
  <1>4. CASE Refine
    <2>1. phase = "ddmin" /\ UNCHANGED <<current, keep, best, mind>>
      BY <1>4 DEF Refine
    <2>2. Preserving' = Preserving
      BY <2>1 DEF mind, Preserving
    <2>3. CASE Finest
      BY <1>0, <1>4, <2>1, <2>2, <2>3 DEF Refine, Minimising
    <2>4. CASE ~Finest
      <3>1. Cardinality(keep) \in Nat /\ n \in Nat /\ n >= 2 /\ n < Cardinality(keep)
        <4>1. keep \in SUBSET (1 .. Len(current)) /\ n \in Nat /\ n >= 2
          BY <1>0, <2>1, ProgramFacts DEF Minimising
        <4>2. Cardinality(keep) \in 0 .. Len(current)
          BY <1>0, <4>1, Counted
        <4> QED BY <1>0, <2>4, <4>1, <4>2 DEF Finest
      <3>2. n' = Min({2 * n, Cardinality(keep)}) /\ chunk' = 0 /\ phase' = phase
        BY <1>4, <2>4 DEF Refine
      <3>3. n' = 2 * n \/ n' = Cardinality(keep)
        BY <3>1, <3>2, PairMin
      <3>4. n' \in Nat /\ n' >= 2 /\ chunk' \in 0 .. n'
        BY <3>1, <3>2, <3>3
      <3> QED BY <1>0, <2>1, <2>2, <3>2, <3>4 DEF Minimising
    <2> QED BY <2>3, <2>4
  <1>5. CASE LeaveDdmin
    <2>1. phase = "ddmin" /\ phase' = "ddmin_done" /\ UNCHANGED <<current, best, mind>>
      BY <1>5 DEF LeaveDdmin, dd
    <2>2. Preserving' = Preserving
      BY <2>1 DEF mind, Preserving
    <2> QED BY <1>0, <2>1, <2>2 DEF Minimising
  <1>6. CASE Unparsable \/ ReplayRefused \/ load_and_replay
    <2>1. phase' \in {"next", "ended", "cycle"}
      BY <1>6 DEF Unparsable, ReplayRefused, load_and_replay, Stop, GiveUp
    <2> QED BY <2>1
  <1>7. CASE StartCycle \/ SkipCandidate \/ TryCandidate \/ StartOperand \/ EndCycle
    <2>1. phase' \notin {"ddmin", "ddmin_done"}
      BY <1>7 DEF StartCycle, SkipCandidate, TryCandidate, StartOperand, EndCycle
    <2> QED BY <2>1
  <1>8. CASE Recheck \/ RecheckRefused \/ write_artifacts \/ WriteFails \/ Panics \/ Finish
    <2>1. phase' \notin {"ddmin", "ddmin_done"}
      BY <1>8 DEF Recheck, RecheckRefused, write_artifacts, WriteFails, Panics, Finish, Stop, GiveUp
    <2> QED BY <2>1
  <1>9. CASE UNCHANGED vars
    <2>1. UNCHANGED <<phase, current, keep, n, chunk, best, cache>>
      BY <1>9 DEF vars, dd, mind
    <2>2. Preserving' = Preserving
      BY <2>1 DEF Preserving
    <2> QED BY <1>0, <2>1, <2>2 DEF Minimising
  <1> QED BY <1>1, <1>2, <1>3, <1>4, <1>5, <1>6, <1>7, <1>8, <1>9 DEF Next

-----------------------------------------------------------------------------
(* One-minimality.                                                          *)

\* At the finest granularity a chunk is one instruction.
LEMMA FinestChunk ==
    ASSUME Typed, Minimising, phase = "ddmin", keep = DOMAIN current, n >= Len(current), chunk < n,
           chunk + 1 \in DOMAIN current
    PROVE  Candidate # keep /\ Tested = delete_insns(current, {chunk + 1})
  <1>1. /\ Len(current) \in Nat /\ DOMAIN current = 1 .. Len(current) /\ Len(current) >= 2
        /\ n \in Nat /\ n >= 2 /\ chunk \in Nat
    BY ProgramFacts DEF Typed, Minimising
  <1>2. Cardinality(keep) = Len(current)
    <2>1. Cardinality(1 .. Len(current)) = Len(current)
      <3>1. \A l \in Nat : l >= 2 => Cardinality(1 .. l) = l
        BY ONLY FS_Interval
      <3> QED BY <1>1, <3>1
    <2> QED BY <1>1, <2>1
  <1>3. div_ceil(Cardinality(keep), n) = 1
    <2> DEFINE l == Len(current)
    <2>1. l \in Nat /\ l >= 2 /\ n >= l /\ n \in Nat
      BY <1>1
    <2> HIDE DEF l
    <2>2. (l + n - 1) \div n = 1
      <3>1. l + n - 1 \in Nat /\ l + n - 1 = n * 1 + (l - 1) /\ l - 1 >= 0 /\ l - 1 < n
        BY ONLY <2>1
      <3> QED BY ONLY <2>1, <3>1
    <2> QED BY <1>2, <2>2 DEF div_ceil, l
  <1>4. ASSUME NEW i \in keep
        PROVE (Position(keep, i) - 1) \div div_ceil(Cardinality(keep), n) = i - 1
    <2>1. Position(keep, i) = i
      BY <1>1, AllKept
    <2> QED BY <1>1, <1>3, <2>1
  <1>5. Candidate = {i \in keep : i - 1 # chunk}
    BY <1>4 DEF Candidate
  <1>6. Candidate = DOMAIN current \ {chunk + 1}
    BY <1>1, <1>5
  <1>7. DOMAIN current \ Candidate = {chunk + 1}
    BY <1>6
  <1> QED BY <1>6, <1>7 DEF Tested

\* ddmin's best is its input only where it kept everything.
LEMMA BestIsCurrent ==
    ASSUME Typed, Minimising, phase = "ddmin", best = current
    PROVE  keep = DOMAIN current /\ Cardinality(keep) = Len(current) /\ Len(current) \in Nat /\ Len(current) >= 2
  <1>1. /\ Len(current) \in Nat /\ DOMAIN current = 1 .. Len(current) /\ Len(current) >= 2
        /\ current \in Programs /\ current # None
    BY ProgramFacts DEF Typed, Minimising
  <1>2. keep = DOMAIN current
    <2> SUFFICES ASSUME keep # DOMAIN current PROVE FALSE
      OBVIOUS
    <2> DEFINE R == DOMAIN current \ keep
    <2>1. best = delete_insns(current, R) /\ R \cap DOMAIN current # {}
      BY DEF Minimising
    <2> HIDE DEF R
    <2>2. Len(best) < Len(current)
      BY <1>1, <2>1, DeletedLighter
    <2> QED BY <1>1, <2>2
  <1> QED BY <1>1, <1>2, FS_Interval

LEMMA ExhaustedKept ==
    ASSUME Inv, [Next]_vars, phase \in Reducing, current' = current, Exhausted
    PROVE  Exhausted'
  <1>1. /\ \A d \in DOMAIN cache : d \in DOMAIN cache' /\ cache'[d] = cache[d]
        /\ budget_exhausted => budget_exhausted'
    BY MindGrows
  <1>2. \A i : SingleRefused(i) => SingleRefused(i)'
    BY <1>1 DEF SingleRefused
  <1> QED BY <1>1, <1>2 DEF Exhausted

LEMMA TriedDdmin ==
    ASSUME Inv, [Next]_vars, phase' = "ddmin", keep' = DOMAIN current', n' >= Len(current')
    PROVE  \A i \in DOMAIN current' : i <= chunk' => SingleRefused(i)'
  <1>0. Typed /\ Minimising /\ Remembered /\ Tried
    BY DEF Inv
  <1>a. Len(current) \in Nat /\ DOMAIN current = 1 .. Len(current)
    BY <1>0, ProgramFacts DEF Typed
  <1>b. phase \in Reducing => \A i : current' = current /\ SingleRefused(i) => SingleRefused(i)'
    BY MindGrows DEF SingleRefused
  <1>c. current' = current /\ chunk' = 0 => \A i \in DOMAIN current' : ~(i <= chunk')
    BY <1>a
  <1>1. CASE StartDdmin
    <2>1. current' = current /\ chunk' = 0
      BY <1>0, <1>1, <1>a DEF StartDdmin
    <2> QED BY <1>c, <2>1
  <1>2. CASE SkipChunk
    <2>1. phase = "ddmin" /\ chunk < n /\ chunk' = chunk + 1 /\ UNCHANGED <<phase, current, keep, n, best>>
      BY <1>2 DEF SkipChunk
    <2>2. Candidate # keep => Tested = None
      BY <1>2 DEF SkipChunk, Tested
    <2>3. chunk + 1 \in DOMAIN current => SingleRefused(chunk + 1)
      BY <1>0, <2>1, <2>2, FinestChunk DEF SingleRefused
    <2>4. \A i \in DOMAIN current : i <= chunk => SingleRefused(i)
      BY <1>0, <2>1 DEF Tried
    <2>5. chunk \in Nat
      BY <1>0, <2>1 DEF Minimising
    <2>6. \A i \in DOMAIN current : i <= chunk + 1 => i <= chunk \/ i = chunk + 1
      BY <1>a, <2>5
    <2> QED BY <1>b, <2>1, <2>3, <2>4, <2>6 DEF Reducing
  <1>3. CASE TryChunk
    <2>1. /\ phase = "ddmin" /\ chunk < n /\ Candidate # keep /\ Tested # None
          /\ current' = current /\ setup' = setup
      BY <1>0, <1>3, ChunkTried DEF Still
    <2>2. PICK a \in Answers(Tested) :
                /\ Remember(Tested, a)
                /\ \/ /\ a.kind = "yes" /\ keep' = Candidate /\ best' = Tested
                      /\ n' = Max({n - 1, 2}) /\ chunk' = 0 /\ phase' = phase
                   \/ a.kind = "no" /\ chunk' = chunk + 1 /\ UNCHANGED <<phase, keep, n, best>>
                   \/ a.kind = "none" /\ phase' = "ddmin_done" /\ UNCHANGED <<keep, n, chunk, best>>
      BY <1>0, <1>3, ChunkTried
    <2>3. CASE a.kind = "yes" /\ chunk' = 0
      BY <1>c, <2>1, <2>3
    <2>4. CASE a.kind = "no" /\ chunk' = chunk + 1 /\ UNCHANGED <<phase, keep, n, best>>
      <3>1. Tested \in DOMAIN cache' /\ cache'[Tested].kind = "no"
        BY <1>0, <2>1, <2>2, <2>4, Remembers DEF Typed
      <3>2. ASSUME NEW i \in DOMAIN current, i = chunk + 1 PROVE SingleRefused(i)'
        <4>1. Tested = delete_insns(current, {i})
          BY <1>0, <2>1, <2>4, <3>2, FinestChunk
        <4> QED BY <2>1, <3>1, <4>1 DEF SingleRefused
      <3>3. \A i \in DOMAIN current : i <= chunk => SingleRefused(i)
        BY <1>0, <2>1, <2>4 DEF Tried
      <3>5. chunk \in Nat
        BY <1>0, <2>1 DEF Minimising
      <3>6. \A i \in DOMAIN current : i <= chunk + 1 => i <= chunk \/ i = chunk + 1
        BY <1>a, <3>5
      <3> QED BY <1>b, <2>1, <2>4, <3>2, <3>3, <3>6 DEF Reducing
    <2> QED BY <2>2, <2>3, <2>4
  <1>4. CASE Refine
    <2>1. current' = current /\ chunk' = 0
      BY <1>4 DEF Refine
    <2> QED BY <1>c, <2>1
  <1>5. CASE LeaveDdmin
    BY <1>5 DEF LeaveDdmin
  <1>6. CASE Unparsable \/ ReplayRefused \/ load_and_replay
    <2>1. phase' \in {"next", "ended", "cycle"}
      BY <1>6 DEF Unparsable, ReplayRefused, load_and_replay, Stop, GiveUp
    <2> QED BY <2>1
  <1>7. CASE StartCycle \/ SkipCandidate \/ TryCandidate \/ StartOperand \/ EndCycle
    <2>1. phase' # "ddmin"
      BY <1>7 DEF StartCycle, SkipCandidate, TryCandidate, StartOperand, EndCycle
    <2> QED BY <2>1
  <1>8. CASE Recheck \/ RecheckRefused \/ write_artifacts \/ WriteFails \/ Panics \/ Finish
    <2>1. phase' # "ddmin"
      BY <1>8 DEF Recheck, RecheckRefused, write_artifacts, WriteFails, Panics, Finish, Stop, GiveUp
    <2> QED BY <2>1
  <1>9. CASE UNCHANGED vars
    <2>1. UNCHANGED <<phase, current, keep, n, chunk>>
      BY <1>9 DEF vars, dd
    <2> QED BY <1>0, <1>b, <2>1 DEF Tried, Reducing
  <1> QED BY <1>1, <1>2, <1>3, <1>4, <1>5, <1>6, <1>7, <1>8, <1>9 DEF Next

LEMMA TriedStep == Inv /\ [Next]_vars => Tried'
  <1> SUFFICES ASSUME Inv, [Next]_vars PROVE Tried'
    OBVIOUS
  <1>0. Typed /\ Minimising /\ Remembered /\ Tried /\ Len(current) \in Nat
    BY ProgramFacts DEF Inv, Typed
  <1>1. SUFFICES /\ phase' = "ddmin_done" /\ best' = current' => Exhausted'
                 /\ phase' = "operand" /\ ~progress' => Exhausted'
                 /\ phase' \in {"recheck", "write"} => Exhausted'
    BY TriedDdmin DEF Tried
  <1>2. CASE StartDdmin
    <2>1. /\ phase' \in {"ddmin", "ddmin_done"} /\ current' = current /\ setup' = setup
          /\ Len(current) < 2 \/ \E a \in Answers(current) :
                /\ Remember(current, a)
                /\ phase' = IF a.kind = "yes" THEN "ddmin" ELSE "ddmin_done"
      BY <1>2 DEF StartDdmin, Still
    <2>2. CASE Len(current) < 2
      BY <2>1, <2>2 DEF Exhausted
    <2>3. ASSUME NEW a \in Answers(current), Remember(current, a), a.kind # "yes" PROVE Exhausted'
      <3>1. CASE a.kind = "none"
        <4>1. budget_exhausted /\ budget_exhausted'
          BY <1>0, <2>1, <2>3, <3>1, AnswerKinds, Remembers DEF Typed
        <4> QED BY <4>1 DEF Exhausted
      <3>2. CASE a.kind # "none"
        <4>1. current \in DOMAIN cache' /\ cache'[current] = a
          BY <1>0, <2>1, <2>3, <3>2, Remembers DEF Typed
        <4> QED BY <2>1, <2>3, <4>1 DEF Exhausted
      <3> QED BY <3>1, <3>2
    <2> QED BY <2>1, <2>2, <2>3
  <1>3. CASE TryChunk
    <2>1. phase = "ddmin" /\ current' = current /\ setup' = setup
      BY <1>0, <1>3, ChunkTried DEF Still
    <2>2. PICK a \in Answers(Tested) :
                Remember(Tested, a) /\ (phase' = phase \/ (a.kind = "none" /\ phase' = "ddmin_done"))
      BY <1>0, <1>3, ChunkTried
    <2>3. a.kind = "none" => budget_exhausted'
      BY <1>0, <2>1, <2>2, AnswerKinds, Remembers DEF Typed
    <2> QED BY <2>1, <2>2, <2>3 DEF Exhausted
  <1>4. CASE Refine
    <2>1. /\ phase = "ddmin" /\ phase' \in {"ddmin", "ddmin_done"} /\ chunk = n /\ UNCHANGED <<current, best, mind>>
          /\ phase' = "ddmin_done" => Finest
      BY <1>4 DEF Refine
    <2>2. SUFFICES ASSUME phase' = "ddmin_done", best = current PROVE Exhausted'
      BY <2>1
    <2>3. keep = DOMAIN current /\ n >= Len(current)
      BY <1>0, <2>1, <2>2, BestIsCurrent DEF Finest
    <2>4. n \in Nat /\ DOMAIN current = 1 .. Len(current)
      BY <1>0, <2>1, ProgramFacts DEF Minimising, Typed
    <2>5. \A i \in DOMAIN current : i <= chunk
      BY <1>0, <2>1, <2>3, <2>4
    <2>6. \A i \in DOMAIN current : SingleRefused(i)
      BY <1>0, <2>1, <2>3, <2>5 DEF Tried
    <2>7. Exhausted
      BY <2>6 DEF Exhausted
    <2> QED BY <2>1, <2>7, ExhaustedKept DEF Reducing
  <1>5. CASE LeaveDdmin
    <2>1. phase = "ddmin" /\ phase' = "ddmin_done" /\ ~Looping /\ UNCHANGED <<current, best>>
      BY <1>5 DEF LeaveDdmin, dd
    <2>2. SUFFICES ASSUME best = current PROVE Exhausted'
      BY <2>1
    <2>3. Cardinality(keep) = Len(current) /\ Len(current) >= 2
      BY <1>0, <2>1, <2>2, BestIsCurrent
    <2>4. budget_exhausted
      BY <1>0, <2>1, <2>3 DEF Looping
    <2>5. Exhausted
      BY <2>4 DEF Exhausted
    <2> QED BY <2>1, <2>5, ExhaustedKept DEF Reducing
  <1>6. CASE StartOperand
    <2>1. /\ phase = "ddmin_done" /\ phase' = "operand" /\ current' = best
          /\ progress' = (progress \/ best # current)
      BY <1>6 DEF StartOperand
    <2>2. SUFFICES ASSUME ~progress' PROVE Exhausted'
      BY <2>1
    <2>3. best = current
      BY <2>1, <2>2
    <2>4. Exhausted
      BY <1>0, <2>1, <2>3 DEF Tried
    <2> QED BY <2>1, <2>3, <2>4, ExhaustedKept DEF Reducing
  <1>7. CASE TryCandidate \/ SkipCandidate
    <2>1. /\ phase \in {"cfg", "operand"} /\ phase' = phase
          /\ progress' = TRUE \/ UNCHANGED <<current, progress>>
      BY <1>7 DEF TryCandidate, SkipCandidate
    <2>2. SUFFICES ASSUME phase = "operand", ~progress' PROVE Exhausted'
      BY <2>1
    <2>3. current' = current /\ ~progress
      BY <2>1, <2>2
    <2>4. Exhausted
      BY <1>0, <2>2, <2>3 DEF Tried
    <2> QED BY <2>2, <2>3, <2>4, ExhaustedKept DEF Reducing
  <1>8. CASE EndCycle
    <2>1. phase = "operand" /\ current' = current /\ phase' = IF progress THEN "cycle" ELSE "recheck"
      BY <1>8 DEF EndCycle
    <2>2. SUFFICES ASSUME ~progress PROVE Exhausted'
      BY <2>1
    <2>3. Exhausted
      BY <1>0, <2>1, <2>2 DEF Tried
    <2> QED BY <2>1, <2>3, ExhaustedKept DEF Reducing
  <1>9. CASE Recheck
    <2>1. phase = "recheck" /\ current' = current /\ phase' \in {"write", "next"}
      BY <1>9 DEF Recheck, GiveUp
    <2>2. Exhausted
      BY <1>0, <2>1 DEF Tried
    <2>3. Exhausted'
      BY <2>1, <2>2, ExhaustedKept DEF Reducing
    <2> QED BY <2>3
  <1>10. CASE Unparsable \/ ReplayRefused \/ load_and_replay
    <2>1. phase' \in {"next", "ended", "cycle"}
      BY <1>10 DEF Unparsable, ReplayRefused, load_and_replay, Stop, GiveUp
    <2> QED BY <2>1
  <1>11. CASE StartCycle \/ SkipChunk
    <2>1. phase' \in {"cfg", "ddmin"}
      BY <1>11 DEF StartCycle, SkipChunk
    <2> QED BY <2>1
  <1>12. CASE RecheckRefused \/ write_artifacts \/ WriteFails \/ Panics \/ Finish
    <2>1. phase' \in {"ended", "next"}
      BY <1>12 DEF RecheckRefused, write_artifacts, WriteFails, Panics, Finish, Stop, GiveUp
    <2> QED BY <2>1
  <1>13. CASE UNCHANGED vars
    <2>1. UNCHANGED <<phase, current, best, progress>>
      BY <1>13 DEF vars, dd
    <2> QED BY <1>0, <2>1, ExhaustedKept DEF Tried, Reducing
  <1> QED BY <1>2, <1>3, <1>4, <1>5, <1>6, <1>7, <1>8, <1>9, <1>10, <1>11, <1>12, <1>13 DEF Next

-----------------------------------------------------------------------------
(* The re-check.                                                            *)

LEMMA AnswerSided ==
    ASSUME setup \in Setups, NEW s \in setup.answers
    PROVE  s.p \in ProgramSides /\ Evaluated(s).p \in ProgramSides
  BY SetupsAssumption DEF Evaluated

LEMMA FindingSided ==
    ASSUME Typed, idx <= Len(setup.findings)
    PROVE  Finding.p \in ProgramSides
  <1>1. setup.findings \in Seq([label : STRING, p : ProgramSides, k : KernelSides, prog : Programs])
    BY SetupsAssumption DEF Typed
  <1>2. idx \in 1 .. Len(setup.findings)
    BY SetupFacts DEF Typed
  <1>3. setup.findings[idx] \in [label : STRING, p : ProgramSides, k : KernelSides, prog : Programs]
    BY <1>1, <1>2, ElementOfSeq
  <1> QED BY <1>3 DEF Finding

LEMMA YesSided ==
    ASSUME Typed, Sided, phase \in Reducing, NEW c, NEW a \in Answers(c), a.kind = "yes"
    PROVE  a.sides.p \in ProgramSides
  <1>1. CASE c \in DOMAIN cache
    BY <1>1 DEF Answers, Sided
  <1>2. CASE c \notin DOMAIN cache
    <2>1. a \in Evaluations(c)
      BY <1>2 DEF Answers, NoBudget
    <2>2. PICK s : a = Judged(s) /\ (s = baseline \/ \E t \in setup.answers : s = Evaluated(t))
      BY <2>1 DEF Evaluations, No
    <2>3. a.sides = s
      BY <2>2 DEF Judged, No
    <2> QED BY <2>2, <2>3, AnswerSided DEF Sided, Typed
  <1> QED BY <1>1, <1>2

LEMMA RememberSided ==
    ASSUME Typed, Sided, phase \in Reducing, NEW c, NEW a \in Answers(c), Remember(c, a)
    PROVE  \A d \in DOMAIN cache' : cache'[d].kind = "yes" => cache'[d].sides.p \in ProgramSides
  <1>1. CASE cache' = cache
    BY <1>1 DEF Sided
  <1>2. CASE cache' = With(cache, c, a)
    <2>1. DOMAIN cache' = DOMAIN cache \cup {c} /\ \A d \in DOMAIN cache' : cache'[d] = IF d = c THEN a ELSE cache[d]
      BY <1>2 DEF With
    <2> QED BY <2>1, YesSided DEF Sided
  <1> QED BY <1>1, <1>2 DEF Remember, mind

LEMMA SidedStep == Inv /\ [Next]_vars => Sided'
  <1> SUFFICES ASSUME Inv, [Next]_vars PROVE Sided'
    OBVIOUS
  <1>0. Typed /\ Sided /\ Minimising /\ Remembered
    BY DEF Inv
  <1>1. CASE load_and_replay
    <2>1. setup' = setup /\ phase = "next" /\ idx <= Len(setup.findings)
      BY <1>1 DEF load_and_replay
    <2>2. PICK s \in {[p |-> Finding.p, k |-> Finding.k]} \cup setup.answers :
            \/ baseline' = Evaluated(s) /\ sides' = Evaluated(s) /\ cache' = <<>>
            \/ Stop(2) /\ cache' = cache
            \/ GiveUp /\ cache' = cache
      BY <1>1 DEF load_and_replay, mind
    <2>3. CASE baseline' = Evaluated(s) /\ sides' = Evaluated(s) /\ cache' = <<>>
      <3>1. Evaluated(s).p \in ProgramSides
        BY <1>0, <2>1, AnswerSided, FindingSided DEF Typed, Evaluated
      <3>2. DOMAIN cache' = {}
        BY <2>3
      <3> QED BY <2>3, <3>1, <3>2 DEF Sided
    <2>4. CASE (Stop(2) \/ GiveUp) /\ cache' = cache
      <3>1. phase' \notin Reducing
        BY <2>4 DEF Stop, GiveUp, Reducing
      <3> QED BY <1>0, <2>4, <3>1 DEF Sided
    <2> QED BY <2>2, <2>3, <2>4
  <1>2. CASE TryCandidate
    <2>1. PICK a \in Answers(Head(queue)) :
            Remember(Head(queue), a) /\ (sides' = sides \/ (a.kind = "yes" /\ sides' = a.sides))
      BY <1>2 DEF TryCandidate, apply
    <2>2. phase \in Reducing /\ phase' = phase /\ baseline' = baseline
      BY <1>2 DEF TryCandidate, Still, Reducing
    <2>3. sides'.p \in ProgramSides
      BY <1>0, <2>1, <2>2, YesSided DEF Sided
    <2>4. \A d \in DOMAIN cache' : cache'[d].kind = "yes" => cache'[d].sides.p \in ProgramSides
      BY <1>0, <2>1, <2>2, RememberSided
    <2> QED BY <1>0, <2>2, <2>3, <2>4 DEF Sided
  <1>3. CASE StartDdmin
    <2>1. phase \in Reducing /\ UNCHANGED <<baseline, sides>>
      BY <1>3 DEF StartDdmin, Still, Reducing
    <2>2. cache' = cache \/ \E a \in Answers(current) : Remember(current, a)
      BY <1>3 DEF StartDdmin, mind
    <2>3. \A d \in DOMAIN cache' : cache'[d].kind = "yes" => cache'[d].sides.p \in ProgramSides
      BY <1>0, <2>1, <2>2, RememberSided DEF Sided
    <2> QED BY <1>0, <2>1, <2>3 DEF Sided
  <1>4. CASE TryChunk
    <2>1. /\ phase = "ddmin" /\ UNCHANGED <<baseline, sides>>
          /\ \E a \in Answers(Tested) : Remember(Tested, a)
      BY <1>0, <1>4, ChunkTried DEF Still
    <2>2. phase \in Reducing
      BY <2>1 DEF Reducing
    <2>3. \A d \in DOMAIN cache' : cache'[d].kind = "yes" => cache'[d].sides.p \in ProgramSides
      BY <1>0, <2>1, <2>2, RememberSided
    <2> QED BY <1>0, <2>1, <2>2, <2>3 DEF Sided
  <1>5. CASE StartOperand
    <2>1. phase = "ddmin_done" /\ sides' = (IF best = current THEN sides ELSE cache[best].sides)
          /\ UNCHANGED <<baseline, cache>>
      BY <1>5 DEF StartOperand, Still, mind
    <2>2. best # current => best \in DOMAIN cache /\ cache[best].kind = "yes"
      BY <1>0, <2>1 DEF Minimising, Preserving
    <2> QED BY <1>0, <2>1, <2>2 DEF Sided, Reducing
  <1>6. CASE Unparsable \/ ReplayRefused \/ RecheckRefused \/ WriteFails \/ Panics \/ write_artifacts \/ Finish
    <2>1. phase' \notin Reducing /\ cache' = cache
      BY <1>6 DEF Unparsable, ReplayRefused, RecheckRefused, WriteFails, Panics, write_artifacts, Finish, Stop, GiveUp,
                  Reducing, mind
    <2> QED BY <1>0, <2>1 DEF Sided
  <1>7. CASE StartCycle \/ SkipCandidate \/ SkipChunk \/ Refine \/ LeaveDdmin \/ EndCycle \/ Recheck
    <2>1. phase \in Reducing /\ UNCHANGED <<baseline, sides, cache>>
      BY <1>7 DEF StartCycle, SkipCandidate, SkipChunk, Refine, LeaveDdmin, EndCycle, Recheck, Still, Reducing, mind
    <2> QED BY <1>0, <2>1 DEF Sided
  <1>8. CASE UNCHANGED vars
    BY <1>0, <1>8 DEF vars, Sided, mind
  <1> QED BY <1>1, <1>2, <1>3, <1>4, <1>5, <1>6, <1>7, <1>8 DEF Next

\* Sides are not the lack of them.
LEMMA SomeSides ==
    ASSUME NEW s, s.p \in ProgramSides
    PROVE  s # NoSides
  <1>1. NoSides.p = <<>>
    BY DEF NoSides, None
  <1>2. \A r \in ProgramSides : "mini" \in DOMAIN r
    BY DEF ProgramSides
  <1>3. DOMAIN <<>> = {}
    OBVIOUS
  <1> QED BY <1>1, <1>2, <1>3

LEMMA RecheckedStep == Inv /\ [Next]_vars => Rechecked'
  <1> SUFFICES ASSUME Inv, [Next]_vars PROVE Rechecked'
    OBVIOUS
  <1>0. Typed /\ Sided /\ Rechecked /\ Len(setup.findings) \in Nat /\ idx \in Nat
    BY SetupFacts DEF Inv, Typed
  <1>1. CASE load_and_replay
    <2>1. written' = written
      BY <1>1 DEF load_and_replay
    <2>2. \/ phase' = "cycle" /\ final' = NoSides /\ idx' = idx
          \/ Stop(2) \/ GiveUp
      BY <1>1 DEF load_and_replay
    <2>3. idx' \in {idx, idx + 1} /\ (phase' \in Reducing => phase' = "cycle" /\ final' = NoSides)
      BY <2>2 DEF Stop, GiveUp, Reducing
    <2> QED BY <1>0, <2>1, <2>3 DEF Rechecked, Reducing
  <1>2. CASE Recheck
    <2>1. PICK s \in Reevaluations :
            /\ final' = s
            /\ \/ preserves(Finding, s) /\ phase' = "write" /\ idx' = idx
               \/ phase' = "next" /\ idx' = idx + 1
      BY <1>2 DEF Recheck, GiveUp
    <2>2. phase = "recheck" /\ written' = written /\ setup' = setup
      BY <1>2 DEF Recheck
    <2>3. final' # NoSides
      <3>1. s.p = sides.p /\ sides.p \in ProgramSides
        BY <1>0, <2>2 DEF Reevaluations, Sided, Reducing
      <3> QED BY <2>1, <3>1, SomeSides
    <2>4. CASE preserves(Finding, s) /\ phase' = "write" /\ idx' = idx
      <3>1. preserves(Finding, final)'
        BY <2>1, <2>2, <2>4 DEF preserves, Finding, Classification
      <3> QED BY <1>0, <2>2, <2>3, <2>4, <3>1 DEF Rechecked
    <2>5. CASE phase' = "next" /\ idx' = idx + 1
      BY <1>0, <2>2, <2>5 DEF Rechecked, Reducing
    <2> QED BY <2>1, <2>4, <2>5
  <1>3. CASE write_artifacts
    <2>1. phase' = "next" /\ idx' = idx + 1 /\ written' = With(written, idx, current)
      BY <1>3 DEF write_artifacts
    <2>2. DOMAIN written' = DOMAIN written \cup {idx}
      BY <2>1 DEF With
    <2>3. idx >= 1
      BY <1>0 DEF Typed
    <2> QED BY <1>0, <2>1, <2>2, <2>3 DEF Rechecked, Reducing
  <1>4. CASE Unparsable \/ ReplayRefused \/ RecheckRefused \/ WriteFails \/ Panics \/ Finish
    <2>1. phase' \in {"next", "ended"} /\ written' = written /\ idx' \in {idx, idx + 1}
      BY <1>4 DEF Unparsable, ReplayRefused, RecheckRefused, WriteFails, Panics, Finish, Stop, GiveUp
    <2> QED BY <1>0, <2>1 DEF Rechecked, Reducing
  <1>5. CASE \/ StartCycle \/ SkipCandidate \/ TryCandidate \/ StartDdmin \/ SkipChunk \/ TryChunk \/ Refine
             \/ LeaveDdmin \/ StartOperand \/ EndCycle
    <2>1. phase \in Reducing \ {"write"} /\ phase' # "write" /\ UNCHANGED <<idx, final, written>>
      <3>1. CASE TryChunk
        BY <1>0, <3>1, ChunkTried DEF Inv, Still, Reducing
      <3>2. CASE ~TryChunk
        BY <1>5, <3>2 DEF StartCycle, SkipCandidate, TryCandidate, StartDdmin, SkipChunk, Refine, LeaveDdmin,
                          StartOperand, EndCycle, Still, Reducing
      <3> QED BY <3>1, <3>2
    <2> QED BY <1>0, <2>1 DEF Rechecked
  <1>6. CASE UNCHANGED vars
    BY <1>0, <1>6 DEF vars, Rechecked, preserves, Finding, Classification
  <1> QED BY <1>1, <1>2, <1>3, <1>4, <1>5, <1>6 DEF Next

LEMMA InvStep == Inv /\ [Next]_vars => Inv'
  BY TypedStep, RememberedStep, QueuedStep, MinimisingStep, TriedStep, SidedStep, RecheckedStep DEF Inv

LEMMA InvAlways == Spec => []Inv
  BY InitInv, InvStep, PTL DEF Spec

-----------------------------------------------------------------------------
(* What is concluded.                                                       *)

\* For every command line and whatever the oracle says, the driver keeps its
\* types, ddmin's best is what keep leaves of the reproducer, checks are
\* exactly the programs evaluated, and the budget is never overrun
\* (OracleCache::check, ddmin).
THEOREM TypeCorrect == Spec => []TypeOK
  <1>1. Inv => TypeOK
    <2> SUFFICES ASSUME Inv PROVE TypeOK
      OBVIOUS
    <2>1. Typed /\ Remembered /\ Minimising /\ Len(setup.findings) \in Nat
      BY SetupFacts DEF Inv, Typed
    <2>2. failed \in 0 .. Len(setup.findings)
      BY <2>1 DEF Typed
    <2>3. phase \in Phases /\ result \in {"idle", "reducing", "confirmed", "failed"} /\ exit \in {-1, 0, 1, 2, 101}
      BY <2>1 DEF Typed
    <2>4. (setup.budget > 0 => checks <= setup.budget) /\ checks = Cardinality(DOMAIN cache)
      BY <2>1 DEF Remembered
    <2>5. phase = "ddmin" =>
            /\ keep \subseteq DOMAIN current /\ chunk \in 0 .. n
            /\ best = IF keep = DOMAIN current THEN current ELSE delete_insns(current, DOMAIN current \ keep)
      BY <2>1 DEF Minimising
    <2> QED BY <2>2, <2>3, <2>4, <2>5 DEF TypeOK
  <1> QED BY <1>1, InvAlways, PTL

\* "1-minimal with respect to single-insn deletion when the budget allows"
\* (ddmin.rs), for every program: when a reproducer is about to be written,
\* the oracle has refused each of its single deletions that exists.
THEOREM Minimal == Spec => []OneMinimal
  <1>1. Inv => OneMinimal
    <2> SUFFICES ASSUME Inv, phase = "write", ~budget_exhausted, Len(current) >= 2, cache[current].kind = "yes",
                        NEW i \in DOMAIN current
                 PROVE  SingleRefused(i)
      BY DEF OneMinimal, SingleRefused
    <2>1. Exhausted /\ Len(current) \in Nat
      BY ProgramFacts DEF Inv, Tried, Typed
    <2> QED BY <2>1 DEF Exhausted
  <1> QED BY <1>1, InvAlways, PTL

-----------------------------------------------------------------------------
(* The reducer implements Shrink.                                           *)

LEMMA InitShrinks == Init => Reduction!Init
  <1> SUFFICES ASSUME Init PROVE Reduction!Init
    OBVIOUS
  <1>1. Preserving = {} /\ Range(written) = {}
    <2>1. DOMAIN cache = {} /\ DOMAIN written = {}
      BY DEF Init
    <2> QED BY <2>1 DEF Preserving, Range
  <1> QED BY <1>1 DEF Init, Reduction!Init, None, Checked

\* Before its re-check a reproducer is not checked; where none is being
\* reduced there is nothing to check.
LEMMA NotChecked ==
    ASSUME Inv
    PROVE  phase # "write" => ~Checked
  BY DEF Inv, Typed, Rechecked, Checked

LEMMA CheckedKept ==
    ASSUME UNCHANGED <<setup, idx, result, final>>
    PROVE  Checked' = Checked
  BY DEF Checked, preserves, Finding, Classification

\* A step that changes neither the reproducer, nor how the reduction and its
\* re-check stand, nor what is known or written, is a stutter.
LEMMA Stutters ==
    ASSUME UNCHANGED <<setup, idx, current, result, cache, final, written>>
    PROVE  UNCHANGED Reduction!vars
  <1>1. Preserving' = Preserving /\ Range(written)' = Range(written) /\ Checked' = Checked
    BY CheckedKept DEF Preserving
  <1> QED BY <1>1 DEF Reduction!vars

LEMMA Learns ==
    ASSUME Inv, phase \in Reducing, UNCHANGED <<setup, idx, current, result, final, written>>,
           NEW c, NEW a \in Answers(c), Remember(c, a)
    PROVE  [Reduction!Next]_(Reduction!vars)
  <1>1. result = "reducing" /\ result' = "reducing" /\ Remembered /\ setup \in Setups
    BY DEF Inv, Typed, Reducing
  <1>2. Preserving' = IF a.kind = "yes" THEN Preserving \cup {c} ELSE Preserving
    BY <1>1, Remembers
  <1>3. Checked' = Checked /\ Range(written)' = Range(written)
    BY CheckedKept
  <1>4. CASE a.kind = "yes"
    BY <1>1, <1>2, <1>3, <1>4 DEF Reduction!Learn, Reduction!Next
  <1>5. CASE a.kind # "yes"
    BY <1>1, <1>2, <1>3, <1>5 DEF Reduction!vars
  <1> QED BY <1>4, <1>5

LEMMA Refuses ==
    ASSUME Inv, phase = "next", result' = "failed", UNCHANGED <<current, cache, written>>
    PROVE  Reduction!Next
  <1>1. result # "reducing" /\ ~Checked /\ ~Checked'
    BY NotChecked DEF Inv, Typed, Reducing, Checked
  <1>2. Preserving' = Preserving /\ Range(written)' = Range(written)
    BY DEF Preserving
  <1>3. Checked \in BOOLEAN /\ Checked' \in BOOLEAN
    BY DEF Checked
  <1> QED BY <1>1, <1>2, <1>3 DEF Reduction!Refuse, Reduction!Next

LEMMA Fails ==
    ASSUME Inv, phase \in Reducing, result' = "failed", UNCHANGED <<current, cache, written>>
    PROVE  Reduction!Next
  <1>1. result = "reducing" /\ Checked' = FALSE
    BY DEF Inv, Typed, Reducing, Checked
  <1>2. Preserving' = Preserving /\ Range(written)' = Range(written)
    BY DEF Preserving
  <1> QED BY <1>1, <1>2 DEF Reduction!Fail, Reduction!Next

LEMMA StepShrinks == Inv /\ [Next]_vars => [Reduction!Next]_(Reduction!vars)
  <1> SUFFICES ASSUME Inv, [Next]_vars PROVE [Reduction!Next]_(Reduction!vars)
    OBVIOUS
  <1>0. Typed /\ Minimising /\ Remembered /\ Queued /\ setup \in Setups
    BY DEF Inv, Typed
  <1>1. CASE load_and_replay
    <2>1. phase = "next" /\ setup' = setup /\ idx <= Len(setup.findings)
      BY <1>1 DEF load_and_replay
    <2>2. /\ written' = written
          /\ \/ result' = "reducing" /\ current' = Finding.prog /\ cache' = <<>> /\ final' = NoSides
             \/ result' = "failed" /\ UNCHANGED <<current, cache>>
      BY <1>1 DEF load_and_replay, Stop, GiveUp, mind
    <2>3. CASE result' = "reducing" /\ current' = Finding.prog /\ cache' = <<>> /\ final' = NoSides
      <3>1. Preserving' = {}
        <4>1. DOMAIN cache' = {}
          BY <2>3
        <4> QED BY <4>1 DEF Preserving
      <3>2. current' \in UNION {{f.prog : f \in Range(s.findings)} : s \in Setups}
        <4>1. idx \in 1 .. Len(setup.findings)
          BY <1>0, <2>1, SetupFacts DEF Typed
        <4>2. DOMAIN setup.findings = 1 .. Len(setup.findings)
          <5>1. setup.findings \in Seq([label : STRING, p : ProgramSides, k : KernelSides, prog : Programs])
            BY <1>0, SetupsAssumption
          <5> QED BY <5>1, LenProperties
        <4>3. Finding \in Range(setup.findings)
          BY <4>1, <4>2 DEF Finding, Range
        <4>4. Finding.prog \in {f.prog : f \in Range(setup.findings)}
          BY <4>3
        <4> QED BY <1>0, <2>3, <4>4
      <3>3. result # "reducing" /\ Checked' = FALSE /\ Range(written)' = Range(written)
        BY <1>0, <2>1, <2>2, <2>3 DEF Typed, Reducing, Checked
      <3>4. Reduction!Start
        BY <2>3, <3>1, <3>2, <3>3 DEF Reduction!Start
      <3> QED BY <3>4 DEF Reduction!Next
    <2>4. CASE result' = "failed" /\ UNCHANGED <<current, cache>>
      BY <2>1, <2>2, <2>4, Refuses
    <2> QED BY <2>2, <2>3, <2>4
  <1>2. CASE Unparsable \/ ReplayRefused
    <2>1. phase = "next" /\ result' = "failed" /\ UNCHANGED <<current, cache, written>>
      BY <1>2 DEF Unparsable, ReplayRefused, Stop, GiveUp, mind
    <2> QED BY <2>1, Refuses
  <1>3. CASE TryCandidate
    <2>1. PICK a \in Answers(Head(queue)) :
            /\ Remember(Head(queue), a)
            /\ IF apply(a) THEN current' = Head(queue) ELSE current' = current
      BY <1>3 DEF TryCandidate
    <2>2. /\ phase \in {"cfg", "operand"} /\ phase' = phase /\ queue # <<>> /\ ~Idle(Head(queue))
          /\ UNCHANGED <<setup, idx, result, final, written>>
      BY <1>3 DEF TryCandidate, Still
    <2>3. result = "reducing" /\ phase \in Reducing
      BY <1>0, <2>2 DEF Typed, Reducing
    <2>4. CASE apply(a)
      <3>1. Lighter(Head(queue), current) /\ current' = Head(queue)
        BY <1>0, <2>1, <2>2, <2>4, HeadTyped
      <3>2. Preserving' = Preserving \cup {Head(queue)}
        BY <1>0, <2>1, <2>2, <2>4, Remembers DEF apply
      <3>a. Checked' = FALSE /\ Range(written)' = Range(written)
        <4>1. Checked \in BOOLEAN /\ ~Checked /\ Checked' = Checked
          BY <2>2, NotChecked, CheckedKept DEF Checked
        <4> QED BY <2>2, <4>1
      <3>3. Reduction!Replace
        BY <2>2, <2>3, <3>1, <3>2, <3>a DEF Reduction!Replace
      <3> QED BY <3>3 DEF Reduction!Next
    <2>5. CASE ~apply(a)
      BY <2>1, <2>2, <2>3, <2>5, Learns
    <2> QED BY <2>4, <2>5
  <1>4. CASE StartDdmin
    <2>1. /\ phase = "cfg" /\ UNCHANGED <<setup, idx, current, result, final, written>>
          /\ UNCHANGED mind \/ \E a \in Answers(current) : Remember(current, a)
      BY <1>4 DEF StartDdmin, Still
    <2>2. CASE UNCHANGED mind
      BY <2>1, <2>2, Stutters DEF mind
    <2>3. CASE \E a \in Answers(current) : Remember(current, a)
      BY <2>1, <2>3, Learns DEF Reducing
    <2> QED BY <2>1, <2>2, <2>3
  <1>5. CASE TryChunk
    <2>1. /\ phase = "ddmin" /\ UNCHANGED <<setup, idx, current, result, final, written>>
          /\ \E a \in Answers(Tested) : Remember(Tested, a)
      BY <1>0, <1>5, ChunkTried DEF Still
    <2> QED BY <2>1, Learns DEF Reducing
  <1>6. CASE StartOperand
    <2>1. phase = "ddmin_done" /\ current' = best /\ UNCHANGED <<setup, idx, result, cache, final, written>>
      BY <1>6 DEF StartOperand, Still, mind
    <2>2. CASE best = current
      BY <2>1, <2>2, Stutters
    <2>3. CASE best # current
      <3>1. best \in Preserving /\ Lighter(best, current) /\ result = "reducing"
        BY <1>0, <2>1, <2>3 DEF Minimising, Lighter, Typed, Reducing
      <3>2. Preserving' = Preserving /\ Range(written)' = Range(written) /\ Checked' = FALSE
        <4>1. Checked \in BOOLEAN /\ ~Checked /\ Checked' = Checked
          BY <2>1, NotChecked, CheckedKept DEF Checked
        <4> QED BY <2>1, <4>1 DEF Preserving
      <3>3. Reduction!Replace
        BY <2>1, <3>1, <3>2 DEF Reduction!Replace
      <3> QED BY <3>3 DEF Reduction!Next
    <2> QED BY <2>2, <2>3
  <1>7. CASE Recheck
    <2>1. phase = "recheck" /\ UNCHANGED <<setup, current, cache, written>> /\ (result' = "failed" \/ result' = result)
      BY <1>7 DEF Recheck, GiveUp, mind
    <2>2. CASE result' = "failed"
      BY <2>1, <2>2, Fails DEF Reducing
    <2>3. CASE result' = result
      <3>1. result = "reducing" /\ Preserving' = Preserving /\ Range(written)' = Range(written) /\ Checked' \in BOOLEAN
        BY <1>0, <2>1 DEF Typed, Reducing, Preserving, Checked
      <3>2. Reduction!Check
        BY <2>1, <2>3, <3>1 DEF Reduction!Check
      <3> QED BY <3>2 DEF Reduction!Next
    <2> QED BY <2>1, <2>2, <2>3
  <1>8. CASE write_artifacts
    <2>1. /\ phase = "write" /\ result' = "confirmed" /\ UNCHANGED <<current, cache>>
          /\ written' = With(written, idx, current)
      BY <1>8 DEF write_artifacts, mind
    <2>2. result = "reducing" /\ Checked /\ Checked' = FALSE
      BY <1>0, <2>1 DEF Inv, Typed, Reducing, Rechecked, Checked
    <2>3. Preserving' = Preserving
      BY <2>1 DEF Preserving
    <2>4. Range(written') = Range(written) \cup {current}
      <3>1. idx \notin DOMAIN written
        BY <1>0, SetupFacts DEF Inv, Rechecked, Typed
      <3>2. DOMAIN written' = DOMAIN written \cup {idx} /\ \A x \in DOMAIN written' :
                written'[x] = IF x = idx THEN current ELSE written[x]
        BY <2>1 DEF With
      <3> QED BY <3>1, <3>2 DEF Range
    <2>5. Reduction!Confirm
      BY <2>1, <2>2, <2>3, <2>4 DEF Reduction!Confirm
    <2> QED BY <2>5 DEF Reduction!Next
  <1>9. CASE RecheckRefused \/ WriteFails \/ Panics
    <2>1. phase \in Reducing /\ UNCHANGED <<current, cache, written>> /\ result' = "failed"
      BY <1>9 DEF RecheckRefused, WriteFails, Panics, Evaluating, Stop, GiveUp, mind, Reducing
    <2> QED BY <2>1, Fails
  <1>11. CASE StartCycle \/ SkipCandidate \/ SkipChunk \/ Refine \/ LeaveDdmin \/ EndCycle \/ Finish
    <2>1. UNCHANGED <<setup, idx, current, result, cache, final, written>>
      BY <1>11 DEF StartCycle, SkipCandidate, SkipChunk, Refine, LeaveDdmin, EndCycle, Finish, Still, mind
    <2> QED BY <2>1, Stutters
  <1>10. CASE UNCHANGED vars
    <2>1. UNCHANGED <<setup, idx, current, result, cache, final, written>>
      BY <1>10 DEF vars, mind
    <2> QED BY <2>1, Stutters
  <1> QED BY <1>1, <1>2, <1>3, <1>4, <1>5, <1>6, <1>7, <1>8, <1>9, <1>10, <1>11 DEF Next

\* The reducer implements Shrink, for every finding, every pass and whatever
\* the oracle answers: the reproducer is only ever replaced by a lighter
\* program that was seen to preserve the finding, and it is written only where
\* the evaluation made after its last replacement, which may differ from what
\* the passes saw, still preserves the finding (reduce_finding, apply, ddmin).
THEOREM Refinement == Spec => Shrinks
  BY InitShrinks, StepShrinks, InvAlways, PTL DEF Spec, Shrinks, Reduction!Spec
=============================================================================
