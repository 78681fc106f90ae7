--------------------------- MODULE FrontendProofs ---------------------------
(***************************************************************************)
(* Proofs about the way of a program to the verifier, for every file, seed  *)
(* and bound.                                                               *)
(***************************************************************************)
EXTENDS Frontend, FiniteSetTheorems, SequenceTheorems, WellFoundedInduction, TLAPS

-----------------------------------------------------------------------------
(* Numbers, and recursion over an index.                                    *)

\* A nonempty set of numbers has a least one.
LEMMA LeastNat ==
    ASSUME NEW S \in SUBSET Nat, S # {}
    PROVE  \E m \in S : \A k \in S : m <= k
  <1>1. PICK m \in S : \A k \in S : ~(<<k, m>> \in OpToRel(<, Nat))
    BY NatLessThanWellFounded, WFMin
  <1>2. \A k \in S : ~(k < m)
    BY <1>1 DEF OpToRel
  <1> QED BY <1>2

\* What is computed from its predecessor, step by step.
Iterated(f, a, g, N) == \A k \in 0 .. N : f[k] = IF k = 0 THEN a ELSE g[<<f[k - 1], k>>]

LEMMA IterateExists ==
    ASSUME NEW S, NEW N \in Nat, NEW a \in S, NEW g \in [S \X (1 .. N) -> S]
    PROVE  \E f \in [0 .. N -> S] : Iterated(f, a, g, N)
  <1> USE DEF Iterated
  <1> DEFINE Is(m, f) == Iterated(f, a, g, m)
             Bad == {m \in 0 .. N : ~ \E f \in [0 .. m -> S] : Is(m, f)}
  <1>1. SUFFICES ASSUME Bad # {} PROVE FALSE
    OBVIOUS
  <1>2. PICK m \in Bad : \A k \in Bad : m <= k
    <2>1. Bad \in SUBSET Nat
      OBVIOUS
    <2> HIDE DEF Bad
    <2> QED BY <1>1, <2>1, LeastNat
  <1>3. CASE m = 0
    <2> DEFINE f == [c \in 0 .. 0 |-> a]
    <2>1. f \in [0 .. 0 -> S] /\ Is(0, f)
      OBVIOUS
    <2> QED BY <1>2, <1>3, <2>1
  <1>4. CASE m # 0
    <2>0. m \in Nat /\ m \in 1 .. N /\ m - 1 \in 0 .. N
      BY <1>2, <1>4
    <2>1. m - 1 \notin Bad
      <3> HIDE DEF Bad
      <3> QED BY <1>2, <2>0
    <2>2. PICK h \in [0 .. (m - 1) -> S] : Is(m - 1, h)
      BY <2>0, <2>1
    <2> DEFINE x == g[<<h[m - 1], m>>]
               f == [c \in 0 .. m |-> IF c = m THEN x ELSE h[c]]
    <2>3. x \in S
      BY <2>0, <2>2
    <2> HIDE DEF x
    <2>4. f \in [0 .. m -> S]
      BY <2>0, <2>2, <2>3
    <2>5. ASSUME NEW c \in 0 .. m
          PROVE  f[c] = IF c = 0 THEN a ELSE g[<<f[c - 1], c>>]
      <3>1. CASE c = m
        <4>1. f[m - 1] = h[m - 1] /\ f[m] = x
          BY <2>0
        <4> HIDE DEF f
        <4> QED BY <1>4, <3>1, <4>1 DEF x
      <3>2. CASE c # m
        <4>1. c \in 0 .. (m - 1) /\ f[c] = h[c] /\ (c # 0 => f[c - 1] = h[c - 1])
          BY <2>0, <3>2
        <4>2. h[c] = IF c = 0 THEN a ELSE g[<<h[c - 1], c>>]
          BY <2>2, <4>1
        <4> HIDE DEF f
        <4> QED BY <4>1, <4>2
      <3> QED BY <3>1, <3>2
    <2> HIDE DEF f
    <2>6. Is(m, f)
      BY <2>5
    <2> HIDE DEF Is
    <2> QED BY <1>2, <2>4, <2>6
  <1> QED BY <1>3, <1>4

\* A nonempty set of numbers with a bound has a greatest one.
LEMMA GreatestNat ==
    ASSUME NEW N \in Nat, NEW S \in SUBSET (0 .. N), S # {}
    PROVE  \E m \in S : \A k \in S : k <= m
  <1> DEFINE T == {N - k : k \in S}
  <1>0. \A k \in S : k \in Nat /\ k <= N
    OBVIOUS
  <1>1. T \in SUBSET Nat /\ T # {}
    <2>1. \A k \in S : N - k \in Nat
      BY <1>0
    <2>2. PICK k : k \in S
      OBVIOUS
    <2>3. N - k \in T
      BY <2>2
    <2> QED BY ONLY <2>1, <2>3
  <1>2. PICK t \in T : \A k \in T : t <= k
    <2> HIDE DEF T
    <2> QED BY <1>1, LeastNat
  <1>3. PICK m \in S : t = N - m
    BY <1>2
  <1>4. ASSUME NEW k \in S PROVE k <= m
    <2>1. N - k \in T
      OBVIOUS
    <2>2. N - m <= N - k
      BY <1>2, <1>3, <2>1
    <2>3. m \in Int /\ k \in Int
      OBVIOUS
    <2> QED BY <2>2, <2>3
  <1> QED BY <1>4

-----------------------------------------------------------------------------
(* Subprograms.                                                             *)

LEMMA PcFacts ==
    ASSUME NEW T, NEW p \in Seq(T)
    PROVE  /\ Len(p) \in Nat /\ DOMAIN p = 1 .. Len(p) /\ Pcs(p) \in SUBSET Nat
           /\ \A pc \in Pcs(p) : pc \in Nat /\ pc < Len(p) /\ At(p, pc) \in T /\ pc + 1 \in DOMAIN p
           /\ \A n \in DOMAIN p : n - 1 \in Pcs(p) /\ p[n] \in T /\ n \in Nat /\ n >= 1
           /\ \A n \in Nat : n < Len(p) => n \in Pcs(p)
  BY DEF Pcs, At

LEMMA SubStartFacts ==
    ASSUME NEW p \in Seq(Insns), NEW e \in SUBSET Pcs(p), 0 \in e, NEW pc \in Pcs(p)
    PROVE  /\ SubStart(e, pc) \in e /\ SubStart(e, pc) <= pc
           /\ \A t \in e : t <= pc => t <= SubStart(e, pc)
  <1>1. pc \in Nat /\ \A t \in e : t \in Nat
    BY PcFacts
  <1> DEFINE S == {t \in e : t <= pc}
  <1>2. S \in SUBSET (0 .. pc) /\ S # {}
    <2>1. \A t \in S : t \in 0 .. pc
      BY <1>1
    <2>2. 0 \in S
      BY <1>1
    <2> QED BY ONLY <2>1, <2>2
  <1>3. PICK m \in S : \A k \in S : k <= m
    <2> HIDE DEF S
    <2> QED BY <1>1, <1>2, GreatestNat
  <1>4. m \in e /\ m <= pc /\ \A t \in e : t <= pc => t <= m
    BY <1>3
  <1> QED BY <1>4 DEF SubStart

LEMMA SubEndFacts ==
    ASSUME NEW p \in Seq(Insns), NEW e \in SUBSET Pcs(p), NEW pc \in Pcs(p)
    PROVE  /\ SubEnd(p, e, pc) \in Nat /\ SubEnd(p, e, pc) > pc /\ SubEnd(p, e, pc) <= Len(p)
           /\ \A t \in e : t > pc => SubEnd(p, e, pc) <= t
           /\ SubEnd(p, e, pc) \in e \/ SubEnd(p, e, pc) = Len(p)
  <1>1. pc \in Nat /\ pc < Len(p) /\ Len(p) \in Nat /\ \A t \in e : t \in Nat /\ t < Len(p)
    BY PcFacts
  <1>2. CASE \E s \in e : s > pc
    <2> DEFINE S == {t \in e : t > pc}
    <2>1. S \in SUBSET Nat /\ S # {}
      BY <1>1, <1>2
    <2>2. PICK m \in S : \A k \in S : m <= k
      <3> HIDE DEF S
      <3> QED BY <2>1, LeastNat
    <2>3. m \in e /\ m > pc /\ \A t \in e : t > pc => m <= t
      BY <2>2
    <2> DEFINE c == CHOOSE s \in e : s > pc /\ \A t \in e : t > pc => s <= t
    <2>4. SubEnd(p, e, pc) = c
      BY <1>2 DEF SubEnd
    <2>5. c \in e /\ c > pc /\ \A t \in e : t > pc => c <= t
      BY <2>3
    <2> HIDE DEF c
    <2> QED BY <1>1, <2>4, <2>5
  <1>3. CASE ~ \E s \in e : s > pc
    <2>1. SubEnd(p, e, pc) = Len(p)
      BY <1>3 DEF SubEnd
    <2> QED BY <1>1, <1>3, <2>1
  <1> QED BY <1>2, <1>3

\* A subprogram is one interval: all its instructions have its entry and end.
LEMMA SameSub ==
    ASSUME NEW p \in Seq(Insns), NEW e \in SUBSET Pcs(p), 0 \in e, NEW pc \in Pcs(p),
           NEW q \in SubStart(e, pc) .. SubEnd(p, e, pc) - 1
    PROVE  /\ q \in Pcs(p)
           /\ SubStart(e, q) = SubStart(e, pc) /\ SubEnd(p, e, q) = SubEnd(p, e, pc)
  <1> DEFINE s == SubStart(e, pc)
             t == SubEnd(p, e, pc)
  <1>1. /\ s \in e /\ s <= pc /\ \A u \in e : u <= pc => u <= s
        /\ t \in Nat /\ t > pc /\ t <= Len(p) /\ \A u \in e : u > pc => t <= u
        /\ t \in e \/ t = Len(p)
    BY SubStartFacts, SubEndFacts
  <1>2. pc \in Nat /\ Len(p) \in Nat /\ \A u \in e : u \in Nat /\ u < Len(p)
    BY PcFacts
  <1>3. q \in s .. t - 1
    OBVIOUS
  <1> HIDE DEF s, t
  <1>4. q \in Nat /\ s <= q /\ q < t
    BY <1>1, <1>2, <1>3
  <1>5. q \in Pcs(p)
    BY <1>1, <1>2, <1>4, PcFacts
  <1> DEFINE v == SubStart(e, q)
             w == SubEnd(p, e, q)
  <1>6. /\ v \in e /\ v <= q /\ \A u \in e : u <= q => u <= v
        /\ w \in Nat /\ w > q /\ w <= Len(p) /\ \A u \in e : u > q => w <= u
        /\ w \in e \/ w = Len(p)
    BY <1>5, SubStartFacts, SubEndFacts
  <1> HIDE DEF v, w
  <1>7. v <= pc /\ s <= v
    BY <1>1, <1>2, <1>4, <1>6
  <1>8. v = s
    BY <1>1, <1>2, <1>6, <1>7
  <1>9. w <= t
    BY <1>1, <1>2, <1>4, <1>6
  <1>10. t <= w
    <2>1. CASE w = Len(p)
      BY <1>1, <2>1
    <2>2. CASE w \in e
      <3>1. ~(w <= pc)
        BY <1>1, <1>2, <1>4, <1>6, <2>2
      <3> QED BY <1>1, <1>2, <2>2, <3>1
    <2> QED BY <1>6, <2>1, <2>2
  <1>11. w = t
    BY <1>1, <1>6, <1>9, <1>10
  <1> QED BY <1>5, <1>8, <1>11 DEF s, t, v, w

\* The last instruction of the program ends a subprogram.
LEMMA ProgramEnds ==
    ASSUME NEW p \in Seq(Insns), NEW e \in SUBSET Pcs(p), 0 \in e, EndsOk(p, e)
    PROVE  Len(p) > 0 /\ At(p, Len(p) - 1).op \in {"exit", "ja"}
  <1>1. Len(p) \in Nat /\ 0 < Len(p) /\ \A t \in e : t \in Nat /\ t < Len(p)
    BY PcFacts
  <1>2. e \in SUBSET (0 .. Len(p)) /\ e # {}
    BY <1>1
  <1>3. PICK m \in e : \A k \in e : k <= m
    BY <1>1, <1>2, GreatestNat
  <1>4. SubEnd(p, e, m) = Len(p)
    <2>1. ~ \E s \in e : s > m
      BY <1>1, <1>3
    <2> QED BY <2>1 DEF SubEnd
  <1> QED BY <1>1, <1>3, <1>4 DEF EndsOk

\* The elements of a set of numbers, by their position in it.
LEMMA Positions ==
    ASSUME NEW N \in Nat, NEW S \in SUBSET (0 .. N)
    PROVE  /\ IsFiniteSet(S) /\ Cardinality(S) \in Nat
           /\ \A k \in 1 .. Cardinality(S) : \E r \in S : Cardinality({q \in S : q <= r}) = k
  <1> DEFINE Below(i) == {j \in S : j <= i}
             Pos(i) == Cardinality(Below(i))
  <1>0. IsFiniteSet(S) /\ Cardinality(S) \in Nat
    <2>1. IsFiniteSet(0 .. N)
      BY FS_Interval
    <2>2. IsFiniteSet(S)
      BY <2>1, FS_Subset
    <2> QED BY <2>2, FS_CardinalityType
  <1>1. \A i : IsFiniteSet(Below(i)) /\ Pos(i) \in Nat
    <2> SUFFICES ASSUME NEW i PROVE IsFiniteSet(Below(i)) /\ Pos(i) \in Nat
      OBVIOUS
    <2>1. Below(i) \in SUBSET S
      OBVIOUS
    <2>2. IsFiniteSet(Below(i))
      BY <1>0, <2>1, FS_Subset
    <2> QED BY <2>2, FS_CardinalityType
  <1>a. \A j \in S : j \in Nat /\ j <= N
    OBVIOUS
  <1>2. ASSUME NEW k \in 1 .. Cardinality(S) PROVE \E r \in S : Pos(r) = k
    <2> DEFINE M == {m \in Nat : Pos(m) >= k}
    <2>1. N \in M
      <3>1. Below(N) = S
        BY <1>a
      <3>2. Pos(N) = Cardinality(S)
        BY <3>1
      <3> HIDE DEF Pos
      <3> QED BY <1>0, <3>2
    <2>2. PICK m \in M : \A l \in M : m <= l
      <3>1. M \in SUBSET Nat /\ M # {}
        BY <2>1
      <3> HIDE DEF M
      <3> QED BY <3>1, LeastNat
    <2>a. m \in Nat /\ Pos(m) \in Nat /\ Pos(m) >= k
      BY <1>1, <2>2
    <2>3. CASE m \notin S
      <3>1. m # 0
        <4> SUFFICES ASSUME m = 0 PROVE FALSE
          OBVIOUS
        <4>1. Below(m) = {}
          <5> SUFFICES ASSUME NEW j \in S, j <= m PROVE FALSE
            OBVIOUS
          <5>1. j = m
            BY <1>a
          <5> QED BY <2>3, <5>1
        <4>2. Pos(m) = 0
          BY <4>1, FS_EmptySet
        <4> HIDE DEF Pos
        <4> QED BY <1>0, <2>a, <4>2
      <3>2. m - 1 \in Nat
        BY <2>a, <3>1
      <3>3. \A j \in S : j <= m <=> j <= m - 1
        BY <1>a, <2>a, <2>3
      <3>4. Below(m) = Below(m - 1)
        BY <3>3
      <3>5. m - 1 \in M
        <4>1. Pos(m - 1) = Pos(m)
          BY <3>4
        <4> HIDE DEF Pos
        <4> QED BY <2>a, <3>2, <4>1
      <3>6. m <= m - 1
        BY ONLY <2>2, <3>5
      <3> QED BY <2>a, <3>6
    <2>4. CASE m \in S
      <3>1. CASE m = 0
        <4>1. \A j \in S : j <= m <=> j = 0
          BY <1>a, <3>1
        <4>a. Below(m) = {0}
          BY <2>4, <3>1, <4>1
        <4>2. Pos(m) = 1
          BY <4>a, FS_Singleton
        <4>3. Pos(m) = k
          <5> HIDE DEF Pos
          <5> QED BY <1>0, <2>a, <4>2
        <4> QED BY <2>4, <4>3
      <3>2. CASE m # 0
        <4>1. m - 1 \in Nat
          BY <2>a, <3>2
        <4>2. m - 1 \notin M
          <5> HIDE DEF M
          <5> QED BY <2>a, <2>2, <4>1
        <4>3. ~(Pos(m - 1) >= k)
          <5> HIDE DEF Pos
          <5> QED BY <4>1, <4>2
        <4>4. \A j \in S : j <= m <=> j <= m - 1 \/ j = m
          BY <1>a, <2>a
        <4>5. ~(m <= m - 1) /\ m <= m
          BY <2>a
        <4>6. Below(m) = Below(m - 1) \cup {m} /\ m \notin Below(m - 1)
          BY <2>4, <4>4, <4>5
        <4>7. Pos(m) = Pos(m - 1) + 1
          <5>1. IsFiniteSet(Below(m - 1))
            BY <1>1
          <5> HIDE DEF Below
          <5> QED BY <4>6, <5>1, FS_AddElement
        <4>8. Pos(m - 1) \in Nat
          BY <1>1
        <4>9. Pos(m) = k
          <5> HIDE DEF Pos
          <5> QED BY <1>0, <2>a, <4>3, <4>7, <4>8
        <4> QED BY <2>4, <4>9
      <3> QED BY <3>1, <3>2
    <2> QED BY <2>3, <2>4
  <1> QED BY <1>0, <1>2

-----------------------------------------------------------------------------
(* The graph.                                                               *)

LEMMA EntryFacts ==
    ASSUME NEW p \in Seq(Insns)
    PROVE  /\ 0 \in Entries(p)
           /\ \A pc \in CallSites(p) : pc \in Pcs(p) /\ At(p, pc).op = "callsub" /\ Target(p, pc) \in Entries(p)
           /\ \A s \in Entries(p) : s # 0 => \E pc \in CallSites(p) : Target(p, pc) = s
           /\ \A pc \in Pcs(p) : Target(p, pc) \in Int
  <1>1. \A pc \in Pcs(p) : Target(p, pc) \in Int
    <2> SUFFICES ASSUME NEW pc \in Pcs(p) PROVE Target(p, pc) \in Int
      OBVIOUS
    <2>1. pc \in Nat /\ At(p, pc) \in Insns
      BY PcFacts
    <2>2. At(p, pc).off \in Int
      BY <2>1 DEF Insns
    <2> QED BY <2>1, <2>2 DEF Target
  <1> QED BY <1>1 DEF Entries, CallSites

\* The return sites are what follows the calls.
LEMMA ReturnFacts ==
    ASSUME NEW p \in Seq(Insns), NEW s
    PROVE  /\ Returns(p, s) \in Seq({pc + 1 : pc \in CallSites(p)})
           /\ Range(Returns(p, s)) \subseteq {pc + 1 : pc \in {q \in CallSites(p) : Target(p, q) = s}}
  <1> DEFINE sites == {pc + 1 : pc \in {q \in CallSites(p) : Target(p, q) = s}}
             r(n) == CHOOSE r \in sites : Cardinality({q \in sites : q <= r}) = n
             N == Cardinality(sites)
  <1>1. Len(p) \in Nat /\ \A pc \in CallSites(p) : pc \in Nat /\ pc < Len(p)
    BY PcFacts DEF CallSites
  <1>2. sites \in SUBSET (0 .. Len(p))
    <2> SUFFICES ASSUME NEW pc \in CallSites(p) PROVE pc + 1 \in 0 .. Len(p)
      OBVIOUS
    <2> QED BY <1>1
  <1>3. Returns(p, s) = [n \in 1 .. N |-> r(n)]
    BY DEF Returns
  <1>4. sites \in SUBSET {pc + 1 : pc \in CallSites(p)}
    OBVIOUS
  <1> HIDE DEF sites
  <1>5. N \in Nat /\ \A n \in 1 .. N : r(n) \in sites
    BY <1>1, <1>2, Positions
  <1> HIDE DEF r, N
  <1>6. Returns(p, s) \in Seq(sites)
    BY <1>3, <1>5
  <1>7. Returns(p, s) \in Seq({pc + 1 : pc \in CallSites(p)})
    BY <1>3, <1>4, <1>5
  <1>8. Range(Returns(p, s)) \subseteq sites
    BY <1>3, <1>5 DEF Range
  <1> QED BY <1>7, <1>8 DEF sites

Succ(p, e, pc) == Range(Nexts(p, e, pc))

\* The successors visit_insn lists, by kind of instruction.
LEMMA NextsByKind ==
    ASSUME NEW p, NEW e, NEW pc
    PROVE  /\ At(p, pc).op = "exit" /\ SubStart(e, pc) = 0 => Nexts(p, e, pc) = <<>>
           /\ At(p, pc).op = "exit" /\ SubStart(e, pc) # 0 => Nexts(p, e, pc) = Returns(p, SubStart(e, pc))
           /\ At(p, pc).op \in {"ja", "callsub"} => Nexts(p, e, pc) = <<Target(p, pc)>>
           /\ At(p, pc).op \in Conditional => Nexts(p, e, pc) = <<Target(p, pc), pc + 1>>
           /\ At(p, pc).op \notin Conditional \cup {"exit", "ja", "callsub"} => Nexts(p, e, pc) = <<pc + 1>>
  <1> DEFINE op == At(p, pc).op
             t == Target(p, pc)
             r == Returns(p, SubStart(e, pc))
  <1>1. Nexts(p, e, pc) = CASE op = "exit" -> IF SubStart(e, pc) = 0 THEN <<>> ELSE r
                            [] op = "ja" -> <<t>>
                            [] op \in Conditional -> <<t, pc + 1>>
                            [] op = "callsub" -> <<t>>
                            [] OTHER -> <<pc + 1>>
    BY DEF Nexts
  <1> HIDE DEF op, t, r
  <1>2. (op = "exit" => op \notin Conditional) /\ (op = "ja" => op \notin Conditional) /\ (op = "callsub" => op \notin Conditional)
    BY DEF Conditional
  <1>3. op = "exit" /\ SubStart(e, pc) = 0 => Nexts(p, e, pc) = <<>>
    BY <1>1, <1>2
  <1>4. op = "exit" /\ SubStart(e, pc) # 0 => Nexts(p, e, pc) = r
    BY <1>1, <1>2
  <1>5. op \in {"ja", "callsub"} => Nexts(p, e, pc) = <<t>>
    BY <1>1, <1>2
  <1>6. op \in Conditional => Nexts(p, e, pc) = <<t, pc + 1>>
    BY <1>1, <1>2
  <1>7. op \notin Conditional \cup {"exit", "ja", "callsub"} => Nexts(p, e, pc) = <<pc + 1>>
    BY <1>1, <1>2
  <1> QED BY <1>3, <1>4, <1>5, <1>6, <1>7 DEF op, t, r

LEMMA SuccByKind ==
    ASSUME NEW p, NEW e, NEW pc
    PROVE  /\ At(p, pc).op = "exit" /\ SubStart(e, pc) = 0 => Succ(p, e, pc) = {}
           /\ At(p, pc).op = "exit" /\ SubStart(e, pc) # 0 => Succ(p, e, pc) = Range(Returns(p, SubStart(e, pc)))
           /\ At(p, pc).op \in {"ja", "callsub"} => Succ(p, e, pc) = {Target(p, pc)}
           /\ At(p, pc).op \in Conditional => Succ(p, e, pc) = {Target(p, pc), pc + 1}
           /\ At(p, pc).op \notin Conditional \cup {"exit", "ja", "callsub"} => Succ(p, e, pc) = {pc + 1}
  <1> DEFINE t == Target(p, pc)
             i == pc + 1
  <1> HIDE DEF t, i
  <1>1. ASSUME NEW x PROVE Range(<<x>>) = {x}
    <2>1. DOMAIN <<x>> = {1} /\ <<x>>[1] = x
      OBVIOUS
    <2> QED BY <2>1 DEF Range
  <1>2. Range(<<t, i>>) = {t, i}
    <2>1. DOMAIN <<t, i>> = {1, 2} /\ <<t, i>>[1] = t /\ <<t, i>>[2] = i
      OBVIOUS
    <2> QED BY <2>1 DEF Range
  <1>3. Range(<<>>) = {}
    <2>1. DOMAIN <<>> = {}
      OBVIOUS
    <2> QED BY <2>1 DEF Range
  <1> QED BY <1>1, <1>2, <1>3, NextsByKind DEF Succ, t, i

\* Where visit_insn succeeds, the search stays in the program.
LEMMA NextsTyped ==
    ASSUME NEW p \in Seq(Insns), Entries(p) \subseteq Pcs(p), EndsOk(p, Entries(p)),
           NEW pc \in Pcs(p), visit_insn_ok(p, Entries(p), pc)
    PROVE  /\ Nexts(p, Entries(p), pc) \in Seq(Pcs(p))
           /\ Succ(p, Entries(p), pc) \subseteq Pcs(p)
  <1> DEFINE e == Entries(p)
             t == Target(p, pc)
             nexts == Nexts(p, e, pc)
  <1>0. 0 \in e /\ e \in SUBSET Pcs(p)
    BY EntryFacts
  <1>1. pc \in Nat /\ Len(p) \in Nat
    BY PcFacts
  <1>2. /\ SubStart(e, pc) \in e /\ SubEnd(p, e, pc) \in Nat /\ SubEnd(p, e, pc) <= Len(p)
    BY <1>0, SubStartFacts, SubEndFacts
  <1>3. SubStart(e, pc) \in Nat
    BY <1>0, <1>2, PcFacts
  <1> HIDE DEF e
  <1>4. SUFFICES nexts \in Seq(Pcs(p))
    <2>1. Range(nexts) \subseteq Pcs(p)
      BY <1>4 DEF Range
    <2> QED BY <1>4, <2>1 DEF Succ, e
  <1>5. CASE At(p, pc).op = "exit" /\ SubStart(e, pc) = 0
    BY <1>5, NextsByKind, EmptySeq
  <1>6. CASE At(p, pc).op = "exit" /\ SubStart(e, pc) # 0
    <2>1. ASSUME NEW q \in CallSites(p) PROVE q + 1 \in Pcs(p)
      <3>1. q \in Nat /\ q < Len(p) /\ At(p, q).op = "callsub"
        BY PcFacts DEF CallSites
      <3>2. At(p, Len(p) - 1).op # "callsub"
        BY <1>0, ProgramEnds DEF e
      <3>3. q # Len(p) - 1
        BY <3>1, <3>2
      <3>4. q + 1 \in Nat /\ q + 1 < Len(p)
        BY <1>1, <3>1, <3>3
      <3> QED BY <3>4, PcFacts
    <2>2. {q + 1 : q \in CallSites(p)} \subseteq Pcs(p)
      BY <2>1
    <2>3. nexts \in Seq({q + 1 : q \in CallSites(p)})
      BY <1>6, NextsByKind, ReturnFacts
    <2> HIDE DEF nexts
    <2> QED BY <2>2, <2>3
  <1>7. CASE At(p, pc).op \in {"ja", "callsub"}
    <2>1. t \in Pcs(p)
      <3>1. CASE At(p, pc).op = "callsub"
        BY <1>0, <3>1 DEF visit_insn_ok, e
      <3>2. CASE At(p, pc).op = "ja"
        <4>1. t \in SubStart(e, pc) .. SubEnd(p, e, pc) - 1
          BY <3>2 DEF visit_insn_ok, e
        <4>2. t \in Nat /\ t < Len(p)
          BY <1>1, <1>2, <1>3, <4>1
        <4> QED BY <4>2, PcFacts
      <3> QED BY <1>7, <3>1, <3>2
    <2>2. nexts = <<t>>
      BY <1>7, NextsByKind
    <2> QED BY <2>1, <2>2
  <1>8. CASE At(p, pc).op \in Conditional
    <2>1. t \in SubStart(e, pc) .. SubEnd(p, e, pc) - 1
      BY <1>8 DEF visit_insn_ok, e
    <2>2. pc + 1 < SubEnd(p, e, pc)
      BY <1>8, SuccByKind DEF visit_insn_ok, e, Succ
    <2>3. t \in Pcs(p) /\ pc + 1 \in Pcs(p)
      BY <1>1, <1>2, <1>3, <2>1, <2>2, PcFacts
    <2>4. nexts = <<t, pc + 1>>
      BY <1>8, NextsByKind
    <2> QED BY <2>3, <2>4
  <1>9. CASE At(p, pc).op \notin Conditional \cup {"exit", "ja", "callsub"}
    <2>1. pc + 1 < SubEnd(p, e, pc)
      BY <1>9, SuccByKind DEF visit_insn_ok, e, Succ
    <2>2. pc + 1 \in Pcs(p)
      BY <1>1, <1>2, <2>1, PcFacts
    <2>3. nexts = <<pc + 1>>
      BY <1>9, NextsByKind
    <2> QED BY <2>2, <2>3
  <1> QED BY <1>5, <1>6, <1>7, <1>8, <1>9

-----------------------------------------------------------------------------
(* Decoding and encoding.                                                   *)

LEMMA InsnFields ==
    ASSUME NEW a, NEW b, NEW c, NEW d, NEW f
    PROVE  /\ Insn(a, b, c, d, f).op = a /\ Insn(a, b, c, d, f).dst = b /\ Insn(a, b, c, d, f).src = c
           /\ Insn(a, b, c, d, f).off = d /\ Insn(a, b, c, d, f).imm = f
           /\ a \in Ops /\ b \in 0 .. 15 /\ c \in 0 .. 15 /\ d \in Int /\ f \in Int => Insn(a, b, c, d, f) \in Insns
  BY DEF Insn, Insns

LEMMA InsnOf ==
    ASSUME NEW s \in Insns
    PROVE  /\ s = Insn(s.op, s.dst, s.src, s.off, s.imm)
           /\ s.op \in Ops /\ s.dst \in 0 .. 15 /\ s.src \in 0 .. 15 /\ s.off \in Int /\ s.imm \in Int
           /\ \A v : /\ [s EXCEPT !.op = v] = Insn(v, s.dst, s.src, s.off, s.imm)
                     /\ [s EXCEPT !.dst = v] = Insn(s.op, v, s.src, s.off, s.imm)
                     /\ [s EXCEPT !.src = v] = Insn(s.op, s.dst, v, s.off, s.imm)
                     /\ [s EXCEPT !.off = v] = Insn(s.op, s.dst, s.src, v, s.imm)
                     /\ [s EXCEPT !.imm = v] = Insn(s.op, s.dst, s.src, s.off, v)
  <1>1. s.op \in Ops /\ s.dst \in 0 .. 15 /\ s.src \in 0 .. 15 /\ s.off \in Int /\ s.imm \in Int
    BY DEF Insns
  <1>2. s = Insn(s.op, s.dst, s.src, s.off, s.imm)
    BY DEF Insns, Insn
  <1>3. ASSUME NEW v PROVE [s EXCEPT !.op = v] = Insn(v, s.dst, s.src, s.off, s.imm)
    BY DEF Insns, Insn
  <1>4. ASSUME NEW v PROVE [s EXCEPT !.dst = v] = Insn(s.op, v, s.src, s.off, s.imm)
    BY DEF Insns, Insn
  <1>5. ASSUME NEW v PROVE [s EXCEPT !.src = v] = Insn(s.op, s.dst, v, s.off, s.imm)
    BY DEF Insns, Insn
  <1>6. ASSUME NEW v PROVE [s EXCEPT !.off = v] = Insn(s.op, s.dst, s.src, v, s.imm)
    BY DEF Insns, Insn
  <1>7. ASSUME NEW v PROVE [s EXCEPT !.imm = v] = Insn(s.op, s.dst, s.src, s.off, v)
    BY DEF Insns, Insn
  <1> QED BY <1>1, <1>2, <1>3, <1>4, <1>5, <1>6, <1>7

OneSlot == AluOps \cup Conditional \cup MemOps \cup FlowOps

LEMMA OneSlotFacts ==
    ASSUME NEW s, FieldsOk(s)
    PROVE  /\ s.op \in OneSlot /\ OneSlot \subseteq Ops
           /\ s.op \notin {"callsub", "kfunc", "ldimm64", "ldmapfd", "ldmapvalue", "second", "ld64", "pad"}
           /\ s.op = "call" => s.dst = 0 /\ s.off = 0 /\ s.src \in 0 .. 2
  <1>1. s.op \in OneSlot
    BY DEF FieldsOk, AluFieldsOk, CompareFieldsOk, MemFieldsOk, FlowFieldsOk, OneSlot
  <1>2. s.op = "call" => s.dst = 0 /\ s.off = 0 /\ s.src \in 0 .. 2
    BY DEF FieldsOk, AluFieldsOk, CompareFieldsOk, MemFieldsOk, FlowFieldsOk, AluOps, Conditional, MemOps
  <1> QED BY <1>1, <1>2 DEF OneSlot, Ops, AluOps, Conditional, MemOps, FlowOps

\* What parse_insn keeps, by kind of slot.
LEMMA ParseByKind ==
    ASSUME NEW s \in Insns
    PROVE  /\ s.op = "call" /\ s.src = 1 => parse_insn(s) = Insn("callsub", s.dst, 0, s.imm, 0)
           /\ s.op = "call" /\ s.src = 2 => parse_insn(s) = Insn("kfunc", s.dst, 0, s.off, s.imm)
           /\ s.op = "call" /\ s.src \notin {1, 2} => parse_insn(s) = s
           /\ s.op = "neg" => parse_insn(s) = Insn("neg", s.dst, s.src, s.off, 0)
           /\ s.op \in {"exit", "ldabs", "ldind"} => parse_insn(s) = Insn(s.op, s.dst, s.src, 0, s.imm)
           /\ s.op = "st" => parse_insn(s) = Insn("st", s.dst, 0, s.off, s.imm)
           /\ s.op \notin {"call", "neg", "exit", "ldabs", "ldind", "st"} => parse_insn(s) = s
  <1> DEFINE a == Insn("callsub", s.dst, 0, s.imm, 0)
             b == Insn("kfunc", s.dst, 0, s.off, s.imm)
             c == [s EXCEPT !.imm = 0]
             d == [s EXCEPT !.off = 0]
             f == [s EXCEPT !.src = 0]
             op == s.op
             src == s.src
  <1>1. parse_insn(s) = CASE op = "call" /\ src = 1 -> a
                          [] op = "call" /\ src = 2 -> b
                          [] op = "neg" -> c
                          [] op \in {"exit", "ldabs", "ldind"} -> d
                          [] op = "st" -> f
                          [] OTHER -> s
    BY DEF parse_insn
  <1>2. c = Insn(op, s.dst, src, s.off, 0) /\ d = Insn(op, s.dst, src, 0, s.imm) /\ f = Insn(op, s.dst, 0, s.off, s.imm)
    BY InsnOf, ZenonT(60)
  <1> HIDE DEF a, b, c, d, f, op, src
  <1>3. /\ op = "call" /\ src = 1 => parse_insn(s) = a
        /\ op = "call" /\ src = 2 => parse_insn(s) = b
        /\ op = "call" /\ src \notin {1, 2} => parse_insn(s) = s
        /\ op = "neg" => parse_insn(s) = c
    BY ONLY <1>1
  <1>4. /\ op \in {"exit", "ldabs", "ldind"} => parse_insn(s) = d
        /\ op = "st" => parse_insn(s) = f
        /\ op \notin {"call", "neg", "exit", "ldabs", "ldind", "st"} => parse_insn(s) = s
    BY ONLY <1>1
  <1> QED BY <1>2, <1>3, <1>4 DEF a, b, op, src

\* The slot insn_lib::encode makes of an instruction, by kind.
LEMMA EncodeByKind ==
    ASSUME NEW i \in Insns
    PROVE  /\ i.op = "callsub" => encode(i) = Insn("call", i.dst, 1, 0, i.off)
           /\ i.op = "kfunc" => encode(i) = Insn("call", i.dst, 2, i.off, i.imm)
           /\ i.op = "ldimm64" => encode(i) = Insn("ld64", i.dst, i.src, i.off, i.imm)
           /\ i.op = "ldmapfd" => encode(i) = Insn("ld64", i.dst, 1, i.off, i.imm)
           /\ i.op = "ldmapvalue" => encode(i) = Insn("ld64", i.dst, 2, i.off, i.imm)
           /\ i.op = "second" => encode(i) = Insn("pad", i.dst, i.src, i.off, i.imm)
           /\ i.op \notin {"callsub", "kfunc", "ldimm64", "ldmapfd", "ldmapvalue", "second"} => encode(i) = i
  <1> DEFINE a == Insn("call", i.dst, 1, 0, i.off)
             b == Insn("call", i.dst, 2, i.off, i.imm)
             c == [i EXCEPT !.op = "ld64"]
             d == Insn("ld64", i.dst, 1, i.off, i.imm)
             f == Insn("ld64", i.dst, 2, i.off, i.imm)
             g == [i EXCEPT !.op = "pad"]
             op == i.op
  <1>1. encode(i) = CASE op = "callsub" -> a
                      [] op = "kfunc" -> b
                      [] op = "ldimm64" -> c
                      [] op = "ldmapfd" -> d
                      [] op = "ldmapvalue" -> f
                      [] op = "second" -> g
                      [] OTHER -> i
    BY DEF encode
  <1>2. c = Insn("ld64", i.dst, i.src, i.off, i.imm) /\ g = Insn("pad", i.dst, i.src, i.off, i.imm)
    BY InsnOf, ZenonT(60)
  <1> HIDE DEF a, b, c, d, f, g, op
  <1>3. /\ op = "callsub" => encode(i) = a
        /\ op = "kfunc" => encode(i) = b
        /\ op = "ldimm64" => encode(i) = c
        /\ op = "ldmapfd" => encode(i) = d
    BY ONLY <1>1
  <1>4. /\ op = "ldmapvalue" => encode(i) = f
        /\ op = "second" => encode(i) = g
        /\ op \notin {"callsub", "kfunc", "ldimm64", "ldmapfd", "ldmapvalue", "second"} => encode(i) = i
    BY ONLY <1>1
  <1> QED BY <1>2, <1>3, <1>4 DEF a, b, d, f, op

LEMMA CanonicalByKind ==
    ASSUME NEW s \in Insns
    PROVE  /\ s.op = "neg" => Canonical(s) = Insn("neg", s.dst, s.src, s.off, 0)
           /\ s.op \in {"exit", "ldabs", "ldind"} => Canonical(s) = Insn(s.op, s.dst, s.src, 0, s.imm)
           /\ s.op = "st" => Canonical(s) = Insn("st", s.dst, 0, s.off, s.imm)
           /\ s.op \notin {"neg", "exit", "ldabs", "ldind", "st"} => Canonical(s) = s
  <1> DEFINE c == [s EXCEPT !.imm = 0]
             d == [s EXCEPT !.off = 0]
             f == [s EXCEPT !.src = 0]
             op == s.op
  <1>1. Canonical(s) = CASE op = "neg" -> c
                          [] op \in {"exit", "ldabs", "ldind"} -> d
                          [] op = "st" -> f
                          [] OTHER -> s
    BY DEF Canonical
  <1>2. c = Insn(op, s.dst, s.src, s.off, 0) /\ d = Insn(op, s.dst, s.src, 0, s.imm) /\ f = Insn(op, s.dst, 0, s.off, s.imm)
    BY InsnOf, ZenonT(60)
  <1> HIDE DEF c, d, f, op
  <1>3. /\ op = "neg" => Canonical(s) = c
        /\ op \in {"exit", "ldabs", "ldind"} => Canonical(s) = d
        /\ op = "st" => Canonical(s) = f
        /\ op \notin {"neg", "exit", "ldabs", "ldind", "st"} => Canonical(s) = s
    BY ONLY <1>1
  <1> QED BY <1>2, <1>3 DEF op

\* An instruction that its own encoding decodes to.
RegularInsns == {i \in Insns : FieldsOk(encode(i)) /\ parse_insn(encode(i)) = i}

LEMMA SlotKinds ==
    ASSUME NEW o, NEW r
    PROVE  \/ o = "call" /\ r = 1
           \/ o = "call" /\ r = 2
           \/ o = "neg"
           \/ o \in {"exit", "ldabs", "ldind"}
           \/ o = "st"
           \/ o \notin {"call", "neg", "exit", "ldabs", "ldind", "st"} \/ (o = "call" /\ r \notin {1, 2})
  <1>1. r \in {1, 2} => r = 1 \/ r = 2
    OBVIOUS
  <1>2. o \in {"call", "neg", "exit", "ldabs", "ldind", "st"} =>
            o = "call" \/ o = "neg" \/ o \in {"exit", "ldabs", "ldind"} \/ o = "st"
    OBVIOUS
  <1> QED BY <1>1, <1>2, Zenon

LEMMA ParseTyped ==
    ASSUME NEW s \in Insns
    PROVE  parse_insn(s) \in Insns
  <1>1. s.op \in Ops /\ s.dst \in 0 .. 15 /\ s.src \in 0 .. 15 /\ s.off \in Int /\ s.imm \in Int
    BY InsnOf, ZenonT(60)
  <1>2. "callsub" \in Ops /\ "kfunc" \in Ops
    BY DEF Ops
  <1>3. 0 \in 0 .. 15 /\ 0 \in Int
    OBVIOUS
  <1>4. CASE s.op = "call" /\ s.src = 1
    BY <1>1, <1>2, <1>3, <1>4, ParseByKind, InsnFields
  <1>5. CASE s.op = "call" /\ s.src = 2
    BY <1>1, <1>2, <1>3, <1>5, ParseByKind, InsnFields
  <1>6. CASE s.op = "neg"
    BY <1>1, <1>3, <1>6, ParseByKind, InsnFields
  <1>7. CASE s.op \in {"exit", "ldabs", "ldind"}
    BY <1>1, <1>3, <1>7, ParseByKind, InsnFields
  <1>8. CASE s.op = "st"
    BY <1>1, <1>3, <1>8, ParseByKind, InsnFields
  <1>9. CASE s.op \notin {"call", "neg", "exit", "ldabs", "ldind", "st"} \/ (s.op = "call" /\ s.src \notin {1, 2})
    BY <1>9, ParseByKind
  <1> QED BY ONLY <1>4, <1>5, <1>6, <1>7, <1>8, <1>9, SlotKinds

\* Encoding a decoded slot gives it back, up to the fields nobody reads, and
\* decoding that gives the instruction again.
LEMMA ParseRegular ==
    ASSUME NEW s \in Insns, FieldsOk(s)
    PROVE  /\ parse_insn(s) \in RegularInsns
           /\ encode(parse_insn(s)) = Canonical(s)
  <1> DEFINE i == parse_insn(s)
  <1>0. i \in Insns
    BY ParseTyped
  <1>1. s.op \in Ops /\ s.dst \in 0 .. 15 /\ s.src \in 0 .. 15 /\ s.off \in Int /\ s.imm \in Int
        /\ s = Insn(s.op, s.dst, s.src, s.off, s.imm)
    BY InsnOf, ZenonT(60)
  <1>2. /\ s.op \notin {"callsub", "kfunc", "ldimm64", "ldmapfd", "ldmapvalue", "second", "ld64", "pad"}
        /\ s.op = "call" => s.dst = 0 /\ s.off = 0 /\ s.src \in 0 .. 2
    BY OneSlotFacts
  <1>3. CASE s.op = "call" /\ s.src = 1
    <2>1. i = Insn("callsub", s.dst, 0, s.imm, 0)
      BY <1>3, ParseByKind
    <2>2. encode(i) = Insn("call", s.dst, 1, 0, s.imm)
      BY <1>0, <2>1, EncodeByKind, InsnFields
    <2>3. encode(i) = s
      BY <1>1, <1>2, <1>3, <2>2
    <2>4. Canonical(s) = s
      BY <1>3, CanonicalByKind
    <2> QED BY <1>0, <2>3, <2>4 DEF RegularInsns
  <1>4. CASE s.op = "call" /\ s.src = 2
    <2>1. i = Insn("kfunc", s.dst, 0, s.off, s.imm)
      BY <1>4, ParseByKind
    <2>2. encode(i) = Insn("call", s.dst, 2, s.off, s.imm)
      BY <1>0, <2>1, EncodeByKind, InsnFields
    <2>3. encode(i) = s
      BY <1>1, <1>2, <1>4, <2>2
    <2>4. Canonical(s) = s
      BY <1>4, CanonicalByKind
    <2> QED BY <1>0, <2>3, <2>4 DEF RegularInsns
  <1>5. CASE s.op = "neg"
    <2>1. i = Insn("neg", s.dst, s.src, s.off, 0) /\ Canonical(s) = i
      BY <1>5, ParseByKind, CanonicalByKind
    <2>2. i.op = "neg" /\ i.dst = s.dst /\ i.src = s.src /\ i.off = s.off /\ i.imm = 0
      BY <2>1, InsnFields
    <2>3. encode(i) = i /\ parse_insn(i) = i
      BY <1>0, <2>1, <2>2, EncodeByKind, ParseByKind
    <2>4. FieldsOk(i)
      BY <1>5, <2>2 DEF FieldsOk, AluFieldsOk, CompareFieldsOk, MemFieldsOk, FlowFieldsOk, AluOps, Conditional, MemOps, FlowOps
    <2> QED BY <1>0, <2>1, <2>3, <2>4 DEF RegularInsns
  <1>6. CASE s.op \in {"exit", "ldabs", "ldind"}
    <2>1. i = Insn(s.op, s.dst, s.src, 0, s.imm) /\ Canonical(s) = i
      BY <1>6, ParseByKind, CanonicalByKind
    <2>2. i.op = s.op /\ i.dst = s.dst /\ i.src = s.src /\ i.off = 0 /\ i.imm = s.imm
      BY <2>1, InsnFields
    <2>3. encode(i) = i /\ parse_insn(i) = i
      BY <1>0, <1>6, <2>1, <2>2, EncodeByKind, ParseByKind
    <2>4. FieldsOk(i)
      BY <1>6, <2>2 DEF FieldsOk, AluFieldsOk, CompareFieldsOk, MemFieldsOk, FlowFieldsOk, AluOps, Conditional, MemOps, FlowOps
    <2> QED BY <1>0, <2>1, <2>3, <2>4 DEF RegularInsns
  <1>7. CASE s.op = "st"
    <2>1. i = Insn("st", s.dst, 0, s.off, s.imm) /\ Canonical(s) = i
      BY <1>7, ParseByKind, CanonicalByKind
    <2>2. i.op = s.op /\ i.dst = s.dst /\ i.src = 0 /\ i.off = s.off /\ i.imm = s.imm
      BY <1>7, <2>1, InsnFields
    <2>3. encode(i) = i /\ parse_insn(i) = i
      BY <1>0, <1>7, <2>1, <2>2, EncodeByKind, ParseByKind
    <2>4. FieldsOk(i)
      BY <1>7, <2>2 DEF FieldsOk, AluFieldsOk, CompareFieldsOk, MemFieldsOk, FlowFieldsOk, AluOps, Conditional, MemOps, FlowOps
    <2> QED BY <1>0, <2>1, <2>3, <2>4 DEF RegularInsns
  <1>8. CASE s.op \notin {"call", "neg", "exit", "ldabs", "ldind", "st"} \/ (s.op = "call" /\ s.src \notin {1, 2})
    <2>1. i = s /\ Canonical(s) = s
      BY <1>8, ParseByKind, CanonicalByKind
    <2>2. encode(s) = s
      BY <1>2, EncodeByKind
    <2> QED BY <2>1, <2>2 DEF RegularInsns
  <1> QED BY ONLY <1>3, <1>4, <1>5, <1>6, <1>7, <1>8, SlotKinds

\* The first slot of an ldimm64.
LEMMA WideRegular ==
    ASSUME NEW s \in Insns, s.op = "ld64", NEW t, WideOk(s, t)
    PROVE  /\ parse_ldimm64(s) \in Insns /\ parse_ldimm64(s).op \in Wide
           /\ encode(parse_ldimm64(s)) = s /\ Canonical(s) = s
  <1> DEFINE i == parse_ldimm64(s)
             o == <<"ldimm64", "ldmapfd", "ldmapvalue">>[s.src + 1]
  <1>1. s.op \in Ops /\ s.dst \in 0 .. 15 /\ s.src \in 0 .. 15 /\ s.off \in Int /\ s.imm \in Int
        /\ s = Insn(s.op, s.dst, s.src, s.off, s.imm)
    BY InsnOf, ZenonT(60)
  <1>2. s.src \in {0, 1, 2}
    BY <1>1 DEF WideOk
  <1>3. /\ s.src = 0 => o = "ldimm64"
        /\ s.src = 1 => o = "ldmapfd"
        /\ s.src = 2 => o = "ldmapvalue"
    OBVIOUS
  <1>4. i = Insn(o, s.dst, 0, s.off, s.imm)
    BY DEF parse_ldimm64
  <1> HIDE DEF i, o
  <1>5. o \in Wide /\ o \in Ops
    BY <1>2, <1>3 DEF Wide, Ops
  <1>6. i \in Insns /\ i.op = o /\ i.dst = s.dst /\ i.src = 0 /\ i.off = s.off /\ i.imm = s.imm
    BY <1>1, <1>4, <1>5, InsnFields
  <1>7. encode(i) = s
    <2>1. CASE s.src = 0
      BY <1>1, <1>3, <1>6, <2>1, EncodeByKind
    <2>2. CASE s.src = 1
      BY <1>1, <1>3, <1>6, <2>2, EncodeByKind
    <2>3. CASE s.src = 2
      BY <1>1, <1>3, <1>6, <2>3, EncodeByKind
    <2> QED BY <1>2, <2>1, <2>2, <2>3
  <1> QED BY <1>5, <1>6, <1>7, CanonicalByKind DEF i

LEMMA SecondRegular ==
    ASSUME NEW s \in Insns
    PROVE  /\ [s EXCEPT !.op = "second"] \in Insns /\ [s EXCEPT !.op = "second"].op = "second"
           /\ s.op = "pad" => encode([s EXCEPT !.op = "second"]) = s /\ Canonical(s) = s
  <1> DEFINE i == [s EXCEPT !.op = "second"]
  <1>1. s.op \in Ops /\ s.dst \in 0 .. 15 /\ s.src \in 0 .. 15 /\ s.off \in Int /\ s.imm \in Int
        /\ s = Insn(s.op, s.dst, s.src, s.off, s.imm)
    BY InsnOf, ZenonT(60)
  <1>2. i = Insn("second", s.dst, s.src, s.off, s.imm)
    BY InsnOf, ZenonT(60)
  <1>3. "second" \in Ops
    BY DEF Ops
  <1> HIDE DEF i
  <1>4. i \in Insns /\ i.op = "second" /\ i.dst = s.dst /\ i.src = s.src /\ i.off = s.off /\ i.imm = s.imm
    BY <1>1, <1>2, <1>3, InsnFields
  <1>5. s.op = "pad" => encode(i) = s /\ Canonical(s) = s
    BY <1>1, <1>4, EncodeByKind, CanonicalByKind
  <1> QED BY <1>4, <1>5 DEF i

\* The fields of the instructions that generator and mutator make.
LEMMA FieldsByKind ==
    ASSUME NEW s \in Insns
    PROVE  /\ s.op = "aluk" => (FieldsOk(s) <=> s.dst <= 10 /\ s.src = 0 /\ s.off = 0)
           /\ s.op = "alux" => (FieldsOk(s) <=> s.dst <= 10 /\ s.src <= 10 /\ s.off = 0 /\ s.imm = 0)
           /\ s.op = "jk" => (FieldsOk(s) <=> s.dst <= 10 /\ s.src = 0)
           /\ s.op = "jx" => (FieldsOk(s) <=> s.dst <= 10 /\ s.src <= 10 /\ s.imm = 0)
           /\ s.op \in {"ldx", "stx"} => (FieldsOk(s) <=> s.dst <= 10 /\ s.src <= 10 /\ s.imm = 0)
           /\ s.op \in {"ja", "exit"} => (FieldsOk(s) <=> s.dst = 0 /\ s.src = 0 /\ s.imm = 0)
           /\ s.op = "call" => (FieldsOk(s) <=> s.dst = 0 /\ s.off = 0 /\ s.src \in 0 .. 2)
  <1>1. s.dst \in 0 .. 15 /\ s.src \in 0 .. 15
    BY InsnOf, ZenonT(60)
  <1> USE DEF FieldsOk, AluFieldsOk, CompareFieldsOk, MemFieldsOk, FlowFieldsOk, AluOps, Conditional, MemOps, FlowOps
  <1>2. s.op = "aluk" => (FieldsOk(s) <=> s.dst <= 10 /\ s.src = 0 /\ s.off = 0)
    BY <1>1
  <1>3. s.op = "alux" => (FieldsOk(s) <=> s.dst <= 10 /\ s.src <= 10 /\ s.off = 0 /\ s.imm = 0)
    BY <1>1
  <1>4. s.op = "jk" => (FieldsOk(s) <=> s.dst <= 10 /\ s.src = 0)
    BY <1>1
  <1>5. s.op = "jx" => (FieldsOk(s) <=> s.dst <= 10 /\ s.src <= 10 /\ s.imm = 0)
    BY <1>1
  <1>6. s.op \in {"ldx", "stx"} => (FieldsOk(s) <=> s.dst <= 10 /\ s.src <= 10 /\ s.imm = 0)
    BY <1>1
  <1>7. s.op \in {"ja", "exit"} => (FieldsOk(s) <=> s.dst = 0 /\ s.src = 0 /\ s.imm = 0)
    BY <1>1
  <1>8. s.op = "call" => (FieldsOk(s) <=> s.dst = 0 /\ s.off = 0 /\ s.src \in 0 .. 2)
    BY <1>1
  <1> QED BY <1>2, <1>3, <1>4, <1>5, <1>6, <1>7, <1>8

PlainOps == {"aluk", "alux", "jk", "jx", "ldx", "stx", "ja", "call"}

\* They are regular when their fields are.
LEMMA RegularByKind ==
    ASSUME NEW i \in Insns
    PROVE  /\ i.op \in PlainOps => (i \in RegularInsns <=> FieldsOk(i) /\ (i.op = "call" => i.src = 0))
           /\ i.op = "exit" /\ FieldsOk(i) /\ i.off = 0 => i \in RegularInsns
           /\ i.op = "callsub" => (i \in RegularInsns <=> i.dst = 0 /\ i.src = 0 /\ i.imm = 0)
  <1>1. i = Insn(i.op, i.dst, i.src, i.off, i.imm) /\ i.dst \in 0 .. 15 /\ i.src \in 0 .. 15 /\ i.off \in Int /\ i.imm \in Int
    BY InsnOf, ZenonT(60)
  <1>2. ASSUME i.op \in PlainOps
        PROVE  i \in RegularInsns <=> FieldsOk(i) /\ (i.op = "call" => i.src = 0)
    <2>1. encode(i) = i
      BY <1>2, EncodeByKind DEF PlainOps
    <2>2. CASE i.op # "call"
      <3>1. parse_insn(i) = i
        BY <1>2, <2>2, ParseByKind DEF PlainOps
      <3> QED BY <2>1, <2>2, <3>1 DEF RegularInsns
    <2>3. CASE i.op = "call"
      <3>1. parse_insn(i) = i <=> i.src \notin {1, 2}
        <4>1. CASE i.src = 1
          <5>1. parse_insn(i).op = "callsub"
            BY <2>3, <4>1, ParseByKind, InsnFields
          <5> QED BY <2>3, <4>1, <5>1
        <4>2. CASE i.src = 2
          <5>1. parse_insn(i).op = "kfunc"
            BY <2>3, <4>2, ParseByKind, InsnFields
          <5> QED BY <2>3, <4>2, <5>1
        <4>3. CASE i.src \notin {1, 2}
          BY <2>3, <4>3, ParseByKind
        <4> QED BY <4>1, <4>2, <4>3
      <3>2. FieldsOk(i) => i.src \in {0, 1, 2}
        BY <1>1, <2>3, FieldsByKind
      <3> QED BY <2>1, <2>3, <3>1, <3>2 DEF RegularInsns
    <2> QED BY <2>2, <2>3
  <1>3. ASSUME i.op = "exit", FieldsOk(i), i.off = 0
        PROVE  i \in RegularInsns
    <2>1. encode(i) = i /\ parse_insn(i) = Insn(i.op, i.dst, i.src, 0, i.imm)
      BY <1>3, EncodeByKind, ParseByKind
    <2> QED BY <1>1, <1>3, <2>1 DEF RegularInsns
  <1>4. ASSUME i.op = "callsub"
        PROVE  i \in RegularInsns <=> i.dst = 0 /\ i.src = 0 /\ i.imm = 0
    <2> DEFINE s == encode(i)
    <2>1. s = Insn("call", i.dst, 1, 0, i.off)
      BY <1>4, EncodeByKind
    <2>2. "call" \in Ops
      BY DEF Ops, FlowOps
    <2> HIDE DEF s
    <2>3. s \in Insns /\ s.op = "call" /\ s.dst = i.dst /\ s.src = 1 /\ s.off = 0 /\ s.imm = i.off
      BY <1>1, <2>1, <2>2, InsnFields
    <2>4. parse_insn(s) = Insn("callsub", i.dst, 0, i.off, 0)
      BY <2>3, ParseByKind
    <2>5. FieldsOk(s) <=> i.dst = 0
      BY <2>3, FieldsByKind
    <2>6. parse_insn(s).src = 0 /\ parse_insn(s).imm = 0
      BY <2>4, InsnFields
    <2>7. i.src = 0 /\ i.imm = 0 => parse_insn(s) = i
      BY <1>1, <1>4, <2>4
    <2> QED BY <2>5, <2>6, <2>7 DEF RegularInsns, s
  <1> QED BY <1>2, <1>3, <1>4

\* The builders of insn_lib make regular instructions.
LEMMA BuilderOps ==
    /\ {"aluk", "alux", "jk", "stx", "ldx", "ja", "call", "exit", "callsub"} \subseteq Ops
    /\ {"aluk", "alux", "jk", "stx", "ldx", "ja", "call"} \subseteq PlainOps
  BY DEF Ops, AluOps, Conditional, MemOps, FlowOps, PlainOps

LEMMA MovRegular ==
    ASSUME NEW r \in 0 .. 10
    PROVE  MovImm(r) \in RegularInsns /\ MovImm(r).op = "aluk"
  <1> DEFINE i == MovImm(r)
  <1>1. i \in Insns /\ i.op = "aluk" /\ i.dst = r /\ i.src = 0 /\ i.off = 0 /\ i.imm = 0
    BY BuilderOps, InsnFields DEF MovImm
  <1> HIDE DEF i
  <1>2. FieldsOk(i)
    BY <1>1, FieldsByKind
  <1>3. i \in RegularInsns
    BY BuilderOps, <1>1, <1>2, RegularByKind
  <1> QED BY <1>1, <1>3 DEF i

LEMMA ExitRegular ==
    ExitInsn \in RegularInsns /\ ExitInsn.op = "exit"
  <1> DEFINE i == ExitInsn
  <1>1. i \in Insns /\ i.op = "exit" /\ i.dst = 0 /\ i.src = 0 /\ i.off = 0 /\ i.imm = 0
    BY BuilderOps, InsnFields DEF ExitInsn
  <1> HIDE DEF i
  <1>2. FieldsOk(i)
    BY <1>1, FieldsByKind
  <1>3. i \in RegularInsns
    BY <1>1, <1>2, RegularByKind
  <1> QED BY <1>1, <1>3 DEF i

LEMMA CallRegular ==
    CallInsn \in RegularInsns /\ CallInsn.op = "call"
  <1> DEFINE i == CallInsn
  <1>1. i \in Insns /\ i.op = "call" /\ i.dst = 0 /\ i.src = 0 /\ i.off = 0 /\ i.imm = 1
    BY BuilderOps, InsnFields DEF CallInsn
  <1> HIDE DEF i
  <1>2. FieldsOk(i)
    BY <1>1, FieldsByKind
  <1>3. i \in RegularInsns
    BY BuilderOps, <1>1, <1>2, RegularByKind
  <1> QED BY <1>1, <1>3 DEF i

LEMMA CompareRegular ==
    ASSUME NEW off \in Int
    PROVE  Compare(off) \in RegularInsns /\ Compare(off).op = "jk" /\ Compare(off).off = off
  <1> DEFINE i == Compare(off)
  <1>1. i \in Insns /\ i.op = "jk" /\ i.dst = 1 /\ i.src = 0 /\ i.off = off /\ i.imm = 0
    BY BuilderOps, InsnFields DEF Compare
  <1> HIDE DEF i
  <1>2. FieldsOk(i)
    BY <1>1, FieldsByKind
  <1>3. i \in RegularInsns
    BY BuilderOps, <1>1, <1>2, RegularByKind
  <1> QED BY <1>1, <1>3 DEF i

LEMMA AluRegular ==
    ASSUME NEW d \in 0 .. 10, NEW r \in 0 .. 10
    PROVE  Insn("alux", d, r, 0, 0) \in RegularInsns /\ Insn("alux", d, r, 0, 0).op = "alux"
  <1> DEFINE i == Insn("alux", d, r, 0, 0)
  <1>1. i \in Insns /\ i.op = "alux" /\ i.dst = d /\ i.src = r /\ i.off = 0 /\ i.imm = 0
    BY BuilderOps, InsnFields
  <1> HIDE DEF i
  <1>2. FieldsOk(i)
    BY <1>1, FieldsByKind
  <1>3. i \in RegularInsns
    BY BuilderOps, <1>1, <1>2, RegularByKind
  <1> QED BY <1>1, <1>3 DEF i

LEMMA MemRegular ==
    ASSUME NEW o \in {"stx", "ldx"}, NEW d \in 0 .. 10, NEW r \in 0 .. 10, NEW off \in Int
    PROVE  Insn(o, d, r, off, 0) \in RegularInsns /\ Insn(o, d, r, off, 0).op = o
  <1> DEFINE i == Insn(o, d, r, off, 0)
  <1>1. i \in Insns /\ i.op = o /\ i.dst = d /\ i.src = r /\ i.off = off /\ i.imm = 0
    BY BuilderOps, InsnFields
  <1> HIDE DEF i
  <1>2. FieldsOk(i)
    BY <1>1, FieldsByKind
  <1>3. i \in RegularInsns
    BY BuilderOps, <1>1, <1>2, RegularByKind
  <1> QED BY <1>1, <1>3 DEF i

LEMMA JumpRegular ==
    ASSUME NEW off \in Int
    PROVE  /\ Insn("ja", 0, 0, off, 0) \in RegularInsns
           /\ Insn("ja", 0, 0, off, 0).op = "ja" /\ Insn("ja", 0, 0, off, 0).off = off
  <1> DEFINE i == Insn("ja", 0, 0, off, 0)
  <1>1. i \in Insns /\ i.op = "ja" /\ i.dst = 0 /\ i.src = 0 /\ i.off = off /\ i.imm = 0
    BY BuilderOps, InsnFields
  <1> HIDE DEF i
  <1>2. FieldsOk(i)
    BY <1>1, FieldsByKind
  <1>3. i \in RegularInsns
    BY BuilderOps, <1>1, <1>2, RegularByKind
  <1> QED BY <1>1, <1>3 DEF i

LEMMA CallsubRegular ==
    ASSUME NEW off \in Int
    PROVE  /\ Insn("callsub", 0, 0, off, 0) \in RegularInsns
           /\ Insn("callsub", 0, 0, off, 0).op = "callsub" /\ Insn("callsub", 0, 0, off, 0).off = off
  <1> DEFINE i == Insn("callsub", 0, 0, off, 0)
  <1>1. i \in Insns /\ i.op = "callsub" /\ i.dst = 0 /\ i.src = 0 /\ i.off = off /\ i.imm = 0
    BY BuilderOps, InsnFields
  <1> HIDE DEF i
  <1>2. i \in RegularInsns
    BY <1>1, RegularByKind
  <1> QED BY <1>1, <1>2 DEF i

LEMMA EncodeTyped ==
    ASSUME NEW i \in Insns
    PROVE  encode(i) \in Insns
  <1>1. i.dst \in 0 .. 15 /\ i.src \in 0 .. 15 /\ i.off \in Int /\ i.imm \in Int
    BY InsnOf, ZenonT(60)
  <1>2. {"call", "ld64", "pad"} \subseteq Ops
    BY DEF Ops, FlowOps
  <1>3. 0 \in Int /\ 1 \in 0 .. 15 /\ 2 \in 0 .. 15
    OBVIOUS
  <1>4. CASE i.op \in {"callsub", "kfunc"}
    BY <1>1, <1>2, <1>3, <1>4, EncodeByKind, InsnFields
  <1>5. CASE i.op \in {"ldimm64", "ldmapfd", "ldmapvalue", "second"}
    BY <1>1, <1>2, <1>3, <1>5, EncodeByKind, InsnFields
  <1>6. CASE i.op \notin {"callsub", "kfunc", "ldimm64", "ldmapfd", "ldmapvalue", "second"}
    BY <1>6, EncodeByKind
  <1> QED BY <1>4, <1>5, <1>6

LEMMA EncodeAllTyped ==
    ASSUME NEW p \in Seq(Insns)
    PROVE  /\ EncodeAll(p) \in Seq(Insns) /\ Len(EncodeAll(p)) = Len(p)
           /\ \A n \in DOMAIN p : EncodeAll(p)[n] = encode(p[n])
  <1>1. Len(p) \in Nat /\ DOMAIN p = 1 .. Len(p) /\ \A n \in DOMAIN p : p[n] \in Insns
    OBVIOUS
  <1>2. \A n \in DOMAIN p : encode(p[n]) \in Insns
    BY <1>1, EncodeTyped
  <1> DEFINE x(n) == encode(p[n])
  <1>3. EncodeAll(p) = [n \in 1 .. Len(p) |-> x(n)]
    BY <1>1 DEF EncodeAll
  <1>4. \A n \in 1 .. Len(p) : x(n) \in Insns
    BY <1>1, <1>2
  <1>5. \A n \in DOMAIN p : x(n) = encode(p[n])
    OBVIOUS
  <1> HIDE DEF x
  <1>6. EncodeAll(p) \in Seq(Insns) /\ Len(EncodeAll(p)) = Len(p)
    BY <1>1, <1>3, <1>4
  <1> QED BY <1>1, <1>3, <1>5, <1>6

-----------------------------------------------------------------------------
(* Mutation.                                                                *)

\* A set of instructions that replace_imm, replace_off and replace_reg stay in.
Edited(T) ==
    \A i \in T : /\ \A v \in Int : replace_imm(i, v) \in T /\ replace_off(i, v) \in T
                 /\ replace_reg(i, 1) \in T

LEMMA ReplaceByKind ==
    ASSUME NEW i \in Insns, NEW v
    PROVE  /\ i.op \in {"aluk", "jk", "call"} => replace_imm(i, v) = Insn(i.op, i.dst, i.src, i.off, v)
           /\ i.op \notin {"aluk", "jk", "call"} => replace_imm(i, v) = i
           /\ i.op = "ldx" => replace_off(i, v) = Insn("ldx", i.dst, 10, v, i.imm)
           /\ i.op = "stx" => replace_off(i, v) = Insn("stx", 10, i.src, v, i.imm)
           /\ i.op \in {"jx", "jk", "ja"} => replace_off(i, v) = Insn(i.op, i.dst, i.src, v, i.imm)
           /\ i.op \notin {"ldx", "stx", "jx", "jk", "ja"} => replace_off(i, v) = i
           /\ i.op \in {"aluk", "alux", "jx", "jk"} => replace_reg(i, v) = Insn(i.op, v, i.src, i.off, i.imm)
           /\ i.op = "ldx" => replace_reg(i, v) = Insn("ldx", v, 10, i.off, i.imm)
           /\ i.op = "stx" => replace_reg(i, v) = Insn("stx", 10, v, i.off, i.imm)
           /\ i.op \notin {"aluk", "alux", "jx", "jk", "ldx", "stx"} => replace_reg(i, v) = i
  <1> DEFINE op == i.op
             a == [i EXCEPT !.imm = v]
             b == [i EXCEPT !.off = v]
             c == [i EXCEPT !.dst = v]
             l == Insn("ldx", i.dst, 10, v, i.imm)
             s == Insn("stx", 10, i.src, v, i.imm)
             x == Insn("ldx", v, 10, i.off, i.imm)
             y == Insn("stx", 10, v, i.off, i.imm)
  <1>1. /\ a = Insn(i.op, i.dst, i.src, i.off, v) /\ b = Insn(i.op, i.dst, i.src, v, i.imm)
        /\ c = Insn(i.op, v, i.src, i.off, i.imm)
    BY InsnOf, ZenonT(60)
  <1>2. replace_imm(i, v) = IF op \in {"aluk", "jk", "call"} THEN a ELSE i
    BY DEF replace_imm
  <1>3. replace_off(i, v) = CASE op = "ldx" -> l [] op = "stx" -> s
                              [] op \in {"jx", "jk", "ja"} -> b [] OTHER -> i
    BY DEF replace_off
  <1>4. replace_reg(i, v) = CASE op \in {"aluk", "alux", "jx", "jk"} -> c
                              [] op = "ldx" -> x [] op = "stx" -> y [] OTHER -> i
    BY DEF replace_reg
  <1> HIDE DEF op, a, b, c, l, s, x, y
  <1>5. /\ op = "ldx" => replace_off(i, v) = l
        /\ op = "stx" => replace_off(i, v) = s
        /\ op \in {"jx", "jk", "ja"} => replace_off(i, v) = b
        /\ op \notin {"ldx", "stx", "jx", "jk", "ja"} => replace_off(i, v) = i
    BY ONLY <1>3
  <1>6. /\ op = "ldx" => replace_reg(i, v) = x
        /\ op = "stx" => replace_reg(i, v) = y
        /\ op \in {"aluk", "alux", "jx", "jk"} => replace_reg(i, v) = c
        /\ op \notin {"aluk", "alux", "jx", "jk", "ldx", "stx"} => replace_reg(i, v) = i
    BY ONLY <1>4
  <1> QED BY <1>1, <1>2, <1>5, <1>6 DEF op, l, s, x, y

LEMMA InsnsEdited == Edited(Insns)
  <1> SUFFICES ASSUME NEW i \in Insns, NEW v \in Int
               PROVE  replace_imm(i, v) \in Insns /\ replace_off(i, v) \in Insns /\ replace_reg(i, 1) \in Insns
    BY DEF Edited
  <1>1. i.op \in Ops /\ i.dst \in 0 .. 15 /\ i.src \in 0 .. 15 /\ i.off \in Int /\ i.imm \in Int
    BY InsnOf, ZenonT(60)
  <1>2. 1 \in 0 .. 15 /\ 10 \in 0 .. 15
    OBVIOUS
  <1>3. replace_imm(i, v) \in Insns
    BY <1>1, ReplaceByKind, InsnFields
  <1>4. replace_off(i, v) \in Insns
    <2>1. CASE i.op = "ldx"
      BY <1>1, <1>2, <2>1, ReplaceByKind, InsnFields
    <2>2. CASE i.op = "stx"
      BY <1>1, <1>2, <2>2, ReplaceByKind, InsnFields
    <2>3. CASE i.op \notin {"ldx", "stx"}
      BY <1>1, <2>3, ReplaceByKind, InsnFields
    <2> QED BY <2>1, <2>2, <2>3
  <1>5. replace_reg(i, 1) \in Insns
    <2>1. CASE i.op = "ldx"
      BY <1>1, <1>2, <2>1, ReplaceByKind, InsnFields
    <2>2. CASE i.op = "stx"
      BY <1>1, <1>2, <2>2, ReplaceByKind, InsnFields
    <2>3. CASE i.op \notin {"ldx", "stx"}
      BY <1>1, <1>2, <2>3, ReplaceByKind, InsnFields
    <2> QED BY <2>1, <2>2, <2>3
  <1> QED BY <1>3, <1>4, <1>5

LEMMA RegularEdited == Edited(RegularInsns)
  <1> SUFFICES ASSUME NEW i \in RegularInsns, NEW v \in Int
               PROVE  /\ replace_imm(i, v) \in RegularInsns /\ replace_off(i, v) \in RegularInsns
                      /\ replace_reg(i, 1) \in RegularInsns
    BY DEF Edited
  <1>0. i \in Insns
    BY DEF RegularInsns
  <1>1. i.op \in Ops /\ i.dst \in 0 .. 15 /\ i.src \in 0 .. 15 /\ i.off \in Int /\ i.imm \in Int
    BY <1>0, InsnOf
  <1>2. i.op \in PlainOps => FieldsOk(i) /\ (i.op = "call" => i.src = 0)
    BY <1>0, RegularByKind
  <1>3. replace_imm(i, v) \in RegularInsns
    <2> DEFINE j == replace_imm(i, v)
    <2>1. CASE i.op \in {"aluk", "jk", "call"}
      <3>1. j \in Insns /\ j.op = i.op /\ j.dst = i.dst /\ j.src = i.src /\ j.off = i.off /\ j.imm = v
        BY <1>0, <1>1, <2>1, ReplaceByKind, InsnFields
      <3> HIDE DEF j
      <3>2. FieldsOk(j) /\ (j.op = "call" => j.src = 0)
        BY <1>0, <1>2, <2>1, <3>1, FieldsByKind DEF PlainOps
      <3>3. j \in RegularInsns
        BY <2>1, <3>1, <3>2, RegularByKind DEF PlainOps
      <3> QED BY <3>3 DEF j
    <2>2. CASE i.op \notin {"aluk", "jk", "call"}
      BY <1>0, <2>2, ReplaceByKind
    <2> QED BY <2>1, <2>2
  <1>4. replace_off(i, v) \in RegularInsns
    <2> DEFINE j == replace_off(i, v)
    <2>1. CASE i.op \in {"ldx", "stx"}
      <3>1. /\ j \in Insns /\ j.op = i.op /\ j.imm = i.imm
            /\ j.dst = i.dst \/ j.dst = 10
            /\ j.src = i.src \/ j.src = 10
        <4>1. CASE i.op = "ldx"
          BY <1>0, <1>1, <4>1, ReplaceByKind, InsnFields
        <4>2. CASE i.op = "stx"
          BY <1>0, <1>1, <4>2, ReplaceByKind, InsnFields
        <4> QED BY <2>1, <4>1, <4>2
      <3> HIDE DEF j
      <3>2. FieldsOk(j)
        BY <1>0, <1>2, <2>1, <3>1, FieldsByKind DEF PlainOps
      <3>3. j \in RegularInsns
        BY <2>1, <3>1, <3>2, RegularByKind DEF PlainOps
      <3> QED BY <3>3 DEF j
    <2>2. CASE i.op \in {"jx", "jk", "ja"}
      <3>1. j \in Insns /\ j.op = i.op /\ j.dst = i.dst /\ j.src = i.src /\ j.off = v /\ j.imm = i.imm
        BY <1>0, <1>1, <2>2, ReplaceByKind, InsnFields
      <3> HIDE DEF j
      <3>2. FieldsOk(j)
        BY <1>0, <1>2, <2>2, <3>1, FieldsByKind DEF PlainOps
      <3>3. j \in RegularInsns
        BY <2>2, <3>1, <3>2, RegularByKind DEF PlainOps
      <3> QED BY <3>3 DEF j
    <2>3. CASE i.op \notin {"ldx", "stx", "jx", "jk", "ja"}
      BY <1>0, <2>3, ReplaceByKind
    <2> QED BY <2>1, <2>2, <2>3
  <1>5. replace_reg(i, 1) \in RegularInsns
    <2> DEFINE j == replace_reg(i, 1)
    <2>1. CASE i.op \in {"ldx", "stx"}
      <3>1. /\ j \in Insns /\ j.op = i.op /\ j.imm = i.imm
            /\ j.dst = 1 \/ j.dst = 10
            /\ j.src = 1 \/ j.src = 10
        <4>1. CASE i.op = "ldx"
          BY <1>0, <1>1, <4>1, ReplaceByKind, InsnFields
        <4>2. CASE i.op = "stx"
          BY <1>0, <1>1, <4>2, ReplaceByKind, InsnFields
        <4> QED BY <2>1, <4>1, <4>2
      <3> HIDE DEF j
      <3>2. FieldsOk(j)
        BY <1>0, <1>2, <2>1, <3>1, FieldsByKind DEF PlainOps
      <3>3. j \in RegularInsns
        BY <2>1, <3>1, <3>2, RegularByKind DEF PlainOps
      <3> QED BY <3>3 DEF j
    <2>2. CASE i.op \in {"aluk", "alux", "jx", "jk"}
      <3>1. j \in Insns /\ j.op = i.op /\ j.dst = 1 /\ j.src = i.src /\ j.off = i.off /\ j.imm = i.imm
        BY <1>0, <1>1, <2>2, ReplaceByKind, InsnFields
      <3> HIDE DEF j
      <3>2. FieldsOk(j)
        BY <1>0, <1>1, <1>2, <2>2, <3>1, FieldsByKind DEF PlainOps
      <3>3. j \in RegularInsns
        BY <2>2, <3>1, <3>2, RegularByKind DEF PlainOps
      <3> QED BY <3>3 DEF j
    <2>3. CASE i.op \notin {"aluk", "alux", "jx", "jk", "ldx", "stx"}
      BY <1>0, <2>3, ReplaceByKind
    <2> QED BY <2>1, <2>2, <2>3
  <1> QED BY <1>3, <1>4, <1>5

\* gen_body_insn: what it emits, and where its branches go.
LEMMA BodyFacts ==
    ASSUME NEW pc \in Nat, NEW len \in Nat, NEW i \in BodyInsns(pc, len)
    PROVE  /\ i \in RegularInsns
           /\ \/ i.op \in {"aluk", "alux", "stx", "call"}
              \/ i.op = "jk" /\ i.off \in BranchOffsets(pc, len)
  <1>1. CASE i \in {MovImm(1), CallInsn}
    <2>1. 1 \in 0 .. 10
      OBVIOUS
    <2> QED BY <1>1, <2>1, MovRegular, CallRegular
  <1>2. CASE i = Insn("alux", 1, 1, 0, 0)
    <2>1. 1 \in 0 .. 10
      OBVIOUS
    <2> QED BY <1>2, <2>1, AluRegular
  <1>3. CASE i = Insn("stx", 10, 1, -StackSize, 0)
    <2>1. -StackSize \in Int
      BY BoundsAssumption
    <2>2. 1 \in 0 .. 10 /\ 10 \in 0 .. 10 /\ "stx" \in {"stx", "ldx"}
      OBVIOUS
    <2> QED BY <1>3, <2>1, <2>2, MemRegular
  <1>4. ASSUME NEW off \in BranchOffsets(pc, len), i = Compare(off)
        PROVE  i \in RegularInsns /\ i.op = "jk" /\ i.off \in BranchOffsets(pc, len)
    <2>1. off \in Int
      BY DEF BranchOffsets
    <2> QED BY <1>4, <2>1, CompareRegular
  <1> QED BY <1>1, <1>2, <1>3, <1>4 DEF BodyInsns

LEMMA MutantsIn ==
    ASSUME NEW T \in SUBSET Insns, Edited(T), RegularInsns \subseteq T,
           NEW p \in Seq(T), NEW q \in Seq(T), Len(p) >= 3
    PROVE  Mutants(p, q) \subseteq Seq(T)
  <1>0. Len(p) \in Nat /\ Len(q) \in Nat /\ DOMAIN p = 1 .. Len(p) /\ \A n \in DOMAIN p : p[n] \in T
    OBVIOUS
  <1>1. ASSUME NEW m \in field_replace(p) PROVE m \in Seq(T)
    <2>1. PICK pc \in 1 .. Len(p) - 2 :
            m \in {ReplaceAt(p, pc + 1, i) : i \in {replace_imm(At(p, pc), v) : v \in Imms}
                                            \cup {replace_off(At(p, pc), v) : v \in Offsets}
                                            \cup {replace_reg(At(p, pc), 1)}}
      BY DEF field_replace
    <2>2. PICK i \in {replace_imm(At(p, pc), v) : v \in Imms}
                        \cup {replace_off(At(p, pc), v) : v \in Offsets}
                        \cup {replace_reg(At(p, pc), 1)} : m = ReplaceAt(p, pc + 1, i)
      BY <2>1
    <2>3. At(p, pc) \in T
      BY <1>0 DEF At
    <2>4. i \in T
      BY <2>2, <2>3, BoundsAssumption DEF Edited
    <2>5. pc + 1 \in 1 .. Len(p)
      BY <1>0
    <2> QED BY <1>0, <2>2, <2>4, <2>5 DEF ReplaceAt
  <1>2. ASSUME NEW m \in insert(p) PROVE m \in Seq(T)
    <2>0. PICK pc \in 1 .. Len(p) - 1 : m \in {InsertAt(p, pc + 1, i) : i \in BodyInsns(pc, Len(p))}
      BY DEF insert
    <2>1. PICK i \in BodyInsns(pc, Len(p)) : m = InsertAt(p, pc + 1, i)
      BY <2>0
    <2>2. i \in T
      BY <1>0, <2>1, BodyFacts
    <2> DEFINE a == SubSeq(p, 1, pc + 1 - 1)
               b == SubSeq(p, pc + 1, Len(p))
    <2>3. a \in Seq(T) /\ b \in Seq(T)
      <3>1. pc + 1 - 1 \in 0 .. Len(p) /\ pc + 1 \in 1 .. Len(p) /\ Len(p) \in 0 .. Len(p)
        BY <1>0
      <3> QED BY <1>0, <3>1
    <2>4. m = a \o <<i>> \o b
      BY <2>1 DEF InsertAt
    <2> HIDE DEF a, b
    <2>5. <<i>> \in Seq(T)
      BY <2>2
    <2>6. a \o <<i>> \in Seq(T)
      BY <2>3, <2>5, ConcatProperties
    <2> QED BY <2>3, <2>4, <2>6, ConcatProperties
  <1>3. ASSUME NEW m \in delete(p) PROVE m \in Seq(T)
    <2>1. CASE m = p
      BY <2>1
    <2>2. CASE m # p
      <3>1. PICK pc \in 1 .. Len(p) - 2 : m = RemoveAt(p, pc + 1)
        BY <2>2 DEF delete
      <3> DEFINE a == SubSeq(p, 1, pc + 1 - 1)
                 b == SubSeq(p, pc + 1 + 1, Len(p))
      <3>2. a \in Seq(T) /\ b \in Seq(T)
        <4>1. pc + 1 - 1 \in 0 .. Len(p) /\ pc + 1 + 1 \in 1 .. Len(p) /\ Len(p) \in 0 .. Len(p)
          BY <1>0
        <4> QED BY <1>0, <4>1
      <3>3. m = a \o b
        BY <3>1 DEF RemoveAt
      <3> HIDE DEF a, b
      <3> QED BY <3>2, <3>3, ConcatProperties
    <2> QED BY <2>1, <2>2
  <1>4. ASSUME Len(q) >= 2, NEW m \in splice(p, q) PROVE m \in Seq(T)
    <2>0. PICK x \in 1 .. Len(p) - 1 :
            m \in {SubSeq(p, 1, x) \o SubSeq(q, y + 1, Len(q)) : y \in 1 .. Len(q) - 1}
      BY DEF splice
    <2>1. PICK y \in 1 .. Len(q) - 1 : m = SubSeq(p, 1, x) \o SubSeq(q, y + 1, Len(q))
      BY <2>0
    <2> DEFINE a == SubSeq(p, 1, x)
               b == SubSeq(q, y + 1, Len(q))
    <2>2. a \in Seq(T) /\ b \in Seq(T)
      <3>1. x \in 0 .. Len(p) /\ y + 1 \in 1 .. Len(q) /\ Len(q) \in 0 .. Len(q)
        BY <1>0
      <3> QED BY <1>0, <3>1
    <2>3. m = a \o b
      BY <2>1
    <2> HIDE DEF a, b
    <2> QED BY <2>2, <2>3, ConcatProperties
  <1> QED BY <1>1, <1>2, <1>3, <1>4 DEF Mutants

-----------------------------------------------------------------------------
(* Generated programs.                                                      *)

LEMMA Prefixed ==
    ASSUME NEW T, NEW x \in T, NEW s \in Seq(T)
    PROVE  /\ <<x>> \o s \in Seq(T) /\ Len(<<x>> \o s) = Len(s) + 1
           /\ At(<<x>> \o s, 0) = x
           /\ \A n \in 1 .. Len(s) : At(<<x>> \o s, n) = s[n]
  <1>1. <<x>> \in Seq(T) /\ Len(<<x>>) = 1 /\ <<x>>[1] = x
    OBVIOUS
  <1> DEFINE q == <<x>>
             r == q \o s
  <1>2. r \in Seq(T) /\ Len(r) = Len(q) + Len(s)
        /\ \A i \in 1 .. Len(r) : r[i] = IF i <= Len(q) THEN q[i] ELSE s[i - Len(q)]
    <2> HIDE DEF q
    <2> QED BY <1>1, ConcatProperties DEF q
  <1> HIDE DEF q, r
  <1>3. Len(s) \in Nat /\ Len(q) = 1 /\ q[1] = x
    BY <1>1 DEF q
  <1>4. At(r, 0) = x
    BY <1>2, <1>3 DEF At
  <1>5. ASSUME NEW n \in 1 .. Len(s) PROVE At(r, n) = s[n]
    <2>1. n + 1 \in 1 .. Len(r) /\ ~(n + 1 <= Len(q)) /\ n + 1 - Len(q) = n
      BY <1>2, <1>3
    <2> QED BY <1>2, <2>1 DEF At
  <1> QED BY <1>2, <1>3, <1>4, <1>5 DEF q, r

LEMMA TailKinds ==
    ASSUME NEW len, NEW t \in Tails(len)
    PROVE  \/ t.last \in {"body", "jump"} /\ t.tail = <<ExitInsn>>
           \/ len >= 3 /\ t.last = "call" /\ t.tail = <<ExitInsn, MovImm(0), ExitInsn>>
  <1> DEFINE x == <<ExitInsn>>
             y == <<ExitInsn, MovImm(0), ExitInsn>>
  <1>1. \/ t = [last |-> "body", tail |-> x]
        \/ t = [last |-> "jump", tail |-> x]
        \/ len >= 3 /\ t = [last |-> "call", tail |-> y]
    BY DEF Tails, Plain
  <1> HIDE DEF x, y
  <1>2. \/ t.last \in {"body", "jump"} /\ t.tail = x
        \/ len >= 3 /\ t.last = "call" /\ t.tail = y
    BY <1>1
  <1> QED BY <1>2 DEF x, y

\* What gen_program makes.
LEMMA GenShape ==
    ASSUME NEW p \in GenPrograms
    PROVE  \E len \in Nat : \E t \in Tails(len) :
             /\ len >= 1
             /\ p \in Seq(RegularInsns) /\ Len(p) = len + 1 + Len(t.tail)
             /\ At(p, 0) = MovImm(0)
             /\ \A n \in 1 .. len : At(p, n) \in BodyAt(n, len, t)
             /\ \A k \in 1 .. Len(t.tail) : At(p, len + k) = t.tail[k]
  <1>1. PICK len \in 1 .. MaxBody : p \in UNION {
            {<<MovImm(0)>> \o body \o t.tail :
                body \in {b \in [1 .. len -> UNION {BodyAt(n, len, t) : n \in 1 .. len}] :
                            \A n \in 1 .. len : b[n] \in BodyAt(n, len, t)}} : t \in Tails(len)}
    BY DEF GenPrograms
  <1>2. PICK t \in Tails(len) : p \in {<<MovImm(0)>> \o body \o t.tail :
                body \in {b \in [1 .. len -> UNION {BodyAt(n, len, t) : n \in 1 .. len}] :
                            \A n \in 1 .. len : b[n] \in BodyAt(n, len, t)}}
    BY <1>1
  <1>3. PICK b \in [1 .. len -> UNION {BodyAt(n, len, t) : n \in 1 .. len}] :
            (\A n \in 1 .. len : b[n] \in BodyAt(n, len, t)) /\ p = <<MovImm(0)>> \o b \o t.tail
    BY <1>2
  <1>4. len \in Nat /\ len >= 1
    BY <1>1, BoundsAssumption
  <1>5. ASSUME NEW n \in 1 .. len PROVE BodyAt(n, len, t) \subseteq RegularInsns
    <2>1. n - 1 \in Nat
      BY <1>4
    <2>2. BodyInsns(n - 1, len) \subseteq RegularInsns
      BY <1>4, <2>1, BodyFacts
    <2>3. 0 \in Int /\ 1 \in Int
      OBVIOUS
    <2>4. Insn("ja", 0, 0, 0, 0) \in RegularInsns /\ Insn("callsub", 0, 0, 1, 0) \in RegularInsns
      BY <2>3, JumpRegular, CallsubRegular
    <2> QED BY <2>2, <2>4 DEF BodyAt
  <1>6. b \in Seq(RegularInsns) /\ Len(b) = len
    <2>1. \A n \in 1 .. len : b[n] \in RegularInsns
      BY <1>3, <1>5
    <2>2. b = [n \in 1 .. len |-> b[n]]
      BY <1>3
    <2> QED BY <1>4, <2>1, <2>2
  <1>7. t.tail \in Seq(RegularInsns)
    <2>1. 0 \in 0 .. 10
      OBVIOUS
    <2>2. MovImm(0) \in RegularInsns /\ ExitInsn \in RegularInsns
      BY <2>1, MovRegular, ExitRegular
    <2>3. t.tail = <<ExitInsn>> \/ t.tail = <<ExitInsn, MovImm(0), ExitInsn>>
      BY TailKinds
    <2> DEFINE x == ExitInsn
               y == MovImm(0)
    <2>4. x \in RegularInsns /\ y \in RegularInsns /\ (t.tail = <<x>> \/ t.tail = <<x, y, x>>)
      BY <2>2, <2>3
    <2> HIDE DEF x, y
    <2>5. <<x>> \in Seq(RegularInsns) /\ <<x, y, x>> \in Seq(RegularInsns)
      BY <2>4
    <2> QED BY <2>4, <2>5
  <1>8. MovImm(0) \in RegularInsns
    <2>1. 0 \in 0 .. 10
      OBVIOUS
    <2> QED BY <2>1, MovRegular
  <1> DEFINE m == MovImm(0)
             q == <<m>> \o b
             w == t.tail
  <1>9. /\ q \in Seq(RegularInsns) /\ Len(q) = len + 1 /\ At(q, 0) = m
        /\ \A n \in 1 .. len : At(q, n) = b[n]
    <2>1. m \in RegularInsns
      BY <1>8
    <2> HIDE DEF m
    <2>2. b \in Seq(RegularInsns)
      BY <1>6
    <2>3. /\ <<m>> \o b \in Seq(RegularInsns) /\ Len(<<m>> \o b) = Len(b) + 1 /\ At(<<m>> \o b, 0) = m
          /\ \A n \in 1 .. Len(b) : At(<<m>> \o b, n) = b[n]
      BY ONLY <2>1, <2>2, Prefixed
    <2> HIDE DEF q
    <2> QED BY <1>6, <2>3 DEF q
  <1>10. p = q \o w
    BY <1>3
  <1>11. w \in Seq(RegularInsns)
    BY <1>7
  <1> HIDE DEF q, m, w
  <1>12. /\ p \in Seq(RegularInsns) /\ Len(p) = Len(q) + Len(w)
         /\ \A i \in 1 .. Len(p) : p[i] = IF i <= Len(q) THEN q[i] ELSE w[i - Len(q)]
    <2>1. q \in Seq(RegularInsns)
      BY <1>9
    <2> QED BY ONLY <1>10, <1>11, <2>1, ConcatProperties
  <1>13. Len(w) \in Nat
    BY <1>11
  <1>14. At(p, 0) = m
    <2>1. 1 \in 1 .. Len(p) /\ 1 <= Len(q)
      <3>1. len \in Nat /\ Len(q) = len + 1 /\ Len(w) \in Nat /\ Len(p) = Len(q) + Len(w)
        BY <1>4, <1>9, <1>12, <1>13
      <3> QED BY ONLY <3>1
    <2>2. p[1] = q[1]
      BY <1>12, <2>1
    <2>3. At(p, 0) = p[1] /\ At(q, 0) = q[1]
      BY DEF At
    <2> QED BY <1>9, <2>2, <2>3
  <1>15. ASSUME NEW n \in 1 .. len PROVE At(p, n) \in BodyAt(n, len, t)
    <2>1. n + 1 \in 1 .. Len(p) /\ n + 1 <= Len(q)
      BY <1>4, <1>9, <1>12, <1>13
    <2>2. At(p, n) = At(q, n)
      BY <1>12, <2>1 DEF At
    <2> QED BY <1>3, <1>9, <2>2
  <1>16. ASSUME NEW k \in 1 .. Len(w) PROVE At(p, len + k) = w[k]
    <2>1. len + k + 1 \in 1 .. Len(p) /\ ~(len + k + 1 <= Len(q)) /\ len + k + 1 - Len(q) = k
      BY <1>4, <1>9, <1>12, <1>13
    <2> DEFINE i == len + k + 1
    <2>a. i \in 1 .. Len(p) /\ ~(i <= Len(q)) /\ i - Len(q) = k
      BY <2>1
    <2> HIDE DEF i
    <2>b. p[i] = w[k]
      BY ONLY <1>12, <2>a
    <2>2. p[len + k + 1] = w[k]
      BY <2>b DEF i
    <2> QED BY <2>2 DEF At
  <1>17. Len(p) = len + 1 + Len(w)
    BY <1>9, <1>12
  <1> QED BY <1>4, <1>12, <1>14, <1>15, <1>16, <1>17 DEF m, w

Templates ==
    {overflow_chain, alu32_roundtrip, dual_refine, narrowing_chain, spill_fill, null_check, bounded_loop}

LEMMA TemplateFacts ==
    /\ overflow_chain \in Seq(RegularInsns) /\ alu32_roundtrip \in Seq(RegularInsns)
    /\ dual_refine \in Seq(RegularInsns) /\ narrowing_chain \in Seq(RegularInsns)
    /\ spill_fill \in Seq(RegularInsns) /\ null_check \in Seq(RegularInsns)
    /\ bounded_loop \in Seq(RegularInsns)
  <1> DEFINE R == RegularInsns
  <1>0. {0, 1, 2, 10} \subseteq 0 .. 10 /\ {-8, -2, 1, 2} \subseteq Int /\ "stx" \in {"stx", "ldx"} /\ "ldx" \in {"stx", "ldx"}
    OBVIOUS
  <1>1. MovImm(0) \in R /\ MovImm(1) \in R /\ MovImm(2) \in R
    BY <1>0, MovRegular
  <1>2. CallInsn \in R /\ ExitInsn \in R
    BY CallRegular, ExitRegular
  <1>3. Compare(1) \in R /\ Compare(2) \in R /\ Compare(-2) \in R
    BY <1>0, CompareRegular
  <1>4. Insn("alux", 0, 1, 0, 0) \in R /\ Insn("alux", 0, 2, 0, 0) \in R
    BY <1>0, AluRegular
  <1>5. Insn("stx", 10, 1, -8, 0) \in R /\ Insn("ldx", 1, 10, -8, 0) \in R
    BY <1>0, MemRegular
  <1> HIDE DEF R
  <1>6. overflow_chain \in Seq(R)
    BY <1>1, <1>2 DEF overflow_chain
  <1>7. alu32_roundtrip \in Seq(R)
    BY <1>1, <1>2, <1>4 DEF alu32_roundtrip
  <1>8. dual_refine \in Seq(R)
    BY <1>1, <1>2, <1>3 DEF dual_refine
  <1>9. narrowing_chain \in Seq(R)
    BY <1>1, <1>2, <1>3 DEF narrowing_chain
  <1>10. spill_fill \in Seq(R)
    BY <1>1, <1>2, <1>4, <1>5 DEF spill_fill
  <1>11. null_check \in Seq(R)
    BY <1>1, <1>2, <1>3 DEF null_check
  <1>12. bounded_loop \in Seq(R)
    BY <1>1, <1>2, <1>3, <1>4 DEF bounded_loop
  <1> QED BY <1>6, <1>7, <1>8, <1>9, <1>10, <1>11, <1>12 DEF R

LEMMA IdiomShape ==
    ASSUME NEW p \in IdiomPrograms
    PROVE  p \in Seq(RegularInsns)
  <1>1. PICK body \in Templates : p = <<MovImm(0)>> \o body
    BY DEF IdiomPrograms, Templates
  <1>2. body \in Seq(RegularInsns)
    BY TemplateFacts DEF Templates
  <1>3. MovImm(0) \in RegularInsns
    <2>1. 0 \in 0 .. 10
      OBVIOUS
    <2> QED BY <2>1, MovRegular
  <1> QED BY <1>1, <1>2, <1>3, Prefixed

\* A seed decodes to instructions, to regular ones if it has no ldimm64.
LEMMA SeedsDecoded ==
    ASSUME NEW q \in Seeds
    PROVE  /\ q \in Seq(Insns) /\ Decoded(q) \in Seq(Insns)
           /\ ~HasWide(q) => Decoded(q) \in Seq(RegularInsns)
  <1>1. q \in Seq(Insns)
    BY SeedsAssumption
  <1> DEFINE x(n) == CASE q[n].op = "ld64" -> parse_ldimm64(q[n])
                       [] q[n].op = "pad" -> [q[n] EXCEPT !.op = "second"]
                       [] OTHER -> parse_insn(q[n])
  <1>2. Decoded(q) = [n \in 1 .. Len(q) |-> x(n)]
    BY <1>1 DEF Decoded
  <1>3. ASSUME NEW n \in 1 .. Len(q) PROVE x(n) \in Insns /\ (~HasWide(q) => x(n) \in RegularInsns)
    <2> DEFINE s == q[n]
               a == parse_ldimm64(s)
               b == [s EXCEPT !.op = "second"]
               c == parse_insn(s)
    <2>1. s \in Insns
      BY <1>1
    <2>2. \/ FieldsOk(s)
          \/ s.op = "ld64" /\ WideOk(s, q[n + 1])
          \/ s.op = "pad" /\ HasWide(q)
      <3>1. \/ FieldsOk(s)
            \/ s.op = "ld64" /\ WideOk(s, q[n + 1])
            \/ s.op = "pad" /\ n > 1 /\ q[n - 1].op = "ld64"
        BY <1>1, SeedsAssumption
      <3>2. n > 1 => n - 1 \in DOMAIN q
        BY <1>1
      <3> HIDE DEF s
      <3> QED BY <3>1, <3>2 DEF HasWide
    <2>3. x(n) = CASE s.op = "ld64" -> a [] s.op = "pad" -> b [] OTHER -> c
      OBVIOUS
    <2> HIDE DEF x, a, b, c, s
    <2>4. CASE FieldsOk(s)
      <3>1. s.op \notin {"ld64", "pad"}
        BY <2>4, OneSlotFacts
      <3>2. x(n) = c
        BY <2>3, <3>1
      <3>3. c \in RegularInsns
        BY <2>1, <2>4, ParseRegular DEF c
      <3> QED BY <3>2, <3>3 DEF RegularInsns
    <2>5. CASE s.op = "ld64" /\ WideOk(s, q[n + 1])
      <3>1. x(n) = a
        BY <2>3, <2>5
      <3>2. a \in Insns
        BY <2>1, <2>5, WideRegular DEF a
      <3>3. HasWide(q)
        BY <1>1, <2>5 DEF HasWide, s
      <3> QED BY <3>1, <3>2, <3>3
    <2>6. CASE s.op = "pad" /\ HasWide(q)
      <3>1. x(n) = b
        BY <2>3, <2>6
      <3>2. b \in Insns
        BY <2>1, SecondRegular DEF b
      <3> QED BY <2>6, <3>1, <3>2
    <2> QED BY <2>2, <2>4, <2>5, <2>6
  <1> HIDE DEF x
  <1>4. Len(q) \in Nat
    BY <1>1
  <1>5. Decoded(q) \in Seq(Insns)
    BY <1>2, <1>3, <1>4
  <1>6. ~HasWide(q) => Decoded(q) \in Seq(RegularInsns)
    BY <1>2, <1>3, <1>4
  <1> QED BY <1>1, <1>5, <1>6

LEMMA FilesTyped == \A s \in Files : s \in Seq(Insns)
  <1> SUFFICES ASSUME NEW s \in Files PROVE s \in Seq(Insns)
    OBVIOUS
  <1>1. ASSUME NEW n \in 1 .. MaxFile, s \in [1 .. n -> Alphabet] PROVE s \in Seq(Insns)
    <2>1. n \in Nat
      BY BoundsAssumption
    <2>2. s \in [1 .. n -> Insns]
      BY <1>1, FilesAssumption
    <2> QED BY <2>1, <2>2
  <1>2. ASSUME NEW x \in Singles, s = <<x>> PROVE s \in Seq(Insns)
    <2>1. x \in Insns
      BY FilesAssumption
    <2> QED BY <1>2, <2>1
  <1>3. CASE s \in Seeds
    BY <1>3, SeedsAssumption
  <1> QED BY <1>1, <1>2, <1>3 DEF Files

LEMMA RegularSeq ==
    ASSUME NEW p \in Seq(RegularInsns)
    PROVE  p \in Seq(Insns)
  BY DEF RegularInsns

-----------------------------------------------------------------------------
(* The inductive invariant.                                                 *)

Colours == {"not_visited", "discovering", "explored"}

Typed ==
    /\ origin \in {"file", "gen", "mutant", "wide_mutant"}
    /\ mode \in {"env", "nano"}
    /\ phase \in Final \cup {"decode", "subprog", "stack", "ends", "search"}
    /\ mutations \in 0 .. MaxMutations
    /\ slots \in Seq(Insns) /\ insns \in Seq(Insns)
    /\ subprogs \subseteq Pcs(insns)
    /\ color # <<>> => color \in [Pcs(insns) -> Colours]
    /\ stack \in Seq(Pcs(insns) \X Nat)
    /\ heads \subseteq Pcs(insns)

\* What each phase has behind it.
Placed ==
    /\ phase \in {"decode", "reject_decode", "subprog", "reject_subprog"} => subprogs = {}
    /\ phase \in {"decode", "reject_decode", "subprog", "reject_subprog", "stack", "reject_stack", "ends"} =>
          color = <<>> /\ stack = <<>> /\ heads = {}
    /\ phase \in {"decode", "reject_decode"} => mode = "env"
    /\ phase \in {"stack", "reject_stack", "ends", "search", "accept", "reject_cfg"} =>
          add_subprog_ok(insns) /\ subprogs = Entries(insns)
    /\ phase \in {"search", "accept"} =>
          EndsOk(insns, subprogs) /\ color \in [Pcs(insns) -> Colours]
    /\ phase \in {"ends", "search", "accept"} /\ mode = "env" => check_stack_call_chains(insns, subprogs)
    /\ phase \in {"accept", "stack", "reject_stack"} => mode = "env"
    /\ phase = "dropped" => mode = "nano"

\* Slot n of the file s is decoded as i, and a wide instruction as a whole.
DecodedAt(s, n, i) ==
    \/ FieldsOk(s[n]) /\ i = parse_insn(s[n])
    \/ /\ s[n].op = "ld64" /\ n < Len(s) /\ WideOk(s[n], s[n + 1])
       /\ i = parse_ldimm64(s[n])
    \/ /\ n > 1 /\ s[n - 1].op = "ld64" /\ WideOk(s[n - 1], s[n])
       /\ i = [s[n] EXCEPT !.op = "second"]

\* The decoded prefix is what its slots say.
DecodeInv ==
    mode = "env" /\ phase # "reject_decode" =>
        /\ Len(insns) <= Len(slots)
        /\ phase # "decode" => Len(insns) = Len(slots)
        /\ \A n \in DOMAIN insns : DecodedAt(slots, n, insns[n])

\* The search, on program p with entries e: colours c, stack st and heads h.
Seen(p, c) == {pc \in Pcs(p) : c[pc] # "not_visited"}
Explored(p, c) == {pc \in Pcs(p) : c[pc] = "explored"}
Closed(p, e, C) == \A u \in C : Succ(p, e, u) \subseteq C

\* The stack is the path of the nodes being discovered.
OnPath(p, e, c, st) ==
    /\ \A q \in Pcs(p) : c[q] = "discovering" <=> \E k \in DOMAIN st : st[k][1] = q
    /\ \A j, k \in DOMAIN st : st[j][1] = st[k][1] => j = k
    /\ \A k \in DOMAIN st : st[k][2] > 0 =>
          visit_insn_ok(p, e, st[k][1]) /\ st[k][2] <= Len(Nexts(p, e, st[k][1]))
    /\ \A k \in DOMAIN st : k > 1 =>
          st[k - 1][2] > 0 /\ st[k][1] = Nexts(p, e, st[k - 1][1])[st[k - 1][2]]
\* What was looked at is explored, a head or next on the stack.
LookedAt(p, e, c, st, h) ==
    \A k \in DOMAIN st : \A i \in 1 .. st[k][2] :
        \/ Nexts(p, e, st[k][1])[i] \in Explored(p, c)
        \/ Nexts(p, e, st[k][1])[i] \in h
        \/ k < Len(st) /\ Nexts(p, e, st[k][1])[i] = st[k + 1][1]
\* A finished node has finished successors, the heads apart.
Finished(p, e, c, h) ==
    \A q \in Explored(p, c) : visit_insn_ok(p, e, q) /\ Succ(p, e, q) \ h \subseteq Explored(p, c)
\* Among finished nodes no cycle avoids the heads: each set of them has a
\* node that none of the set leads to.
Acyclic(p, e, c, h) ==
    \A S \in SUBSET Explored(p, c) : S # {} => \E v \in S : \A u \in S : v \notin Succ(p, e, u) \ h
\* A head is on a cycle: whatever holds its successors and theirs, holds it.
HeadsLoop(p, e, c, h) ==
    \A x \in h : /\ c[x] # "not_visited"
                /\ \A C \in SUBSET Pcs(p) : Succ(p, e, x) \subseteq C /\ Closed(p, e, C) => x \in C
\* Only what 0 leads to was seen.
SeenReached(p, e, c) ==
    /\ 0 \in Seen(p, c)
    /\ \A C \in SUBSET Pcs(p) : 0 \in C /\ Closed(p, e, C) => Seen(p, c) \subseteq C

SearchOk(p, e, c, st, h) ==
    /\ OnPath(p, e, c, st) /\ LookedAt(p, e, c, st, h) /\ Finished(p, e, c, h)
    /\ Acyclic(p, e, c, h) /\ HeadsLoop(p, e, c, h) /\ SeenReached(p, e, c)

SearchInv ==
    phase \in {"search", "accept"} =>
        /\ SearchOk(insns, subprogs, color, stack, heads)
        /\ phase = "accept" => Explored(insns, color) = Pcs(insns) /\ stack = <<>>

-----------------------------------------------------------------------------
(* Types.                                                                   *)

Base == Typed /\ Placed

LEMMA InitBase == Init => Base
  <1> SUFFICES ASSUME Init PROVE Base
    OBVIOUS
  <1>1. slots \in Seq(Insns) /\ origin \in {"file", "gen"}
    <2>1. CASE \E s \in Files : Start("file", s)
      BY <2>1, FilesTyped DEF Start
    <2>2. CASE \E p \in GenPrograms \cup IdiomPrograms : Start("gen", EncodeAll(p))
      <3>1. PICK p \in GenPrograms \cup IdiomPrograms : Start("gen", EncodeAll(p))
        BY <2>2
      <3>2. p \in Seq(RegularInsns)
        BY GenShape, IdiomShape
      <3> QED BY <3>1, <3>2, RegularSeq, EncodeAllTyped DEF Start
    <2> QED BY <2>1, <2>2 DEF Init
  <1>2. /\ insns = <<>> /\ mode = "env" /\ phase = "decode"
        /\ subprogs = {} /\ color = <<>> /\ stack = <<>> /\ heads = {} /\ mutations = 0
    BY DEF Init, Start
  <1>3. mutations \in 0 .. MaxMutations
    BY <1>2, BoundsAssumption
  <1>4. insns \in Seq(Insns) /\ stack \in Seq(Pcs(insns) \X Nat)
    BY <1>2, EmptySeq
  <1> QED BY <1>1, <1>2, <1>3, <1>4 DEF Base, Typed, Placed

\* The entry the search looks at, and what it puts back.
LEMMA StackTop ==
    ASSUME NEW S, NEW st \in Seq(S \X Nat), st # <<>>
    PROVE  /\ Len(st) \in Nat /\ Len(st) > 0 /\ Len(st) \in DOMAIN st /\ Last(st) = st[Len(st)]
           /\ Last(st) \in S \X Nat /\ Last(st)[1] \in S /\ Last(st)[2] \in Nat
           /\ Last(st) = <<Last(st)[1], Last(st)[2]>>
           /\ Front(st) \in Seq(S \X Nat) /\ Len(Front(st)) = Len(st) - 1
           /\ \A k \in 1 .. Len(st) - 1 : Front(st)[k] = st[k]
  <1>1. Len(st) \in Nat /\ Len(st) > 0 /\ DOMAIN st = 1 .. Len(st)
    OBVIOUS
  <1>2. Last(st) \in S \X Nat /\ Last(st) = st[Len(st)]
    BY <1>1 DEF Last
  <1>3. Front(st) \in Seq(S \X Nat) /\ Len(Front(st)) = Len(st) - 1 /\ \A k \in 1 .. Len(st) - 1 : Front(st)[k] = st[k]
    BY <1>1 DEF Front
  <1> HIDE DEF Last
  <1> QED BY <1>1, <1>2, <1>3

LEMMA BaseStep == Base /\ [Next]_vars => Base'
  <1> SUFFICES ASSUME Base, [Next]_vars PROVE Base'
    OBVIOUS
  <1> USE DEF Base
  <1>0. slots \in Seq(Insns) /\ insns \in Seq(Insns) /\ Len(slots) \in Nat /\ Len(insns) \in Nat
    BY DEF Typed
  <1>1. CASE DecodeSlot
    <2> DEFINE s == slots[Len(insns) + 1]
    <2>1. /\ phase = "decode" /\ UNCHANGED <<origin, slots, mode, mutations, subprogs, color, stack, heads>>
          /\ \/ insns' = Append(insns, parse_insn(s)) /\ phase' = phase
             \/ insns' = <<>> /\ phase' = "reject_decode"
      BY <1>1 DEF DecodeSlot, Kept, Nano, Goto
    <2>2. s \in Insns
      BY <1>0, <1>1 DEF DecodeSlot
    <2>3. parse_insn(s) \in Insns
      BY <2>2, ParseTyped
    <2> HIDE DEF s
    <2>4. insns' \in Seq(Insns)
      <3>1. Append(insns, parse_insn(s)) \in Seq(Insns)
        BY <1>0, <2>3
      <3> QED BY <2>1, <3>1, EmptySeq
    <2>5. subprogs = {} /\ color = <<>> /\ stack = <<>> /\ heads = {} /\ mode = "env"
      BY <2>1 DEF Placed
    <2>6. stack' \in Seq(Pcs(insns') \X Nat)
      BY <2>1, <2>5, EmptySeq
    <2>7. Typed'
      BY <2>1, <2>4, <2>5, <2>6 DEF Typed, Final
    <2>8. Placed'
      BY <2>1, <2>5 DEF Placed
    <2> QED BY <2>7, <2>8
  <1>2. CASE DecodeWide
    <2> DEFINE n == Len(insns) + 1
               a == parse_ldimm64(slots[n])
               b == [slots[n + 1] EXCEPT !.op = "second"]
    <2>1. /\ phase = "decode" /\ UNCHANGED <<origin, slots, mode, mutations, subprogs, color, stack, heads>>
          /\ Len(insns) < Len(slots) /\ slots[n].op = "ld64"
          /\ \/ n < Len(slots) /\ WideOk(slots[n], slots[n + 1]) /\ insns' = insns \o <<a, b>> /\ phase' = phase
             \/ insns' = <<>> /\ phase' = "reject_decode"
      BY <1>2 DEF DecodeWide, Kept, Nano, Goto
    <2>2. n \in Nat /\ slots[n] \in Insns /\ (n < Len(slots) => slots[n + 1] \in Insns)
      BY <1>0, <2>1
    <2>3. n < Len(slots) /\ WideOk(slots[n], slots[n + 1]) => a \in Insns /\ b \in Insns
      BY <2>1, <2>2, WideRegular, SecondRegular
    <2> HIDE DEF n, a, b
    <2>4. insns' \in Seq(Insns)
      <3>1. CASE n < Len(slots) /\ WideOk(slots[n], slots[n + 1]) /\ insns' = insns \o <<a, b>>
        <4>1. <<a, b>> \in Seq(Insns)
          BY <2>3, <3>1
        <4> QED BY <1>0, <3>1, <4>1, ConcatProperties
      <3>2. CASE insns' = <<>>
        BY <3>2, EmptySeq
      <3> QED BY <2>1, <3>1, <3>2
    <2>5. subprogs = {} /\ color = <<>> /\ stack = <<>> /\ heads = {} /\ mode = "env"
      BY <2>1 DEF Placed
    <2>6. stack' \in Seq(Pcs(insns') \X Nat)
      BY <2>1, <2>5, EmptySeq
    <2>a. phase' \in {"decode", "reject_decode"}
      BY <2>1
    <2>7. Typed'
      BY <2>a, <2>1, <2>4, <2>5, <2>6 DEF Typed, Final
    <2>8. Placed'
      BY <2>a, <2>1, <2>5 DEF Placed
    <2> QED BY <2>7, <2>8
  <1>3. CASE ResolveMaps
    <2>1. /\ phase = "decode" /\ UNCHANGED <<origin, slots, mode, mutations, subprogs, color, stack, heads>>
          /\ insns' \in {insns, <<>>} /\ phase' \in {"subprog", "reject_decode"}
      BY <1>3 DEF ResolveMaps, Kept, Nano, Goto
    <2>4. insns' \in Seq(Insns)
      BY <1>0, <2>1, EmptySeq
    <2>5. subprogs = {} /\ color = <<>> /\ stack = <<>> /\ heads = {} /\ mode = "env"
      BY <2>1 DEF Placed
    <2>6. stack' \in Seq(Pcs(insns') \X Nat)
      BY <2>1, <2>5, EmptySeq
    <2>7. Typed'
      BY <2>1, <2>4, <2>5, <2>6 DEF Typed, Final
    <2>8. Placed'
      BY <2>1, <2>5 DEF Placed
    <2> QED BY <2>7, <2>8
  <1>4. CASE AddSubprog
    <2>1. /\ phase = "subprog" /\ UNCHANGED <<origin, slots, mode, mutations, insns, color, stack, heads>>
          /\ \/ add_subprog_ok(insns) /\ subprogs' = Entries(insns) /\ phase' = IF mode = "env" THEN "stack" ELSE "ends"
             \/ ~add_subprog_ok(insns) /\ subprogs' = {} /\ phase' = "reject_subprog"
      BY <1>4 DEF AddSubprog, Kept, Goto
    <2>2. subprogs' \subseteq Pcs(insns)
      BY <2>1 DEF add_subprog_ok
    <2>3. Typed'
      BY <2>1, <2>2 DEF Typed, Final
    <2>4. color = <<>> /\ stack = <<>> /\ heads = {}
      BY <2>1 DEF Placed
    <2>5. Placed'
      BY <2>1, <2>4 DEF Placed, Typed
    <2> QED BY <2>3, <2>5
  <1>5. CASE CheckStack
    <2>1. /\ phase = "stack" /\ UNCHANGED <<origin, slots, mode, mutations, insns, color, stack, heads, subprogs>>
          /\ \/ check_stack_call_chains(insns, subprogs) /\ phase' = "ends"
             \/ phase' = "reject_stack"
      BY <1>5 DEF CheckStack, Kept, Nano, Goto
    <2>3. Typed'
      BY <2>1 DEF Typed, Final
    <2>5. Placed'
      BY <2>1 DEF Placed
    <2> QED BY <2>3, <2>5
  <1>6. CASE CheckEnds
    <2> DEFINE c == [pc \in Pcs(insns) |-> IF pc = 0 THEN "discovering" ELSE "not_visited"]
    <2>1. /\ phase = "ends" /\ UNCHANGED <<origin, slots, mode, mutations, insns, heads, subprogs>>
          /\ \/ EndsOk(insns, subprogs) /\ phase' = "search" /\ color' = c /\ stack' = <<<<0, 0>>>>
             \/ phase' = "reject_cfg" /\ UNCHANGED <<color, stack>>
      BY <1>6 DEF CheckEnds, Kept, Goto
    <2>2. c \in [Pcs(insns) -> Colours]
      BY DEF Colours
    <2>3. subprogs = Entries(insns) /\ add_subprog_ok(insns) /\ color = <<>>
      BY <2>1 DEF Placed
    <2>4. 0 \in Pcs(insns)
      BY <1>0, <2>3, EntryFacts DEF add_subprog_ok
    <2> DEFINE z == <<0, 0>>
    <2>5. <<z>> \in Seq(Pcs(insns) \X Nat)
      <3>1. z \in Pcs(insns) \X Nat
        BY <2>4
      <3> HIDE DEF z
      <3> QED BY <3>1
    <2> HIDE DEF c
    <2>6. Typed'
      BY <2>1, <2>2, <2>3, <2>5 DEF Typed, Final
    <2>7. Placed'
      BY <2>1, <2>2, <2>3 DEF Placed
    <2> QED BY <2>6, <2>7
  <1>7. CASE SearchFails
    <2>1. /\ phase = "search" /\ phase' = "reject_cfg"
          /\ UNCHANGED <<origin, slots, mode, mutations, insns, color, stack, heads, subprogs>>
      BY <1>7 DEF SearchFails, Kept, Nano, Goto
    <2>2. Typed'
      BY <2>1 DEF Typed, Final
    <2>3. Placed'
      BY <2>1 DEF Placed
    <2> QED BY <2>2, <2>3
  <1>8. CASE SearchChild
    <2> DEFINE pc == Last(stack)[1]
               child == Last(stack)[2]
               nxt == Nexts(insns, subprogs, pc)[child + 1]
               parent == Append(Front(stack), NextEntry(pc, child))
    <2>1. /\ phase = "search" /\ UNCHANGED <<origin, slots, mode, mutations, insns, phase, subprogs>>
          /\ stack # <<>> /\ visit_insn_ok(insns, subprogs, pc) /\ child < Len(Nexts(insns, subprogs, pc))
          /\ stack' = IF color[nxt] = "not_visited" THEN Append(parent, <<nxt, 0>>) ELSE parent
          /\ color' = IF color[nxt] = "not_visited" THEN [color EXCEPT ![nxt] = "discovering"] ELSE color
          /\ heads' = IF color[nxt] = "discovering" THEN heads \cup {nxt} ELSE heads
      BY <1>8 DEF SearchChild, Kept
    <2>2. /\ subprogs = Entries(insns) /\ Entries(insns) \subseteq Pcs(insns) /\ EndsOk(insns, subprogs)
          /\ color \in [Pcs(insns) -> Colours] /\ stack \in Seq(Pcs(insns) \X Nat) /\ heads \subseteq Pcs(insns)
      BY <2>1 DEF Placed, Typed, add_subprog_ok
    <2>3. pc \in Pcs(insns) /\ child \in Nat /\ Front(stack) \in Seq(Pcs(insns) \X Nat)
      BY <2>1, <2>2, StackTop
    <2>4. nxt \in Pcs(insns)
      <3>1. Nexts(insns, subprogs, pc) \in Seq(Pcs(insns))
        BY <1>0, <2>1, <2>2, <2>3, NextsTyped
      <3> HIDE DEF pc, child
      <3> QED BY <2>1, <2>3, <3>1
    <2> HIDE DEF pc, child, nxt
    <2>5. NextEntry(pc, child) \in Pcs(insns) \X Nat
      BY <2>3 DEF NextEntry
    <2>6. parent \in Seq(Pcs(insns) \X Nat)
      BY <2>3, <2>5
    <2> HIDE DEF parent
    <2> DEFINE z == <<nxt, 0>>
    <2>7. Append(parent, z) \in Seq(Pcs(insns) \X Nat)
      <3>1. z \in Pcs(insns) \X Nat
        BY <2>4
      <3> HIDE DEF z
      <3> QED BY <2>6, <3>1
    <2>8. stack' \in Seq(Pcs(insns) \X Nat)
      BY <2>1, <2>6, <2>7
    <2>9. color' \in [Pcs(insns) -> Colours]
      BY <2>1, <2>2, <2>4 DEF Colours
    <2>10. heads' \subseteq Pcs(insns)
      BY <2>1, <2>2, <2>4
    <2>11. Typed'
      BY <2>1, <2>8, <2>9, <2>10 DEF Typed
    <2>12. Placed'
      BY <2>1, <2>2, <2>9 DEF Placed
    <2> QED BY <2>11, <2>12
  <1>9. CASE SearchLeaves
    <2> DEFINE pc == Last(stack)[1]
    <2>1. /\ phase = "search" /\ UNCHANGED <<origin, slots, mode, mutations, insns, phase, subprogs, heads>>
          /\ stack # <<>> /\ color' = [color EXCEPT ![pc] = "explored"] /\ stack' = Front(stack)
      BY <1>9 DEF SearchLeaves, Kept
    <2>2. color \in [Pcs(insns) -> Colours] /\ stack \in Seq(Pcs(insns) \X Nat)
      BY <2>1 DEF Placed, Typed
    <2>3. pc \in Pcs(insns) /\ Front(stack) \in Seq(Pcs(insns) \X Nat)
      BY <2>1, <2>2, StackTop
    <2> HIDE DEF pc
    <2>4. color' \in [Pcs(insns) -> Colours]
      BY <2>1, <2>2 DEF Colours
    <2>5. Typed'
      BY <2>1, <2>3, <2>4 DEF Typed
    <2>6. Placed'
      BY <2>1, <2>4 DEF Placed
    <2> QED BY <2>5, <2>6
  <1>10. CASE SearchEnds
    <2>0. phase = "search" /\ stack = <<>> /\ UNCHANGED <<origin, stack, mutations>>
      BY <1>10 DEF SearchEnds
    <2>1. \/ /\ phase' \in {"reject_cfg", "accept"} /\ (phase' = "accept" => mode = "env")
             /\ UNCHANGED <<slots, insns, mode, subprogs, color, heads>>
          \/ /\ slots' = EncodeAll(insns) /\ insns' = <<>> /\ mode' = "env" /\ phase' = "decode"
             /\ subprogs' = {} /\ color' = <<>> /\ heads' = {}
      BY <1>10 DEF SearchEnds, Goto
    <2>2. CASE /\ phase' \in {"reject_cfg", "accept"} /\ (phase' = "accept" => mode = "env")
               /\ UNCHANGED <<slots, insns, mode, subprogs, color, heads>>
      <3>1. Typed'
        BY <2>0, <2>2 DEF Typed, Final
      <3>2. Placed'
        BY <2>0, <2>2 DEF Placed
      <3> QED BY <3>1, <3>2
    <2>3. CASE /\ slots' = EncodeAll(insns) /\ insns' = <<>> /\ mode' = "env" /\ phase' = "decode"
               /\ subprogs' = {} /\ color' = <<>> /\ heads' = {}
      <3>1. slots' \in Seq(Insns)
        BY <1>0, <2>3, EncodeAllTyped
      <3>2. insns' \in Seq(Insns) /\ stack' \in Seq(Pcs(insns') \X Nat)
        BY <2>0, <2>3, EmptySeq
      <3>3. Typed'
        BY <2>0, <2>3, <3>1, <3>2 DEF Typed, Final
      <3>4. Placed'
        BY <2>0, <2>3 DEF Placed
      <3> QED BY <3>3, <3>4
    <2> QED BY <2>1, <2>2, <2>3
  <1>11. CASE DropMutant
    <2>1. /\ phase' = "dropped" /\ mode = "nano"
          /\ UNCHANGED <<origin, slots, mode, mutations, insns, color, stack, heads, subprogs>>
      BY <1>11 DEF DropMutant, Kept, Nano, Goto
    <2>2. Typed'
      BY <2>1 DEF Typed, Final
    <2>3. Placed'
      BY <2>1 DEF Placed
    <2> QED BY <2>2, <2>3
  <1>12. CASE Mutate
    <2>1. /\ mutations < MaxMutations /\ Len(insns) >= 3
          /\ mode' = "nano" /\ phase' = "subprog" /\ mutations' = mutations + 1
          /\ subprogs' = {} /\ color' = <<>> /\ stack' = <<>> /\ heads' = {} /\ slots' = slots
      BY <1>12 DEF Mutate, Goto
    <2>2. PICK q \in Seeds : (\E m \in Mutants(insns, Decoded(q)) : insns' = m) /\ origin' \in {"wide_mutant", "mutant"}
      BY <1>12 DEF Mutate
    <2>3. insns' \in Seq(Insns)
      <3>1. Insns \in SUBSET Insns /\ RegularInsns \subseteq Insns
        BY DEF RegularInsns
      <3>2. Decoded(q) \in Seq(Insns)
        BY SeedsDecoded
      <3>3. Mutants(insns, Decoded(q)) \subseteq Seq(Insns)
        BY <1>0, <2>1, <3>1, <3>2, InsnsEdited, MutantsIn
      <3> QED BY <2>2, <3>3
    <2>4. stack' \in Seq(Pcs(insns') \X Nat)
      BY <2>1, EmptySeq
    <2>5. mutations' \in 0 .. MaxMutations
      BY <2>1, BoundsAssumption DEF Typed
    <2>6. Typed'
      BY <2>1, <2>2, <2>3, <2>4, <2>5 DEF Typed
    <2>7. Placed'
      BY <2>1 DEF Placed
    <2> QED BY <2>6, <2>7
  <1>13. CASE UNCHANGED vars
    BY <1>13 DEF vars, Typed, Placed
  <1> QED BY <1>1, <1>2, <1>3, <1>4, <1>5, <1>6, <1>7, <1>8, <1>9, <1>10, <1>11, <1>12, <1>13 DEF Next

\* Every pc the structural checks and the search touch is an instruction of
\* the program, for every file, seed and bound (cfg.rs check_cfg indexes
\* state[nxt as usize] without a check).
THEOREM TypeCorrect == Spec => []TypeOK
  <1>1. Base => TypeOK
    <2> SUFFICES ASSUME Base PROVE TypeOK
      OBVIOUS
    <2>1. \A n \in DOMAIN slots : slots[n] \in Insns
      BY DEF Base, Typed
    <2>2. \A n \in DOMAIN insns : insns[n] \in Insns
      BY DEF Base, Typed
    <2>3. \A n \in DOMAIN stack : stack[n][1] \in Pcs(insns)
      <3> SUFFICES ASSUME NEW n \in DOMAIN stack PROVE stack[n][1] \in Pcs(insns)
        OBVIOUS
      <3>1. stack[n] \in Pcs(insns) \X Nat
        BY DEF Base, Typed
      <3> QED BY <3>1
    <2> QED BY <2>1, <2>2, <2>3 DEF Base, Typed, TypeOK, Colours
  <1> QED BY <1>1, InitBase, BaseStep, PTL DEF Spec

-----------------------------------------------------------------------------
(* Decoding.                                                                *)

LEMMA InitDecode == Init => DecodeInv
  <1> SUFFICES ASSUME Init PROVE DecodeInv
    OBVIOUS
  <1>1. insns = <<>> /\ phase = "decode" /\ Len(slots) \in Nat
    BY InitBase DEF Init, Start, Base, Typed
  <1> QED BY <1>1 DEF DecodeInv

LEMMA DecodeStep == Base /\ DecodeInv /\ [Next]_vars => DecodeInv'
  <1> SUFFICES ASSUME Base, DecodeInv, [Next]_vars, mode' = "env", phase' # "reject_decode"
               PROVE  /\ (Len(insns) <= Len(slots))'
                      /\ (phase # "decode" => Len(insns) = Len(slots))'
                      /\ (\A n \in DOMAIN insns : DecodedAt(slots, n, insns[n]))'
    BY DEF DecodeInv
  <1>0. slots \in Seq(Insns) /\ insns \in Seq(Insns) /\ Len(slots) \in Nat /\ Len(insns) \in Nat
    BY DEF Base, Typed
  <1>1. CASE DecodeSlot
    <2> DEFINE N == Len(insns) + 1
               s == slots[N]
               i == parse_insn(s)
    <2>1. /\ phase = "decode" /\ phase' = "decode" /\ slots' = slots /\ mode = "env" /\ Len(insns) < Len(slots)
          /\ FieldsOk(s) /\ insns' = Append(insns, i)
      BY <1>1 DEF DecodeSlot, Kept, Goto
    <2>2. \A n \in DOMAIN insns : DecodedAt(slots, n, insns[n])
      BY <2>1 DEF DecodeInv
    <2>3. DecodedAt(slots, N, i)
      BY <2>1 DEF DecodedAt
    <2> HIDE DEF i
    <2>4. Len(insns') = N /\ DOMAIN insns' = 1 .. N /\ insns'[N] = i /\ \A n \in DOMAIN insns : insns'[n] = insns[n]
      BY <1>0, <2>1
    <2>5. ASSUME NEW n \in 1 .. N PROVE DecodedAt(slots, n, insns'[n])
      <3>1. n = N \/ n \in DOMAIN insns
        BY <1>0
      <3> HIDE DEF N
      <3> QED BY <2>2, <2>3, <2>4, <3>1
    <2>6. N <= Len(slots)
      BY <1>0, <2>1
    <2> HIDE DEF N
    <2> QED BY <2>1, <2>4, <2>5, <2>6
  <1>2. CASE DecodeWide
    <2> DEFINE N == Len(insns) + 1
               a == parse_ldimm64(slots[N])
               b == [slots[N + 1] EXCEPT !.op = "second"]
    <2>1. /\ phase = "decode" /\ phase' = "decode" /\ slots' = slots /\ mode = "env"
          /\ slots[N].op = "ld64" /\ N < Len(slots) /\ WideOk(slots[N], slots[N + 1])
          /\ insns' = insns \o <<a, b>>
      BY <1>2 DEF DecodeWide, Kept, Goto
    <2>2. \A n \in DOMAIN insns : DecodedAt(slots, n, insns[n])
      BY <2>1 DEF DecodeInv
    <2>3. DecodedAt(slots, N, a)
      BY <2>1 DEF DecodedAt
    <2>4. DecodedAt(slots, N + 1, b)
      <3> DEFINE M == N + 1
      <3>1. M > 1 /\ M - 1 = N
        BY <1>0
      <3>2. WideOk(slots[N], slots[M]) /\ slots[N].op = "ld64" /\ b = [slots[M] EXCEPT !.op = "second"]
        BY <2>1
      <3> HIDE DEF N, M, b
      <3>3. DecodedAt(slots, M, b)
        BY <3>1, <3>2 DEF DecodedAt
      <3> QED BY <3>3 DEF M
    <2>a. a \in Insns /\ b \in Insns
      <3>1. slots[N] \in Insns /\ slots[N + 1] \in Insns
        BY <1>0, <2>1
      <3> QED BY <2>1, <3>1, WideRegular, SecondRegular
    <2> HIDE DEF a, b
    <2>5. <<a, b>> \in Seq(Insns) /\ Len(<<a, b>>) = 2 /\ <<a, b>>[1] = a /\ <<a, b>>[2] = b
      BY <2>a
    <2> DEFINE w == <<a, b>>
    <2> HIDE DEF w
    <2>6. /\ insns' \in Seq(Insns) /\ Len(insns') = Len(insns) + Len(w)
          /\ \A k \in 1 .. Len(insns) + Len(w) : insns'[k] = IF k <= Len(insns) THEN insns[k] ELSE w[k - Len(insns)]
      <3>1. w \in Seq(Insns) /\ insns' = insns \o w
        BY <2>1, <2>5 DEF w
      <3> QED BY ONLY <1>0, <3>1, ConcatProperties
    <2>7. Len(w) = 2 /\ w[1] = a /\ w[2] = b
      BY <2>5 DEF w
    <2>8. insns'[N] = a
      <3>1. N \in 1 .. Len(insns) + Len(w) /\ ~(N <= Len(insns)) /\ N - Len(insns) = 1
        BY <1>0, <2>7
      <3> HIDE DEF N
      <3> QED BY <2>6, <2>7, <3>1
    <2>9. insns'[N + 1] = b
      <3> DEFINE M == N + 1
      <3>1. M \in 1 .. Len(insns) + Len(w) /\ ~(M <= Len(insns)) /\ M - Len(insns) = 2
        BY <1>0, <2>7
      <3> HIDE DEF M, N
      <3> QED BY <2>6, <2>7, <3>1 DEF M
    <2>10. \A n \in DOMAIN insns : insns'[n] = insns[n]
      BY <1>0, <2>6, <2>7
    <2>11. ASSUME NEW n \in 1 .. Len(insns') PROVE DecodedAt(slots, n, insns'[n])
      <3>1. n = N \/ n = N + 1 \/ n \in DOMAIN insns
        BY <1>0, <2>6, <2>7
      <3> HIDE DEF N
      <3> QED BY <2>2, <2>3, <2>4, <2>8, <2>9, <2>10, <3>1
    <2>12. Len(insns') <= Len(slots)
      BY <1>0, <2>1, <2>6, <2>7
    <2>13. DOMAIN insns' = 1 .. Len(insns')
      BY <2>6
    <2> HIDE DEF N
    <2> QED BY <2>1, <2>11, <2>12, <2>13
  <1>3. CASE ResolveMaps
    BY <1>0, <1>3 DEF ResolveMaps, Kept, Nano, Goto, DecodeInv
  <1>4. CASE AddSubprog \/ CheckStack \/ CheckEnds \/ SearchFails \/ SearchChild \/ SearchLeaves
    <2>1. UNCHANGED <<mode, slots, insns>> /\ phase \notin {"decode", "reject_decode"}
      BY <1>4 DEF AddSubprog, CheckStack, CheckEnds, SearchFails, SearchChild, SearchLeaves, Kept
    <2> QED BY <1>0, <2>1 DEF DecodeInv
  <1>5. CASE SearchEnds
    <2>1. CASE UNCHANGED <<mode, slots, insns>>
      <3>1. phase = "search"
        BY <1>5 DEF SearchEnds
      <3> QED BY <1>0, <2>1, <3>1 DEF DecodeInv
    <2>2. CASE ~UNCHANGED <<mode, slots, insns>>
      <3>1. slots' = EncodeAll(insns) /\ insns' = <<>> /\ phase' = "decode"
        BY <1>5, <2>2 DEF SearchEnds, Goto
      <3>2. Len(slots') \in Nat
        BY <1>0, <3>1, EncodeAllTyped
      <3> QED BY <3>1, <3>2
    <2> QED BY <2>1, <2>2
  <1>6. CASE DropMutant
    BY <1>6 DEF DropMutant, Kept
  <1>7. CASE Mutate
    BY <1>7 DEF Mutate
  <1>8. CASE UNCHANGED vars
    BY <1>8 DEF vars, DecodeInv
  <1> QED BY <1>1, <1>2, <1>3, <1>4, <1>5, <1>6, <1>7, <1>8 DEF Next

\* A slot comes back from its instruction, up to the fields nobody reads.
LEMMA DecodedEncodes ==
    ASSUME NEW s \in Seq(Insns), NEW n \in DOMAIN s, NEW i, DecodedAt(s, n, i)
    PROVE  encode(i) = Canonical(s[n])
  <1>0. Len(s) \in Nat /\ n \in 1 .. Len(s) /\ s[n] \in Insns
    OBVIOUS
  <1>1. CASE FieldsOk(s[n]) /\ i = parse_insn(s[n])
    BY <1>0, <1>1, ParseRegular
  <1>2. CASE s[n].op = "ld64" /\ n < Len(s) /\ WideOk(s[n], s[n + 1]) /\ i = parse_ldimm64(s[n])
    BY <1>0, <1>2, WideRegular
  <1>3. CASE n > 1 /\ s[n - 1].op = "ld64" /\ WideOk(s[n - 1], s[n]) /\ i = [s[n] EXCEPT !.op = "second"]
    <2>1. s[n].op = "pad"
      BY <1>3 DEF WideOk
    <2> QED BY <1>0, <1>3, <2>1, SecondRegular
  <1> QED BY <1>1, <1>2, <1>3 DEF DecodedAt

\* What was decoded is the file: encoding it gives the same slots, for every
\* file (insn.rs parse_insn and parse_ldimm64 against insn_lib.rs encode).
THEOREM RoundTrip == Spec => []SlotsKept
  <1>1. Base /\ DecodeInv => SlotsKept
    <2> SUFFICES ASSUME Base, DecodeInv, mode = "env", phase \notin {"decode", "reject_decode"}
                 PROVE  EncodeAll(insns) = [n \in DOMAIN slots |-> Canonical(slots[n])]
      BY DEF SlotsKept
    <2>1. slots \in Seq(Insns) /\ insns \in Seq(Insns)
      BY DEF Base, Typed
    <2>2. Len(insns) = Len(slots) /\ \A n \in DOMAIN insns : DecodedAt(slots, n, insns[n])
      BY DEF DecodeInv
    <2>3. DOMAIN insns = DOMAIN slots
      BY <2>1, <2>2
    <2>4. \A n \in DOMAIN slots : encode(insns[n]) = Canonical(slots[n])
      BY <2>1, <2>2, <2>3, DecodedEncodes
    <2> QED BY <2>3, <2>4 DEF EncodeAll
  <1>2. Init => Base /\ DecodeInv
    BY InitBase, InitDecode
  <1>3. Base /\ DecodeInv /\ [Next]_vars => (Base /\ DecodeInv)'
    BY BaseStep, DecodeStep
  <1> QED BY <1>1, <1>2, <1>3, PTL DEF Spec

-----------------------------------------------------------------------------
(* Reachability.                                                            *)

\* Reachable is what it says: the smallest set that holds the successors of
\* pc and is closed.
LEMMA ReachableFacts ==
    ASSUME NEW D, IsFiniteSet(D), NEW succ \in [D -> SUBSET D], NEW pc \in D
    PROVE  /\ Reachable(succ, pc) \in SUBSET D /\ succ[pc] \subseteq Reachable(succ, pc)
           /\ \A u \in Reachable(succ, pc) : succ[u] \subseteq Reachable(succ, pc)
           /\ \A v \in Reachable(succ, pc) : v \in succ[pc] \/ \E u \in Reachable(succ, pc) : v \in succ[u]
  <1> DEFINE N == Cardinality(D)
             A(R) == R \cup UNION {succ[q] : q \in R}
             T == SUBSET D
             z == succ[pc]
             g == [q \in T \X (1 .. N) |-> A(q[1])]
             Is(f) == f = [n \in 0 .. N |-> IF n = 0 THEN z ELSE A(f[n - 1])]
             G == CHOOSE f : Is(f)
  <1>1. Reachable(succ, pc) = G[N]
    BY DEF Reachable
  <1>2. N \in Nat
    BY FS_CardinalityType
  <1>3. z \in T
    OBVIOUS
  <1>4. \A R \in T : A(R) \in T
    OBVIOUS
  <1>5. \A R \in T : R \subseteq A(R) /\ \A v \in A(R) : v \in R \/ \E u \in R : v \in succ[u]
    OBVIOUS
  <1>6. \A R \in T : A(R) = R => \A u \in R : succ[u] \subseteq R
    OBVIOUS
  <1>7. \A R \in T : IsFiniteSet(R) /\ Cardinality(R) \in Nat /\ Cardinality(R) <= N
                     /\ \A Q \in SUBSET R : Cardinality(Q) = Cardinality(R) => Q = R
    BY FS_Subset, FS_CardinalityType
  <1>8. Cardinality(D) = N /\ A(D) = D /\ D \in T
    OBVIOUS
  <1>a. \A R : R \in T <=> R \subseteq D
    OBVIOUS
  <1>9. g \in [T \X (1 .. N) -> T] /\ \A R \in T, k \in 1 .. N : g[<<R, k>>] = A(R)
    <2> HIDE DEF T, A, N
    <2> QED BY <1>4
  <1> HIDE DEF T, A, N, z, g
  <1>10. PICK f \in [0 .. N -> T] : Iterated(f, z, g, N)
    BY <1>2, <1>3, <1>9, IterateExists
  <1>11. Is(f)
    <2> SUFFICES ASSUME NEW m \in 0 .. N PROVE f[m] = IF m = 0 THEN z ELSE A(f[m - 1])
      OBVIOUS
    <2>1. m # 0 => m \in 1 .. N /\ m - 1 \in 0 .. N
      BY <1>2
    <2> QED BY <1>9, <1>10, <2>1 DEF Iterated
  <1>12. Is(G)
    BY <1>11
  <1> HIDE DEF G
  <1>13. ASSUME NEW m \in 0 .. N PROVE G[m] \in T
    <2> DEFINE Bad == {k \in 0 .. N : G[k] \notin T}
    <2>1. SUFFICES ASSUME Bad # {} PROVE FALSE
      OBVIOUS
    <2>2. PICK k \in Bad : \A j \in Bad : k <= j
      <3>1. Bad \in SUBSET Nat
        BY <1>2
      <3> HIDE DEF Bad
      <3> QED BY <2>1, <3>1, LeastNat
    <2>3. k \in 0 .. N /\ G[k] = IF k = 0 THEN z ELSE A(G[k - 1])
      BY <1>12, <2>2
    <2>4. k # 0
      BY <1>3, <2>2, <2>3
    <2>5. k - 1 \in 0 .. N /\ k - 1 \notin Bad
      BY <1>2, <2>2, <2>3, <2>4
    <2> QED BY <1>4, <2>2, <2>3, <2>4, <2>5
  <1>14. ASSUME NEW m \in 1 .. N PROVE m - 1 \in 0 .. N /\ m \in 0 .. N /\ m # 0 /\ G[m] = A(G[m - 1])
    <2>1. m - 1 \in 0 .. N /\ m \in 0 .. N /\ m # 0
      BY <1>2
    <2> QED BY <1>12, <2>1
  <1>15. G[0] = z
    <2>1. 0 \in 0 .. N
      BY <1>2
    <2> QED BY <1>12, <2>1
  <1>16. ASSUME NEW j \in 0 .. N, NEW m \in j .. N PROVE G[j] \subseteq G[m]
    <2> DEFINE Bad == {k \in j .. N : ~(G[j] \subseteq G[k])}
    <2>1. SUFFICES ASSUME Bad # {} PROVE FALSE
      OBVIOUS
    <2>2. PICK k \in Bad : \A i \in Bad : k <= i
      <3>1. Bad \in SUBSET Nat
        BY <1>2
      <3> HIDE DEF Bad
      <3> QED BY <2>1, <3>1, LeastNat
    <2>3. k # j /\ k \in j .. N
      BY <2>2
    <2>4. k \in 1 .. N /\ k - 1 \in j .. N /\ ~(k <= k - 1)
      BY <1>2, <2>3
    <2>5. k - 1 \notin Bad
      <3> HIDE DEF Bad
      <3> QED BY <2>2, <2>4
    <2>6. G[j] \subseteq G[k - 1]
      BY <2>4, <2>5
    <2>7. G[k - 1] \subseteq G[k]
      BY <1>5, <1>13, <1>14, <2>4
    <2> QED BY <2>2, <2>6, <2>7
  <1>17. A(G[N]) = G[N]
    <2> DEFINE Bad == {n \in 0 .. N : Cardinality(G[n]) < n}
    <2>a. N \in 0 .. N
      BY <1>2
    <2>1. CASE Bad = {}
      <3>1. ~(Cardinality(G[N]) < N)
        BY <2>1, <2>a
      <3>2. G[N] \in T /\ Cardinality(G[N]) \in Nat /\ Cardinality(G[N]) <= N
        BY <1>7, <1>13, <2>a
      <3>3. Cardinality(G[N]) = Cardinality(D)
        BY <1>2, <1>8, <3>1, <3>2
      <3>4. G[N] = D
        BY <1>a, <1>7, <1>8, <3>2, <3>3
      <3> QED BY <1>8, <3>4
    <2>2. CASE Bad # {}
      <3>1. PICK n \in Bad : \A i \in Bad : n <= i
        <4>1. Bad \in SUBSET Nat
          BY <1>2
        <4> HIDE DEF Bad
        <4> QED BY <2>2, <4>1, LeastNat
      <3>2. n \in 0 .. N /\ Cardinality(G[n]) < n
        BY <3>1
      <3>3. G[n] \in T /\ Cardinality(G[n]) \in Nat
        BY <1>7, <1>13, <3>2
      <3>4. n \in 1 .. N /\ n - 1 \in 0 .. N /\ n \in (n - 1) .. N /\ ~(n <= n - 1)
        BY <1>2, <3>2, <3>3
      <3>5. n - 1 \notin Bad
        <4> HIDE DEF Bad
        <4> QED BY <3>1, <3>4
      <3>6. ~(Cardinality(G[n - 1]) < n - 1)
        BY <3>4, <3>5
      <3>7. G[n - 1] \in T /\ Cardinality(G[n - 1]) \in Nat /\ G[n - 1] \subseteq G[n]
        BY <1>7, <1>13, <1>16, <3>4
      <3>8. Cardinality(G[n - 1]) <= Cardinality(G[n])
        BY <1>7, <3>3, <3>7, FS_Subset
      <3>9. Cardinality(G[n - 1]) = Cardinality(G[n])
        BY <3>2, <3>3, <3>4, <3>6, <3>7, <3>8
      <3>10. G[n - 1] = G[n]
        BY <1>7, <3>3, <3>7, <3>9
      <3>11. A(G[n - 1]) = G[n - 1]
        BY <1>14, <3>4, <3>10
      <3> DEFINE Off == {m \in (n - 1) .. N : G[m] # G[n - 1]}
      <3>12. Off = {}
        <4> SUFFICES ASSUME Off # {} PROVE FALSE
          OBVIOUS
        <4>1. PICK m \in Off : \A i \in Off : m <= i
          <5>1. Off \in SUBSET Nat
            BY <1>2, <3>4
          <5> HIDE DEF Off
          <5> QED BY <5>1, LeastNat
        <4>2. m \in (n - 1) .. N /\ m # n - 1
          BY <4>1
        <4>3. m \in 1 .. N /\ m - 1 \in (n - 1) .. N /\ ~(m <= m - 1)
          BY <1>2, <3>4, <4>2
        <4>4. m - 1 \notin Off
          <5> HIDE DEF Off
          <5> QED BY <4>1, <4>3
        <4>5. G[m - 1] = G[n - 1]
          BY <4>3, <4>4
        <4>6. G[m] = G[n - 1]
          BY <1>14, <3>11, <4>3, <4>5
        <4> QED BY <4>1, <4>6
      <3>13. N \in (n - 1) .. N
        BY <1>2, <3>4
      <3>14. G[N] = G[n - 1]
        BY <3>12, <3>13
      <3> QED BY <3>11, <3>14
    <2> QED BY <2>1, <2>2
  <1>18. ASSUME NEW v \in G[N] PROVE v \in z \/ \E u \in G[N] : v \in succ[u]
    <2> DEFINE In == {m \in 0 .. N : v \in G[m]}
    <2>1. PICK m \in In : \A i \in In : m <= i
      <3>1. In \in SUBSET Nat /\ N \in In
        BY <1>2
      <3> HIDE DEF In
      <3> QED BY <3>1, LeastNat
    <2>2. CASE m = 0
      BY <1>15, <2>1, <2>2
    <2>3. CASE m # 0
      <3>1. m \in 1 .. N /\ m - 1 \in 0 .. N /\ ~(m <= m - 1) /\ N \in (m - 1) .. N
        BY <1>2, <2>1, <2>3
      <3>2. m - 1 \notin In
        <4> HIDE DEF In
        <4> QED BY <2>1, <3>1
      <3>3. v \notin G[m - 1] /\ v \in A(G[m - 1])
        BY <1>14, <2>1, <3>1, <3>2
      <3>4. G[m - 1] \in T /\ G[m - 1] \subseteq G[N]
        BY <1>13, <1>16, <3>1
      <3> QED BY <1>5, <3>3, <3>4
    <2> QED BY <2>2, <2>3
  <1>19. N \in 0 .. N /\ 0 \in 0 .. N
    BY <1>2
  <1>20. G[N] \in T /\ z \subseteq G[N]
    <2>1. G[0] \subseteq G[N]
      BY <1>16, <1>19
    <2> QED BY <1>13, <1>15, <1>19, <2>1
  <1>21. \A u \in G[N] : succ[u] \subseteq G[N]
    BY <1>6, <1>17, <1>20
  <1> QED BY <1>1, <1>18, <1>20, <1>21 DEF T, z

-----------------------------------------------------------------------------
(* The search.                                                              *)

\* What every step of the search works on.
Graph(p, e) == p \in Seq(Insns) /\ e = Entries(p) /\ e \subseteq Pcs(p) /\ EndsOk(p, e)

LEMMA GraphFacts ==
    ASSUME NEW p, NEW e, Graph(p, e), NEW q \in Pcs(p), visit_insn_ok(p, e, q)
    PROVE  /\ Nexts(p, e, q) \in Seq(Pcs(p)) /\ Succ(p, e, q) \subseteq Pcs(p)
           /\ \A i \in 1 .. Len(Nexts(p, e, q)) : Nexts(p, e, q)[i] \in Succ(p, e, q)
           /\ \A v \in Succ(p, e, q) : \E i \in 1 .. Len(Nexts(p, e, q)) : v = Nexts(p, e, q)[i]
  <1>1. Nexts(p, e, q) \in Seq(Pcs(p)) /\ Succ(p, e, q) \subseteq Pcs(p)
    BY NextsTyped DEF Graph
  <1>2. DOMAIN Nexts(p, e, q) = 1 .. Len(Nexts(p, e, q))
    BY <1>1
  <1> QED BY <1>1, <1>2 DEF Succ, Range

LEMMA SearchStarts ==
    ASSUME NEW p, NEW e, Graph(p, e), NEW c, NEW st,
           c = [pc \in Pcs(p) |-> IF pc = 0 THEN "discovering" ELSE "not_visited"], st = <<<<0, 0>>>>
    PROVE  SearchOk(p, e, c, st, {})
  <1>0. 0 \in Pcs(p)
    BY EntryFacts DEF Graph
  <1>1. \A q \in Pcs(p) : c[q] = IF q = 0 THEN "discovering" ELSE "not_visited"
    OBVIOUS
  <1>2. DOMAIN st = {1} /\ Len(st) = 1 /\ st[1][1] = 0 /\ st[1][2] = 0
    OBVIOUS
  <1>3. Explored(p, c) = {} /\ Seen(p, c) = {0}
    BY <1>0, <1>1 DEF Explored, Seen
  <1>4. OnPath(p, e, c, st)
    BY <1>0, <1>1, <1>2 DEF OnPath
  <1>5. LookedAt(p, e, c, st, {})
    <2>1. \A k \in DOMAIN st : 1 .. st[k][2] = {}
      BY <1>2
    <2> QED BY <2>1 DEF LookedAt
  <1>6. Finished(p, e, c, {}) /\ Acyclic(p, e, c, {})
    BY <1>3 DEF Finished, Acyclic
  <1>7. HeadsLoop(p, e, c, {})
    BY DEF HeadsLoop
  <1>8. SeenReached(p, e, c)
    BY <1>3 DEF SeenReached
  <1> QED BY <1>4, <1>5, <1>6, <1>7, <1>8 DEF SearchOk

\* The entry on top, its child and the node the search goes to.
Top(p, e, c, st) ==
    /\ c \in [Pcs(p) -> Colours] /\ st \in Seq(Pcs(p) \X Nat) /\ st # <<>>
    /\ visit_insn_ok(p, e, st[Len(st)][1])

LEMMA TopFacts ==
    ASSUME NEW p, NEW e, Graph(p, e), NEW c, NEW st, Top(p, e, c, st), OnPath(p, e, c, st)
    PROVE  /\ Len(st) \in Nat /\ Len(st) >= 1 /\ DOMAIN st = 1 .. Len(st)
           /\ \A k \in DOMAIN st : st[k][1] \in Pcs(p) /\ st[k][2] \in Nat /\ c[st[k][1]] = "discovering"
           /\ Nexts(p, e, st[Len(st)][1]) \in Seq(Pcs(p))
           /\ \A k \in DOMAIN st : st[k][2] > 0 => Nexts(p, e, st[k][1])[st[k][2]] \in Succ(p, e, st[k][1])
  <1>1. Len(st) \in Nat /\ Len(st) >= 1 /\ DOMAIN st = 1 .. Len(st)
    BY DEF Top
  <1>2. ASSUME NEW k \in DOMAIN st PROVE st[k][1] \in Pcs(p) /\ st[k][2] \in Nat
    <2>1. st[k] \in Pcs(p) \X Nat
      BY DEF Top
    <2> QED BY <2>1
  <1>3. \A k \in DOMAIN st : c[st[k][1]] = "discovering"
    BY <1>2 DEF OnPath
  <1>4. Nexts(p, e, st[Len(st)][1]) \in Seq(Pcs(p))
    BY <1>1, <1>2, GraphFacts DEF Top
  <1>5. ASSUME NEW k \in DOMAIN st, st[k][2] > 0 PROVE Nexts(p, e, st[k][1])[st[k][2]] \in Succ(p, e, st[k][1])
    <2>1. visit_insn_ok(p, e, st[k][1]) /\ st[k][2] <= Len(Nexts(p, e, st[k][1]))
      BY <1>5 DEF OnPath
    <2>2. Nexts(p, e, st[k][1]) \in Seq(Pcs(p))
      BY <1>2, <2>1, GraphFacts
    <2>3. st[k][2] \in 1 .. Len(Nexts(p, e, st[k][1]))
      BY <1>2, <1>5, <2>1, <2>2
    <2> QED BY <1>2, <2>1, <2>3, GraphFacts
  <1> QED BY <1>1, <1>2, <1>3, <1>4, <1>5

\* A node on the stack that the top leads to is on a cycle.
LEMMA PathLoops ==
    ASSUME NEW p, NEW e, Graph(p, e), NEW c, NEW st, Top(p, e, c, st), OnPath(p, e, c, st),
           NEW x \in Succ(p, e, st[Len(st)][1]), x \in Pcs(p), c[x] = "discovering",
           NEW C \in SUBSET Pcs(p), Succ(p, e, x) \subseteq C, Closed(p, e, C)
    PROVE  x \in C
  <1> DEFINE N == Len(st)
  <1>1. N \in Nat /\ N >= 1 /\ DOMAIN st = 1 .. N
    BY TopFacts
  <1>2. PICK k \in DOMAIN st : st[k][1] = x
    BY DEF OnPath
  <1> DEFINE Bad == {j \in (k + 1) .. N : st[j][1] \notin C}
  <1>3. Bad = {}
    <2> SUFFICES ASSUME Bad # {} PROVE FALSE
      OBVIOUS
    <2>1. PICK j \in Bad : \A i \in Bad : j <= i
      <3>1. Bad \in SUBSET Nat
        BY <1>1, <1>2
      <3> HIDE DEF Bad
      <3> QED BY <3>1, LeastNat
    <2>2. j \in DOMAIN st /\ j - 1 \in DOMAIN st /\ j > 1 /\ ~(j <= j - 1) /\ (j - 1 = k \/ j - 1 \in (k + 1) .. N)
      BY <1>1, <1>2, <2>1
    <2>3. st[j - 1][1] = x \/ st[j - 1][1] \in C
      <3>1. j - 1 \notin Bad
        <4> HIDE DEF Bad
        <4> QED BY <2>1, <2>2
      <3> QED BY <1>2, <2>2, <3>1
    <2>4. st[j - 1][2] > 0 /\ st[j][1] = Nexts(p, e, st[j - 1][1])[st[j - 1][2]]
      BY <2>2 DEF OnPath
    <2>5. st[j][1] \in Succ(p, e, st[j - 1][1])
      BY <2>2, <2>4, TopFacts
    <2>6. Succ(p, e, st[j - 1][1]) \subseteq C
      BY <2>3 DEF Closed
    <2> QED BY <2>1, <2>5, <2>6
  <1>4. CASE k = N
    BY <1>2, <1>4
  <1>5. CASE k # N
    <2>1. N \in (k + 1) .. N
      BY <1>1, <1>2, <1>5
    <2>2. st[N][1] \in C
      BY <1>3, <2>1
    <2> QED BY <2>2 DEF Closed
  <1> QED BY <1>4, <1>5

\* The next child was seen before: it is explored or a head.
LEMMA SearchAdvances ==
    ASSUME NEW p, NEW e, Graph(p, e), NEW c, NEW st, NEW h \in SUBSET Pcs(p),
           Top(p, e, c, st), SearchOk(p, e, c, st, h),
           st[Len(st)][2] < Len(Nexts(p, e, st[Len(st)][1])),
           NEW x, x = Nexts(p, e, st[Len(st)][1])[st[Len(st)][2] + 1], c[x] # "not_visited",
           NEW h2, h2 = IF c[x] = "discovering" THEN h \cup {x} ELSE h,
           NEW st2, st2 \in Seq(Pcs(p) \X Nat), Len(st2) = Len(st),
           \A k \in 1 .. Len(st) - 1 : st2[k] = st[k],
           st2[Len(st)] = <<st[Len(st)][1], st[Len(st)][2] + 1>>
    PROVE  SearchOk(p, e, c, st2, h2)
  <1> DEFINE N == Len(st)
             a == st[N][1]
             d == st[N][2]
  <1>0. OnPath(p, e, c, st) /\ LookedAt(p, e, c, st, h)
    BY DEF SearchOk
  <1>1. /\ N \in Nat /\ N >= 1 /\ DOMAIN st = 1 .. N
        /\ \A k \in DOMAIN st : st[k][1] \in Pcs(p) /\ st[k][2] \in Nat
        /\ Nexts(p, e, a) \in Seq(Pcs(p))
    BY <1>0, TopFacts
  <1>2. DOMAIN st2 = 1 .. N /\ Len(st2) = N
    BY <1>1
  <1>3. \A k \in 1 .. N : st2[k][1] = st[k][1]
    <2> SUFFICES ASSUME NEW k \in 1 .. N PROVE st2[k][1] = st[k][1]
      OBVIOUS
    <2>1. CASE k = N
      BY <2>1
    <2>2. CASE k # N
      <3>1. k \in 1 .. Len(st) - 1
        BY <1>1, <2>2
      <3>2. st2[k] = st[k]
        BY <3>1
      <3> QED BY <3>2
    <2> QED BY <2>1, <2>2
  <1>4. st2[N][2] = d + 1 /\ \A k \in 1 .. N : k # N => st2[k][2] = st[k][2]
    <2>1. st2[N][2] = d + 1
      OBVIOUS
    <2>2. ASSUME NEW k \in 1 .. N, k # N PROVE st2[k][2] = st[k][2]
      <3>1. k \in 1 .. Len(st) - 1
        BY <1>1, <2>2
      <3>2. st2[k] = st[k]
        BY <3>1
      <3> QED BY <3>2
    <2> QED BY <2>1, <2>2
  <1>5. a \in Pcs(p) /\ d \in Nat /\ visit_insn_ok(p, e, a) /\ d + 1 <= Len(Nexts(p, e, a)) /\ d + 1 > 0
        /\ N \in 1 .. N
    BY <1>1 DEF Top
  <1>6. x \in Succ(p, e, a) /\ x \in Pcs(p) /\ x = Nexts(p, e, a)[d + 1]
    <2>1. d + 1 \in 1 .. Len(Nexts(p, e, a))
      BY <1>1, <1>5
    <2> QED BY <1>5, <2>1, GraphFacts
  <1>7. h \subseteq h2 /\ (x \in Explored(p, c) \/ x \in h2)
    BY <1>6 DEF Explored, Top, Colours
  <1> HIDE DEF N, a, d
  <1>8. OnPath(p, e, c, st2)
    <2>1. \A q \in Pcs(p) : c[q] = "discovering" <=> \E k \in DOMAIN st2 : st2[k][1] = q
      BY <1>0, <1>1, <1>2, <1>3 DEF OnPath
    <2>2. \A j, k \in DOMAIN st2 : st2[j][1] = st2[k][1] => j = k
      BY <1>0, <1>1, <1>2, <1>3 DEF OnPath
    <2>3. ASSUME NEW k \in DOMAIN st2, st2[k][2] > 0
          PROVE  visit_insn_ok(p, e, st2[k][1]) /\ st2[k][2] <= Len(Nexts(p, e, st2[k][1]))
      <3>1. CASE k = N
        BY <1>3, <1>4, <1>5, <3>1 DEF a
      <3>2. CASE k # N
        BY <1>0, <1>1, <1>2, <1>3, <1>4, <2>3, <3>2 DEF OnPath
      <3> QED BY <3>1, <3>2
    <2>4. ASSUME NEW k \in DOMAIN st2, k > 1
          PROVE  st2[k - 1][2] > 0 /\ st2[k][1] = Nexts(p, e, st2[k - 1][1])[st2[k - 1][2]]
      <3>1. k \in 1 .. N /\ k - 1 \in 1 .. N /\ k - 1 # N
        BY <1>1, <1>2, <2>4
      <3>2. st[k - 1][2] > 0 /\ st[k][1] = Nexts(p, e, st[k - 1][1])[st[k - 1][2]]
        BY <1>0, <1>1, <2>4, <3>1 DEF OnPath
      <3> QED BY <1>3, <1>4, <3>1, <3>2
    <2> QED BY <2>1, <2>2, <2>3, <2>4 DEF OnPath
  <1>9. LookedAt(p, e, c, st2, h2)
    <2> SUFFICES ASSUME NEW k \in DOMAIN st2, NEW i \in 1 .. st2[k][2]
                 PROVE  \/ Nexts(p, e, st2[k][1])[i] \in Explored(p, c)
                        \/ Nexts(p, e, st2[k][1])[i] \in h2
                        \/ k < Len(st2) /\ Nexts(p, e, st2[k][1])[i] = st2[k + 1][1]
      BY DEF LookedAt
    <2>1. CASE k = N /\ i = d + 1
      BY <1>3, <1>5, <1>6, <1>7, <2>1 DEF a
    <2>2. CASE k # N \/ i # d + 1
      <3>1. k \in DOMAIN st /\ i \in 1 .. st[k][2]
        <4>1. CASE k = N
          BY <1>1, <1>2, <1>4, <1>5, <2>2, <4>1 DEF d
        <4>2. CASE k # N
          BY <1>1, <1>2, <1>4, <4>2
        <4> QED BY <4>1, <4>2
      <3>2. \/ Nexts(p, e, st[k][1])[i] \in Explored(p, c)
            \/ Nexts(p, e, st[k][1])[i] \in h
            \/ k < N /\ Nexts(p, e, st[k][1])[i] = st[k + 1][1]
        BY <1>0, <3>1 DEF LookedAt, N
      <3>3. k \in 1 .. N /\ (k < N => k + 1 \in 1 .. N)
        BY <1>1, <1>2
      <3> QED BY <1>2, <1>3, <1>7, <3>2, <3>3
    <2> QED BY <2>1, <2>2
  <1>10. Finished(p, e, c, h2)
    BY <1>7 DEF SearchOk, Finished
  <1>11. Acyclic(p, e, c, h2)
    <2> SUFFICES ASSUME NEW S \in SUBSET Explored(p, c), S # {}
                 PROVE  \E v \in S : \A u \in S : v \notin Succ(p, e, u) \ h2
      BY DEF Acyclic
    <2>1. PICK v \in S : \A u \in S : v \notin Succ(p, e, u) \ h
      BY DEF SearchOk, Acyclic
    <2> QED BY <1>7, <2>1
  <1>12. HeadsLoop(p, e, c, h2)
    <2> SUFFICES ASSUME NEW y \in h2
                 PROVE  /\ c[y] # "not_visited"
                        /\ \A C \in SUBSET Pcs(p) : Succ(p, e, y) \subseteq C /\ Closed(p, e, C) => y \in C
      BY DEF HeadsLoop
    <2>1. CASE y \in h
      BY <2>1 DEF SearchOk, HeadsLoop
    <2>2. CASE y \notin h
      <3>1. y = x /\ c[x] = "discovering"
        BY <2>2
      <3>2. x \in Succ(p, e, st[Len(st)][1])
        BY <1>6 DEF a, N
      <3>3. \A C \in SUBSET Pcs(p) : Succ(p, e, x) \subseteq C /\ Closed(p, e, C) => x \in C
        BY <1>0, <1>6, <3>1, <3>2, PathLoops
      <3> QED BY <3>1, <3>3
    <2> QED BY <2>1, <2>2
  <1>13. SeenReached(p, e, c)
    BY DEF SearchOk
  <1> QED BY <1>8, <1>9, <1>10, <1>11, <1>12, <1>13 DEF SearchOk

\* The next child is new: it goes on the stack.
LEMMA SearchPushes ==
    ASSUME NEW p, NEW e, Graph(p, e), NEW c, NEW st, NEW h \in SUBSET Pcs(p),
           Top(p, e, c, st), SearchOk(p, e, c, st, h),
           st[Len(st)][2] < Len(Nexts(p, e, st[Len(st)][1])),
           NEW x, x = Nexts(p, e, st[Len(st)][1])[st[Len(st)][2] + 1], c[x] = "not_visited",
           NEW c2, c2 = [c EXCEPT ![x] = "discovering"],
           NEW st2, st2 \in Seq(Pcs(p) \X Nat), Len(st2) = Len(st) + 1,
           \A k \in 1 .. Len(st) - 1 : st2[k] = st[k],
           st2[Len(st)] = <<st[Len(st)][1], st[Len(st)][2] + 1>>, st2[Len(st) + 1] = <<x, 0>>
    PROVE  SearchOk(p, e, c2, st2, h)
  <1> DEFINE N == Len(st)
             M == Len(st) + 1
             a == st[N][1]
             d == st[N][2]
  <1>0. OnPath(p, e, c, st) /\ LookedAt(p, e, c, st, h)
    BY DEF SearchOk
  <1>1. /\ N \in Nat /\ N >= 1 /\ DOMAIN st = 1 .. N
        /\ \A k \in DOMAIN st : st[k][1] \in Pcs(p) /\ st[k][2] \in Nat /\ c[st[k][1]] = "discovering"
        /\ Nexts(p, e, a) \in Seq(Pcs(p))
    BY <1>0, TopFacts
  <1>2. DOMAIN st2 = 1 .. M /\ Len(st2) = M /\ M \in Nat /\ M = N + 1 /\ M \in 1 .. M /\ N \in 1 .. M
        /\ \A k \in 1 .. M : k = M \/ k \in 1 .. N
    BY <1>1
  <1>2a. ASSUME NEW k \in 1 .. N, k # N PROVE st2[k] = st[k]
    <2>1. N \in Nat /\ k \in 1 .. N /\ k # N
      BY <1>1, <1>2a
    <2>2. k \in 1 .. N - 1
      <3> HIDE DEF N
      <3> QED BY ONLY <2>1
    <2> QED BY <2>2
  <1>3. \A k \in 1 .. N : st2[k][1] = st[k][1]
    <2> SUFFICES ASSUME NEW k \in 1 .. N PROVE st2[k][1] = st[k][1]
      OBVIOUS
    <2>1. CASE k = N
      BY <2>1
    <2>2. CASE k # N
      <3>1. st2[k] = st[k]
        BY <1>2a, <2>2
      <3> QED BY <3>1
    <2> QED BY <2>1, <2>2
  <1>4. st2[N][2] = d + 1 /\ st2[M][1] = x /\ st2[M][2] = 0 /\ \A k \in 1 .. N : k # N => st2[k][2] = st[k][2]
    <2>1. st2[N][2] = d + 1
      OBVIOUS
    <2>2. st2[M][1] = x /\ st2[M][2] = 0
      OBVIOUS
    <2>3. ASSUME NEW k \in 1 .. N, k # N PROVE st2[k][2] = st[k][2]
      <3>1. st2[k] = st[k]
        BY <1>2a, <2>3
      <3> QED BY <3>1
    <2> QED BY <2>1, <2>2, <2>3
  <1>5. a \in Pcs(p) /\ d \in Nat /\ visit_insn_ok(p, e, a) /\ d + 1 <= Len(Nexts(p, e, a)) /\ d + 1 > 0
        /\ N \in 1 .. N
    BY <1>1 DEF Top
  <1>6. x \in Succ(p, e, a) /\ x \in Pcs(p) /\ x = Nexts(p, e, a)[d + 1]
    <2>1. d + 1 \in 1 .. Len(Nexts(p, e, a))
      BY <1>1, <1>5
    <2> QED BY <1>5, <2>1, GraphFacts
  <1> HIDE DEF M, N, a, d
  <1>7. c2[x] = "discovering" /\ \A q \in Pcs(p) : q # x => c2[q] = c[q]
    BY <1>6 DEF Top
  <1>8. Explored(p, c2) = Explored(p, c) /\ Seen(p, c2) = Seen(p, c) \cup {x}
    <2>1. \A q \in Pcs(p) : c2[q] = "explored" <=> c[q] = "explored"
      BY <1>7
    <2>2. \A q \in Pcs(p) : c2[q] # "not_visited" <=> c[q] # "not_visited" \/ q = x
      BY <1>7
    <2> QED BY <1>6, <2>1, <2>2 DEF Explored, Seen
  <1>9. \A k \in 1 .. N : st[k][1] # x
    BY <1>1
  <1>10. OnPath(p, e, c2, st2)
    <2>1. ASSUME NEW q \in Pcs(p)
          PROVE  c2[q] = "discovering" <=> \E k \in DOMAIN st2 : st2[k][1] = q
      <3>1. CASE q = x
        BY <1>2, <1>4, <1>7, <3>1
      <3>2. CASE q # x
        <4>1. c2[q] = "discovering" <=> \E k \in 1 .. N : st[k][1] = q
          BY <1>0, <1>1, <1>7, <3>2, ZenonT(60) DEF OnPath
        <4>2. (\E k \in 1 .. N : st[k][1] = q) => \E k \in 1 .. M : st2[k][1] = q
          <5> SUFFICES ASSUME NEW k \in 1 .. N, st[k][1] = q PROVE \E j \in 1 .. M : st2[j][1] = q
            OBVIOUS
          <5>1. k \in 1 .. M
            BY <1>1, <1>2
          <5> QED BY <1>3, <5>1
        <4>3. (\E k \in 1 .. M : st2[k][1] = q) => \E k \in 1 .. N : st[k][1] = q
          BY <1>2, <1>3, <1>4, <3>2
        <4> QED BY <1>2, <4>1, <4>2, <4>3
      <3> QED BY <3>1, <3>2
    <2>2. \A j, k \in DOMAIN st2 : st2[j][1] = st2[k][1] => j = k
      <3>1. \A j, k \in 1 .. N : st2[j][1] = st2[k][1] => j = k
        BY <1>0, <1>1, <1>3, ZenonT(60) DEF OnPath
      <3>2. \A k \in 1 .. N : st2[k][1] # st2[M][1]
        BY <1>3, <1>4, <1>9
      <3> QED BY <1>2, <3>1, <3>2
    <2>3. ASSUME NEW k \in DOMAIN st2, st2[k][2] > 0
          PROVE  visit_insn_ok(p, e, st2[k][1]) /\ st2[k][2] <= Len(Nexts(p, e, st2[k][1]))
      <3>1. CASE k = N
        BY <1>3, <1>4, <1>5, <3>1 DEF a
      <3>2. CASE k # N
        <4>1. k \in 1 .. N
          BY <1>2, <1>4, <2>3
        <4> QED BY <1>0, <1>1, <1>3, <1>4, <2>3, <3>2, <4>1 DEF OnPath
      <3> QED BY <3>1, <3>2
    <2>4. ASSUME NEW k \in DOMAIN st2, k > 1
          PROVE  st2[k - 1][2] > 0 /\ st2[k][1] = Nexts(p, e, st2[k - 1][1])[st2[k - 1][2]]
      <3>1. CASE k = M
        <4>1. k - 1 = N
          BY <1>1, <1>2, <3>1
        <4>2. st2[N][1] = a
          BY <1>3, <1>5 DEF a
        <4> QED BY <1>4, <1>5, <1>6, <3>1, <4>1, <4>2
      <3>2. CASE k # M
        <4>1. k \in 1 .. N /\ k - 1 \in 1 .. N /\ k - 1 # N
          BY <1>1, <1>2, <2>4, <3>2, SMTT(30)
        <4>2. st[k - 1][2] > 0 /\ st[k][1] = Nexts(p, e, st[k - 1][1])[st[k - 1][2]]
          BY <1>0, <1>1, <2>4, <4>1 DEF OnPath
        <4> QED BY <1>3, <1>4, <4>1, <4>2
      <3> QED BY <3>1, <3>2
    <2> QED BY <2>1, <2>2, <2>3, <2>4 DEF OnPath
  <1>11. LookedAt(p, e, c2, st2, h)
    <2> SUFFICES ASSUME NEW k \in DOMAIN st2, NEW i \in 1 .. st2[k][2]
                 PROVE  \/ Nexts(p, e, st2[k][1])[i] \in Explored(p, c)
                        \/ Nexts(p, e, st2[k][1])[i] \in h
                        \/ k < Len(st2) /\ Nexts(p, e, st2[k][1])[i] = st2[k + 1][1]
      BY <1>8 DEF LookedAt
    <2>0. k \in 1 .. N
      <3>1. 1 .. 0 = {}
        OBVIOUS
      <3> QED BY <1>2, <1>4, <3>1
    <2>1. CASE k = N /\ i = d + 1
      <3>1. k < Len(st2) /\ k + 1 = M
        BY <1>1, <1>2, <2>1
      <3>2. st2[k][1] = a
        BY <1>3, <1>5, <2>1 DEF a
      <3> QED BY <1>4, <1>6, <2>1, <3>1, <3>2
    <2>2. CASE k # N \/ i # d + 1
      <3>1. k \in DOMAIN st /\ i \in 1 .. st[k][2]
        <4>1. CASE k = N
          BY <1>1, <1>4, <1>5, <2>0, <2>2, <4>1 DEF d
        <4>2. CASE k # N
          BY <1>1, <1>4, <2>0, <4>2
        <4> QED BY <4>1, <4>2
      <3>2. \/ Nexts(p, e, st[k][1])[i] \in Explored(p, c)
            \/ Nexts(p, e, st[k][1])[i] \in h
            \/ k < N /\ Nexts(p, e, st[k][1])[i] = st[k + 1][1]
        BY <1>0, <3>1 DEF LookedAt, N
      <3>3. k < N => k + 1 \in 1 .. N /\ k < Len(st2)
        BY <1>1, <1>2, <2>0
      <3> QED BY <1>3, <2>0, <3>2, <3>3
    <2> QED BY <2>1, <2>2
  <1>12. Finished(p, e, c2, h) /\ Acyclic(p, e, c2, h)
    BY <1>8 DEF SearchOk, Finished, Acyclic
  <1>13. HeadsLoop(p, e, c2, h)
    <2>1. \A y \in h : c2[y] # "not_visited"
      BY <1>7 DEF SearchOk, HeadsLoop
    <2> QED BY <2>1 DEF SearchOk, HeadsLoop
  <1>14. SeenReached(p, e, c2)
    <2>1. a \in Seen(p, c)
      BY <1>1, <1>5 DEF Seen, a
    <2>2. ASSUME NEW C \in SUBSET Pcs(p), 0 \in C, Closed(p, e, C) PROVE Seen(p, c2) \subseteq C
      <3>1. Seen(p, c) \subseteq C
        BY <2>2 DEF SearchOk, SeenReached
      <3> QED BY <1>6, <1>8, <2>1, <2>2, <3>1 DEF Closed
    <2>3. 0 \in Seen(p, c2)
      BY <1>8 DEF SearchOk, SeenReached
    <2> QED BY <2>2, <2>3 DEF SeenReached
  <1> QED BY <1>10, <1>11, <1>12, <1>13, <1>14 DEF SearchOk

\* All children are explored or heads: the node is finished.
LEMMA SearchPops ==
    ASSUME NEW p, NEW e, Graph(p, e), NEW c, NEW st, NEW h \in SUBSET Pcs(p),
           Top(p, e, c, st), SearchOk(p, e, c, st, h),
           st[Len(st)][2] = Len(Nexts(p, e, st[Len(st)][1])),
           NEW c2, c2 = [c EXCEPT ![st[Len(st)][1]] = "explored"],
           NEW st2, st2 \in Seq(Pcs(p) \X Nat), Len(st2) = Len(st) - 1,
           \A k \in 1 .. Len(st) - 1 : st2[k] = st[k]
    PROVE  SearchOk(p, e, c2, st2, h)
  <1> DEFINE N == Len(st)
             M == Len(st) - 1
             a == st[N][1]
             d == st[N][2]
  <1>0. OnPath(p, e, c, st) /\ LookedAt(p, e, c, st, h) /\ Finished(p, e, c, h) /\ Acyclic(p, e, c, h)
    BY DEF SearchOk
  <1>1. /\ N \in Nat /\ N >= 1 /\ DOMAIN st = 1 .. N
        /\ \A k \in DOMAIN st : st[k][1] \in Pcs(p) /\ st[k][2] \in Nat /\ c[st[k][1]] = "discovering"
    BY <1>0, TopFacts
  <1>2. DOMAIN st2 = 1 .. M /\ Len(st2) = M /\ M \in Nat /\ M = N - 1 /\ N \in 1 .. N /\ N \notin 1 .. M
        /\ \A k \in 1 .. N : k = N \/ k \in 1 .. M
    BY <1>1
  <1>3. \A k \in 1 .. M : k \in 1 .. N /\ st2[k] = st[k]
    BY <1>1
  <1>4. a \in Pcs(p) /\ d \in Nat /\ visit_insn_ok(p, e, a) /\ d = Len(Nexts(p, e, a)) /\ c[a] = "discovering"
    BY <1>1 DEF Top
  <1>5. c2[a] = "explored" /\ \A q \in Pcs(p) : q # a => c2[q] = c[q]
    BY <1>4 DEF Top
  <1> HIDE DEF M, N, a, d
  <1>6. Explored(p, c2) = Explored(p, c) \cup {a} /\ Seen(p, c2) = Seen(p, c) /\ a \notin Explored(p, c)
    <2>1. \A q \in Pcs(p) : c2[q] = "explored" <=> c[q] = "explored" \/ q = a
      BY <1>5
    <2>2. \A q \in Pcs(p) : c2[q] # "not_visited" <=> c[q] # "not_visited"
      BY <1>4, <1>5
    <2> QED BY <1>4, <2>1, <2>2 DEF Explored, Seen
  <1>7. Succ(p, e, a) \ h \subseteq Explored(p, c)
    <2> SUFFICES ASSUME NEW v \in Succ(p, e, a), v \notin h PROVE v \in Explored(p, c)
      OBVIOUS
    <2>1. PICK i \in 1 .. Len(Nexts(p, e, a)) : v = Nexts(p, e, a)[i]
      BY <1>4, GraphFacts
    <2>2. \/ Nexts(p, e, st[N][1])[i] \in Explored(p, c)
          \/ Nexts(p, e, st[N][1])[i] \in h
          \/ N < Len(st) /\ Nexts(p, e, st[N][1])[i] = st[N + 1][1]
      <3>1. N \in DOMAIN st /\ i \in 1 .. st[N][2]
        BY <1>1, <1>2, <1>4, <2>1 DEF d
      <3> QED BY <1>0, <3>1 DEF LookedAt
    <2>3. ~(N < Len(st))
      BY <1>1 DEF N
    <2> QED BY <2>1, <2>2, <2>3 DEF a
  <1>8. OnPath(p, e, c2, st2)
    <2>1. ASSUME NEW q \in Pcs(p)
          PROVE  c2[q] = "discovering" <=> \E k \in DOMAIN st2 : st2[k][1] = q
      <3>1. CASE q = a
        <4>1. ASSUME NEW k \in 1 .. M PROVE st2[k][1] # a
          <5>1. k # N /\ k \in DOMAIN st /\ N \in DOMAIN st /\ st2[k] = st[k]
            BY <1>1, <1>2, <1>3
          <5> QED BY <1>0, <5>1 DEF OnPath, a
        <4> QED BY <1>2, <1>5, <3>1, <4>1
      <3>2. CASE q # a
        <4>1. c2[q] = "discovering" <=> \E k \in 1 .. N : st[k][1] = q
          BY <1>0, <1>1, <1>5, <3>2, ZenonT(60) DEF OnPath
        <4>2. (\E k \in 1 .. N : st[k][1] = q) <=> \E k \in 1 .. M : st2[k][1] = q
          BY <1>2, <1>3, <3>2 DEF a
        <4> QED BY <1>2, <4>1, <4>2
      <3> QED BY <3>1, <3>2
    <2>2. \A j, k \in DOMAIN st2 : st2[j][1] = st2[k][1] => j = k
      BY <1>0, <1>1, <1>2, <1>3 DEF OnPath
    <2>3. ASSUME NEW k \in DOMAIN st2, st2[k][2] > 0
          PROVE  visit_insn_ok(p, e, st2[k][1]) /\ st2[k][2] <= Len(Nexts(p, e, st2[k][1]))
      BY <1>0, <1>1, <1>2, <1>3, <2>3 DEF OnPath
    <2>4. ASSUME NEW k \in DOMAIN st2, k > 1
          PROVE  st2[k - 1][2] > 0 /\ st2[k][1] = Nexts(p, e, st2[k - 1][1])[st2[k - 1][2]]
      <3>1. k \in 1 .. M /\ k - 1 \in 1 .. M
        BY <1>2, <2>4
      <3>2. st[k - 1][2] > 0 /\ st[k][1] = Nexts(p, e, st[k - 1][1])[st[k - 1][2]]
        BY <1>0, <1>1, <1>3, <2>4, <3>1 DEF OnPath
      <3> QED BY <1>3, <3>1, <3>2
    <2> QED BY <2>1, <2>2, <2>3, <2>4 DEF OnPath
  <1>9. LookedAt(p, e, c2, st2, h)
    <2> SUFFICES ASSUME NEW k \in DOMAIN st2, NEW i \in 1 .. st2[k][2]
                 PROVE  \/ Nexts(p, e, st2[k][1])[i] \in Explored(p, c2)
                        \/ Nexts(p, e, st2[k][1])[i] \in h
                        \/ k < Len(st2) /\ Nexts(p, e, st2[k][1])[i] = st2[k + 1][1]
      BY DEF LookedAt
    <2>1. k \in 1 .. M /\ k \in 1 .. N /\ st2[k] = st[k]
      BY <1>2, <1>3
    <2>2. \/ Nexts(p, e, st[k][1])[i] \in Explored(p, c)
          \/ Nexts(p, e, st[k][1])[i] \in h
          \/ k < N /\ Nexts(p, e, st[k][1])[i] = st[k + 1][1]
      BY <1>0, <1>1, <2>1 DEF LookedAt, N
    <2>3. CASE k < N /\ Nexts(p, e, st[k][1])[i] = st[k + 1][1]
      <3>1. CASE k + 1 = N
        BY <1>6, <2>1, <2>3, <3>1 DEF a
      <3>2. CASE k + 1 # N
        <4>a. M \in Nat /\ M = N - 1 /\ N \in Nat /\ k \in 1 .. M /\ k < N /\ k + 1 # N
          BY <1>1, <1>2, <2>1, <2>3, <3>2
        <4>b. k + 1 \in 1 .. M /\ k < M
          BY ONLY <4>a
        <4>1. k + 1 \in 1 .. M /\ k < Len(st2)
          BY ONLY <4>b, <1>2
        <4> QED BY <1>3, <2>1, <2>3, <4>1
      <3> QED BY <3>1, <3>2
    <2> QED BY <1>6, <2>1, <2>2, <2>3
  <1>10. Finished(p, e, c2, h)
    BY <1>0, <1>4, <1>6, <1>7 DEF Finished
  <1>11. Acyclic(p, e, c2, h)
    <2> SUFFICES ASSUME NEW S \in SUBSET Explored(p, c2), S # {}
                 PROVE  \E v \in S : \A u \in S : v \notin Succ(p, e, u) \ h
      BY DEF Acyclic
    <2>1. CASE a \notin S
      <3>1. S \in SUBSET Explored(p, c)
        BY <1>6, <2>1
      <3> QED BY <1>0, <3>1 DEF Acyclic
    <2>2. CASE a \in S
      <3>1. ASSUME NEW u \in S PROVE a \notin Succ(p, e, u) \ h
        <4>1. CASE u = a
          BY <1>6, <1>7, <4>1
        <4>2. CASE u # a
          <5>1. u \in Explored(p, c)
            BY <1>6, <4>2
          <5>2. Succ(p, e, u) \ h \subseteq Explored(p, c)
            BY <1>0, <5>1 DEF Finished
          <5> QED BY <1>6, <5>2
        <4> QED BY <4>1, <4>2
      <3> QED BY <2>2, <3>1
    <2> QED BY <2>1, <2>2
  <1>12. HeadsLoop(p, e, c2, h)
    <2>1. \A y \in h : c2[y] # "not_visited"
      BY <1>5 DEF SearchOk, HeadsLoop
    <2> QED BY <2>1 DEF SearchOk, HeadsLoop
  <1>13. SeenReached(p, e, c2)
    BY <1>6 DEF SearchOk, SeenReached
  <1> QED BY <1>8, <1>9, <1>10, <1>11, <1>12, <1>13 DEF SearchOk

LEMMA SearchStep == Base /\ SearchInv /\ [Next]_vars => SearchInv'
  <1> SUFFICES ASSUME Base, SearchInv, [Next]_vars, phase' \in {"search", "accept"}
               PROVE  /\ SearchOk(insns, subprogs, color, stack, heads)'
                      /\ (phase = "accept" => Explored(insns, color) = Pcs(insns) /\ stack = <<>>)'
    BY DEF SearchInv
  <1>1. CASE CheckEnds
    <2> DEFINE c == [pc \in Pcs(insns) |-> IF pc = 0 THEN "discovering" ELSE "not_visited"]
    <2>1. /\ phase = "ends" /\ UNCHANGED <<insns, heads, subprogs>>
          /\ EndsOk(insns, subprogs) /\ phase' = "search" /\ color' = c /\ stack' = <<<<0, 0>>>>
      BY <1>1 DEF CheckEnds, Kept, Goto
    <2>2. Graph(insns, subprogs) /\ heads = {}
      BY <2>1 DEF Base, Typed, Placed, Graph, add_subprog_ok
    <2>3. SearchOk(insns, subprogs, color', stack', {})
      <3>1. \A cc, ss : cc = c /\ ss = <<<<0, 0>>>> => SearchOk(insns, subprogs, cc, ss, {})
        BY <2>2, SearchStarts
      <3> QED BY <2>1, <3>1
    <2> QED BY <2>1, <2>2, <2>3
  <1>2. ASSUME phase = "search"
        PROVE  /\ Graph(insns, subprogs) /\ SearchOk(insns, subprogs, color, stack, heads)
               /\ color \in [Pcs(insns) -> Colours] /\ stack \in Seq(Pcs(insns) \X Nat)
               /\ heads \in SUBSET Pcs(insns)
    BY <1>2 DEF Base, Typed, Placed, Graph, add_subprog_ok, SearchInv
  <1>3. CASE SearchChild
    <2> DEFINE pc == Last(stack)[1]
               child == Last(stack)[2]
               nxt == Nexts(insns, subprogs, pc)[child + 1]
               parent == Append(Front(stack), NextEntry(pc, child))
               N == Len(stack)
    <2>1. /\ phase = "search" /\ UNCHANGED <<insns, phase, subprogs>>
          /\ stack # <<>> /\ visit_insn_ok(insns, subprogs, pc) /\ child < Len(Nexts(insns, subprogs, pc))
          /\ stack' = IF color[nxt] = "not_visited" THEN Append(parent, <<nxt, 0>>) ELSE parent
          /\ color' = IF color[nxt] = "not_visited" THEN [color EXCEPT ![nxt] = "discovering"] ELSE color
          /\ heads' = IF color[nxt] = "discovering" THEN heads \cup {nxt} ELSE heads
      BY <1>3 DEF SearchChild, Kept
    <2>2. stack' \in Seq(Pcs(insns) \X Nat)
      <3>1. Typed'
        BY BaseStep DEF Base
      <3> QED BY <2>1, <3>1 DEF Typed
    <2>3. /\ Graph(insns, subprogs) /\ SearchOk(insns, subprogs, color, stack, heads)
          /\ color \in [Pcs(insns) -> Colours] /\ stack \in Seq(Pcs(insns) \X Nat)
          /\ heads \in SUBSET Pcs(insns)
      BY <1>2, <2>1
    <2>4. /\ N \in Nat /\ N > 0 /\ stack[N] = Last(stack) /\ pc \in Pcs(insns) /\ child \in Nat
          /\ Front(stack) \in Seq(Pcs(insns) \X Nat) /\ Len(Front(stack)) = N - 1
          /\ \A k \in 1 .. N - 1 : Front(stack)[k] = stack[k]
      BY <2>1, <2>3, StackTop
    <2>5. Top(insns, subprogs, color, stack)
      BY <2>1, <2>3, <2>4 DEF Top
    <2>6. NextEntry(pc, child) = <<pc, child + 1>> /\ NextEntry(pc, child) \in Pcs(insns) \X Nat
      BY <2>4 DEF NextEntry
    <2>7. stack[N][1] = pc /\ stack[N][2] = child
      BY <2>4
    <2>a. nxt = Nexts(insns, subprogs, stack[N][1])[stack[N][2] + 1]
          /\ stack[N][2] < Len(Nexts(insns, subprogs, stack[N][1]))
      BY <2>1, <2>7
    <2> HIDE DEF pc, child, nxt
    <2>8. /\ parent \in Seq(Pcs(insns) \X Nat) /\ Len(parent) = N /\ parent[N] = <<stack[N][1], stack[N][2] + 1>>
          /\ \A k \in 1 .. N - 1 : parent[k] = stack[k]
      <3> DEFINE q == Front(stack)
                 x == NextEntry(pc, child)
      <3>1. q \in Seq(Pcs(insns) \X Nat) /\ Len(q) = N - 1 /\ x \in Pcs(insns) \X Nat /\ N \in Nat /\ N > 0
        BY <2>4, <2>6
      <3>2. parent = Append(q, x)
        OBVIOUS
      <3> HIDE DEF q, x, N, parent
      <3>3. parent \in Seq(Pcs(insns) \X Nat) /\ Len(parent) = N /\ parent[N] = x
            /\ \A k \in 1 .. N - 1 : parent[k] = q[k]
        BY <3>1, <3>2
      <3>4. x = <<stack[N][1], stack[N][2] + 1>>
        BY <2>6, <2>7 DEF x
      <3>5. \A k \in 1 .. N - 1 : q[k] = stack[k]
        BY <2>4 DEF q
      <3> QED BY <3>3, <3>4, <3>5
    <2> HIDE DEF parent
    <2>9. CASE color[nxt] = "not_visited"
      <3>1. /\ stack' = Append(parent, <<nxt, 0>>) /\ color' = [color EXCEPT ![nxt] = "discovering"]
            /\ heads' = heads
        BY <2>1, <2>9
      <3>2. Len(stack') = N + 1 /\ stack'[N + 1] = <<nxt, 0>> /\ \A k \in 1 .. N : stack'[k] = parent[k]
        <4> DEFINE z == <<nxt, 0>>
        <4>1. stack' = Append(parent, z) /\ N \in Nat
          BY <2>4, <3>1
        <4> HIDE DEF z, N
        <4>2. Len(stack') = N + 1 /\ stack'[N + 1] = z /\ \A k \in 1 .. N : stack'[k] = parent[k]
          BY <2>8, <4>1
        <4> QED BY <4>2 DEF z
      <3>3. \A k \in 1 .. N - 1 : stack'[k] = stack[k]
        <4> HIDE DEF N
        <4> QED BY <2>4, <2>8, <3>2
      <3>4. stack'[N] = <<stack[N][1], stack[N][2] + 1>>
        <4>1. N \in 1 .. N
          BY <2>4
        <4> QED BY <2>8, <3>2, <4>1
      <3>5. SearchOk(insns, subprogs, color', stack', heads)
        <4> DEFINE c2 == color'
                   st2 == stack'
        <4>1. /\ st2 \in Seq(Pcs(insns) \X Nat) /\ Len(st2) = Len(stack) + 1
              /\ \A k \in 1 .. Len(stack) - 1 : st2[k] = stack[k]
              /\ st2[Len(stack)] = <<stack[Len(stack)][1], stack[Len(stack)][2] + 1>>
              /\ st2[Len(stack) + 1] = <<nxt, 0>> /\ c2 = [color EXCEPT ![nxt] = "discovering"]
          BY <2>2, <3>1, <3>2, <3>3, <3>4
        <4> HIDE DEF c2, st2
        <4>2. SearchOk(insns, subprogs, c2, st2, heads)
          <5>1. nxt = Nexts(insns, subprogs, stack[Len(stack)][1])[stack[Len(stack)][2] + 1]
                /\ stack[Len(stack)][2] < Len(Nexts(insns, subprogs, stack[Len(stack)][1]))
            BY <2>a
          <5> QED BY ONLY <2>3, <2>5, <2>9, <4>1, <5>1, SearchPushes, ZenonT(150)
        <4> QED BY <4>2 DEF c2, st2
      <3> QED BY <2>1, <3>1, <3>5
    <2>10. CASE color[nxt] # "not_visited"
      <3>1. stack' = parent /\ color' = color /\ heads' = IF color[nxt] = "discovering" THEN heads \cup {nxt} ELSE heads
        BY <2>1, <2>10
      <3>2. SearchOk(insns, subprogs, color, stack', heads')
        <4> DEFINE h2 == heads'
                   st2 == stack'
        <4>1. /\ st2 \in Seq(Pcs(insns) \X Nat) /\ Len(st2) = Len(stack)
              /\ \A k \in 1 .. Len(stack) - 1 : st2[k] = stack[k]
              /\ st2[Len(stack)] = <<stack[Len(stack)][1], stack[Len(stack)][2] + 1>>
              /\ h2 = IF color[nxt] = "discovering" THEN heads \cup {nxt} ELSE heads
          BY <2>2, <2>8, <3>1
        <4> HIDE DEF h2, st2
        <4>2. SearchOk(insns, subprogs, color, st2, h2)
          BY <2>3, <2>5, <2>a, <2>10, <4>1, SearchAdvances, ZenonT(60)
        <4> QED BY <4>2 DEF h2, st2
      <3> QED BY <2>1, <3>1, <3>2
    <2> QED BY <2>9, <2>10
  <1>4. CASE SearchLeaves
    <2> DEFINE pc == Last(stack)[1]
               N == Len(stack)
    <2>1. /\ phase = "search" /\ UNCHANGED <<insns, phase, subprogs, heads>>
          /\ visit_insn_ok(insns, subprogs, pc) /\ Last(stack)[2] = Len(Nexts(insns, subprogs, pc))
          /\ stack # <<>> /\ color' = [color EXCEPT ![pc] = "explored"] /\ stack' = Front(stack)
      BY <1>4 DEF SearchLeaves, Kept
    <2>2. /\ Graph(insns, subprogs) /\ SearchOk(insns, subprogs, color, stack, heads)
          /\ color \in [Pcs(insns) -> Colours] /\ stack \in Seq(Pcs(insns) \X Nat)
          /\ heads \in SUBSET Pcs(insns)
      BY <1>2, <2>1
    <2>3. /\ stack[N] = Last(stack) /\ Front(stack) \in Seq(Pcs(insns) \X Nat)
          /\ Len(Front(stack)) = N - 1 /\ \A k \in 1 .. N - 1 : Front(stack)[k] = stack[k]
      BY <2>1, <2>2, StackTop
    <2>4. Top(insns, subprogs, color, stack)
      BY <2>1, <2>2, <2>3 DEF Top
    <2>5. SearchOk(insns, subprogs, color', stack', heads)
      <3> DEFINE c2 == color'
                 st2 == stack'
      <3>1. /\ st2 \in Seq(Pcs(insns) \X Nat) /\ Len(st2) = Len(stack) - 1
            /\ \A k \in 1 .. Len(stack) - 1 : st2[k] = stack[k]
            /\ c2 = [color EXCEPT ![stack[Len(stack)][1]] = "explored"]
            /\ stack[Len(stack)][2] = Len(Nexts(insns, subprogs, stack[Len(stack)][1]))
        BY <2>1, <2>3
      <3> HIDE DEF c2, st2
      <3>2. SearchOk(insns, subprogs, c2, st2, heads)
        BY <2>2, <2>4, <3>1, SearchPops
      <3> QED BY <3>2 DEF c2, st2
    <2> QED BY <2>1, <2>5
  <1>5. CASE SearchEnds
    <2>1. /\ phase = "search" /\ stack = <<>> /\ phase' = "accept"
          /\ UNCHANGED <<insns, subprogs, color, stack, heads>>
          /\ ~ \E pc \in Pcs(insns) : color[pc] = "not_visited"
      BY <1>5 DEF SearchEnds, Goto
    <2>2. SearchOk(insns, subprogs, color, stack, heads) /\ color \in [Pcs(insns) -> Colours]
      BY <1>2, <2>1
    <2>3. DOMAIN stack = {}
      BY <2>1
    <2>4. \A q \in Pcs(insns) : color[q] # "discovering"
      BY <2>2, <2>3 DEF SearchOk, OnPath
    <2>5. \A q \in Pcs(insns) : color[q] = "explored"
      BY <2>1, <2>2, <2>4 DEF Colours
    <2>6. Explored(insns, color) = Pcs(insns)
      BY <2>5 DEF Explored
    <2> QED BY <2>1, <2>2, <2>6
  <1>6. CASE SearchFails \/ DecodeSlot \/ DecodeWide \/ ResolveMaps \/ AddSubprog \/ CheckStack \/ DropMutant \/ Mutate
    <2>1. CASE DecodeSlot
      BY <2>1 DEF DecodeSlot, Goto
    <2>2. CASE DecodeWide
      BY <2>2 DEF DecodeWide, Goto
    <2>3. CASE SearchFails \/ ResolveMaps \/ AddSubprog \/ CheckStack \/ DropMutant \/ Mutate
      BY <2>3 DEF SearchFails, ResolveMaps, AddSubprog, CheckStack, DropMutant, Mutate, Goto
    <2> QED BY <1>6, <2>1, <2>2, <2>3
  <1>7. CASE UNCHANGED vars
    BY <1>7 DEF vars, SearchInv
  <1> QED BY <1>1, <1>3, <1>4, <1>5, <1>6, <1>7 DEF Next

LEMMA InitSearch == Init => SearchInv
  BY DEF Init, Start, SearchInv

\* What acceptance establishes of the graph.
LEMMA AcceptedGraph ==
    ASSUME Base, SearchInv, phase = "accept"
    PROVE  /\ Graph(insns, subprogs) /\ IsFiniteSet(Pcs(insns)) /\ heads \in SUBSET Pcs(insns)
           /\ \A q \in Pcs(insns) : visit_insn_ok(insns, subprogs, q) /\ Succ(insns, subprogs, q) \subseteq Pcs(insns)
           /\ SearchOk(insns, subprogs, color, stack, heads) /\ Explored(insns, color) = Pcs(insns)
  <1>1. /\ SearchOk(insns, subprogs, color, stack, heads) /\ Explored(insns, color) = Pcs(insns)
    BY DEF SearchInv
  <1>2. Graph(insns, subprogs) /\ heads \in SUBSET Pcs(insns)
    BY DEF Base, Typed, Placed, Graph, add_subprog_ok
  <1>3. IsFiniteSet(Pcs(insns))
    <2>1. Len(insns) \in Nat
      BY DEF Base, Typed
    <2>2. 0 \in Int /\ Len(insns) - 1 \in Int
      BY <2>1
    <2> QED BY <2>2, FS_Interval DEF Pcs
  <1>4. \A q \in Pcs(insns) : visit_insn_ok(insns, subprogs, q)
    BY <1>1 DEF SearchOk, Finished
  <1>5. \A q \in Pcs(insns) : Succ(insns, subprogs, q) \subseteq Pcs(insns)
    BY <1>2, <1>4, GraphFacts
  <1> QED BY <1>1, <1>2, <1>3, <1>4, <1>5

\* The heads the search returns cut every cycle of the control-flow graph and
\* each lies on one, for every program the checks accept (cfg.rs check_cfg).
THEOREM LoopHeads == Spec => []LoopHeadsExact
  <1>1. Base /\ SearchInv => LoopHeadsExact
    <2> SUFFICES ASSUME Base, SearchInv, phase = "accept" PROVE LoopHeadsExact
      BY DEF LoopHeadsExact
    <2> DEFINE P == Pcs(insns)
               succ == [pc \in P |-> Range(Nexts(insns, subprogs, pc))]
               cut == [pc \in P |-> succ[pc] \ heads]
    <2>0. /\ IsFiniteSet(P) /\ heads \in SUBSET P
          /\ \A q \in P : Succ(insns, subprogs, q) \subseteq P
          /\ Acyclic(insns, subprogs, color, heads) /\ HeadsLoop(insns, subprogs, color, heads)
          /\ Explored(insns, color) = P
      BY AcceptedGraph DEF SearchOk
    <2>1. \A q \in P : succ[q] = Succ(insns, subprogs, q) /\ cut[q] = Succ(insns, subprogs, q) \ heads
      BY DEF Succ
    <2>2. succ \in [P -> SUBSET P] /\ cut \in [P -> SUBSET P]
      BY <2>0, <2>1
    <2>3. LoopHeadsExact <=> /\ \A pc \in P : pc \notin Reachable(cut, pc)
                             /\ \A h \in heads : h \in Reachable(succ, h)
      BY DEF LoopHeadsExact
    <2> HIDE DEF P, succ, cut
    <2>4. ASSUME NEW pc \in P, pc \in Reachable(cut, pc) PROVE FALSE
      <3> DEFINE R == Reachable(cut, pc)
      <3>1. R \in SUBSET P /\ \A v \in R : v \in cut[pc] \/ \E u \in R : v \in cut[u]
        BY <2>0, <2>2, ReachableFacts
      <3>2. pc \in R
        BY <2>4
      <3> HIDE DEF R
      <3>3. PICK v \in R : \A u \in R : v \notin Succ(insns, subprogs, u) \ heads
        BY <2>0, <3>1, <3>2 DEF Acyclic
      <3>4. PICK u \in R : v \in cut[u]
        BY <3>1, <3>2
      <3> QED BY <2>1, <3>1, <3>3, <3>4
    <2>5. ASSUME NEW h \in heads PROVE h \in Reachable(succ, h)
      <3> DEFINE R == Reachable(succ, h)
      <3>1. h \in P
        BY <2>0
      <3>2. R \in SUBSET P /\ succ[h] \subseteq R /\ \A u \in R : succ[u] \subseteq R
        BY <2>0, <2>2, <3>1, ReachableFacts
      <3> HIDE DEF R
      <3>3. Succ(insns, subprogs, h) \subseteq R /\ Closed(insns, subprogs, R)
        BY <2>1, <3>1, <3>2 DEF Closed
      <3>4. h \in R
        BY <2>0, <3>2, <3>3 DEF HeadsLoop, P
      <3> QED BY <3>4 DEF R
    <2> QED BY <2>3, <2>4, <2>5
  <1> QED BY <1>1, InitBase, BaseStep, InitSearch, SearchStep, PTL DEF Spec

-----------------------------------------------------------------------------
(* Executions of an accepted program.                                       *)

\* The two halves of a wide instruction stand side by side.
Paired(p) ==
    \A q \in Pcs(p) : /\ At(p, q).op = "second" => q > 0 /\ At(p, q - 1).op \in Wide
                      /\ At(p, q).op \in Wide => q + 1 \in Pcs(p) /\ At(p, q + 1).op = "second"

\* What the checks leave of a program.
Valid(p, e) ==
    /\ Graph(p, e) /\ Paired(p) /\ check_stack_call_chains(p, e)
    /\ \A q \in Pcs(p) : visit_insn_ok(p, e, q)

\* Decoding keeps the halves together.
LEMMA DecodedKinds ==
    ASSUME NEW s \in Seq(Insns), NEW n \in DOMAIN s, NEW i, DecodedAt(s, n, i)
    PROVE  /\ i.op = "second" => n > 1 /\ s[n - 1].op = "ld64"
           /\ i.op \in Wide => n < Len(s) /\ s[n].op = "ld64" /\ s[n + 1].op = "pad"
           /\ s[n].op = "ld64" => i.op \in Wide
           /\ s[n].op = "pad" => i.op = "second"
  <1>0. Len(s) \in Nat /\ n \in 1 .. Len(s) /\ s[n] \in Insns
    OBVIOUS
  <1>1. CASE FieldsOk(s[n]) /\ i = parse_insn(s[n])
    <2> DEFINE t == s[n]
    <2>1. t \in Insns /\ i = parse_insn(t)
          /\ t.op \notin {"callsub", "kfunc", "ldimm64", "ldmapfd", "ldmapvalue", "second", "ld64", "pad"}
      BY <1>0, <1>1, OneSlotFacts
    <2> HIDE DEF t
    <2>2. i.op \notin {"ldimm64", "ldmapfd", "ldmapvalue", "second"}
      <3>1. CASE t.op = "call" /\ t.src = 1
        BY <2>1, <3>1, ParseByKind DEF Insn
      <3>2. CASE t.op = "call" /\ t.src = 2
        BY <2>1, <3>2, ParseByKind DEF Insn
      <3>3. CASE t.op = "neg"
        BY <2>1, <3>3, ParseByKind DEF Insn
      <3>4. CASE t.op \in {"exit", "ldabs", "ldind"}
        BY <2>1, <3>4, ParseByKind DEF Insn
      <3>5. CASE t.op = "st"
        BY <2>1, <3>5, ParseByKind DEF Insn
      <3>6. CASE t.op \notin {"call", "neg", "exit", "ldabs", "ldind", "st"} \/ (t.op = "call" /\ t.src \notin {1, 2})
        BY <2>1, <3>6, ParseByKind
      <3> QED BY <3>1, <3>2, <3>3, <3>4, <3>5, <3>6, SlotKinds
    <2> QED BY <2>1, <2>2 DEF Wide, t
  <1>2. CASE s[n].op = "ld64" /\ n < Len(s) /\ WideOk(s[n], s[n + 1]) /\ i = parse_ldimm64(s[n])
    <2>1. i.op \in Wide
      BY <1>0, <1>2, WideRegular
    <2>2. s[n + 1].op = "pad"
      BY <1>2 DEF WideOk
    <2> QED BY <1>2, <2>1, <2>2 DEF Wide
  <1>3. CASE n > 1 /\ s[n - 1].op = "ld64" /\ WideOk(s[n - 1], s[n]) /\ i = [s[n] EXCEPT !.op = "second"]
    <2>1. s[n].op = "pad"
      BY <1>3 DEF WideOk
    <2>2. i.op = "second"
      BY <1>0, <1>3, SecondRegular
    <2> QED BY <1>3, <2>1, <2>2 DEF Wide
  <1> QED BY <1>1, <1>2, <1>3 DEF DecodedAt

LEMMA AcceptedValid ==
    ASSUME Base, DecodeInv, SearchInv, phase = "accept"
    PROVE  Valid(insns, subprogs)
  <1>1. mode = "env" /\ check_stack_call_chains(insns, subprogs)
    BY DEF Base, Placed
  <1>2. /\ slots \in Seq(Insns) /\ insns \in Seq(Insns) /\ Len(insns) = Len(slots)
        /\ \A n \in DOMAIN insns : DecodedAt(slots, n, insns[n])
    BY <1>1 DEF Base, Typed, DecodeInv
  <1>3. DOMAIN insns = DOMAIN slots /\ Len(insns) \in Nat /\ DOMAIN insns = 1 .. Len(insns)
    BY <1>2
  <1>4. Paired(insns)
    <2> SUFFICES ASSUME NEW q \in Pcs(insns)
                 PROVE  /\ At(insns, q).op = "second" => q > 0 /\ At(insns, q - 1).op \in Wide
                        /\ At(insns, q).op \in Wide => q + 1 \in Pcs(insns) /\ At(insns, q + 1).op = "second"
      BY DEF Paired
    <2> DEFINE n == q + 1
    <2>1. n \in DOMAIN insns /\ q \in Nat /\ q < Len(insns) /\ At(insns, q) = insns[n] /\ n - 1 = q /\ n \in Nat
      BY <1>2, <1>3 DEF Pcs, At
    <2>2. At(insns, q + 1) = insns[n + 1] /\ At(insns, q - 1) = insns[n - 1]
      BY <2>1 DEF At
    <2>3. /\ insns[n].op = "second" => n > 1 /\ slots[n - 1].op = "ld64"
          /\ insns[n].op \in Wide => n < Len(slots) /\ slots[n].op = "ld64" /\ slots[n + 1].op = "pad"
      BY <1>2, <1>3, <2>1, DecodedKinds, ZenonT(60)
    <2>4. ASSUME insns[n].op = "second" PROVE q > 0 /\ insns[n - 1].op \in Wide
      <3> DEFINE m == n - 1
      <3>1. m \in DOMAIN slots /\ slots[m].op = "ld64" /\ q > 0
        BY <1>3, <2>1, <2>3, <2>4
      <3> HIDE DEF m, n
      <3>2. insns[m].op \in Wide
        BY <1>2, <1>3, <3>1, DecodedKinds
      <3> QED BY <3>1, <3>2 DEF m
    <2>5. ASSUME insns[n].op \in Wide PROVE q + 1 \in Pcs(insns) /\ insns[n + 1].op = "second"
      <3> DEFINE m == n + 1
      <3>1. m \in DOMAIN slots /\ slots[m].op = "pad" /\ q + 1 \in Pcs(insns)
        BY <1>2, <1>3, <2>1, <2>3, <2>5 DEF Pcs
      <3> HIDE DEF m, n
      <3>2. insns[m].op = "second"
        BY <1>2, <1>3, <3>1, DecodedKinds
      <3> QED BY <3>1, <3>2 DEF m
    <2> HIDE DEF n
    <2> QED BY <2>1, <2>2, <2>4, <2>5
  <1> QED BY <1>1, <1>4, AcceptedGraph DEF Valid

\* The call chains: they start at 0 and grow by one call.
Longer(p, e, X) ==
    UNION {{Append(c, t) : t \in Callees(p, e, Last(c))} : c \in {d \in X : IsInjective(d)}}

LEMMA LongerFacts ==
    ASSUME NEW p, NEW e, Graph(p, e), NEW X \in SUBSET (Seq(e) \ {<<>>})
    PROVE  /\ Longer(p, e, X) \in SUBSET (Seq(e) \ {<<>>})
           /\ \A c \in Longer(p, e, X) : \E d \in X : \E t \in e : c = Append(d, t)
           /\ \A d \in X : IsInjective(d) => \A t \in Callees(p, e, Last(d)) : Append(d, t) \in Longer(p, e, X)
  <1>1. ASSUME NEW d PROVE Callees(p, e, Last(d)) \subseteq e
    <2>1. p \in Seq(Insns) /\ e = Entries(p)
      BY DEF Graph
    <2> QED BY <2>1, EntryFacts DEF Callees
  <1>2. \A c \in Longer(p, e, X) : \E d \in X : \E t \in e : c = Append(d, t)
    BY <1>1 DEF Longer
  <1>3. \A d \in X : \A t \in e : Append(d, t) \in Seq(e) \ {<<>>}
    <2> SUFFICES ASSUME NEW d \in X, NEW t \in e PROVE Append(d, t) \in Seq(e) /\ Append(d, t) # <<>>
      OBVIOUS
    <2>1. d \in Seq(e) /\ Len(d) \in Nat
      OBVIOUS
    <2>2. Append(d, t) \in Seq(e) /\ Len(Append(d, t)) = Len(d) + 1
      BY <2>1
    <2>3. Len(<<>>) = 0 /\ Len(d) + 1 # 0
      BY <2>1
    <2> QED BY <2>2, <2>3
  <1>4. \A d \in X : IsInjective(d) => \A t \in Callees(p, e, Last(d)) : Append(d, t) \in Longer(p, e, X)
    BY DEF Longer
  <1> QED BY <1>2, <1>3, <1>4

\* L[n] are the chains of n subprograms.
Levels(p, e, L) ==
    /\ Chains(p, e) = UNION {L[n] : n \in 1 .. MaxCallFrames + 1}
    /\ L[1] = {<<0>>}
    /\ \A n \in 2 .. MaxCallFrames + 1 : L[n] = Longer(p, e, L[n - 1])
    /\ \A n \in 1 .. MaxCallFrames + 1 : L[n] \in SUBSET (Seq(e) \ {<<>>})
    /\ \A n \in 1 .. MaxCallFrames + 1 : \A c \in L[n] : Len(c) = n

LEMMA ChainLevels ==
    ASSUME NEW p, NEW e, Graph(p, e)
    PROVE  \E L : Levels(p, e, L)
  <1> DEFINE M == MaxCallFrames
             K == MaxCallFrames + 1
             S == SUBSET (Seq(e) \ {<<>>})
             B(X) == UNION {{Append(c, t) : t \in Callees(p, e, Last(c))} : c \in {d \in X : IsInjective(d)}}
             Is(f) == f = [n \in 1 .. K |-> IF n = 1 THEN {<<0>>} ELSE B(f[n - 1])]
             L == CHOOSE f : Is(f)
             a == {<<0>>}
             g == [x \in S \X (1 .. M) |-> Longer(p, e, x[1])]
  <1>0. M \in Nat /\ K \in Nat /\ K = M + 1 /\ K >= 1
    BY BoundsAssumption
  <1>1. Chains(p, e) = UNION {L[n] : n \in 1 .. K}
    BY DEF Chains
  <1>2. \A X : B(X) = Longer(p, e, X)
    BY DEF Longer
  <1>3. a \in S
    <2>1. 0 \in e
      BY EntryFacts DEF Graph
    <2>2. <<0>> \in Seq(e) /\ <<0>> # <<>>
      BY <2>1
    <2> QED BY <2>2
  <1>4. \A X \in S : Longer(p, e, X) \in S
    BY LongerFacts
  <1> HIDE DEF a, S, M
  <1>5. g \in [S \X (1 .. M) -> S] /\ \A X \in S, k \in 1 .. M : g[<<X, k>>] = Longer(p, e, X)
    BY <1>4
  <1> HIDE DEF g
  <1>6. PICK h \in [0 .. M -> S] : Iterated(h, a, g, M)
    BY <1>0, <1>3, <1>5, IterateExists
  <1> DEFINE f == [n \in 1 .. K |-> h[n - 1]]
  <1>7. Is(f)
    <2> HIDE DEF K, B
    <2> SUFFICES ASSUME NEW n \in 1 .. K PROVE h[n - 1] = IF n = 1 THEN {<<0>>} ELSE B(f[n - 1])
      OBVIOUS
    <2>1. n - 1 \in 0 .. M
      BY <1>0
    <2>2. h[n - 1] = IF n - 1 = 0 THEN a ELSE g[<<h[n - 1 - 1], n - 1>>]
      BY <1>6, <2>1 DEF Iterated
    <2>3. CASE n = 1
      BY <2>2, <2>3 DEF a
    <2>4. CASE n # 1
      <3>1. n - 1 # 0 /\ n - 1 \in 1 .. M /\ n - 1 \in 1 .. K /\ n - 1 - 1 \in 0 .. M
        BY <1>0, <2>4
      <3>2. f[n - 1] = h[n - 1 - 1] /\ h[n - 1 - 1] \in S
        BY <3>1
      <3> QED BY <1>2, <1>5, <2>2, <2>4, <3>1, <3>2
    <2> QED BY <2>3, <2>4
  <1>8. Is(L)
    BY <1>7
  <1> HIDE DEF L
  <1>9. L[1] = {<<0>>}
    <2>1. 1 \in 1 .. K
      BY <1>0
    <2> QED BY <1>8, <2>1
  <1>10. ASSUME NEW n \in 2 .. K PROVE L[n] = Longer(p, e, L[n - 1])
    <2>1. n \in 1 .. K /\ n # 1
      BY <1>0
    <2>2. L[n] = B(L[n - 1])
      <3> HIDE DEF B, K
      <3> QED BY <1>8, <2>1
    <2> QED BY <1>2, <2>2
  <1> DEFINE Bad == {n \in 1 .. K : ~(L[n] \in S /\ \A c \in L[n] : Len(c) = n)}
  <1>11. Bad = {}
    <2> SUFFICES ASSUME Bad # {} PROVE FALSE
      OBVIOUS
    <2>1. PICK n \in Bad : \A m \in Bad : n <= m
      <3>1. Bad \in SUBSET Nat
        BY <1>0
      <3> HIDE DEF Bad
      <3> QED BY <3>1, LeastNat
    <2>2. n # 1
      <3>1. L[1] \in S /\ \A c \in L[1] : Len(c) = 1
        BY <1>3, <1>9 DEF a
      <3> QED BY <2>1, <3>1
    <2>3. n \in 2 .. K /\ n - 1 \in 1 .. K /\ ~(n <= n - 1) /\ n \in Nat
      BY <1>0, <2>1, <2>2
    <2>4. n - 1 \notin Bad
      <3> HIDE DEF Bad
      <3> QED BY <2>1, <2>3
    <2>5. L[n - 1] \in S /\ \A c \in L[n - 1] : Len(c) = n - 1
      BY <2>3, <2>4
    <2>6. L[n] = Longer(p, e, L[n - 1])
      BY <1>10, <2>3
    <2>7. L[n] \in S
      BY <1>4, <2>5, <2>6
    <2>8. ASSUME NEW c \in L[n] PROVE Len(c) = n
      <3>1. PICK d \in L[n - 1] : \E t \in e : c = Append(d, t)
        BY <2>5, <2>6, LongerFacts DEF S
      <3>2. d \in Seq(e) /\ Len(d) = n - 1
        BY <2>5 DEF S
      <3>3. Len(c) = Len(d) + 1
        BY <3>1, <3>2
      <3> QED BY <2>3, <3>2, <3>3
    <2> QED BY <2>1, <2>7, <2>8
  <1>12. \A n \in 1 .. K : L[n] \in S /\ \A c \in L[n] : Len(c) = n
    BY <1>11
  <1>13. Levels(p, e, L)
    BY <1>1, <1>9, <1>10, <1>12 DEF S, Levels
  <1> QED BY <1>13

\* A chain that passed the check can be made longer.
LEMMA ChainFacts ==
    ASSUME NEW p, NEW e, Graph(p, e)
    PROVE  /\ <<0>> \in Chains(p, e)
           /\ \A c \in Chains(p, e) : c \in Seq(e) /\ Len(c) \in Nat /\ Len(c) >= 1
           /\ \A c \in Chains(p, e) : IsInjective(c) /\ Len(c) <= MaxCallFrames =>
                 \A t \in Callees(p, e, Last(c)) : Append(c, t) \in Chains(p, e)
  <1> DEFINE K == MaxCallFrames + 1
  <1>0. K \in Nat /\ K >= 1 /\ MaxCallFrames \in Nat
    BY BoundsAssumption
  <1>a. PICK L : Levels(p, e, L)
    BY ChainLevels
  <1>1. /\ Chains(p, e) = UNION {L[n] : n \in 1 .. K}
        /\ L[1] = {<<0>>}
        /\ \A n \in 2 .. K : L[n] = Longer(p, e, L[n - 1])
        /\ \A n \in 1 .. K : L[n] \in SUBSET (Seq(e) \ {<<>>})
        /\ \A n \in 1 .. K : \A c \in L[n] : Len(c) = n
    BY <1>a DEF Levels
  <1>2. \A c : c \in Chains(p, e) <=> \E n \in 1 .. K : c \in L[n]
    BY <1>1
  <1>3. <<0>> \in Chains(p, e)
    <2>1. 1 \in 1 .. K /\ <<0>> \in L[1]
      BY <1>0, <1>1
    <2> QED BY <1>2, <2>1
  <1>4. ASSUME NEW c \in Chains(p, e) PROVE c \in Seq(e) /\ Len(c) \in Nat /\ Len(c) >= 1
    <2>1. PICK n \in 1 .. K : c \in L[n]
      BY <1>2
    <2> QED BY <1>0, <1>1, <2>1
  <1>6. ASSUME NEW c \in Chains(p, e), IsInjective(c), Len(c) <= MaxCallFrames,
               NEW t \in Callees(p, e, Last(c))
        PROVE  Append(c, t) \in Chains(p, e)
    <2>1. PICK n \in 1 .. K : c \in L[n]
      BY <1>2
    <2> DEFINE m == n + 1
    <2>2. m \in 2 .. K /\ m \in 1 .. K /\ m - 1 = n
      <3>1. Len(c) = n
        BY <1>1, <2>1
      <3> QED BY <1>0, <1>6, <2>1, <3>1
    <2> HIDE DEF m, K
    <2>3. L[m] = Longer(p, e, L[n]) /\ L[n] \in SUBSET (Seq(e) \ {<<>>})
      BY <1>1, <2>2
    <2>4. Append(c, t) \in L[m]
      BY <1>6, <2>1, <2>3, LongerFacts
    <2> QED BY <1>2, <2>2, <2>4
  <1> QED BY <1>3, <1>4, <1>6

\* A chain without its last call is a chain.
LEMMA ShorterChain ==
    ASSUME NEW p, NEW e, Graph(p, e), NEW c \in Chains(p, e), Len(c) > 1
    PROVE  \E d \in Chains(p, e) : \E t \in e : c = Append(d, t)
  <1> DEFINE K == MaxCallFrames + 1
  <1>0. K \in Nat /\ K >= 1 /\ MaxCallFrames \in Nat
    BY BoundsAssumption
  <1>a. PICK L : Levels(p, e, L)
    BY ChainLevels
  <1>1. /\ Chains(p, e) = UNION {L[n] : n \in 1 .. K}
        /\ L[1] = {<<0>>}
        /\ \A n \in 2 .. K : L[n] = Longer(p, e, L[n - 1])
        /\ \A n \in 1 .. K : L[n] \in SUBSET (Seq(e) \ {<<>>})
        /\ \A n \in 1 .. K : \A x \in L[n] : Len(x) = n
    BY <1>a DEF Levels
  <1>2. \A x : x \in Chains(p, e) <=> \E n \in 1 .. K : x \in L[n]
    BY <1>1
  <1>4. PICK n \in 1 .. K : c \in L[n]
    BY <1>2
  <1>5. n \in 2 .. K /\ n - 1 \in 1 .. K
    <2>1. Len(c) = n
      BY <1>1, <1>4
    <2> QED BY <1>0, <1>4, <2>1
  <1>6. L[n] = Longer(p, e, L[n - 1]) /\ L[n - 1] \in SUBSET (Seq(e) \ {<<>>})
    BY <1>1, <1>5
  <1>7. PICK d \in L[n - 1] : \E t \in e : c = Append(d, t)
    BY <1>4, <1>6, LongerFacts
  <1>8. d \in Chains(p, e)
    BY <1>2, <1>5
  <1> QED BY <1>7, <1>8

LEMMA ValidParts ==
    ASSUME NEW p, NEW e, Valid(p, e)
    PROVE  /\ p \in Seq(Insns) /\ e = Entries(p) /\ e \in SUBSET Pcs(p) /\ 0 \in e /\ EndsOk(p, e)
           /\ Paired(p) /\ check_stack_call_chains(p, e) /\ Graph(p, e)
           /\ \A q \in Pcs(p) : visit_insn_ok(p, e, q)
  BY EntryFacts DEF Valid, Graph

\* Falling through stays in the subprogram.
LEMMA FallsInside ==
    ASSUME NEW p, NEW e, Valid(p, e), NEW q \in Pcs(p), q + 1 \in Succ(p, e, q)
    PROVE  /\ q + 1 \in Pcs(p)
           /\ SubStart(e, q + 1) = SubStart(e, q) /\ SubEnd(p, e, q + 1) = SubEnd(p, e, q)
  <1>0. p \in Seq(Insns) /\ e \in SUBSET Pcs(p) /\ 0 \in e /\ visit_insn_ok(p, e, q)
    BY ValidParts
  <1>1. q + 1 < SubEnd(p, e, q)
    BY <1>0 DEF visit_insn_ok, Succ
  <1>2. q \in Nat /\ SubStart(e, q) <= q /\ SubStart(e, q) \in Nat /\ SubEnd(p, e, q) \in Nat
    BY <1>0, PcFacts, SubStartFacts, SubEndFacts
  <1>3. q + 1 \in SubStart(e, q) .. SubEnd(p, e, q) - 1
    BY <1>1, <1>2
  <1> QED BY <1>0, <1>3, SameSub

\* So does the return address of a call.
LEMMA ReturnsInside ==
    ASSUME NEW p, NEW e, Valid(p, e), NEW q \in Pcs(p), At(p, q).op = "callsub"
    PROVE  q + 1 \in Pcs(p) /\ SubStart(e, q + 1) = SubStart(e, q)
  <1> DEFINE u == SubStart(e, q)
             w == SubEnd(p, e, q)
  <1>0. p \in Seq(Insns) /\ e \in SUBSET Pcs(p) /\ 0 \in e /\ EndsOk(p, e)
    BY ValidParts
  <1>1. q \in Nat /\ u <= q /\ u \in Nat /\ u \in e /\ u \in Pcs(p) /\ w \in Nat /\ w > q
    BY <1>0, PcFacts, SubStartFacts, SubEndFacts
  <1>2. SubEnd(p, e, u) = w
    <2>1. u \in SubStart(e, q) .. SubEnd(p, e, q) - 1
      BY <1>1
    <2> QED BY <1>0, <2>1, SameSub
  <1>3. At(p, w - 1).op \in {"exit", "ja"}
    BY <1>0, <1>1, <1>2 DEF EndsOk
  <1>4. q # w - 1
    BY <1>3
  <1>5. q + 1 \in SubStart(e, q) .. SubEnd(p, e, q) - 1
    BY <1>1, <1>4
  <1> QED BY <1>0, <1>5, SameSub

LEMMA JumpsInside ==
    ASSUME NEW p, NEW e, Valid(p, e), NEW q \in Pcs(p), At(p, q).op \in Conditional \cup {"ja"}
    PROVE  /\ Target(p, q) \in Pcs(p) /\ SubStart(e, Target(p, q)) = SubStart(e, q)
           /\ At(p, Target(p, q)).op # "second"
  <1>0. p \in Seq(Insns) /\ e \in SUBSET Pcs(p) /\ 0 \in e /\ visit_insn_ok(p, e, q)
    BY ValidParts
  <1>1. Target(p, q) \in SubStart(e, q) .. SubEnd(p, e, q) - 1 /\ At(p, Target(p, q)).op # "second"
    BY <1>0 DEF visit_insn_ok
  <1> QED BY <1>0, <1>1, SameSub

\* No subprogram starts in the middle of a wide instruction.
LEMMA EntriesWhole ==
    ASSUME NEW p, NEW e, Valid(p, e), NEW t \in e
    PROVE  t \in Pcs(p) /\ SubStart(e, t) = t /\ At(p, t).op # "second"
  <1>0. p \in Seq(Insns) /\ e \in SUBSET Pcs(p) /\ 0 \in e /\ Paired(p)
    BY ValidParts
  <1>1. t \in Pcs(p) /\ t \in Nat
    BY <1>0, PcFacts
  <1>2. SubStart(e, t) = t
    <2> DEFINE v == SubStart(e, t)
    <2>1. v \in e /\ v <= t /\ \A u \in e : u <= t => u <= v
      BY <1>0, <1>1, SubStartFacts
    <2> HIDE DEF v
    <2>2. v \in Nat
      BY <1>0, <2>1, PcFacts
    <2>3. t <= v
      BY <1>1, <2>1
    <2>4. v = t
      BY <1>1, <2>1, <2>2, <2>3
    <2> QED BY <2>4 DEF v
  <1>3. ASSUME At(p, t).op = "second" PROVE FALSE
    <2> DEFINE q == t - 1
    <2>1. t > 0 /\ At(p, q).op \in Wide
      BY <1>0, <1>1, <1>3 DEF Paired
    <2>2. q \in Pcs(p) /\ q + 1 = t /\ q \in Nat /\ t > q
      BY <1>0, <1>1, <2>1 DEF Pcs
    <2> HIDE DEF q
    <2>3. Succ(p, e, q) = {q + 1}
      BY <2>1, SuccByKind DEF Wide, Conditional
    <2>4. SubEnd(p, e, q) > q + 1
      <3>1. visit_insn_ok(p, e, q) /\ q + 1 \in Range(Nexts(p, e, q))
        BY <2>2, <2>3, ValidParts DEF Succ
      <3>2. SubEnd(p, e, q) \in Nat
        BY <1>0, <2>2, SubEndFacts
      <3>3. q + 1 < SubEnd(p, e, q)
        BY <3>1 DEF visit_insn_ok
      <3> QED BY <2>2, <3>2, <3>3
    <2>5. SubEnd(p, e, q) <= t /\ SubEnd(p, e, q) \in Nat
      BY <1>0, <2>2, SubEndFacts
    <2> QED BY <1>1, <2>2, <2>4, <2>5
  <1> QED BY <1>1, <1>2, <1>3

\* A call site belongs to the subprogram it is in.
LEMMA CalleesHere ==
    ASSUME NEW p, NEW e, Valid(p, e), NEW q \in Pcs(p), At(p, q).op = "callsub"
    PROVE  Target(p, q) \in e /\ Target(p, q) \in Callees(p, e, SubStart(e, q))
  <1> DEFINE u == SubStart(e, q)
             w == SubEnd(p, e, q)
  <1>0. p \in Seq(Insns) /\ e \in SUBSET Pcs(p) /\ 0 \in e /\ e = Entries(p)
    BY ValidParts
  <1>1. q \in Nat /\ u <= q /\ u \in Nat /\ u \in e /\ w \in Nat /\ w > q
    BY <1>0, PcFacts, SubStartFacts, SubEndFacts
  <1>2. SubEnd(p, e, u) = w
    <2>1. u \in SubStart(e, q) .. SubEnd(p, e, q) - 1
      BY <1>1
    <2> QED BY <1>0, <2>1, SameSub
  <1>3. q \in CallSites(p) /\ q \in u .. w - 1
    BY <1>1 DEF CallSites
  <1>4. Target(p, q) \in Callees(p, e, u)
    BY <1>2, <1>3 DEF Callees
  <1> QED BY <1>0, <1>3, <1>4, EntryFacts

\* The configurations executions can be in.
Runs(p, e) ==
    {c \in [pc : Pcs(p), ret : Seq(Pcs(p)), entry : Seq(e)] :
        /\ At(p, c.pc).op # "second"
        /\ c.entry \in Chains(p, e) /\ Len(c.entry) = Len(c.ret) + 1
        /\ SubStart(e, c.pc) = c.entry[Len(c.entry)]
        /\ \A k \in 1 .. Len(c.ret) :
              At(p, c.ret[k]).op # "second" /\ SubStart(e, c.ret[k]) = c.entry[k]}

LEMMA StepsByKind ==
    ASSUME NEW p, NEW e, NEW c \in [pc : Pcs(p), ret : Seq(Pcs(p)), entry : Seq(e)]
    PROVE  LET o == At(p, c.pc).op
               to(t) == [pc |-> t, ret |-> c.ret, entry |-> c.entry]
           IN  /\ o = "exit" /\ c.ret = <<>> => Steps(p, c) = {}
               /\ o = "exit" /\ c.ret # <<>> =>
                     Steps(p, c) = {[pc |-> Last(c.ret), ret |-> Front(c.ret), entry |-> Front(c.entry)]}
               /\ o = "callsub" =>
                     Steps(p, c) = {[pc |-> Target(p, c.pc), ret |-> Append(c.ret, c.pc + 1),
                                     entry |-> Append(c.entry, Target(p, c.pc))]}
               /\ o = "ja" => Steps(p, c) = {to(Target(p, c.pc))}
               /\ o \in Conditional => Steps(p, c) = {to(Target(p, c.pc)), to(c.pc + 1)}
               /\ o \in Wide => Steps(p, c) = {to(c.pc + 2)}
               /\ o \notin Conditional \cup Wide \cup {"exit", "callsub", "ja"} => Steps(p, c) = {to(c.pc + 1)}
  <1> DEFINE o == At(p, c.pc).op
             r == c.ret = <<>>
             to(t) == [pc |-> t, ret |-> c.ret, entry |-> c.entry]
             a == {[pc |-> Last(c.ret), ret |-> Front(c.ret), entry |-> Front(c.entry)]}
             b == {[pc |-> Target(p, c.pc), ret |-> Append(c.ret, c.pc + 1),
                    entry |-> Append(c.entry, Target(p, c.pc))]}
             d == {to(Target(p, c.pc))}
             f == {to(Target(p, c.pc)), to(c.pc + 1)}
             g == {to(c.pc + 2)}
             h == {to(c.pc + 1)}
  <1>1. \A t : [c EXCEPT !.pc = t] = to(t)
    OBVIOUS
  <1>2. Steps(p, c) = CASE o = "exit" /\ r -> {}
                        [] o = "exit" /\ ~r -> a
                        [] o = "callsub" -> b
                        [] o = "ja" -> d
                        [] o \in Conditional -> f
                        [] o \in Wide -> g
                        [] OTHER -> h
    BY <1>1, ZenonT(60) DEF Steps
  <1> HIDE DEF o, r, a, b, d, f, g, h, to
  <1>3. o \in {"exit", "callsub", "ja"} => o \notin Conditional /\ o \notin Wide
    BY DEF Conditional, Wide
  <1>4. o \in Conditional => o \notin Wide
    BY DEF Conditional, Wide
  <1>5. o = "exit" /\ r => Steps(p, c) = {}
    BY ONLY <1>2, <1>3
  <1>6. o = "exit" /\ ~r => Steps(p, c) = a
    BY ONLY <1>2, <1>3
  <1>7. o = "callsub" => Steps(p, c) = b
    BY ONLY <1>2, <1>3
  <1>8. o = "ja" => Steps(p, c) = d
    BY ONLY <1>2, <1>3
  <1>9. o \in Conditional => Steps(p, c) = f
    BY ONLY <1>2, <1>3, <1>4
  <1>10. o \in Wide => Steps(p, c) = g
    BY ONLY <1>2, <1>3, <1>4
  <1>11. o \notin Conditional \cup Wide \cup {"exit", "callsub", "ja"} => Steps(p, c) = h
    BY ONLY <1>2
  <1> QED BY <1>5, <1>6, <1>7, <1>8, <1>9, <1>10, <1>11 DEF o, r, a, b, d, f, g, h, to

\* A move within the subprogram.
LEMMA MovesInside ==
    ASSUME NEW p, NEW e, NEW c \in Runs(p, e), NEW t \in Pcs(p), At(p, t).op # "second",
           SubStart(e, t) = SubStart(e, c.pc)
    PROVE  [pc |-> t, ret |-> c.ret, entry |-> c.entry] \in Runs(p, e)
  <1> DEFINE d == [pc |-> t, ret |-> c.ret, entry |-> c.entry]
  <1>1. d \in [pc : Pcs(p), ret : Seq(Pcs(p)), entry : Seq(e)]
        /\ d.pc = t /\ d.ret = c.ret /\ d.entry = c.entry
    BY DEF Runs
  <1> HIDE DEF d
  <1>2. d \in Runs(p, e)
    BY <1>1 DEF Runs
  <1> QED BY <1>2 DEF d

\* A call.
LEMMA CallsInside ==
    ASSUME NEW p, NEW e, Valid(p, e), NEW c \in Runs(p, e), At(p, c.pc).op = "callsub"
    PROVE  [pc |-> Target(p, c.pc), ret |-> Append(c.ret, c.pc + 1),
            entry |-> Append(c.entry, Target(p, c.pc))] \in Runs(p, e)
  <1> DEFINE q == c.pc
             r == c.ret
             y == c.entry
             t == Target(p, q)
             r2 == Append(r, q + 1)
             y2 == Append(y, t)
             N == Len(r)
             d == [pc |-> t, ret |-> r2, entry |-> y2]
  <1>0. /\ q \in Pcs(p) /\ r \in Seq(Pcs(p)) /\ y \in Seq(e) /\ y \in Chains(p, e) /\ Len(y) = N + 1
        /\ At(p, q).op = "callsub" /\ SubStart(e, q) = y[N + 1] /\ N \in Nat
        /\ \A k \in 1 .. N : At(p, r[k]).op # "second" /\ SubStart(e, r[k]) = y[k]
    BY DEF Runs
  <1> HIDE DEF q, r, y, N
  <1>1. q + 1 \in Pcs(p) /\ SubStart(e, q + 1) = y[N + 1]
    BY <1>0, ReturnsInside
  <1>2. At(p, q + 1).op # "second"
    <2> DEFINE x == q + 1
    <2>1. x \in Pcs(p) /\ x - 1 = q /\ Paired(p)
      BY <1>0, <1>1, ValidParts, PcFacts
    <2> HIDE DEF x
    <2>2. At(p, x).op = "second" => At(p, q).op \in Wide
      BY <2>1 DEF Paired
    <2>3. At(p, x).op # "second"
      BY <1>0, <2>2 DEF Wide
    <2> QED BY <2>3 DEF x
  <1>3. t \in e /\ t \in Callees(p, e, y[N + 1])
    BY <1>0, CalleesHere
  <1>4. t \in Pcs(p) /\ SubStart(e, t) = t /\ At(p, t).op # "second"
    BY <1>3, EntriesWhole
  <1>5. Last(y) = y[N + 1]
    BY <1>0 DEF Last
  <1> HIDE DEF t
  <1>6. y2 \in Chains(p, e)
    <2>1. Graph(p, e) /\ check_stack_call_chains(p, e)
      BY ValidParts
    <2>2. IsInjective(y) /\ Len(y) <= MaxCallFrames
      <3>1. CASE Len(y) > 1
        BY <1>0, <2>1, <3>1 DEF check_stack_call_chains
      <3>2. CASE ~(Len(y) > 1)
        <4>1. Len(y) = 1 /\ DOMAIN y = 1 .. Len(y)
          BY <1>0, <3>2
        <4>2. \A a, b \in DOMAIN y : a = b
          BY <4>1
        <4> QED BY <4>1, <4>2, BoundsAssumption DEF IsInjective
      <3> QED BY <3>1, <3>2
    <2> QED BY <1>0, <1>3, <1>5, <2>1, <2>2, ChainFacts
  <1>7. /\ y2 \in Seq(e) /\ Len(y2) = N + 2 /\ y2[N + 2] = t /\ y2[N + 1] = y[N + 1]
        /\ \A k \in 1 .. N : y2[k] = y[k]
    BY <1>0, <1>3
  <1>8. /\ r2 \in Seq(Pcs(p)) /\ Len(r2) = N + 1 /\ r2[N + 1] = q + 1
        /\ \A k \in 1 .. N : r2[k] = r[k]
    BY <1>0, <1>1 DEF N
  <1>9. d \in [pc : Pcs(p), ret : Seq(Pcs(p)), entry : Seq(e)] /\ d.pc = t /\ d.ret = r2 /\ d.entry = y2
    BY <1>4, <1>7, <1>8
  <1> HIDE DEF d, y2, r2
  <1>10. ASSUME NEW k \in 1 .. N + 1
         PROVE  At(p, r2[k]).op # "second" /\ SubStart(e, r2[k]) = y2[k]
    <2>1. CASE k = N + 1
      BY <1>1, <1>2, <1>7, <1>8, <2>1
    <2>2. CASE k # N + 1
      <3>1. k \in 1 .. N
        BY <1>0, <2>2
      <3> QED BY <1>0, <1>7, <1>8, <3>1
    <2> QED BY <2>1, <2>2
  <1>11. Len(y2) = Len(r2) + 1
    BY <1>0, <1>7, <1>8
  <1>12. d \in Runs(p, e)
    BY <1>4, <1>6, <1>7, <1>8, <1>9, <1>10, <1>11 DEF Runs
  <1> QED BY <1>12 DEF d, y2, r2, t, q, r, y

\* A return.
LEMMA ReturnBack ==
    ASSUME NEW p, NEW e, Valid(p, e), NEW c \in Runs(p, e), c.ret # <<>>
    PROVE  [pc |-> Last(c.ret), ret |-> Front(c.ret), entry |-> Front(c.entry)] \in Runs(p, e)
  <1> DEFINE r == c.ret
             y == c.entry
             N == Len(r)
             r2 == Front(r)
             y2 == Front(y)
             d == [pc |-> Last(r), ret |-> r2, entry |-> y2]
  <1>0. /\ r \in Seq(Pcs(p)) /\ y \in Seq(e) /\ y \in Chains(p, e) /\ Len(y) = N + 1 /\ N \in Nat /\ r # <<>>
        /\ \A k \in 1 .. N : At(p, r[k]).op # "second" /\ SubStart(e, r[k]) = y[k]
    BY DEF Runs
  <1> HIDE DEF r, y, N
  <1>1. N >= 1 /\ Len(r) = N
    BY <1>0 DEF N
  <1>2. Last(r) = r[N] /\ Last(r) \in Pcs(p) /\ N \in 1 .. N
    BY <1>0, <1>1 DEF Last
  <1>3. r2 \in Seq(Pcs(p)) /\ Len(r2) = N - 1 /\ \A k \in 1 .. N - 1 : r2[k] = r[k]
    BY <1>0, <1>1 DEF Front
  <1>4. y2 \in Seq(e) /\ Len(y2) = N /\ \A k \in 1 .. N : y2[k] = y[k]
    BY <1>0, <1>1 DEF Front
  <1>5. y2 \in Chains(p, e)
    <2>1. Graph(p, e)
      BY ValidParts
    <2>2. Len(y) > 1
      BY <1>0, <1>1
    <2>3. PICK x \in Chains(p, e) : \E t \in e : y = Append(x, t)
      BY <1>0, <2>1, <2>2, ShorterChain
    <2>4. PICK t \in e : y = Append(x, t)
      BY <2>3
    <2>5. x \in Seq(e) /\ Len(x) \in Nat
      BY <2>1, ChainFacts
    <2>6. Len(y) = Len(x) + 1 /\ \A k \in 1 .. Len(x) : y[k] = x[k]
      BY <2>4, <2>5
    <2>7. Len(x) = N
      BY <1>0, <2>5, <2>6
    <2>8. \A k \in 1 .. N : y2[k] = x[k]
      BY <1>4, <2>6, <2>7
    <2>9. y2 = x
      <3> HIDE DEF y2
      <3> QED BY ONLY <1>4, <2>5, <2>7, <2>8, SeqEqual
    <2> QED BY <2>9
  <1>6. d \in [pc : Pcs(p), ret : Seq(Pcs(p)), entry : Seq(e)] /\ d.pc = Last(r) /\ d.ret = r2 /\ d.entry = y2
    BY <1>2, <1>3, <1>4
  <1> HIDE DEF d, y2, r2
  <1>7. At(p, d.pc).op # "second" /\ SubStart(e, d.pc) = y2[N]
    BY <1>0, <1>2, <1>4, <1>6
  <1>8. \A k \in 1 .. N - 1 : k \in 1 .. N /\ At(p, r2[k]).op # "second" /\ SubStart(e, r2[k]) = y2[k]
    <2>1. \A k \in 1 .. N - 1 : k \in 1 .. N
      BY <1>0
    <2> QED BY <1>0, <1>3, <1>4, <2>1
  <1>9. Len(y2) = Len(r2) + 1
    BY <1>0, <1>3, <1>4
  <1>10. d \in Runs(p, e)
    BY <1>3, <1>4, <1>5, <1>6, <1>7, <1>8, <1>9 DEF Runs
  <1> QED BY <1>10 DEF d, y2, r2, r, y

LEMMA StepsInside ==
    ASSUME NEW p, NEW e, Valid(p, e), NEW c \in Runs(p, e)
    PROVE  Steps(p, c) \subseteq Runs(p, e)
  <1> DEFINE q == c.pc
             o == At(p, q).op
             to(t) == [pc |-> t, ret |-> c.ret, entry |-> c.entry]
  <1>0. /\ q \in Pcs(p) /\ o # "second" /\ c \in [pc : Pcs(p), ret : Seq(Pcs(p)), entry : Seq(e)]
        /\ p \in Seq(Insns) /\ Paired(p)
    BY ValidParts DEF Runs
  <1>a. q \in Nat
    BY <1>0, PcFacts
  <1>1. \A t \in Pcs(p) : At(p, t).op # "second" /\ SubStart(e, t) = SubStart(e, q) => to(t) \in Runs(p, e)
    BY MovesInside
  <1>2. ASSUME q + 1 \in Succ(p, e, q), o \notin Wide PROVE to(q + 1) \in Runs(p, e)
    <2> DEFINE x == q + 1
    <2>1. x \in Pcs(p) /\ SubStart(e, x) = SubStart(e, q) /\ x - 1 = q
      BY <1>0, <1>a, <1>2, FallsInside
    <2> HIDE DEF x, q
    <2>2. At(p, x).op # "second"
      BY <1>0, <1>2, <2>1 DEF Paired
    <2> QED BY <1>1, <2>1, <2>2 DEF x
  <1>3. CASE o = "exit" /\ c.ret = <<>>
    BY <1>0, <1>3, StepsByKind
  <1>4. CASE o = "exit" /\ c.ret # <<>>
    <2>1. Steps(p, c) = {[pc |-> Last(c.ret), ret |-> Front(c.ret), entry |-> Front(c.entry)]}
      BY <1>0, <1>4, StepsByKind
    <2> QED BY <1>4, <2>1, ReturnBack
  <1>5. CASE o = "callsub"
    <2>1. Steps(p, c) = {[pc |-> Target(p, c.pc), ret |-> Append(c.ret, c.pc + 1),
                          entry |-> Append(c.entry, Target(p, c.pc))]}
      BY <1>0, <1>5, StepsByKind
    <2> QED BY <1>5, <2>1, CallsInside
  <1>6. CASE o = "ja"
    <2>1. Steps(p, c) = {to(Target(p, q))}
      BY <1>0, <1>6, StepsByKind
    <2>2. to(Target(p, q)) \in Runs(p, e)
      BY <1>0, <1>1, <1>6, JumpsInside
    <2> QED BY <2>1, <2>2
  <1>7. CASE o \in Conditional
    <2>1. Steps(p, c) = {to(Target(p, q)), to(q + 1)}
      BY <1>0, <1>7, StepsByKind
    <2>2. to(Target(p, q)) \in Runs(p, e)
      BY <1>0, <1>1, <1>7, JumpsInside
    <2>3. to(q + 1) \in Runs(p, e)
      <3>1. q + 1 \in Succ(p, e, q)
        BY <1>7, SuccByKind
      <3>2. o \notin Wide
        BY <1>7 DEF Conditional, Wide
      <3> QED BY <1>2, <3>1, <3>2
    <2> QED BY <2>1, <2>2, <2>3
  <1>8. CASE o \in Wide
    <2> DEFINE x == q + 1
               z == x + 1
    <2>1. Steps(p, c) = {to(q + 2)} /\ q + 2 = z
      BY <1>0, <1>a, <1>8, StepsByKind
    <2>2. x \in Succ(p, e, q)
      <3>1. o \notin Conditional \cup {"exit", "ja", "callsub"}
        BY <1>8 DEF Wide, Conditional
      <3> QED BY <3>1, SuccByKind
    <2>3. x \in Pcs(p) /\ SubStart(e, x) = SubStart(e, q) /\ At(p, x).op = "second"
      BY <1>0, <1>8, <2>2, FallsInside DEF Paired
    <2>4. x \in Nat
      BY <1>a
    <2> HIDE DEF x
    <2>5. z \in Succ(p, e, x)
      BY <2>3, SuccByKind DEF Conditional
    <2>6. z \in Pcs(p) /\ SubStart(e, z) = SubStart(e, x) /\ z - 1 = x
      BY <2>3, <2>4, <2>5, FallsInside
    <2> HIDE DEF z
    <2>7. At(p, z).op # "second"
      BY <1>0, <2>3, <2>6 DEF Paired, Wide
    <2>8. to(z) \in Runs(p, e)
      BY <1>1, <2>3, <2>6, <2>7
    <2> QED BY <2>1, <2>8
  <1>9. CASE o \notin Conditional \cup Wide \cup {"exit", "callsub", "ja"}
    <2>1. Steps(p, c) = {to(q + 1)}
      BY <1>0, <1>9, StepsByKind
    <2>2. q + 1 \in Succ(p, e, q)
      BY <1>9, SuccByKind
    <2>3. to(q + 1) \in Runs(p, e)
      BY <1>2, <1>9, <2>2
    <2> QED BY <2>1, <2>3
  <1> HIDE DEF o
  <1> QED BY <1>3, <1>4, <1>5, <1>6, <1>7, <1>8, <1>9

-----------------------------------------------------------------------------
(* The stack of a call chain.                                               *)

\* Finitely many numbers have a greatest one.
LEMMA GreatestValue ==
    ASSUME NEW N \in Nat, NEW Q \in SUBSET (0 .. N), Q # {}, NEW g \in [0 .. N -> Int]
    PROVE  \E m \in Q : \A q \in Q : g[q] <= g[m]
  <1> DEFINE Upto(n) == {q \in Q : q <= n}
             Top1(n) == \E m \in Upto(n) : \A q \in Upto(n) : g[q] <= g[m]
             Bad == {n \in 0 .. N : Upto(n) # {} /\ ~Top1(n)}
  <1>0. \A q \in Q : q \in Nat /\ q <= N
    OBVIOUS
  <1>1. Bad = {}
    <2> SUFFICES ASSUME Bad # {} PROVE FALSE
      OBVIOUS
    <2>1. PICK n \in Bad : \A k \in Bad : n <= k
      <3>1. Bad \in SUBSET Nat
        OBVIOUS
      <3> HIDE DEF Bad
      <3> QED BY <3>1, LeastNat
    <2>2. n \in 0 .. N /\ n \in Nat
      BY <2>1
    <2>3. Upto(n) # {} /\ ~Top1(n)
      BY <2>1
    <2>4. CASE n \notin Q
      <3>1. n # 0
        <4>1. ASSUME n = 0, NEW q \in Q, q <= n PROVE FALSE
          BY <1>0, <2>4, <4>1
        <4> QED BY <2>3, <4>1
      <3>2. n - 1 \in 0 .. N /\ ~(n <= n - 1)
        BY <2>2, <3>1
      <3>3. n - 1 \notin Bad
        <4> HIDE DEF Bad
        <4> QED BY <2>1, <3>2
      <3>4. Upto(n - 1) = Upto(n)
        <4>1. ASSUME NEW q \in Q PROVE q <= n - 1 <=> q <= n
          BY <1>0, <2>2, <2>4
        <4> QED BY <4>1
      <3> QED BY <2>3, <3>2, <3>3, <3>4
    <2>5. CASE n \in Q
      <3>1. CASE \A q \in Upto(n) : g[q] <= g[n]
        <4>1. n \in Upto(n)
          BY <2>2, <2>5
        <4> HIDE DEF Upto
        <4> QED BY <2>3, <3>1, <4>1
      <3>2. CASE ~ \A q \in Upto(n) : g[q] <= g[n]
        <4>1. PICK x \in Upto(n) : ~(g[x] <= g[n])
          BY <3>2
        <4>2. x \in Q /\ x \in 0 .. N /\ x # n /\ x <= n /\ g[x] \in Int /\ g[n] \in Int
          BY <2>2, <4>1
        <4>3. n - 1 \in 0 .. N /\ ~(n <= n - 1) /\ x \in Upto(n - 1)
          BY <2>2, <4>2
        <4>4. n - 1 \notin Bad
          <5> HIDE DEF Bad
          <5> QED BY <2>1, <4>3
        <4>5. Top1(n - 1)
          <5>1. Upto(n - 1) # {}
            BY <4>3
          <5> HIDE DEF Upto, Top1
          <5> QED BY <4>3, <4>4, <5>1
        <4>6. PICK m \in Upto(n - 1) : \A q \in Upto(n - 1) : g[q] <= g[m]
          BY <4>5
        <4>7. m \in Upto(n) /\ g[m] \in Int /\ g[x] <= g[m]
          BY <2>2, <4>3, <4>6
        <4>8. ASSUME NEW q \in Upto(n) PROVE g[q] <= g[m]
          <5>1. CASE q = n
            BY <4>1, <4>2, <4>7, <5>1, SMTT(30)
          <5>2. CASE q # n
            <6>1. q \in Upto(n - 1)
              BY <2>2, <5>2
            <6> HIDE DEF Upto
            <6> QED BY <4>6, <6>1
          <5> QED BY <5>1, <5>2
        <4> HIDE DEF Upto
        <4> QED BY <2>3, <4>7, <4>8
      <3> QED BY <3>1, <3>2
    <2> QED BY <2>4, <2>5
  <1>2. Upto(N) = Q /\ N \in 0 .. N
    <2>1. N \in 0 .. N
      OBVIOUS
    <2>2. Upto(N) = Q
      <3>1. \A q \in Q : q \in Upto(N)
        BY <1>0
      <3>2. \A q \in Upto(N) : q \in Q
        OBVIOUS
      <3> HIDE DEF Upto
      <3>3. \A q : q \in Upto(N) <=> q \in Q
        BY <3>1, <3>2
      <3> QED BY <3>3
    <2> QED BY <2>1, <2>2
  <1>3. Top1(N)
    BY <1>1, <1>2
  <1> QED BY <1>2, <1>3

LEMMA RoundsUp ==
    ASSUME NEW n \in Int
    PROVE  RoundUp8(n) \in Int /\ n <= RoundUp8(n)
  BY DEF RoundUp8

\* What direct_stack_depths charges an entry covers what its frame touches.
LEMMA DepthCovered ==
    ASSUME NEW p \in Seq(Insns), NEW e \in SUBSET Pcs(p), NEW s \in e
    PROVE  /\ FrameDepth(p, e, s) \in Int /\ direct_stack_depth(p, e, s) \in Int
           /\ FrameDepth(p, e, s) <= direct_stack_depth(p, e, s)
  <1> DEFINE Q == {q \in s .. SubEnd(p, e, s) - 1 :
                     \/ At(p, q).op \in {"st", "stx"} /\ At(p, q).dst = 10
                     \/ At(p, q).op = "ldx" /\ At(p, q).src = 10}
             N == Len(p)
             need(q) == -At(p, q).off
             paid(q) == RoundUp8(IF At(p, q).off > Access8 THEN 0 ELSE Access8 - At(p, q).off)
             A == {need(q) : q \in Q}
             B == {paid(q) : q \in Q}
  <1>1. FrameDepth(p, e, s) = IF A = {} THEN 0 ELSE CHOOSE m \in A : \A u \in A : u <= m
    BY DEF FrameDepth
  <1>2. direct_stack_depth(p, e, s) = IF B = {} THEN 0 ELSE CHOOSE m \in B : \A u \in B : u <= m
    BY DEF direct_stack_depth
  <1>3. s \in Pcs(p) /\ s \in Nat /\ N \in Nat /\ SubEnd(p, e, s) \in Nat /\ SubEnd(p, e, s) <= N
    BY PcFacts, SubEndFacts
  <1>4. \A q \in Q : q \in Pcs(p) /\ q \in 0 .. N
    BY <1>3 DEF Pcs
  <1> HIDE DEF Q
  <1>5. \A q \in Pcs(p) : need(q) \in Int /\ paid(q) \in Int /\ need(q) <= paid(q)
    <2> SUFFICES ASSUME NEW q \in Pcs(p) PROVE need(q) \in Int /\ paid(q) \in Int /\ need(q) <= paid(q)
      OBVIOUS
    <2> DEFINE o == At(p, q).off
               w == IF o > Access8 THEN 0 ELSE Access8 - o
    <2>1. At(p, q) \in Insns
      BY PcFacts
    <2>2. o \in Int
      BY <2>1 DEF Insns
    <2> HIDE DEF o
    <2>3. w \in Int /\ -o <= w
      BY <2>2 DEF Access8
    <2> HIDE DEF w
    <2>4. RoundUp8(w) \in Int /\ w <= RoundUp8(w) /\ -o \in Int
      BY <2>2, <2>3, RoundsUp
    <2>5. -o <= RoundUp8(w)
      BY <2>2, <2>3, <2>4
    <2> QED BY <2>4, <2>5 DEF o, w
  <1> HIDE DEF N, need, paid
  <1>6. CASE Q = {}
    <2>1. A = {} /\ B = {}
      BY <1>6
    <2> QED BY <1>1, <1>2, <2>1
  <1>7. CASE Q # {}
    <2> DEFINE f == [q \in 0 .. N |-> IF q \in Q THEN need(q) ELSE 0]
               g == [q \in 0 .. N |-> IF q \in Q THEN paid(q) ELSE 0]
    <2>1. f \in [0 .. N -> Int] /\ g \in [0 .. N -> Int] /\ Q \in SUBSET (0 .. N)
      BY <1>4, <1>5
    <2>2. \A q \in Q : f[q] = need(q) /\ g[q] = paid(q)
      BY <1>4
    <2> HIDE DEF f, g
    <2>3. PICK m \in Q : \A q \in Q : f[q] <= f[m]
      BY <1>3, <1>7, <2>1, GreatestValue
    <2>4. PICK x \in Q : \A q \in Q : g[q] <= g[x]
      BY <1>3, <1>7, <2>1, GreatestValue
    <2>5. need(m) \in A /\ \A u \in A : u <= need(m)
      BY <2>2, <2>3
    <2>6. paid(x) \in B /\ \A u \in B : u <= paid(x)
      BY <2>2, <2>4
    <2> DEFINE F == CHOOSE z \in A : \A u \in A : u <= z
               D == CHOOSE z \in B : \A u \in B : u <= z
    <2>7. F \in A
      BY <2>5
    <2>8. D \in B /\ \A u \in B : u <= D
      BY <2>6
    <2> HIDE DEF F, D
    <2>9. PICK q \in Q : F = need(q)
      BY <2>7
    <2>10. paid(q) <= D
      BY <2>8
    <2>11. D \in Int
      BY <1>4, <1>5, <2>8
    <2>12. F \in Int /\ F <= D
      <3>1. need(q) \in Int /\ paid(q) \in Int /\ need(q) <= paid(q)
        BY <1>4, <1>5
      <3> QED BY <2>9, <2>10, <2>11, <3>1
    <2>13. FrameDepth(p, e, s) = F /\ direct_stack_depth(p, e, s) = D
      BY <1>1, <1>2, <2>5, <2>6 DEF F, D
    <2> QED BY <2>11, <2>12, <2>13
  <1> QED BY <1>6, <1>7

\* So does what it charges a call chain.
LEMMA StackCovered ==
    ASSUME NEW p \in Seq(Insns), NEW e \in SUBSET Pcs(p), NEW c \in Seq(e)
    PROVE  /\ FrameStack(p, e, c) \in Int /\ ChainStack(p, e, c) \in Int
           /\ FrameStack(p, e, c) <= ChainStack(p, e, c)
  <1> DEFINE N == Len(c)
             IsF(f) == f = [n \in 0 .. N |-> IF n = 0 THEN 0 ELSE f[n - 1] + FrameDepth(p, e, c[n])]
             IsD(f) == f = [n \in 0 .. N |-> IF n = 0 THEN 0 ELSE f[n - 1] + direct_stack_depth(p, e, c[n])]
             F == CHOOSE f : IsF(f)
             D == CHOOSE f : IsD(f)
             a == [x \in Int \X (1 .. N) |-> x[1] + FrameDepth(p, e, c[x[2]])]
             b == [x \in Int \X (1 .. N) |-> x[1] + direct_stack_depth(p, e, c[x[2]])]
  <1>0. N \in Nat /\ \A n \in 1 .. N : c[n] \in e
    OBVIOUS
  <1>1. FrameStack(p, e, c) = F[N] /\ ChainStack(p, e, c) = D[N]
    BY DEF FrameStack, ChainStack
  <1> HIDE DEF N
  <1>2. \A n \in 1 .. N : /\ FrameDepth(p, e, c[n]) \in Int /\ direct_stack_depth(p, e, c[n]) \in Int
                          /\ FrameDepth(p, e, c[n]) <= direct_stack_depth(p, e, c[n])
    BY <1>0, DepthCovered
  <1>3. a \in [Int \X (1 .. N) -> Int] /\ b \in [Int \X (1 .. N) -> Int]
    BY <1>2, SMTT(30)
  <1>4. \A v \in Int, n \in 1 .. N : a[<<v, n>>] = v + FrameDepth(p, e, c[n])
    OBVIOUS
  <1>5. \A v \in Int, n \in 1 .. N : b[<<v, n>>] = v + direct_stack_depth(p, e, c[n])
    OBVIOUS
  <1> HIDE DEF a, b
  <1>6. PICK f \in [0 .. N -> Int] : Iterated(f, 0, a, N)
    <2>1. 0 \in Int
      OBVIOUS
    <2> QED BY <1>0, <1>3, <2>1, IterateExists
  <1>7. PICK d \in [0 .. N -> Int] : Iterated(d, 0, b, N)
    <2>1. 0 \in Int
      OBVIOUS
    <2> QED BY <1>0, <1>3, <2>1, IterateExists
  <1>8. IsF(f)
    <2> SUFFICES ASSUME NEW n \in 0 .. N PROVE f[n] = IF n = 0 THEN 0 ELSE f[n - 1] + FrameDepth(p, e, c[n])
      OBVIOUS
    <2>1. n # 0 => n \in 1 .. N /\ n - 1 \in 0 .. N
      BY <1>0
    <2> QED BY <1>4, <1>6, <2>1 DEF Iterated
  <1>9. IsD(d)
    <2> SUFFICES ASSUME NEW n \in 0 .. N PROVE d[n] = IF n = 0 THEN 0 ELSE d[n - 1] + direct_stack_depth(p, e, c[n])
      OBVIOUS
    <2>1. n # 0 => n \in 1 .. N /\ n - 1 \in 0 .. N
      BY <1>0
    <2> QED BY <1>5, <1>7, <2>1 DEF Iterated
  <1>10. IsF(F) /\ IsD(D)
    BY <1>8, <1>9
  <1> HIDE DEF F, D
  <1> DEFINE Bad == {n \in 0 .. N : ~(F[n] \in Int /\ D[n] \in Int /\ F[n] <= D[n])}
  <1>11. Bad = {}
    <2> SUFFICES ASSUME Bad # {} PROVE FALSE
      OBVIOUS
    <2>1. PICK n \in Bad : \A k \in Bad : n <= k
      <3>1. Bad \in SUBSET Nat
        BY <1>0
      <3> HIDE DEF Bad
      <3> QED BY <3>1, LeastNat
    <2>2. n \in 0 .. N
      BY <2>1
    <2>3. CASE n = 0
      <3>1. F[0] = 0 /\ D[0] = 0
        BY <1>10, <2>2, <2>3
      <3> QED BY <2>1, <2>3, <3>1
    <2>4. CASE n # 0
      <3>1. n \in 1 .. N /\ n - 1 \in 0 .. N /\ ~(n <= n - 1)
        BY <1>0, <2>2, <2>4
      <3>2. n - 1 \notin Bad
        <4> HIDE DEF Bad
        <4> QED BY <2>1, <3>1
      <3>3. F[n - 1] \in Int /\ D[n - 1] \in Int /\ F[n - 1] <= D[n - 1]
        BY <3>1, <3>2
      <3>4. F[n] = F[n - 1] + FrameDepth(p, e, c[n])
        BY <1>10, <2>2, <2>4
      <3>5. D[n] = D[n - 1] + direct_stack_depth(p, e, c[n])
        BY <1>10, <2>2, <2>4
      <3>6. F[n] \in Int /\ D[n] \in Int /\ F[n] <= D[n]
        BY <1>2, <3>1, <3>3, <3>4, <3>5, SMTT(30)
      <3> QED BY <2>1, <3>6
    <2> QED BY <2>3, <2>4
  <1>12. N \in 0 .. N
    BY <1>0
  <1> QED BY <1>1, <1>11, <1>12

-----------------------------------------------------------------------------
(* The configurations executions reach.                                     *)

LEMMA FirstInside ==
    ASSUME NEW p, NEW e, Valid(p, e)
    PROVE  [pc |-> 0, ret |-> <<>>, entry |-> <<0>>] \in Runs(p, e)
  <1> DEFINE d == [pc |-> 0, ret |-> <<>>, entry |-> <<0>>]
  <1>1. 0 \in e /\ Graph(p, e)
    BY ValidParts
  <1>2. 0 \in Pcs(p) /\ SubStart(e, 0) = 0 /\ At(p, 0).op # "second"
    BY <1>1, EntriesWhole
  <1>3. <<0>> \in Chains(p, e) /\ <<0>> \in Seq(e)
    BY <1>1, ChainFacts
  <1>4. <<>> \in Seq(Pcs(p))
    BY EmptySeq
  <1>5. d \in [pc : Pcs(p), ret : Seq(Pcs(p)), entry : Seq(e)] /\ d.pc = 0 /\ d.ret = <<>> /\ d.entry = <<0>>
    BY <1>2, <1>3, <1>4
  <1>6. Len(<<0>>) = 1 /\ Len(<<>>) = 0 /\ <<0>>[1] = 0 /\ 1 .. 0 = {}
    OBVIOUS
  <1> HIDE DEF d
  <1>7. d \in Runs(p, e)
    <2> DEFINE y == <<0>>
               r == <<>>
    <2>1. /\ d \in [pc : Pcs(p), ret : Seq(Pcs(p)), entry : Seq(e)] /\ d.pc = 0 /\ d.ret = r /\ d.entry = y
          /\ y \in Chains(p, e) /\ Len(y) = 1 /\ Len(r) = 0 /\ y[1] = 0
      BY <1>3, <1>5, <1>6
    <2> HIDE DEF y, r
    <2>2. Len(y) = Len(r) + 1 /\ SubStart(e, d.pc) = y[Len(y)] /\ At(p, d.pc).op # "second"
      BY <1>2, <2>1
    <2>3. \A k \in 1 .. Len(r) : FALSE
      BY <2>1
    <2> QED BY <2>1, <2>2, <2>3 DEF Runs
  <1> QED BY <1>7 DEF d

LEMMA ConfigsInside ==
    ASSUME NEW p, NEW e, Valid(p, e)
    PROVE  Configs(p) \subseteq Runs(p, e)
  <1> DEFINE N == Len(p) * (MaxCallFrames + 1)
             S == SUBSET Runs(p, e)
             a == {[pc |-> 0, ret |-> <<>>, entry |-> <<0>>]}
             inside(c) == c.pc \in Pcs(p) /\ Len(c.entry) <= MaxCallFrames
             A(X) == X \cup UNION {Steps(p, c) : c \in {d \in X : inside(d)}}
             Is(f) == f = [n \in 0 .. N |-> IF n = 0 THEN a ELSE A(f[n - 1])]
             G == CHOOSE f : Is(f)
             g == [x \in S \X (1 .. N) |-> A(x[1])]
  <1>1. Configs(p) = G[N]
    BY DEF Configs
  <1>2. N \in Nat
    <2>1. Len(p) \in Nat
      BY ValidParts, PcFacts
    <2> QED BY <2>1, BoundsAssumption
  <1>3. a \in S
    BY FirstInside
  <1>4. \A X \in S : A(X) \in S
    BY StepsInside
  <1> HIDE DEF N, S, a, A
  <1>5. g \in [S \X (1 .. N) -> S] /\ \A X \in S, k \in 1 .. N : g[<<X, k>>] = A(X)
    BY <1>4
  <1> HIDE DEF g
  <1>6. PICK f \in [0 .. N -> S] : Iterated(f, a, g, N)
    BY <1>2, <1>3, <1>5, IterateExists
  <1>7. Is(f)
    <2> SUFFICES ASSUME NEW m \in 0 .. N PROVE f[m] = IF m = 0 THEN a ELSE A(f[m - 1])
      OBVIOUS
    <2>1. m # 0 => m \in 1 .. N /\ m - 1 \in 0 .. N
      BY <1>2
    <2> QED BY <1>5, <1>6, <2>1 DEF Iterated
  <1>8. Is(G)
    BY <1>7
  <1> HIDE DEF G
  <1> DEFINE Bad == {k \in 0 .. N : G[k] \notin S}
  <1>9. Bad = {}
    <2> SUFFICES ASSUME Bad # {} PROVE FALSE
      OBVIOUS
    <2>1. PICK k \in Bad : \A j \in Bad : k <= j
      <3>1. Bad \in SUBSET Nat
        BY <1>2
      <3> HIDE DEF Bad
      <3> QED BY <3>1, LeastNat
    <2>2. k \in 0 .. N /\ G[k] = IF k = 0 THEN a ELSE A(G[k - 1])
      BY <1>8, <2>1
    <2>3. k # 0
      BY <1>3, <2>1, <2>2
    <2>4. k - 1 \in 0 .. N /\ ~(k <= k - 1)
      BY <1>2, <2>2, <2>3
    <2>5. k - 1 \notin Bad
      <3> HIDE DEF Bad
      <3> QED BY <2>1, <2>4
    <2> QED BY <1>4, <2>1, <2>2, <2>3, <2>4, <2>5
  <1>10. N \in 0 .. N
    BY <1>2
  <1>11. G[N] \in S
    BY <1>9, <1>10
  <1> QED BY <1>1, <1>11 DEF S

\* No execution of an accepted program leaves it, runs half of an ldimm64,
\* changes its subprogram without a call, or calls deeper than the check of
\* the call chains allows, in frames or in bytes (cfg.rs check_cfg and
\* check_combined_stack_depth), for every program and bound.
THEOREM StaysInside == Spec => []AcceptedStaysInside
  <1>1. Base /\ DecodeInv /\ SearchInv => AcceptedStaysInside
    <2> SUFFICES ASSUME Base, DecodeInv, SearchInv, phase = "accept", NEW c \in Configs(insns)
                 PROVE  /\ c.pc \in Pcs(insns)
                        /\ At(insns, c.pc).op # "second"
                        /\ SubStart(subprogs, c.pc) = Last(c.entry)
                        /\ Len(c.entry) <= MaxCallFrames
                        /\ Len(c.entry) > 1 => FrameStack(insns, subprogs, c.entry) <= StackSize
      BY DEF AcceptedStaysInside
    <2> DEFINE y == c.entry
    <2>1. Valid(insns, subprogs)
      BY AcceptedValid
    <2>2. c \in Runs(insns, subprogs)
      BY <2>1, ConfigsInside
    <2>3. /\ c.pc \in Pcs(insns) /\ At(insns, c.pc).op # "second" /\ y \in Seq(subprogs)
          /\ y \in Chains(insns, subprogs) /\ SubStart(subprogs, c.pc) = y[Len(y)]
      BY <2>2 DEF Runs
    <2> HIDE DEF y
    <2>4. Last(y) = y[Len(y)] /\ Len(y) \in Nat
      BY <2>3 DEF Last
    <2>5. /\ insns \in Seq(Insns) /\ subprogs \in SUBSET Pcs(insns)
          /\ check_stack_call_chains(insns, subprogs)
      BY <2>1, ValidParts
    <2>6. Len(y) > 1 => Len(y) <= MaxCallFrames /\ ChainStack(insns, subprogs, y) <= StackSize
      BY <2>3, <2>5 DEF check_stack_call_chains
    <2>7. Len(y) <= MaxCallFrames
      BY <2>4, <2>6, BoundsAssumption
    <2>8. ASSUME Len(y) > 1 PROVE FrameStack(insns, subprogs, y) <= StackSize
      <3>1. /\ FrameStack(insns, subprogs, y) \in Int /\ ChainStack(insns, subprogs, y) \in Int
            /\ FrameStack(insns, subprogs, y) <= ChainStack(insns, subprogs, y)
        BY <2>3, <2>5, StackCovered
      <3>2. ChainStack(insns, subprogs, y) <= StackSize /\ StackSize \in Nat
        BY <2>6, <2>8, BoundsAssumption
      <3> QED BY <3>1, <3>2
    <2> QED BY <2>3, <2>4, <2>7, <2>8 DEF y
  <1>2. Init => Base /\ DecodeInv /\ SearchInv
    BY InitBase, InitDecode, InitSearch
  <1>3. Base /\ DecodeInv /\ SearchInv /\ [Next]_vars => (Base /\ DecodeInv /\ SearchInv)'
    BY BaseStep, DecodeStep, SearchStep
  <1> QED BY <1>1, <1>2, <1>3, PTL DEF Spec

-----------------------------------------------------------------------------
(* Dead code.                                                               *)

\* Growing sets that only stop at D reach it in as many steps as D has
\* elements.
LEMMA GrowsToAll ==
    ASSUME NEW D, IsFiniteSet(D), NEW B \in Nat, Cardinality(D) <= B, NEW C,
           \A m \in 0 .. B : C[m] \in SUBSET D,
           \A m \in 1 .. B : C[m - 1] \subseteq C[m] /\ (C[m - 1] = C[m] => C[m - 1] = D)
    PROVE  C[B] = D
  <1> DEFINE N == Cardinality(D)
  <1>1. N \in Nat /\ N <= B
    BY FS_CardinalityType
  <1>2. \A m \in 0 .. B : IsFiniteSet(C[m]) /\ Cardinality(C[m]) \in Nat /\ Cardinality(C[m]) <= N
                          /\ \A Q \in SUBSET C[m] : Cardinality(Q) <= Cardinality(C[m])
                                                    /\ (Cardinality(Q) = Cardinality(C[m]) => Q = C[m])
    BY FS_Subset, FS_CardinalityType
  <1>3. \A Q \in SUBSET D : Cardinality(Q) = N => Q = D
    BY FS_Subset
  <1> HIDE DEF N
  <1>4. ASSUME NEW m \in 0 .. B, C[m] = D PROVE C[B] = D
    <2> DEFINE Off == {k \in m .. B : C[k] # D}
    <2>1. SUFFICES ASSUME Off # {} PROVE FALSE
      <3>1. B \in m .. B
        OBVIOUS
      <3> QED BY <2>1, <3>1
    <2>2. PICK k \in Off : \A i \in Off : k <= i
      <3>1. Off \in SUBSET Nat
        OBVIOUS
      <3> HIDE DEF Off
      <3> QED BY <2>1, <3>1, LeastNat
    <2>3. k \in m .. B /\ k # m
      BY <1>4, <2>2
    <2>4. k \in 1 .. B /\ k \in 0 .. B /\ k - 1 \in m .. B /\ ~(k <= k - 1)
      BY <2>3
    <2>5. k - 1 \notin Off
      <3> HIDE DEF Off
      <3> QED BY <2>2, <2>4
    <2>6. C[k - 1] = D /\ C[k - 1] \subseteq C[k] /\ C[k] \in SUBSET D
      BY <2>4, <2>5
    <2> QED BY <2>2, <2>6
  <1> DEFINE Bad == {n \in 0 .. N : Cardinality(C[n]) < n}
  <1>5. CASE Bad = {}
    <2>1. N \in 0 .. N /\ N \in 0 .. B
      BY <1>1
    <2>2. ~(Cardinality(C[N]) < N)
      BY <1>5, <2>1
    <2>3. Cardinality(C[N]) = N
      BY <1>1, <1>2, <2>1, <2>2
    <2>4. C[N] = D
      BY <1>3, <2>1, <2>3
    <2> QED BY <1>4, <2>1, <2>4
  <1>6. CASE Bad # {}
    <2>1. PICK n \in Bad : \A i \in Bad : n <= i
      <3>1. Bad \in SUBSET Nat
        BY <1>1
      <3> HIDE DEF Bad
      <3> QED BY <1>6, <3>1, LeastNat
    <2>2. n \in 0 .. N /\ n \in 0 .. B /\ Cardinality(C[n]) < n
      BY <1>1, <2>1
    <2>3. Cardinality(C[n]) \in Nat
      BY <1>2, <2>2
    <2>4. n \in 1 .. B /\ n - 1 \in 0 .. N /\ n - 1 \in 0 .. B /\ ~(n <= n - 1)
      BY <1>1, <2>2, <2>3
    <2>5. n - 1 \notin Bad
      <3> HIDE DEF Bad
      <3> QED BY <2>1, <2>4
    <2>6. ~(Cardinality(C[n - 1]) < n - 1)
      BY <2>4, <2>5
    <2>7. C[n - 1] \in SUBSET C[n]
      BY <2>4
    <2>8. Cardinality(C[n - 1]) <= Cardinality(C[n]) /\ Cardinality(C[n - 1]) \in Nat
          /\ (Cardinality(C[n - 1]) = Cardinality(C[n]) => C[n - 1] = C[n])
      BY <1>2, <2>2, <2>4, <2>7
    <2>9. Cardinality(C[n - 1]) = Cardinality(C[n])
      BY <2>2, <2>3, <2>6, <2>8
    <2>10. C[n - 1] = D
      BY <2>4, <2>8, <2>9
    <2> QED BY <1>4, <2>4, <2>10
  <1> QED BY <1>5, <1>6

\* The condition of the property: with one call site for each subprogram but
\* the main one, no two calls have the same target.
Once(p) == \A a, b \in CallSites(p) : Target(p, a) = Target(p, b) => a = b

LEMMA CallsOnce ==
    ASSUME NEW p \in Seq(Insns), Cardinality(CallSites(p)) = Cardinality(Entries(p)) - 1
    PROVE  Once(p)
  <1> DEFINE S == CallSites(p)
  <1>0. IsFiniteSet(S)
    <2>1. 0 \in Int /\ Len(p) - 1 \in Int
      BY PcFacts
    <2>2. IsFiniteSet(Pcs(p))
      BY ONLY <2>1, FS_Interval DEF Pcs
    <2>3. S \in SUBSET Pcs(p)
      BY DEF CallSites
    <2> QED BY <2>2, <2>3, FS_Subset
  <1> SUFFICES ASSUME NEW a \in S, NEW b \in S, Target(p, a) = Target(p, b), a # b PROVE FALSE
    BY DEF Once
  <1> DEFINE X == S \ {b}
             f == [q \in X |-> Target(p, q)]
             Y == {Target(p, q) : q \in X}
  <1>1. Entries(p) = Y \cup {0}
    <2>1. \A q \in S : Target(p, q) \in Y
      <3> SUFFICES ASSUME NEW q \in S PROVE Target(p, q) \in Y
        OBVIOUS
      <3>1. CASE q = b
        BY <3>1
      <3>2. CASE q # b
        BY <3>2
      <3> QED BY <3>1, <3>2
    <2>2. \A y \in Y : \E q \in S : y = Target(p, q)
      OBVIOUS
    <2> HIDE DEF Y
    <2> QED BY <2>1, <2>2 DEF Entries
  <1>2. f \in Surjection(X, Y)
    BY DEF Surjection
  <1> HIDE DEF f, Y
  <1>3. IsFiniteSet(X) /\ Cardinality(X) = Cardinality(S) - 1 /\ Cardinality(S) \in Nat
    <2> HIDE DEF S
    <2> QED BY <1>0, FS_RemoveElement, FS_CardinalityType
  <1> HIDE DEF X
  <1>4. IsFiniteSet(Y) /\ Cardinality(Y) <= Cardinality(X)
    BY <1>2, <1>3, FS_Surjection
  <1>5. Cardinality(Y) \in Nat /\ Cardinality(Y \cup {0}) = IF 0 \in Y THEN Cardinality(Y) ELSE Cardinality(Y) + 1
    BY <1>4, FS_AddElement, FS_CardinalityType
  <1>6. Cardinality(Y \cup {0}) <= Cardinality(S)
    BY <1>3, <1>4, <1>5
  <1>7. Cardinality(S) = Cardinality(Y \cup {0}) - 1 /\ Cardinality(Y \cup {0}) \in Nat
    BY <1>1, <1>5
  <1> QED BY <1>3, <1>6, <1>7

\* Every return address is behind the call that entered the frame above it.
Called(p, c) ==
    \A k \in 1 .. Len(c.ret) : \E q \in CallSites(p) : c.ret[k] = q + 1 /\ Target(p, q) = c.entry[k + 1]

LEMMA CalledSteps ==
    ASSUME NEW p, NEW e, Valid(p, e), NEW c \in Runs(p, e), Called(p, c), NEW d \in Steps(p, c)
    PROVE  Called(p, d)
  <1> DEFINE q == c.pc
             o == At(p, q).op
             r == c.ret
             y == c.entry
             N == Len(r)
             to(t) == [pc |-> t, ret |-> r, entry |-> y]
  <1>0. /\ q \in Pcs(p) /\ r \in Seq(Pcs(p)) /\ y \in Seq(e) /\ Len(y) = N + 1 /\ N \in Nat
        /\ c \in [pc : Pcs(p), ret : Seq(Pcs(p)), entry : Seq(e)]
    BY DEF Runs
  <1>1. \A k \in 1 .. N : \E x \in CallSites(p) : r[k] = x + 1 /\ Target(p, x) = y[k + 1]
    BY DEF Called
  <1>2. \A t : Called(p, to(t))
    BY <1>1 DEF Called
  <1>3. CASE o = "exit" /\ c.ret = <<>>
    BY <1>0, <1>3, StepsByKind
  <1>4. CASE o = "exit" /\ c.ret # <<>>
    <2> DEFINE r2 == Front(r)
               y2 == Front(y)
    <2>1. d.ret = r2 /\ d.entry = y2
      BY <1>0, <1>4, StepsByKind
    <2>2. r # <<>>
      BY <1>4
    <2> HIDE DEF r, y, N
    <2>3. Len(r) = N
      BY DEF N
    <2>4. Len(r2) = N - 1 /\ \A k \in 1 .. N - 1 : r2[k] = r[k]
      BY <1>0, <2>2, <2>3 DEF Front
    <2>5. \A k \in 1 .. N : y2[k] = y[k]
      BY <1>0 DEF Front
    <2> HIDE DEF r2, y2
    <2>6. ASSUME NEW k \in 1 .. N - 1
          PROVE  \E x \in CallSites(p) : r2[k] = x + 1 /\ Target(p, x) = y2[k + 1]
      <3>1. k \in 1 .. N /\ k + 1 \in 1 .. N
        BY <1>0
      <3> QED BY <1>1, <2>4, <2>5, <3>1
    <2> QED BY <2>1, <2>4, <2>6 DEF Called
  <1>5. CASE o = "callsub"
    <2> DEFINE t == Target(p, q)
               r2 == Append(r, q + 1)
               y2 == Append(y, t)
    <2>1. d.ret = r2 /\ d.entry = y2
      BY <1>0, <1>5, StepsByKind
    <2>2. q \in CallSites(p)
      BY <1>0, <1>5 DEF CallSites
    <2>3. q + 1 \in Pcs(p) /\ t \in e
      BY <1>0, <1>5, ReturnsInside, CalleesHere
    <2>a. Len(r) = N
      OBVIOUS
    <2> HIDE DEF r, y, N, q, t
    <2>4. Len(r2) = N + 1 /\ r2[N + 1] = q + 1 /\ \A k \in 1 .. N : r2[k] = r[k]
      BY <1>0, <2>3, <2>a
    <2>5. y2[N + 2] = t /\ \A k \in 1 .. N + 1 : y2[k] = y[k]
      BY <1>0, <2>3
    <2> HIDE DEF r2, y2
    <2>6. ASSUME NEW k \in 1 .. N + 1
          PROVE  \E x \in CallSites(p) : r2[k] = x + 1 /\ Target(p, x) = y2[k + 1]
      <3>1. CASE k = N + 1
        <4>1. k + 1 = N + 2
          BY <1>0, <3>1
        <4> QED BY <2>2, <2>4, <2>5, <3>1, <4>1 DEF t
      <3>2. CASE k # N + 1
        <4>1. k \in 1 .. N /\ k + 1 \in 1 .. N + 1
          BY <1>0, <3>2
        <4> QED BY <1>1, <2>4, <2>5, <4>1
      <3> QED BY <3>1, <3>2
    <2> QED BY <2>1, <2>4, <2>6 DEF Called
  <1>6. CASE o \notin {"exit", "callsub"}
    <2>1. \E t : d = to(t)
      <3>1. CASE o = "ja"
        BY <1>0, <3>1, StepsByKind
      <3>2. CASE o \in Conditional
        BY <1>0, <3>2, StepsByKind
      <3>3. CASE o \in Wide
        BY <1>0, <3>3, StepsByKind
      <3>4. CASE o \notin Conditional \cup Wide \cup {"exit", "callsub", "ja"}
        BY <1>0, <3>4, StepsByKind
      <3> HIDE DEF o
      <3> QED BY <1>6, <3>1, <3>2, <3>3, <3>4
    <2> QED BY <1>2, <2>1
  <1> HIDE DEF o
  <1> QED BY <1>3, <1>4, <1>5, <1>6

\* A frame outside the main program was called.
LEMMA ReturnWaits ==
    ASSUME NEW p, NEW e, Valid(p, e), NEW c \in Runs(p, e), SubStart(e, c.pc) # 0
    PROVE  c.ret # <<>>
  <1> DEFINE y == c.entry
             K == MaxCallFrames + 1
  <1>1. y \in Chains(p, e) /\ Len(y) = Len(c.ret) + 1 /\ SubStart(e, c.pc) = y[Len(y)]
    BY DEF Runs
  <1> HIDE DEF y
  <1>2. SUFFICES ASSUME c.ret = <<>> PROVE FALSE
    OBVIOUS
  <1>3. Len(y) = 1
    BY <1>1, <1>2
  <1>4. Graph(p, e)
    BY ValidParts
  <1>5. PICK L : Levels(p, e, L)
    BY <1>4, ChainLevels
  <1>6. PICK n \in 1 .. K : y \in L[n]
    BY <1>1, <1>5 DEF Levels
  <1>7. n = 1
    BY <1>3, <1>5, <1>6 DEF Levels
  <1>8. y = <<0>>
    BY <1>5, <1>6, <1>7 DEF Levels
  <1> QED BY <1>1, <1>3, <1>8

\* Each edge of the graph is a step: of every execution at its start, except
\* that a wide instruction skips its second half.
LEMMA EdgeIsStep ==
    ASSUME NEW p, NEW e, Valid(p, e), Once(p), NEW c \in Runs(p, e), Called(p, c),
           NEW v \in Succ(p, e, c.pc)
    PROVE  \/ \E d \in Steps(p, c) : d.pc = v
           \/ At(p, v).op = "second" /\ c.pc = v - 1
  <1> DEFINE q == c.pc
             o == At(p, q).op
             to(t) == [pc |-> t, ret |-> c.ret, entry |-> c.entry]
  <1>0. /\ q \in Pcs(p) /\ c \in [pc : Pcs(p), ret : Seq(Pcs(p)), entry : Seq(e)]
        /\ p \in Seq(Insns) /\ Paired(p)
    BY ValidParts DEF Runs
  <1>a. q \in Nat
    BY <1>0, PcFacts
  <1>b. \A t : to(t).pc = t
    OBVIOUS
  <1>3. CASE o = "exit" /\ SubStart(e, q) = 0
    BY <1>3, SuccByKind
  <1>4. CASE o = "exit" /\ SubStart(e, q) # 0
    <2> DEFINE r == c.ret
               y == c.entry
               N == Len(r)
               s == SubStart(e, q)
    <2>1. r # <<>>
      BY <1>4, ReturnWaits
    <2>2. r \in Seq(Pcs(p)) /\ Len(y) = N + 1 /\ s = y[Len(y)]
      BY DEF Runs
    <2>3. N \in 1 .. N /\ N \in Nat /\ Last(r) = r[N]
      <3> HIDE DEF r
      <3> QED BY <2>1, <2>2 DEF Last
    <2>4. PICK x \in CallSites(p) : r[N] = x + 1 /\ Target(p, x) = y[N + 1]
      BY <2>3 DEF Called
    <2>5. Succ(p, e, q) = Range(Returns(p, s))
      BY <1>4, SuccByKind
    <2>6. v \in {z + 1 : z \in {w \in CallSites(p) : Target(p, w) = s}}
      BY <1>0, <2>5, ReturnFacts
    <2>7. PICK z \in CallSites(p) : v = z + 1 /\ Target(p, z) = s
      BY <2>6
    <2>8. z = x
      BY <2>2, <2>4, <2>7 DEF Once
    <2>9. Steps(p, c) = {[pc |-> Last(r), ret |-> Front(r), entry |-> Front(y)]}
      BY <1>0, <1>4, <2>1, StepsByKind
    <2> HIDE DEF r, y
    <2>10. [pc |-> Last(r), ret |-> Front(r), entry |-> Front(y)].pc = v
      BY <2>3, <2>4, <2>7, <2>8
    <2> QED BY <2>9, <2>10
  <1>5. CASE o = "callsub"
    <2> DEFINE d == [pc |-> Target(p, q), ret |-> Append(c.ret, q + 1), entry |-> Append(c.entry, Target(p, q))]
    <2>1. Steps(p, c) = {d} /\ d.pc = Target(p, q)
      BY <1>0, <1>5, StepsByKind
    <2>2. v = Target(p, q)
      BY <1>5, SuccByKind
    <2> HIDE DEF d
    <2> QED BY <2>1, <2>2
  <1>6. CASE o = "ja"
    <2>1. Steps(p, c) = {to(Target(p, q))}
      BY <1>0, <1>6, StepsByKind
    <2>2. v = Target(p, q)
      BY <1>6, SuccByKind
    <2> HIDE DEF to
    <2> QED BY <1>b, <2>1, <2>2
  <1>7. CASE o \in Conditional
    <2>1. Steps(p, c) = {to(Target(p, q)), to(q + 1)}
      BY <1>0, <1>7, StepsByKind
    <2>2. v = Target(p, q) \/ v = q + 1
      BY <1>7, SuccByKind
    <2> HIDE DEF to
    <2> QED BY <1>b, <2>1, <2>2
  <1>8. CASE o \in Wide
    <2>1. o \notin Conditional \cup {"exit", "ja", "callsub"}
      BY <1>8 DEF Wide, Conditional
    <2>2. v = q + 1
      BY <2>1, SuccByKind
    <2>3. At(p, q + 1).op = "second"
      BY <1>0, <1>8 DEF Paired
    <2>4. q = v - 1
      BY <1>a, <2>2
    <2> QED BY <2>2, <2>3, <2>4
  <1>9. CASE o \notin Conditional \cup Wide \cup {"exit", "callsub", "ja"}
    <2>1. Steps(p, c) = {to(q + 1)}
      BY <1>0, <1>9, StepsByKind
    <2>2. v = q + 1
      BY <1>9, SuccByKind
    <2> HIDE DEF to
    <2> QED BY <1>b, <2>1, <2>2
  <1> HIDE DEF o
  <1> QED BY <1>3, <1>4, <1>5, <1>6, <1>7, <1>8, <1>9

\* What follows the second half is the step of the first.
LEMMA HalfIsStep ==
    ASSUME NEW p, NEW e, Valid(p, e), NEW c \in Runs(p, e), NEW u \in Pcs(p), c.pc = u - 1,
           At(p, u).op = "second", NEW v \in Succ(p, e, u)
    PROVE  \E d \in Steps(p, c) : d.pc = v
  <1> DEFINE to(t) == [pc |-> t, ret |-> c.ret, entry |-> c.entry]
  <1>0. /\ c \in [pc : Pcs(p), ret : Seq(Pcs(p)), entry : Seq(e)] /\ p \in Seq(Insns) /\ Paired(p)
    BY ValidParts DEF Runs
  <1>1. u \in Nat
    BY <1>0, PcFacts
  <1>2. At(p, c.pc).op \in Wide
    BY <1>0 DEF Paired
  <1>3. Steps(p, c) = {to(c.pc + 2)}
    BY <1>0, <1>2, StepsByKind
  <1>4. v = u + 1
    BY SuccByKind DEF Conditional
  <1>5. c.pc + 2 = v
    BY <1>1, <1>4
  <1>6. to(c.pc + 2).pc = v
    BY <1>5
  <1> HIDE DEF to
  <1> QED BY <1>3, <1>6

\* One round of the executions, and the instructions a set of them is at.
Grown(p, X) ==
    X \cup UNION {Steps(p, c) : c \in {d \in X : d.pc \in Pcs(p) /\ Len(d.entry) <= MaxCallFrames}}
CalledRuns(p, e) == {c \in Runs(p, e) : Called(p, c)}
Covered(p, X) ==
    {v \in Pcs(p) : \/ \E c \in X : c.pc = v
                    \/ At(p, v).op = "second" /\ \E c \in X : c.pc = v - 1}

LEMMA GrownFacts ==
    ASSUME NEW p, NEW e, Valid(p, e), NEW X \in SUBSET CalledRuns(p, e)
    PROVE  /\ Grown(p, X) \in SUBSET CalledRuns(p, e) /\ X \subseteq Grown(p, X)
           /\ \A c \in X : Steps(p, c) \subseteq Grown(p, X)
  <1>1. ASSUME NEW c \in X PROVE c.pc \in Pcs(p) /\ Len(c.entry) <= MaxCallFrames
    <2> DEFINE y == c.entry
    <2>1. c.pc \in Pcs(p) /\ y \in Chains(p, e) /\ y \in Seq(e) /\ check_stack_call_chains(p, e)
      BY ValidParts DEF CalledRuns, Runs
    <2> HIDE DEF y
    <2>2. Len(y) \in Nat
      BY <2>1
    <2>3. Len(y) > 1 => Len(y) <= MaxCallFrames
      BY <2>1 DEF check_stack_call_chains
    <2>4. Len(y) <= MaxCallFrames
      BY <2>2, <2>3, BoundsAssumption
    <2> QED BY <2>1, <2>4 DEF y
  <1>2. ASSUME NEW c \in X PROVE Steps(p, c) \subseteq CalledRuns(p, e)
    BY StepsInside, CalledSteps DEF CalledRuns
  <1>3. X \subseteq Grown(p, X) /\ \A c \in X : Steps(p, c) \subseteq Grown(p, X)
    BY <1>1 DEF Grown
  <1>4. Grown(p, X) \subseteq CalledRuns(p, e)
    BY <1>2 DEF Grown
  <1> QED BY <1>3, <1>4

LEMMA CoverGrows ==
    ASSUME NEW p, NEW e, Valid(p, e), Once(p), NEW X \in SUBSET CalledRuns(p, e)
    PROVE  /\ Covered(p, X) \subseteq Covered(p, Grown(p, X))
           /\ \A u \in Covered(p, X) : Succ(p, e, u) \subseteq Covered(p, Grown(p, X))
  <1>1. X \subseteq Grown(p, X) /\ \A c \in X : Steps(p, c) \subseteq Grown(p, X)
    BY GrownFacts
  <1>2. Covered(p, X) \subseteq Covered(p, Grown(p, X))
    BY <1>1 DEF Covered
  <1>3. ASSUME NEW u \in Covered(p, X), NEW v \in Succ(p, e, u) PROVE v \in Covered(p, Grown(p, X))
    <2>1. u \in Pcs(p)
      BY DEF Covered
    <2>2. v \in Pcs(p)
      BY <2>1, GraphFacts DEF Valid
    <2>3. CASE \E c \in X : c.pc = u
      <3>1. PICK c \in X : c.pc = u
        BY <2>3
      <3>2. c \in Runs(p, e) /\ Called(p, c)
        BY DEF CalledRuns
      <3>3. \/ \E d \in Steps(p, c) : d.pc = v
            \/ At(p, v).op = "second" /\ c.pc = v - 1
        BY <3>1, <3>2, EdgeIsStep
      <3> QED BY <1>1, <2>2, <3>3 DEF Covered
    <2>4. CASE At(p, u).op = "second" /\ \E c \in X : c.pc = u - 1
      <3>1. PICK c \in X : c.pc = u - 1
        BY <2>4
      <3>2. c \in Runs(p, e)
        BY DEF CalledRuns
      <3>3. \E d \in Steps(p, c) : d.pc = v
        BY <2>1, <2>4, <3>1, <3>2, HalfIsStep
      <3> QED BY <1>1, <2>2, <3>3 DEF Covered
    <2> QED BY <2>3, <2>4 DEF Covered
  <1> QED BY <1>2, <1>3

\* The rounds Configs is computed by.
LEMMA ConfigRounds ==
    ASSUME NEW p, NEW e, Valid(p, e)
    PROVE  \E N \in Nat : \E G :
              /\ Len(p) <= N /\ Configs(p) = G[N]
              /\ G[0] = {[pc |-> 0, ret |-> <<>>, entry |-> <<0>>]}
              /\ \A m \in 1 .. N : G[m] = Grown(p, G[m - 1])
              /\ \A m \in 0 .. N : G[m] \in SUBSET CalledRuns(p, e)
  <1> DEFINE N == Len(p) * (MaxCallFrames + 1)
             S == SUBSET CalledRuns(p, e)
             a == {[pc |-> 0, ret |-> <<>>, entry |-> <<0>>]}
             inside(c) == c.pc \in Pcs(p) /\ Len(c.entry) <= MaxCallFrames
             A(X) == X \cup UNION {Steps(p, c) : c \in {d \in X : inside(d)}}
             Is(f) == f = [n \in 0 .. N |-> IF n = 0 THEN a ELSE A(f[n - 1])]
             G == CHOOSE f : Is(f)
             g == [x \in S \X (1 .. N) |-> A(x[1])]
  <1>1. Configs(p) = G[N]
    BY DEF Configs
  <1>2. N \in Nat /\ Len(p) <= N
    <2>1. Len(p) \in Nat
      BY ValidParts, PcFacts
    <2>2. MaxCallFrames \in Nat
      BY BoundsAssumption
    <2> DEFINE M == Len(p) * MaxCallFrames
    <2>3. M \in Nat /\ N = M + Len(p)
      BY <2>1, <2>2
    <2> HIDE DEF M, N
    <2> QED BY <2>1, <2>3
  <1>3. a \in S
    <2> DEFINE d == [pc |-> 0, ret |-> <<>>, entry |-> <<0>>]
    <2>1. d \in Runs(p, e) /\ d.ret = <<>>
      BY FirstInside
    <2>2. 1 .. Len(<<>>) = {}
      OBVIOUS
    <2> HIDE DEF d
    <2>3. d \in CalledRuns(p, e)
      BY <2>1, <2>2 DEF CalledRuns, Called
    <2> QED BY <2>3 DEF d
  <1>4. \A X : A(X) = Grown(p, X)
    BY DEF Grown
  <1>5. \A X \in S : A(X) \in S
    BY <1>4, GrownFacts
  <1> HIDE DEF N, S, a, A
  <1>6. g \in [S \X (1 .. N) -> S] /\ \A X \in S, k \in 1 .. N : g[<<X, k>>] = A(X)
    BY <1>5
  <1> HIDE DEF g
  <1>7. PICK f \in [0 .. N -> S] : Iterated(f, a, g, N)
    BY <1>2, <1>3, <1>6, IterateExists
  <1>8. Is(f)
    <2> SUFFICES ASSUME NEW m \in 0 .. N PROVE f[m] = IF m = 0 THEN a ELSE A(f[m - 1])
      OBVIOUS
    <2>1. m # 0 => m \in 1 .. N /\ m - 1 \in 0 .. N
      BY <1>2
    <2> QED BY <1>6, <1>7, <2>1 DEF Iterated
  <1>9. Is(G)
    BY <1>8
  <1> HIDE DEF G
  <1>10. G[0] = a
    <2>1. 0 \in 0 .. N
      BY <1>2
    <2> QED BY <1>9, <2>1
  <1>11. ASSUME NEW m \in 1 .. N PROVE G[m] = A(G[m - 1])
    <2>1. m \in 0 .. N /\ m # 0
      BY <1>2
    <2> QED BY <1>9, <2>1
  <1> DEFINE Bad == {k \in 0 .. N : G[k] \notin S}
  <1>12. Bad = {}
    <2> SUFFICES ASSUME Bad # {} PROVE FALSE
      OBVIOUS
    <2>1. PICK k \in Bad : \A j \in Bad : k <= j
      <3>1. Bad \in SUBSET Nat
        BY <1>2
      <3> HIDE DEF Bad
      <3> QED BY <3>1, LeastNat
    <2>2. k # 0
      BY <1>3, <1>10, <2>1
    <2>3. k \in 1 .. N /\ k - 1 \in 0 .. N /\ ~(k <= k - 1)
      BY <1>2, <2>1, <2>2
    <2>4. k - 1 \notin Bad
      <3> HIDE DEF Bad
      <3> QED BY <2>1, <2>3
    <2> QED BY <1>5, <1>11, <2>1, <2>3, <2>4
  <1>13. \A m \in 0 .. N : G[m] \in S
    BY <1>12
  <1>14. \A m \in 1 .. N : G[m] = Grown(p, G[m - 1])
    BY <1>4, <1>11
  <1> QED BY <1>1, <1>2, <1>10, <1>13, <1>14 DEF a, S

LEMMA AllCovered ==
    ASSUME NEW p, NEW e, Valid(p, e), Once(p),
           \A C \in SUBSET Pcs(p) : 0 \in C /\ Closed(p, e, C) => C = Pcs(p)
    PROVE  Covered(p, Configs(p)) = Pcs(p)
  <1>1. PICK N \in Nat : \E G :
              /\ Len(p) <= N /\ Configs(p) = G[N]
              /\ G[0] = {[pc |-> 0, ret |-> <<>>, entry |-> <<0>>]}
              /\ \A m \in 1 .. N : G[m] = Grown(p, G[m - 1])
              /\ \A m \in 0 .. N : G[m] \in SUBSET CalledRuns(p, e)
    BY ConfigRounds
  <1>2. PICK G :
              /\ Len(p) <= N /\ Configs(p) = G[N]
              /\ G[0] = {[pc |-> 0, ret |-> <<>>, entry |-> <<0>>]}
              /\ \A m \in 1 .. N : G[m] = Grown(p, G[m - 1])
              /\ \A m \in 0 .. N : G[m] \in SUBSET CalledRuns(p, e)
    BY <1>1
  <1> DEFINE C == [m \in 0 .. N |-> Covered(p, G[m])]
  <1>3. \A m \in 0 .. N : C[m] = Covered(p, G[m]) /\ C[m] \in SUBSET Pcs(p)
    BY DEF Covered
  <1> HIDE DEF C
  <1>4. \A m \in 1 .. N : m - 1 \in 0 .. N /\ m \in 0 .. N
    OBVIOUS
  <1>5. ASSUME NEW m \in 1 .. N
        PROVE  C[m - 1] \subseteq C[m] /\ \A u \in C[m - 1] : Succ(p, e, u) \subseteq C[m]
    <2> DEFINE X == G[m - 1]
    <2>1. X \in SUBSET CalledRuns(p, e) /\ G[m] = Grown(p, X)
      BY <1>2, <1>4
    <2>2. C[m - 1] = Covered(p, X) /\ C[m] = Covered(p, Grown(p, X))
      BY <1>3, <1>4, <2>1
    <2> HIDE DEF X
    <2> QED BY <2>1, <2>2, CoverGrows
  <1>6. 0 \in C[0] /\ 0 \in 0 .. N
    <2>1. 0 \in Pcs(p) /\ 0 \in 0 .. N
      BY ValidParts
    <2>2. \E c \in G[0] : c.pc = 0
      BY <1>2
    <2> QED BY <1>3, <2>1, <2>2 DEF Covered
  <1> DEFINE Bad == {m \in 0 .. N : 0 \notin C[m]}
  <1>7. Bad = {}
    <2> SUFFICES ASSUME Bad # {} PROVE FALSE
      OBVIOUS
    <2>1. PICK k \in Bad : \A j \in Bad : k <= j
      <3>1. Bad \in SUBSET Nat
        OBVIOUS
      <3> HIDE DEF Bad
      <3> QED BY <3>1, LeastNat
    <2>2. k # 0
      BY <1>6, <2>1
    <2>3. k \in 1 .. N /\ k - 1 \in 0 .. N /\ ~(k <= k - 1)
      BY <2>1, <2>2
    <2>4. k - 1 \notin Bad
      <3> HIDE DEF Bad
      <3> QED BY <2>1, <2>3
    <2> QED BY <1>5, <2>1, <2>3, <2>4
  <1>8. ASSUME NEW m \in 1 .. N, C[m - 1] = C[m] PROVE C[m - 1] = Pcs(p)
    <2>1. 0 \in C[m - 1] /\ C[m - 1] \in SUBSET Pcs(p)
      BY <1>3, <1>4, <1>7
    <2>2. Closed(p, e, C[m - 1])
      BY <1>5, <1>8 DEF Closed
    <2> QED BY <2>1, <2>2
  <1>9. IsFiniteSet(Pcs(p)) /\ Cardinality(Pcs(p)) <= N
    <2>1. Len(p) \in Nat
      BY ValidParts, PcFacts
    <2> DEFINE z == Len(p) - 1
    <2>2. 0 \in Int /\ z \in Int
      BY <2>1
    <2> HIDE DEF z
    <2>3. IsFiniteSet(0 .. z) /\ Cardinality(0 .. z) = IF 0 > z THEN 0 ELSE z - 0 + 1
      BY ONLY <2>2, FS_Interval
    <2>4. (IF 0 > z THEN 0 ELSE z - 0 + 1) = Len(p)
      BY <2>1 DEF z
    <2>5. Pcs(p) = 0 .. z
      BY DEF Pcs, z
    <2> QED BY <1>2, <2>3, <2>4, <2>5
  <1>10. C[N] = Pcs(p)
    BY <1>3, <1>5, <1>8, <1>9, GrowsToAll
  <1> QED BY <1>2, <1>3, <1>10

\* An accepted program whose subprograms have one call site each has no dead
\* code: what check_cfg's walk over the graph explores some execution runs,
\* the return edges taken from the call the execution came by (cfg.rs
\* check_cfg, "unreachable instruction"), for every program and bound.
THEOREM DeadCode == Spec => []DeadCodeRejected
  <1>1. Base /\ DecodeInv /\ SearchInv => DeadCodeRejected
    <2> SUFFICES ASSUME Base, DecodeInv, SearchInv, phase = "accept",
                        Cardinality(CallSites(insns)) = Cardinality(subprogs) - 1,
                        NEW pc \in Pcs(insns)
                 PROVE  (\E c \in Configs(insns) : c.pc = pc) \/ At(insns, pc).op = "second"
      BY DEF DeadCodeRejected
    <2>1. Valid(insns, subprogs)
      BY AcceptedValid
    <2>2. Once(insns)
      BY <2>1, ValidParts, CallsOnce
    <2>3. SeenReached(insns, subprogs, color) /\ Explored(insns, color) = Pcs(insns)
      BY AcceptedGraph DEF SearchOk
    <2>4. Pcs(insns) \subseteq Seen(insns, color)
      BY <2>3 DEF Seen, Explored
    <2>5. \A C \in SUBSET Pcs(insns) : 0 \in C /\ Closed(insns, subprogs, C) => C = Pcs(insns)
      BY <2>3, <2>4 DEF SeenReached
    <2>6. pc \in Covered(insns, Configs(insns))
      BY <2>1, <2>2, <2>5, AllCovered
    <2> QED BY <2>6 DEF Covered
  <1>2. Init => Base /\ DecodeInv /\ SearchInv
    BY InitBase, InitDecode, InitSearch
  <1>3. Base /\ DecodeInv /\ SearchInv /\ [Next]_vars => (Base /\ DecodeInv /\ SearchInv)'
    BY BaseStep, DecodeStep, SearchStep
  <1> QED BY <1>1, <1>2, <1>3, PTL DEF Spec

-----------------------------------------------------------------------------
(* Programs that were generated, and mutants that passed.                   *)

\* A program that decodes from its own encoding, passes the structural checks
\* and has no dead code: what 0 leads to is everything.
Good(p) ==
    /\ p \in Seq(RegularInsns) /\ Graph(p, Entries(p))
    /\ \A q \in Pcs(p) : visit_insn_ok(p, Entries(p), q)
    /\ \A C \in SUBSET Pcs(p) : 0 \in C /\ Closed(p, Entries(p), C) => C = Pcs(p)

Parsed(s) == [n \in DOMAIN s |-> parse_insn(s[n])]
Emitted(s) == Good(Parsed(s)) /\ s = EncodeAll(Parsed(s))
Rejects == {"reject_decode", "reject_subprog", "reject_cfg"}

\* What the campaign hands to the verifier passes all but the stack check; a
\* mutant without an ldimm64 decodes from its encoding before it is checked.
PassInv ==
    /\ origin = "gen" => mode = "env"
    /\ origin = "mutant" /\ mode = "nano" => insns \in Seq(RegularInsns)
    /\ origin \in {"gen", "mutant"} /\ mode = "env" => Emitted(slots) /\ phase \notin Rejects

LEMMA RegularKinds ==
    ASSUME NEW i \in RegularInsns
    PROVE  /\ i \in Insns /\ FieldsOk(encode(i)) /\ parse_insn(encode(i)) = i
           /\ encode(i).op \notin {"ld64", "pad"}
           /\ i.op \notin {"ldimm64", "ldmapfd", "ldmapvalue", "second"}
  <1>1. i \in Insns /\ FieldsOk(encode(i)) /\ parse_insn(encode(i)) = i
    BY DEF RegularInsns
  <1>2. encode(i).op \notin {"ld64", "pad"}
    BY <1>1, OneSlotFacts
  <1>3. encode(i) \in Insns
    BY <1>1, EncodeTyped
  <1> DEFINE t == encode(i)
  <1>4. /\ t \in Insns /\ i = parse_insn(t)
        /\ t.op \notin {"callsub", "kfunc", "ldimm64", "ldmapfd", "ldmapvalue", "second", "ld64", "pad"}
    BY <1>1, <1>3, OneSlotFacts
  <1> HIDE DEF t
  <1>5. i.op \notin {"ldimm64", "ldmapfd", "ldmapvalue", "second"}
    <2>1. CASE t.op = "call" /\ t.src = 1
      BY <1>4, <2>1, ParseByKind DEF Insn
    <2>2. CASE t.op = "call" /\ t.src = 2
      BY <1>4, <2>2, ParseByKind DEF Insn
    <2>3. CASE t.op = "neg"
      BY <1>4, <2>3, ParseByKind DEF Insn
    <2>4. CASE t.op \in {"exit", "ldabs", "ldind"}
      BY <1>4, <2>4, ParseByKind DEF Insn
    <2>5. CASE t.op = "st"
      BY <1>4, <2>5, ParseByKind DEF Insn
    <2>6. CASE t.op \notin {"call", "neg", "exit", "ldabs", "ldind", "st"} \/ (t.op = "call" /\ t.src \notin {1, 2})
      BY <1>4, <2>6, ParseByKind
    <2> QED BY <2>1, <2>2, <2>3, <2>4, <2>5, <2>6, SlotKinds
  <1> QED BY <1>1, <1>2, <1>5

LEMMA ParsedEncoded ==
    ASSUME NEW q \in Seq(RegularInsns)
    PROVE  Parsed(EncodeAll(q)) = q
  <1>1. DOMAIN EncodeAll(q) = DOMAIN q /\ \A n \in DOMAIN q : EncodeAll(q)[n] = encode(q[n])
    BY DEF EncodeAll
  <1>2. \A n \in DOMAIN q : q[n] \in RegularInsns
    OBVIOUS
  <1>3. \A n \in DOMAIN q : parse_insn(EncodeAll(q)[n]) = q[n]
    BY <1>1, <1>2, RegularKinds
  <1>4. q = [n \in DOMAIN q |-> q[n]]
    OBVIOUS
  <1>5. Parsed(EncodeAll(q)) = [n \in DOMAIN q |-> parse_insn(EncodeAll(q)[n])]
    BY <1>1 DEF Parsed
  <1> QED BY <1>3, <1>4, <1>5

\* The slots of an emitted program.
LEMMA EmittedSlots ==
    ASSUME NEW s \in Seq(Insns), Emitted(s), NEW n \in DOMAIN s
    PROVE  /\ FieldsOk(s[n]) /\ s[n].op \notin {"ld64", "pad"} /\ Parsed(s)[n] = parse_insn(s[n])
           /\ Parsed(s)[n] \in RegularInsns
  <1>1. Parsed(s) \in Seq(RegularInsns) /\ DOMAIN Parsed(s) = DOMAIN s /\ Parsed(s)[n] = parse_insn(s[n])
    BY DEF Emitted, Good, Parsed
  <1>2. Parsed(s)[n] \in RegularInsns
    BY <1>1
  <1>3. s[n] = encode(Parsed(s)[n])
    BY <1>1 DEF Emitted, EncodeAll
  <1> QED BY <1>1, <1>2, <1>3, RegularKinds

LEMMA EmittedDecodes ==
    ASSUME Base, DecodeInv, mode = "env", phase \notin {"decode", "reject_decode"}, Emitted(slots)
    PROVE  insns = Parsed(slots) /\ Good(insns)
  <1>1. /\ slots \in Seq(Insns) /\ insns \in Seq(Insns) /\ Len(insns) = Len(slots)
        /\ \A n \in DOMAIN insns : DecodedAt(slots, n, insns[n])
    BY DEF Base, Typed, DecodeInv
  <1>2. DOMAIN insns = DOMAIN slots
    BY <1>1
  <1>3. ASSUME NEW n \in DOMAIN insns PROVE insns[n] = parse_insn(slots[n])
    <2>1. slots[n].op \notin {"ld64", "pad"}
      BY <1>1, <1>2, EmittedSlots
    <2> QED BY <1>1, <2>1 DEF DecodedAt, WideOk
  <1>4. insns = [n \in DOMAIN insns |-> insns[n]]
    BY <1>1
  <1>5. insns = Parsed(slots)
    BY <1>2, <1>3, <1>4 DEF Parsed
  <1> QED BY <1>5 DEF Emitted

\* A search that ends has seen what 0 leads to.
LEMMA SearchSees ==
    ASSUME NEW p, NEW e, Graph(p, e), NEW c \in [Pcs(p) -> Colours], NEW h \in SUBSET Pcs(p),
           SearchOk(p, e, c, <<>>, h)
    PROVE  Seen(p, c) \in SUBSET Pcs(p) /\ 0 \in Seen(p, c) /\ Closed(p, e, Seen(p, c))
           /\ Seen(p, c) = Explored(p, c)
  <1>1. DOMAIN <<>> = {}
    OBVIOUS
  <1>2. \A q \in Pcs(p) : c[q] # "discovering"
    BY <1>1 DEF SearchOk, OnPath
  <1>3. \A q \in Pcs(p) : c[q] # "not_visited" <=> c[q] = "explored"
    BY <1>2 DEF Colours
  <1>4. Seen(p, c) = Explored(p, c)
    BY <1>3 DEF Seen, Explored
  <1>5. h \subseteq Explored(p, c)
    BY <1>3 DEF SearchOk, HeadsLoop, Explored
  <1>6. Closed(p, e, Explored(p, c))
    BY <1>5 DEF SearchOk, Finished, Closed
  <1> QED BY <1>4, <1>6 DEF SearchOk, SeenReached, Seen

\* Good programs pass: no action of the checks rejects one.
LEMMA PassEnv ==
    ASSUME Base, DecodeInv, SearchInv, PassInv, Next, mode = "env", origin \in {"gen", "mutant"},
           ~Mutate
    PROVE  mode' = "env" /\ origin' = origin /\ slots' = slots /\ phase' \notin Rejects
  <1>0. /\ Emitted(slots) /\ phase \notin Rejects /\ slots \in Seq(Insns) /\ insns \in Seq(Insns)
        /\ Len(slots) \in Nat /\ Len(insns) \in Nat /\ DOMAIN slots = 1 .. Len(slots)
    BY DEF PassInv, Base, Typed
  <1>a. ASSUME phase # "decode" PROVE Good(insns) /\ insns = Parsed(slots)
    BY <1>0, <1>a, EmittedDecodes DEF Rejects
  <1>1. CASE DecodeSlot
    <2> DEFINE n == Len(insns) + 1
    <2>1. n \in DOMAIN slots
      BY <1>0, <1>1 DEF DecodeSlot
    <2>2. FieldsOk(slots[n])
      BY <1>0, <2>1, EmittedSlots
    <2>3. phase = "decode" /\ UNCHANGED <<origin, slots, mode, phase>>
      BY <1>1, <2>2 DEF DecodeSlot, Kept
    <2> QED BY <2>3 DEF Rejects
  <1>2. CASE DecodeWide
    <2> DEFINE n == Len(insns) + 1
    <2>1. n \in DOMAIN slots /\ slots[n].op = "ld64"
      BY <1>0, <1>2 DEF DecodeWide
    <2> HIDE DEF n
    <2> QED BY <1>0, <2>1, EmittedSlots
  <1>3. CASE ResolveMaps
    <2>1. phase = "decode" /\ Len(insns) = Len(slots) /\ UNCHANGED <<origin, slots, mode>>
      BY <1>3 DEF ResolveMaps, Kept
    <2>2. \A n \in DOMAIN insns : DecodedAt(slots, n, insns[n])
      BY <2>1 DEF DecodeInv
    <2>3. DOMAIN insns = DOMAIN slots
      BY <1>0, <2>1
    <2>4. ASSUME NEW n \in DOMAIN insns PROVE insns[n].op \notin {"ldmapfd", "ldmapvalue"}
      <3>1. slots[n].op \notin {"ld64", "pad"} /\ parse_insn(slots[n]) \in RegularInsns
        BY <1>0, <2>3, EmittedSlots
      <3>2. insns[n] = parse_insn(slots[n])
        BY <2>2, <3>1 DEF DecodedAt, WideOk
      <3> QED BY <3>1, <3>2, RegularKinds
    <2>5. phase' = "subprog"
      BY <1>3, <2>4 DEF ResolveMaps, Goto
    <2> QED BY <2>1, <2>5 DEF Rejects
  <1>4. CASE AddSubprog
    <2>1. phase = "subprog" /\ UNCHANGED <<origin, slots, mode>>
      BY <1>4 DEF AddSubprog, Kept
    <2>2. add_subprog_ok(insns)
      BY <1>a, <2>1 DEF Good, Graph, add_subprog_ok
    <2>3. phase' = "stack"
      BY <1>4, <2>2 DEF AddSubprog, Goto
    <2> QED BY <2>1, <2>3 DEF Rejects
  <1>5. CASE CheckStack
    <2>1. phase' \in {"ends", "reject_stack"} /\ UNCHANGED <<origin, slots, mode>>
      BY <1>5 DEF CheckStack, Kept, Goto
    <2> QED BY <2>1 DEF Rejects
  <1>6. CASE CheckEnds
    <2>1. phase = "ends" /\ UNCHANGED <<origin, slots, mode>>
      BY <1>6 DEF CheckEnds, Kept
    <2>2. EndsOk(insns, subprogs)
      BY <1>a, <2>1 DEF Good, Graph, Base, Placed
    <2>3. phase' = "search"
      BY <1>6, <2>2 DEF CheckEnds, Goto
    <2> QED BY <2>1, <2>3 DEF Rejects
  <1>b. ASSUME phase = "search"
        PROVE  /\ subprogs = Entries(insns) /\ Good(insns) /\ stack \in Seq(Pcs(insns) \X Nat)
               /\ color \in [Pcs(insns) -> Colours] /\ heads \in SUBSET Pcs(insns)
               /\ SearchOk(insns, subprogs, color, stack, heads)
    BY <1>a, <1>b DEF Base, Typed, Placed, SearchInv
  <1>7. CASE SearchFails
    <2>1. phase = "search" /\ stack # <<>> /\ ~visit_insn_ok(insns, subprogs, Last(stack)[1])
      BY <1>7 DEF SearchFails
    <2>2. Last(stack)[1] \in Pcs(insns)
      BY <1>b, <2>1, StackTop
    <2> QED BY <1>b, <2>1, <2>2 DEF Good
  <1>8. CASE SearchChild \/ SearchLeaves
    <2>1. phase = "search" /\ UNCHANGED <<origin, slots, mode, phase>>
      BY <1>8 DEF SearchChild, SearchLeaves, Kept
    <2> QED BY <2>1 DEF Rejects
  <1>9. CASE SearchEnds
    <2>1. phase = "search" /\ stack = <<>> /\ UNCHANGED origin
      BY <1>9 DEF SearchEnds
    <2>2. Graph(insns, subprogs) /\ SearchOk(insns, subprogs, color, <<>>, heads)
      BY <1>b, <2>1 DEF Good
    <2>3. Seen(insns, color) = Pcs(insns)
      <3>1. /\ Seen(insns, color) \in SUBSET Pcs(insns) /\ 0 \in Seen(insns, color)
            /\ Closed(insns, subprogs, Seen(insns, color))
        BY <1>b, <2>1, <2>2, SearchSees
      <3> QED BY <1>b, <2>1, <3>1 DEF Good
    <2>4. ~ \E pc \in Pcs(insns) : color[pc] = "not_visited"
      BY <2>3 DEF Seen
    <2>5. phase' = "accept" /\ UNCHANGED <<slots, mode>>
      BY <1>9, <2>4 DEF SearchEnds, Goto
    <2> QED BY <2>1, <2>5 DEF Rejects
  <1>10. CASE DropMutant
    BY <1>10 DEF DropMutant
  <1> QED BY <1>1, <1>2, <1>3, <1>4, <1>5, <1>6, <1>7, <1>8, <1>9, <1>10 DEF Next

LEMMA PassStep ==
    ASSUME Base, DecodeInv, SearchInv, PassInv, [Next]_vars
    PROVE  PassInv'
  <1>0. slots \in Seq(Insns) /\ insns \in Seq(Insns) /\ DOMAIN slots = 1 .. Len(slots)
        /\ mode \in {"env", "nano"} /\ origin \in {"file", "gen", "mutant", "wide_mutant"}
    BY DEF Base, Typed
  <1>1. CASE Mutate
    <2>1. mode = "env" /\ mode' = "nano" /\ phase \in Final \ {"reject_decode"} /\ slots \in Seeds /\ Len(insns) >= 3
      BY <1>1 DEF Mutate
    <2>2. PICK q \in Seeds : /\ \E m \in Mutants(insns, Decoded(q)) : insns' = m
                             /\ origin' = IF HasWide(slots) \/ HasWide(q) THEN "wide_mutant" ELSE "mutant"
      BY <1>1 DEF Mutate
    <2>3. ASSUME origin' = "mutant" PROVE insns' \in Seq(RegularInsns)
      <3>1. ~HasWide(slots) /\ ~HasWide(q)
        BY <2>2, <2>3
      <3>2. Decoded(q) \in Seq(RegularInsns)
        BY <3>1, SeedsDecoded
      <3>3. Len(insns) = Len(slots) /\ \A n \in DOMAIN insns : DecodedAt(slots, n, insns[n])
        BY <2>1 DEF DecodeInv, Final
      <3>4. DOMAIN insns = DOMAIN slots /\ DOMAIN insns = 1 .. Len(insns) /\ Len(insns) \in Nat
        BY <1>0, <3>3
      <3>5. ASSUME NEW n \in DOMAIN insns PROVE insns[n] \in RegularInsns
        <4>1. slots[n].op # "ld64"
          BY <3>1, <3>4 DEF HasWide
        <4>2. n > 1 => slots[n - 1].op # "ld64"
          <5>1. n > 1 => n - 1 \in DOMAIN slots
            BY <3>4
          <5> QED BY <3>1, <5>1 DEF HasWide
        <4>3. FieldsOk(slots[n]) /\ insns[n] = parse_insn(slots[n])
          BY <3>3, <4>1, <4>2 DEF DecodedAt
        <4>4. slots[n] \in Insns
          BY <1>0, <3>4
        <4> QED BY <4>3, <4>4, ParseRegular
      <3>6. insns \in Seq(RegularInsns)
        <4>1. insns = [n \in 1 .. Len(insns) |-> insns[n]]
          BY <1>0, <3>4
        <4> QED BY <3>4, <3>5, <4>1
      <3>7. RegularInsns \in SUBSET Insns /\ RegularInsns \subseteq RegularInsns
        BY DEF RegularInsns
      <3>8. Mutants(insns, Decoded(q)) \subseteq Seq(RegularInsns)
        BY <2>1, <3>2, <3>6, <3>7, RegularEdited, MutantsIn
      <3> QED BY <2>2, <3>8
    <2> QED BY <2>1, <2>2, <2>3 DEF PassInv
  <1>2. CASE Next /\ ~Mutate /\ mode = "env"
    <2>1. CASE origin \in {"gen", "mutant"}
      <3>1. mode' = "env" /\ origin' = origin /\ slots' = slots /\ phase' \notin Rejects
        BY <1>2, <2>1, PassEnv
      <3>2. Emitted(slots)
        BY <1>2, <2>1 DEF PassInv
      <3>3. Emitted(slots')
        BY <3>1, <3>2
      <3> QED BY <3>1, <3>3 DEF PassInv
    <2>2. CASE origin \notin {"gen", "mutant"}
      <3>1. origin' = origin
        BY <1>2 DEF Next, DecodeSlot, DecodeWide, ResolveMaps, AddSubprog, CheckStack, CheckEnds,
                    SearchFails, SearchChild, SearchLeaves, SearchEnds, DropMutant, Kept
      <3> QED BY <2>2, <3>1 DEF PassInv
    <2> QED BY <2>1, <2>2
  <1>3. CASE Next /\ ~Mutate /\ mode = "nano"
    <2>0. origin # "gen" /\ (origin = "mutant" => insns \in Seq(RegularInsns))
      BY <1>3 DEF PassInv
    <2>a. phase \notin {"decode", "reject_decode"}
      BY <1>3 DEF Base, Placed
    <2>1. CASE UNCHANGED <<origin, insns, mode>>
      BY <1>3, <2>0, <2>1 DEF PassInv
    <2>2. CASE ~UNCHANGED <<origin, insns, mode>>
      <3>1. SearchEnds
        BY <1>3, <2>a, <2>2 DEF Next, DecodeSlot, DecodeWide, ResolveMaps, AddSubprog, CheckStack, CheckEnds,
                    SearchFails, SearchChild, SearchLeaves, DropMutant, Kept
      <3>2. /\ phase = "search" /\ stack = <<>> /\ UNCHANGED origin
            /\ ~ \E pc \in Pcs(insns) : color[pc] = "not_visited"
            /\ slots' = EncodeAll(insns) /\ mode' = "env" /\ phase' = "decode"
        BY <1>3, <2>2, <3>1 DEF SearchEnds, Goto
      <3>3. CASE origin # "mutant"
        BY <2>0, <3>2, <3>3 DEF PassInv
      <3>4. CASE origin = "mutant"
        <4>1. insns \in Seq(RegularInsns)
          BY <2>0, <3>4
        <4>2. /\ subprogs = Entries(insns) /\ Graph(insns, Entries(insns))
              /\ color \in [Pcs(insns) -> Colours] /\ heads \in SUBSET Pcs(insns)
              /\ SearchOk(insns, Entries(insns), color, <<>>, heads)
          BY <3>2 DEF Base, Typed, Placed, SearchInv, Graph, add_subprog_ok
        <4>3. Seen(insns, color) = Pcs(insns)
          BY <3>2 DEF Seen
        <4>4. Explored(insns, color) = Pcs(insns)
          BY <4>2, <4>3, SearchSees
        <4>5. \A q \in Pcs(insns) : visit_insn_ok(insns, Entries(insns), q)
          BY <4>2, <4>4 DEF SearchOk, Finished
        <4>6. ASSUME NEW C \in SUBSET Pcs(insns), 0 \in C, Closed(insns, Entries(insns), C)
              PROVE  C = Pcs(insns)
          <5>1. Seen(insns, color) \subseteq C
            BY <4>2, <4>6 DEF SearchOk, SeenReached
          <5> QED BY <4>3, <5>1
        <4>7. Good(insns)
          BY <4>1, <4>2, <4>5, <4>6 DEF Good
        <4>8. Parsed(EncodeAll(insns)) = insns
          BY <4>1, ParsedEncoded
        <4>9. Emitted(EncodeAll(insns))
          BY <4>7, <4>8 DEF Emitted
        <4>10. Emitted(slots')
          BY <3>2, <4>9
        <4> QED BY <3>2, <3>4, <4>10 DEF PassInv, Rejects
      <3> QED BY <3>3, <3>4
    <2> QED BY <2>1, <2>2
  <1>4. CASE UNCHANGED vars
    <2>1. UNCHANGED <<origin, slots, insns, mode, phase>>
      BY <1>4 DEF vars
    <2> QED BY <2>1 DEF PassInv
  <1> QED BY <1>0, <1>1, <1>2, <1>3, <1>4

\* An edge within a subprogram.
Leads(p, u, q) ==
    \/ At(p, u).op \in Conditional \cup {"ja"} /\ Target(p, u) = q
    \/ At(p, u).op \notin {"exit", "ja", "callsub"} /\ q = u + 1

LEMMA LeadsSucc ==
    ASSUME NEW p, NEW e, NEW u, NEW q, Leads(p, u, q)
    PROVE  q \in Succ(p, e, u)
  <1>1. CASE At(p, u).op \in Conditional
    <2>1. Succ(p, e, u) = {Target(p, u), u + 1}
      BY <1>1, SuccByKind
    <2> QED BY <2>1 DEF Leads
  <1>2. CASE At(p, u).op = "ja"
    <2>1. Succ(p, e, u) = {Target(p, u)}
      BY <1>2, SuccByKind
    <2> QED BY <1>2, <2>1 DEF Leads
  <1>3. CASE At(p, u).op \notin Conditional \cup {"ja"}
    <2>1. At(p, u).op \notin Conditional \cup {"exit", "ja", "callsub"} /\ q = u + 1
      BY <1>3 DEF Leads
    <2>2. Succ(p, e, u) = {u + 1}
      BY <2>1, SuccByKind
    <2> QED BY <2>1, <2>2
  <1> QED BY <1>1, <1>2, <1>3

\* A program without subprograms that jumps forth and back within itself.
LEMMA StraightGood ==
    ASSUME NEW p \in Seq(RegularInsns), Len(p) >= 1, At(p, Len(p) - 1).op = "exit",
           \A q \in Pcs(p) : At(p, q).op # "callsub",
           \A q \in Pcs(p) : At(p, q).op \in Conditional \cup {"ja"} => Target(p, q) \in Pcs(p),
           \A q \in Pcs(p) : q > 0 => \E u \in Pcs(p) : u < q /\ Leads(p, u, q)
    PROVE  Good(p)
  <1> DEFINE N == Len(p)
             e == Entries(p)
  <1>0. p \in Seq(Insns)
    BY RegularSeq
  <1>1. N \in Nat /\ 0 \in Pcs(p) /\ \A q \in Pcs(p) : q \in Nat /\ q < N
    BY <1>0, PcFacts
  <1>2. e = {0}
    <2>1. CallSites(p) = {}
      BY DEF CallSites
    <2> QED BY <2>1 DEF Entries
  <1>3. e \in SUBSET Pcs(p) /\ 0 \in e
    BY <1>1, <1>2
  <1>4. ASSUME NEW q \in Pcs(p) PROVE SubStart(e, q) = 0 /\ SubEnd(p, e, q) = N
    <2>1. SubStart(e, q) \in e
      BY <1>0, <1>3, SubStartFacts
    <2>2. SubEnd(p, e, q) > q /\ (SubEnd(p, e, q) \in e \/ SubEnd(p, e, q) = N)
      BY <1>0, <1>3, SubEndFacts
    <2> HIDE DEF e, N
    <2> QED BY <1>1, <1>2, <2>1, <2>2
  <1>5. EndsOk(p, e)
    BY <1>2, <1>3, <1>4 DEF EndsOk
  <1>6. Graph(p, e)
    BY <1>0, <1>3, <1>5 DEF Graph
  <1> HIDE DEF e
  <1>7. ASSUME NEW q \in Pcs(p) PROVE visit_insn_ok(p, e, q)
    <2>1. SubStart(e, q) = 0 /\ SubEnd(p, e, q) = N
      BY <1>4
    <2>2. ASSUME At(p, q).op \in Conditional \cup {"ja"}
          PROVE  Target(p, q) \in 0 .. N - 1 /\ At(p, Target(p, q)).op # "second"
      <3>1. Target(p, q) \in Pcs(p)
        BY <2>2
      <3>2. At(p, Target(p, q)) \in RegularInsns
        BY <3>1, PcFacts
      <3> QED BY <3>1, <3>2, RegularKinds DEF Pcs
    <2>3. ASSUME q + 1 \in Range(Nexts(p, e, q)) PROVE q + 1 < N
      <3>1. Nexts(p, e, q) # <<>>
        <4>1. Range(<<>>) = {}
          BY DEF Range
        <4> QED BY <2>3, <4>1
      <3>2. At(p, q).op # "exit"
        BY <2>1, <3>1, NextsByKind
      <3>3. q # N - 1
        BY <3>2
      <3> HIDE DEF N
      <3> QED BY <1>1, <3>3
    <2> QED BY <2>1, <2>2, <2>3 DEF visit_insn_ok
  <1>8. ASSUME NEW C \in SUBSET Pcs(p), 0 \in C, Closed(p, e, C) PROVE C = Pcs(p)
    <2> DEFINE Bad == Pcs(p) \ C
    <2> SUFFICES ASSUME Bad # {} PROVE FALSE
      OBVIOUS
    <2>1. PICK m \in Bad : \A k \in Bad : m <= k
      <3>1. Bad \in SUBSET Nat
        BY <1>1
      <3> HIDE DEF Bad
      <3> QED BY <3>1, LeastNat
    <2>2. m \in Pcs(p) /\ m > 0 /\ m \in Nat /\ m \notin C
      BY <1>1, <1>8, <2>1
    <2>3. PICK u \in Pcs(p) : u < m /\ Leads(p, u, m)
      BY <2>2
    <2>4. u \in C
      BY <1>1, <2>1, <2>2, <2>3
    <2>5. m \in Succ(p, e, u)
      BY <2>3, LeadsSucc
    <2> QED BY <1>8, <2>2, <2>4, <2>5 DEF Closed
  <1> QED BY <1>6, <1>7, <1>8 DEF Good, e

\* What the generator puts at pc n of the body, and where it leads.
BodyKind(i, n, len) ==
    \/ i.op \in {"aluk", "alux", "stx", "call"}
    \/ i.op = "jk" /\ n + 1 + i.off \in 1 .. len + 1

LEMMA GenBody ==
    ASSUME NEW len \in Nat, NEW t, t.last \in {"body", "jump", "call"}, NEW n \in 1 .. len,
           NEW i \in BodyAt(n, len, t)
    PROVE  /\ n < len \/ t.last = "body" => BodyKind(i, n, len)
           /\ n = len /\ t.last = "jump" => i.op = "ja" /\ i.off = 0
           /\ n = len /\ t.last = "call" => i.op = "callsub" /\ i.off = 1
  <1>1. n < len \/ t.last = "body" => i \in BodyInsns(n - 1, len)
    BY DEF BodyAt
  <1>2. n = len /\ t.last = "jump" => i.op = "ja" /\ i.off = 0
    BY DEF BodyAt, Insn
  <1>3. n = len /\ t.last = "call" => i.op = "callsub" /\ i.off = 1
    BY DEF BodyAt, Insn
  <1>4. ASSUME i \in BodyInsns(n - 1, len) PROVE BodyKind(i, n, len)
    <2>1. n - 1 \in Nat
      OBVIOUS
    <2>2. \/ i.op \in {"aluk", "alux", "stx", "call"}
          \/ i.op = "jk" /\ i.off \in BranchOffsets(n - 1, len)
      BY <1>4, <2>1, BodyFacts
    <2>3. ASSUME NEW off \in BranchOffsets(n - 1, len) PROVE n + 1 + off \in 1 .. len + 1
      BY <2>3 DEF BranchOffsets
    <2> QED BY <2>2, <2>3 DEF BodyKind
  <1> QED BY <1>1, <1>2, <1>3, <1>4

LEMMA ExitOp == ExitInsn.op = "exit" /\ MovImm(0).op = "aluk"
  BY DEF ExitInsn, MovImm, Insn

\* A generated program without a subprogram.
LEMMA GenStraight ==
    ASSUME NEW p \in Seq(RegularInsns), NEW len \in Nat, NEW t, len >= 1, t.last \in {"body", "jump"},
           Len(p) = len + 2, At(p, 0).op = "aluk", At(p, len + 1).op = "exit",
           \A n \in 1 .. len : At(p, n) \in BodyAt(n, len, t)
    PROVE  Good(p)
  <1>1. \A q \in Pcs(p) : q = 0 \/ q \in 1 .. len \/ q = len + 1
    BY DEF Pcs
  <1>2. Pcs(p) = 0 .. len + 1 /\ len + 1 = Len(p) - 1
    BY DEF Pcs
  <1>3. ASSUME NEW q \in 1 .. len
        PROVE  \/ BodyKind(At(p, q), q, len)
               \/ q = len /\ At(p, q).op = "ja" /\ At(p, q).off = 0
    <2>1. q < len \/ q = len
      OBVIOUS
    <2> QED BY <2>1, GenBody
  <1>4. \A q \in Pcs(p) : At(p, q).op # "callsub"
    <2> SUFFICES ASSUME NEW q \in Pcs(p) PROVE At(p, q).op # "callsub"
      OBVIOUS
    <2>1. CASE q \in 1 .. len
      BY <1>3, <2>1 DEF BodyKind
    <2> QED BY <1>1, <2>1
  <1>5. ASSUME NEW q \in Pcs(p), At(p, q).op \in Conditional \cup {"ja"} PROVE Target(p, q) \in Pcs(p)
    <2>1. q \in 1 .. len
      BY <1>1, <1>5 DEF Conditional
    <2>2. CASE BodyKind(At(p, q), q, len)
      <3>1. q + 1 + At(p, q).off \in 1 .. len + 1
        BY <1>5, <2>2 DEF BodyKind, Conditional
      <3> QED BY <1>2, <3>1 DEF Target
    <2>3. CASE q = len /\ At(p, q).off = 0
      BY <1>2, <2>3 DEF Target
    <2> QED BY <1>3, <2>1, <2>2, <2>3
  <1>6. ASSUME NEW q \in Pcs(p), q > 0 PROVE \E u \in Pcs(p) : u < q /\ Leads(p, u, q)
    <2> DEFINE u == q - 1
    <2>1. u \in Pcs(p) /\ u < q /\ q = u + 1 /\ (u = 0 \/ u \in 1 .. len)
      BY <1>2, <1>6
    <2> HIDE DEF u
    <2>2. CASE u = 0
      BY <2>1, <2>2 DEF Leads
    <2>3. CASE u \in 1 .. len /\ BodyKind(At(p, u), u, len)
      BY <2>1, <2>3 DEF Leads, BodyKind
    <2>4. CASE u = len /\ At(p, u).op = "ja" /\ At(p, u).off = 0
      <3>1. Target(p, u) = q
        BY <2>1, <2>4 DEF Target
      <3> QED BY <2>1, <2>4, <3>1 DEF Leads
    <2> QED BY <1>3, <2>1, <2>2, <2>3, <2>4
  <1>7. Len(p) >= 1 /\ At(p, Len(p) - 1).op = "exit"
    BY <1>2
  <1> QED BY <1>4, <1>5, <1>6, <1>7, StraightGood

\* The return site of a subprogram that is called once.
LEMMA OneReturn ==
    ASSUME NEW p \in Seq(Insns), NEW q \in Nat, NEW w, CallSites(p) = {q}, Target(p, q) = w
    PROVE  Range(Returns(p, w)) = {q + 1}
  <1> DEFINE sites == {pc + 1 : pc \in {x \in CallSites(p) : Target(p, x) = w}}
  <1>1. sites = {q + 1}
    OBVIOUS
  <1>2. Cardinality(sites) = 1
    BY <1>1, FS_Singleton
  <1>3. Range(Returns(p, w)) \subseteq {q + 1}
    BY <1>1, ReturnFacts
  <1>4. DOMAIN Returns(p, w) = 1 .. Cardinality(sites)
    BY DEF Returns
  <1>5. 1 \in DOMAIN Returns(p, w)
    BY <1>2, <1>4
  <1>6. Returns(p, w)[1] \in Range(Returns(p, w))
    BY <1>5 DEF Range
  <1> QED BY <1>3, <1>6

\* A generated program that calls the subprogram behind it.
LEMMA GenCall ==
    ASSUME NEW p \in Seq(RegularInsns), NEW len \in Nat, NEW t, len >= 1, t.last = "call",
           Len(p) = len + 4, At(p, 0).op = "aluk", At(p, len + 1).op = "exit",
           At(p, len + 2).op = "aluk", At(p, len + 3).op = "exit",
           \A n \in 1 .. len : At(p, n) \in BodyAt(n, len, t)
    PROVE  Good(p)
  <1> DEFINE e == Entries(p)
             L == len + 2
             X == len + 1
             Y == len + 3
             N == len + 4
  <1>0. p \in Seq(Insns)
    BY RegularSeq
  <1>1. Pcs(p) = 0 .. Y /\ Len(p) = N /\ At(p, X).op = "exit" /\ At(p, L).op = "aluk" /\ At(p, Y).op = "exit"
    BY DEF Pcs
  <1>2. /\ L \in Nat /\ X \in Nat /\ Y \in Nat /\ N \in Nat /\ len + 1 = X /\ X + 1 = L /\ L + 1 = Y /\ Y + 1 = N
        /\ \A q \in 0 .. Y : q = 0 \/ q \in 1 .. len \/ q = X \/ q = L \/ q = Y
    OBVIOUS
  <1> HIDE DEF L, X, Y, N
  <1>3. ASSUME NEW q \in 1 .. len
        PROVE  \/ q < len /\ BodyKind(At(p, q), q, len)
               \/ q = len /\ At(p, q).op = "callsub" /\ At(p, q).off = 1
    <2>1. q < len \/ q = len
      OBVIOUS
    <2> QED BY <2>1, GenBody
  <1>4. len \in 1 .. len /\ At(p, len).op = "callsub" /\ At(p, len).off = 1
    <2>1. len \in 1 .. len /\ ~(len < len)
      OBVIOUS
    <2> QED BY <1>3, <2>1
  <1>5. CallSites(p) = {len}
    <2>1. len \in Pcs(p)
      BY <1>1, <1>2
    <2>2. ASSUME NEW q \in Pcs(p), At(p, q).op = "callsub" PROVE q = len
      <3>1. q \in 1 .. len
        BY <1>1, <1>2, <2>2
      <3> QED BY <1>3, <2>2, <3>1 DEF BodyKind
    <2> QED BY <1>4, <2>1, <2>2 DEF CallSites
  <1>6. Target(p, len) = L
    BY <1>2, <1>4 DEF Target
  <1>7. e = {0, L}
    BY <1>5, <1>6 DEF Entries
  <1>8. e \in SUBSET Pcs(p) /\ 0 \in e
    BY <1>1, <1>2, <1>7
  <1> HIDE DEF e
  <1>9. ASSUME NEW q \in Pcs(p)
        PROVE  /\ q < L => SubStart(e, q) = 0 /\ SubEnd(p, e, q) = L
               /\ q >= L => SubStart(e, q) = L /\ SubEnd(p, e, q) = N
    <2>1. SubStart(e, q) \in e /\ SubStart(e, q) <= q /\ \A u \in e : u <= q => u <= SubStart(e, q)
      BY <1>0, <1>8, SubStartFacts
    <2>2. /\ SubEnd(p, e, q) > q /\ (SubEnd(p, e, q) \in e \/ SubEnd(p, e, q) = N)
          /\ \A u \in e : u > q => SubEnd(p, e, q) <= u
      BY <1>0, <1>1, <1>8, SubEndFacts
    <2> DEFINE v == SubStart(e, q)
               w == SubEnd(p, e, q)
    <2>3. /\ v \in {0, L} /\ v <= q /\ (L <= q => L <= v)
          /\ w > q /\ w \in {0, L, N} /\ (L > q => w <= L)
      BY <1>7, <2>1, <2>2
    <2>4. q \in Nat
      BY <1>1, <1>2
    <2> HIDE DEF v, w
    <2>5. (q < L => v = 0 /\ w = L) /\ (q >= L => v = L /\ w = N)
      BY <1>2, <2>3, <2>4
    <2> QED BY <2>5 DEF v, w
  <1>10. EndsOk(p, e)
    <2>1. SubEnd(p, e, 0) = L /\ SubEnd(p, e, L) = N
      <3>1. 0 \in Pcs(p) /\ L \in Pcs(p) /\ 0 < L /\ L >= L
        BY <1>1, <1>2
      <3> QED BY <1>9, <3>1
    <2>2. L - 1 = X /\ N - 1 = Y
      BY <1>2
    <2> QED BY <1>1, <1>7, <2>1, <2>2 DEF EndsOk
  <1>11. Graph(p, e)
    BY <1>0, <1>8, <1>10 DEF Graph, e
  <1>12. Range(Returns(p, L)) = {X}
    <2>1. Range(Returns(p, L)) = {len + 1}
      BY <1>0, <1>5, <1>6, OneReturn
    <2> QED BY <1>2, <2>1
  <1>13. ASSUME NEW q \in Pcs(p) PROVE visit_insn_ok(p, e, q)
    <2>0. q = 0 \/ q \in 1 .. len \/ q = X \/ q = L \/ q = Y
      BY <1>1, <1>2
    <2>1. ASSUME At(p, q).op \in Conditional \cup {"ja"}
          PROVE  Target(p, q) \in SubStart(e, q) .. SubEnd(p, e, q) - 1 /\ At(p, Target(p, q)).op # "second"
      <3>1. q \in 1 .. len
        BY <1>1, <2>0, <2>1 DEF Conditional
      <3>2. At(p, q).op = "jk" /\ q + 1 + At(p, q).off \in 1 .. len + 1
        BY <1>3, <2>1, <3>1 DEF BodyKind, Conditional
      <3>3. Target(p, q) \in 1 .. X
        BY <1>2, <3>2 DEF Target
      <3>4. q < L
        BY <1>2, <3>1
      <3>5. Target(p, q) \in Pcs(p) /\ Target(p, q) \in 0 .. L - 1
        BY <1>1, <1>2, <3>3
      <3>6. At(p, Target(p, q)) \in RegularInsns
        BY <3>5, PcFacts
      <3> QED BY <1>9, <3>4, <3>5, <3>6, RegularKinds
    <2>2. At(p, q).op = "callsub" => Target(p, q) \in e
      <3>1. At(p, q).op = "callsub" => q \in CallSites(p)
        BY DEF CallSites
      <3> QED BY <1>5, <1>6, <1>7, <3>1
    <2>3. ASSUME q + 1 \in Range(Nexts(p, e, q)) PROVE q + 1 < SubEnd(p, e, q)
      <3>1. q + 1 \in Succ(p, e, q)
        BY <2>3 DEF Succ
      <3>2. CASE q = 0 \/ (q \in 1 .. len /\ q < len)
        <4>1. q < L /\ q + 1 < L
          BY <1>2, <3>2
        <4> QED BY <1>9, <4>1
      <3>3. CASE q = len
        <4>1. Succ(p, e, q) = {L}
          BY <1>4, <1>6, <3>3, SuccByKind
        <4> QED BY <1>2, <3>1, <3>3, <4>1
      <3>4. CASE q = X
        <4>1. SubStart(e, q) = 0
          BY <1>2, <1>9, <3>4
        <4>2. Succ(p, e, q) = {}
          BY <1>1, <3>4, <4>1, SuccByKind
        <4> QED BY <3>1, <4>2
      <3>5. CASE q = L
        <4>1. SubEnd(p, e, q) = N /\ q + 1 < N
          BY <1>2, <1>9, <3>5
        <4> QED BY <4>1
      <3>6. CASE q = Y
        <4>1. SubStart(e, q) = L /\ L # 0
          BY <1>2, <1>9, <3>6
        <4>2. Succ(p, e, q) = {X}
          BY <1>1, <1>12, <3>6, <4>1, SuccByKind
        <4> QED BY <1>2, <3>1, <3>6, <4>2
      <3>7. q \in 1 .. len => q < len \/ q = len
        OBVIOUS
      <3> QED BY <2>0, <3>2, <3>3, <3>4, <3>5, <3>6, <3>7
    <2> QED BY <2>1, <2>2, <2>3 DEF visit_insn_ok
  <1>14. ASSUME NEW C \in SUBSET Pcs(p), 0 \in C, Closed(p, e, C) PROVE C = Pcs(p)
    <2> DEFINE Bad == (0 .. len) \ C
    <2>1. Bad = {}
      <3> SUFFICES ASSUME Bad # {} PROVE FALSE
        OBVIOUS
      <3>1. PICK m \in Bad : \A k \in Bad : m <= k
        <4>1. Bad \in SUBSET Nat
          OBVIOUS
        <4> HIDE DEF Bad
        <4> QED BY <4>1, LeastNat
      <3> DEFINE u == m - 1
      <3>2. m \in Nat /\ m # 0 /\ m \notin C /\ u \in 0 .. len /\ ~(m <= u) /\ m = u + 1 /\ u < len
            /\ (u = 0 \/ u \in 1 .. len)
        BY <1>14, <3>1
      <3>3. u \in C
        <4>1. u \notin Bad
          <5> HIDE DEF Bad, u
          <5> QED BY <3>1, <3>2
        <4> QED BY <3>2, <4>1
      <3> HIDE DEF u
      <3>4. Leads(p, u, m)
        <4>1. CASE u = 0
          BY <3>2, <4>1 DEF Leads
        <4>2. CASE u \in 1 .. len
          <5>1. BodyKind(At(p, u), u, len)
            BY <1>3, <3>2, <4>2
          <5> QED BY <3>2, <5>1 DEF Leads, BodyKind
        <4> QED BY <3>2, <4>1, <4>2
      <3>5. m \in Succ(p, e, u)
        BY <3>4, LeadsSucc
      <3> QED BY <1>14, <3>2, <3>3, <3>5 DEF Closed
    <2>2. len \in C
      BY <2>1
    <2>3. L \in C
      <3>1. Succ(p, e, len) = {L}
        BY <1>4, <1>6, SuccByKind
      <3> QED BY <1>14, <2>2, <3>1 DEF Closed
    <2>4. Y \in C
      <3>1. Succ(p, e, L) = {L + 1}
        BY <1>1, SuccByKind DEF Conditional
      <3> QED BY <1>2, <1>14, <2>3, <3>1 DEF Closed
    <2>5. X \in C
      <3>1. SubStart(e, Y) = L /\ L # 0
        BY <1>1, <1>2, <1>9
      <3>2. Succ(p, e, Y) = {X}
        BY <1>1, <1>12, <3>1, SuccByKind
      <3> QED BY <1>14, <2>4, <3>2 DEF Closed
    <2>6. ASSUME NEW q \in Pcs(p) PROVE q \in C
      <3>1. q = 0 \/ q \in 1 .. len \/ q = X \/ q = L \/ q = Y
        BY <1>1, <1>2
      <3>2. CASE q \in 1 .. len
        <4>1. q \in 0 .. len
          BY <3>2
        <4> QED BY <2>1, <4>1
      <3> QED BY <1>14, <2>3, <2>4, <2>5, <3>1, <3>2
    <2> QED BY <1>14, <2>6
  <1> QED BY <1>11, <1>13, <1>14 DEF Good, e

LEMMA GenGood ==
    ASSUME NEW p \in GenPrograms
    PROVE  Good(p)
  <1>1. PICK len \in Nat : \E t \in Tails(len) :
             /\ len >= 1
             /\ p \in Seq(RegularInsns) /\ Len(p) = len + 1 + Len(t.tail)
             /\ At(p, 0) = MovImm(0)
             /\ \A n \in 1 .. len : At(p, n) \in BodyAt(n, len, t)
             /\ \A k \in 1 .. Len(t.tail) : At(p, len + k) = t.tail[k]
    BY GenShape
  <1>2. PICK t \in Tails(len) :
             /\ len >= 1
             /\ p \in Seq(RegularInsns) /\ Len(p) = len + 1 + Len(t.tail)
             /\ At(p, 0) = MovImm(0)
             /\ \A n \in 1 .. len : At(p, n) \in BodyAt(n, len, t)
             /\ \A k \in 1 .. Len(t.tail) : At(p, len + k) = t.tail[k]
    BY <1>1
  <1>3. At(p, 0).op = "aluk"
    BY <1>2, ExitOp
  <1> DEFINE x == ExitInsn
             m == MovImm(0)
             w == t.tail
  <1>4. \/ t.last \in {"body", "jump"} /\ w = <<x>>
        \/ t.last = "call" /\ w = <<x, m, x>>
    BY TailKinds
  <1>5. x.op = "exit" /\ m.op = "aluk"
    BY ExitOp
  <1>6. Len(p) = len + 1 + Len(w) /\ \A k \in 1 .. Len(w) : At(p, len + k) = w[k]
    BY <1>2
  <1> HIDE DEF x, m, w
  <1>7. CASE t.last \in {"body", "jump"} /\ w = <<x>>
    <2>1. Len(w) = 1 /\ w[1] = x /\ 1 \in 1 .. Len(w)
      BY <1>7
    <2>2. Len(p) = len + 2 /\ At(p, len + 1).op = "exit"
      BY <1>5, <1>6, <2>1
    <2> QED BY <1>2, <1>3, <1>7, <2>2, GenStraight
  <1>8. CASE t.last = "call" /\ w = <<x, m, x>>
    <2>1. Len(w) = 3 /\ w[1] = x /\ w[2] = m /\ w[3] = x
      BY <1>8
    <2>2. {1, 2, 3} \subseteq 1 .. Len(w)
      BY <2>1
    <2>3. Len(p) = len + 4
      BY <1>6, <2>1
    <2>4. At(p, len + 1).op = "exit" /\ At(p, len + 2).op = "aluk" /\ At(p, len + 3).op = "exit"
      BY <1>5, <1>6, <2>1, <2>2
    <2> QED BY <1>2, <1>3, <1>8, <2>3, <2>4, GenCall
  <1> QED BY <1>4, <1>7, <1>8

\* A template: simple instructions, compares that stay inside, an exit at the
\* end, and a compare over every exit before that.
Framed(b) ==
    /\ b \in Seq(RegularInsns) /\ Len(b) >= 1 /\ b[Len(b)].op = "exit"
    /\ \A n \in 1 .. Len(b) : b[n].op \in {"aluk", "alux", "stx", "ldx", "call", "jk", "exit"}
    /\ \A n \in 1 .. Len(b) : b[n].op = "jk" => n + 1 + b[n].off \in 1 .. Len(b)
    /\ \A n \in 1 .. Len(b) - 1 :
          b[n].op = "exit" => \E u \in 1 .. n : b[u].op = "jk" /\ u + 1 + b[u].off = n + 1

LEMMA FramedGood ==
    ASSUME NEW b, Framed(b)
    PROVE  Good(<<MovImm(0)>> \o b)
  <1> DEFINE m == MovImm(0)
             p == <<m>> \o b
             N == Len(b)
  <1>1. m \in RegularInsns /\ m.op = "aluk"
    <2>1. 0 \in 0 .. 10
      OBVIOUS
    <2> QED BY <2>1, MovRegular
  <1> HIDE DEF m
  <1>2. b \in Seq(RegularInsns) /\ N \in Nat /\ N >= 1
    BY DEF Framed
  <1>3. /\ p \in Seq(RegularInsns) /\ Len(p) = N + 1
        /\ At(p, 0) = m /\ \A n \in 1 .. N : At(p, n) = b[n]
    BY <1>1, <1>2, Prefixed
  <1> HIDE DEF p
  <1>4. Pcs(p) = 0 .. N /\ \A q \in Pcs(p) : q = 0 \/ q \in 1 .. N
    BY <1>2, <1>3 DEF Pcs
  <1>5. \A n \in 1 .. N : b[n].op \in {"aluk", "alux", "stx", "ldx", "call", "jk", "exit"}
    BY DEF Framed
  <1>6. \A n \in 1 .. N : b[n].op = "jk" => n + 1 + b[n].off \in 1 .. N
    BY DEF Framed
  <1>7. \A n \in 1 .. N - 1 :
           b[n].op = "exit" => \E u \in 1 .. n : b[u].op = "jk" /\ u + 1 + b[u].off = n + 1
    BY DEF Framed
  <1>8. Len(p) >= 1 /\ At(p, Len(p) - 1).op = "exit"
    <2>1. Len(p) - 1 = N /\ N \in 1 .. N
      BY <1>2, <1>3
    <2>2. b[N].op = "exit"
      BY DEF Framed
    <2> HIDE DEF N
    <2> QED BY <1>2, <1>3, <2>1, <2>2
  <1> HIDE DEF N
  <1>9. \A q \in Pcs(p) : At(p, q).op # "callsub"
    BY <1>1, <1>3, <1>4, <1>5
  <1>10. ASSUME NEW q \in Pcs(p), At(p, q).op \in Conditional \cup {"ja"} PROVE Target(p, q) \in Pcs(p)
    <2>1. q \in 1 .. N /\ At(p, q) = b[q] /\ b[q].op = "jk"
      BY <1>1, <1>3, <1>4, <1>5, <1>10 DEF Conditional
    <2>2. q + 1 + b[q].off \in 1 .. N
      BY <1>6, <2>1
    <2> QED BY <1>4, <2>1, <2>2 DEF Target
  <1>11. ASSUME NEW q \in Pcs(p), q > 0 PROVE \E u \in Pcs(p) : u < q /\ Leads(p, u, q)
    <2> DEFINE v == q - 1
    <2>1. v \in Pcs(p) /\ v < q /\ q = v + 1 /\ (v = 0 \/ v \in 1 .. N - 1) /\ q \in 1 .. N
      BY <1>2, <1>4, <1>11
    <2> HIDE DEF v
    <2>2. CASE v = 0 \/ (v \in 1 .. N - 1 /\ b[v].op # "exit")
      <3>1. v \in 1 .. N - 1 => v \in 1 .. N
        BY <1>2
      <3>2. At(p, v).op \notin {"exit", "ja", "callsub"}
        BY <1>1, <1>3, <1>5, <2>2, <3>1
      <3> QED BY <2>1, <3>2 DEF Leads
    <2>3. CASE v \in 1 .. N - 1 /\ b[v].op = "exit"
      <3>1. PICK u \in 1 .. v : b[u].op = "jk" /\ u + 1 + b[u].off = v + 1
        BY <1>7, <2>3
      <3>2. u \in 1 .. N /\ u \in Pcs(p) /\ u < q
        BY <1>2, <1>4, <2>1, <2>3
      <3>3. At(p, u).op \in Conditional /\ Target(p, u) = q
        BY <1>3, <2>1, <3>1, <3>2 DEF Target, Conditional
      <3> QED BY <3>2, <3>3 DEF Leads
    <2> QED BY <2>1, <2>2, <2>3
  <1>12. Good(p)
    BY <1>3, <1>8, <1>9, <1>10, <1>11, StraightGood
  <1> QED BY <1>12 DEF p, m

\* Each idiom template is one of these.
LEMMA TemplatesFramed ==
    ASSUME NEW b \in Templates
    PROVE  Framed(b)
  <1> DEFINE c == CallInsn
             m0 == MovImm(0)
             m1 == MovImm(1)
             m2 == MovImm(2)
             x == ExitInsn
             j1 == Compare(1)
             j2 == Compare(2)
             jb == Compare(-2)
             a1 == Insn("alux", 0, 1, 0, 0)
             a2 == Insn("alux", 0, 2, 0, 0)
             s == Insn("stx", 10, 1, -8, 0)
             l == Insn("ldx", 1, 10, -8, 0)
  <1>0. {0, 1, 2, 10} \subseteq 0 .. 10 /\ {-8, -2, 1, 2} \subseteq Int
    OBVIOUS
  <1>1. m0.op = "aluk" /\ m1.op = "aluk" /\ m2.op = "aluk"
    BY <1>0, MovRegular
  <1>2. c.op = "call" /\ x.op = "exit"
    BY CallRegular, ExitRegular
  <1>3. /\ j1.op = "jk" /\ j1.off = 1 /\ j2.op = "jk" /\ j2.off = 2
        /\ jb.op = "jk" /\ jb.off = -2
    BY <1>0, CompareRegular
  <1>4. a1.op = "alux" /\ a2.op = "alux"
    BY <1>0, AluRegular
  <1>5. s.op = "stx" /\ l.op = "ldx"
    BY DEF Insn
  <1>6. b \in Seq(RegularInsns)
    BY TemplateFacts DEF Templates
  <1>7. CASE b = overflow_chain
    <2>1. b = <<c, m0, m0, x>>
      BY <1>7 DEF overflow_chain
    <2> HIDE DEF c, m0, x
    <2>2. Len(b) = 4 /\ b[1] = c /\ b[2] = m0 /\ b[3] = m0 /\ b[4] = x
      BY <2>1
    <2>3. \A n \in 1 .. Len(b) : n = 1 \/ n = 2 \/ n = 3 \/ n = 4
      BY ONLY <2>2
    <2>4. \A n \in 1 .. Len(b) : b[n].op \in {"aluk", "alux", "stx", "ldx", "call", "jk", "exit"}
      BY <1>1, <1>2, <1>3, <1>4, <1>5, <2>2, <2>3
    <2>5. \A n \in 1 .. Len(b) : b[n].op = "jk" => n + 1 + b[n].off \in 1 .. Len(b)
      BY <1>1, <1>2, <1>3, <1>4, <1>5, <2>2, <2>3
    <2>6. \A n \in 1 .. Len(b) - 1 :
             b[n].op = "exit" => \E u \in 1 .. n : b[u].op = "jk" /\ u + 1 + b[u].off = n + 1
      BY <1>1, <1>2, <1>3, <1>4, <1>5, <2>2, <2>3
    <2>7. Len(b) >= 1 /\ b[Len(b)].op = "exit"
      BY <1>2, <2>2
    <2> QED BY <1>6, <2>4, <2>5, <2>6, <2>7 DEF Framed
  <1>8. CASE b = alu32_roundtrip
    <2>1. b = <<m1, m1, m1, a1, x>>
      BY <1>8 DEF alu32_roundtrip
    <2> HIDE DEF m1, x, a1
    <2>2. Len(b) = 5 /\ b[1] = m1 /\ b[2] = m1 /\ b[3] = m1 /\ b[4] = a1 /\ b[5] = x
      BY <2>1
    <2>3. \A n \in 1 .. Len(b) : n = 1 \/ n = 2 \/ n = 3 \/ n = 4 \/ n = 5
      BY ONLY <2>2
    <2>4. \A n \in 1 .. Len(b) : b[n].op \in {"aluk", "alux", "stx", "ldx", "call", "jk", "exit"}
      BY <1>1, <1>2, <1>3, <1>4, <1>5, <2>2, <2>3
    <2>5. \A n \in 1 .. Len(b) : b[n].op = "jk" => n + 1 + b[n].off \in 1 .. Len(b)
      BY <1>1, <1>2, <1>3, <1>4, <1>5, <2>2, <2>3
    <2>6. \A n \in 1 .. Len(b) - 1 :
             b[n].op = "exit" => \E u \in 1 .. n : b[u].op = "jk" /\ u + 1 + b[u].off = n + 1
      BY <1>1, <1>2, <1>3, <1>4, <1>5, <2>2, <2>3
    <2>7. Len(b) >= 1 /\ b[Len(b)].op = "exit"
      BY <1>2, <2>2
    <2> QED BY <1>6, <2>4, <2>5, <2>6, <2>7 DEF Framed
  <1>9. CASE b = dual_refine
    <2>1. b = <<c, m1, j2, j1, m0, x>>
      BY <1>9 DEF dual_refine
    <2> HIDE DEF c, m0, m1, x, j1, j2
    <2>2. Len(b) = 6 /\ b[1] = c /\ b[2] = m1 /\ b[3] = j2 /\ b[4] = j1 /\ b[5] = m0 /\ b[6] = x
      BY <2>1
    <2>3. \A n \in 1 .. Len(b) : n = 1 \/ n = 2 \/ n = 3 \/ n = 4 \/ n = 5 \/ n = 6
      BY ONLY <2>2
    <2>4. \A n \in 1 .. Len(b) : b[n].op \in {"aluk", "alux", "stx", "ldx", "call", "jk", "exit"}
      BY <1>1, <1>2, <1>3, <1>4, <1>5, <2>2, <2>3
    <2>5. \A n \in 1 .. Len(b) : b[n].op = "jk" => n + 1 + b[n].off \in 1 .. Len(b)
      BY <1>1, <1>2, <1>3, <1>4, <1>5, <2>2, <2>3
    <2>6. \A n \in 1 .. Len(b) - 1 :
             b[n].op = "exit" => \E u \in 1 .. n : b[u].op = "jk" /\ u + 1 + b[u].off = n + 1
      BY <1>1, <1>2, <1>3, <1>4, <1>5, <2>2, <2>3
    <2>7. Len(b) >= 1 /\ b[Len(b)].op = "exit"
      BY <1>2, <2>2
    <2> QED BY <1>6, <2>4, <2>5, <2>6, <2>7 DEF Framed
  <1>10. CASE b = narrowing_chain
    <2>1. b = <<c, m1, j2, j1, m0, x>>
      BY <1>10 DEF narrowing_chain
    <2> HIDE DEF c, m0, m1, x, j1, j2
    <2>2. Len(b) = 6 /\ b[1] = c /\ b[2] = m1 /\ b[3] = j2 /\ b[4] = j1 /\ b[5] = m0 /\ b[6] = x
      BY <2>1
    <2>3. \A n \in 1 .. Len(b) : n = 1 \/ n = 2 \/ n = 3 \/ n = 4 \/ n = 5 \/ n = 6
      BY ONLY <2>2
    <2>4. \A n \in 1 .. Len(b) : b[n].op \in {"aluk", "alux", "stx", "ldx", "call", "jk", "exit"}
      BY <1>1, <1>2, <1>3, <1>4, <1>5, <2>2, <2>3
    <2>5. \A n \in 1 .. Len(b) : b[n].op = "jk" => n + 1 + b[n].off \in 1 .. Len(b)
      BY <1>1, <1>2, <1>3, <1>4, <1>5, <2>2, <2>3
    <2>6. \A n \in 1 .. Len(b) - 1 :
             b[n].op = "exit" => \E u \in 1 .. n : b[u].op = "jk" /\ u + 1 + b[u].off = n + 1
      BY <1>1, <1>2, <1>3, <1>4, <1>5, <2>2, <2>3
    <2>7. Len(b) >= 1 /\ b[Len(b)].op = "exit"
      BY <1>2, <2>2
    <2> QED BY <1>6, <2>4, <2>5, <2>6, <2>7 DEF Framed
  <1>11. CASE b = spill_fill
    <2>1. b = <<m1, s, m1, l, a1, x>>
      BY <1>11 DEF spill_fill
    <2> HIDE DEF m1, x, a1, s, l
    <2>2. Len(b) = 6 /\ b[1] = m1 /\ b[2] = s /\ b[3] = m1 /\ b[4] = l /\ b[5] = a1 /\ b[6] = x
      BY <2>1
    <2>3. \A n \in 1 .. Len(b) : n = 1 \/ n = 2 \/ n = 3 \/ n = 4 \/ n = 5 \/ n = 6
      BY ONLY <2>2
    <2>4. \A n \in 1 .. Len(b) : b[n].op \in {"aluk", "alux", "stx", "ldx", "call", "jk", "exit"}
      BY <1>1, <1>2, <1>3, <1>4, <1>5, <2>2, <2>3
    <2>5. \A n \in 1 .. Len(b) : b[n].op = "jk" => n + 1 + b[n].off \in 1 .. Len(b)
      BY <1>1, <1>2, <1>3, <1>4, <1>5, <2>2, <2>3
    <2>6. \A n \in 1 .. Len(b) - 1 :
             b[n].op = "exit" => \E u \in 1 .. n : b[u].op = "jk" /\ u + 1 + b[u].off = n + 1
      BY <1>1, <1>2, <1>3, <1>4, <1>5, <2>2, <2>3
    <2>7. Len(b) >= 1 /\ b[Len(b)].op = "exit"
      BY <1>2, <2>2
    <2> QED BY <1>6, <2>4, <2>5, <2>6, <2>7 DEF Framed
  <1>12. CASE b = null_check
    <2>1. b = <<c, m1, j1, x, m0, x>>
      BY <1>12 DEF null_check
    <2> HIDE DEF c, m0, m1, x, j1
    <2>2. Len(b) = 6 /\ b[1] = c /\ b[2] = m1 /\ b[3] = j1 /\ b[4] = x /\ b[5] = m0 /\ b[6] = x
      BY <2>1
    <2>3. \A n \in 1 .. Len(b) : n = 1 \/ n = 2 \/ n = 3 \/ n = 4 \/ n = 5 \/ n = 6
      BY ONLY <2>2
    <2>4. \A n \in 1 .. Len(b) : b[n].op \in {"aluk", "alux", "stx", "ldx", "call", "jk", "exit"}
      BY <1>1, <1>2, <1>3, <1>4, <1>5, <2>2, <2>3
    <2>5. \A n \in 1 .. Len(b) : b[n].op = "jk" => n + 1 + b[n].off \in 1 .. Len(b)
      BY <1>1, <1>2, <1>3, <1>4, <1>5, <2>2, <2>3
    <2>6. \A n \in 1 .. Len(b) - 1 :
             b[n].op = "exit" => \E u \in 1 .. n : b[u].op = "jk" /\ u + 1 + b[u].off = n + 1
      BY <1>1, <1>2, <1>3, <1>4, <1>5, <2>2, <2>3
    <2>7. Len(b) >= 1 /\ b[Len(b)].op = "exit"
      BY <1>2, <2>2
    <2> QED BY <1>6, <2>4, <2>5, <2>6, <2>7 DEF Framed
  <1>13. CASE b = bounded_loop
    <2>1. b = <<m1, m2, m2, jb, a2, x>>
      BY <1>13 DEF bounded_loop
    <2> HIDE DEF m1, m2, x, jb, a2
    <2>2. Len(b) = 6 /\ b[1] = m1 /\ b[2] = m2 /\ b[3] = m2 /\ b[4] = jb /\ b[5] = a2 /\ b[6] = x
      BY <2>1
    <2>3. \A n \in 1 .. Len(b) : n = 1 \/ n = 2 \/ n = 3 \/ n = 4 \/ n = 5 \/ n = 6
      BY ONLY <2>2
    <2>4. \A n \in 1 .. Len(b) : b[n].op \in {"aluk", "alux", "stx", "ldx", "call", "jk", "exit"}
      BY <1>1, <1>2, <1>3, <1>4, <1>5, <2>2, <2>3
    <2>5. \A n \in 1 .. Len(b) : b[n].op = "jk" => n + 1 + b[n].off \in 1 .. Len(b)
      BY <1>1, <1>2, <1>3, <1>4, <1>5, <2>2, <2>3
    <2>6. \A n \in 1 .. Len(b) - 1 :
             b[n].op = "exit" => \E u \in 1 .. n : b[u].op = "jk" /\ u + 1 + b[u].off = n + 1
      BY <1>1, <1>2, <1>3, <1>4, <1>5, <2>2, <2>3
    <2>7. Len(b) >= 1 /\ b[Len(b)].op = "exit"
      BY <1>2, <2>2
    <2> QED BY <1>6, <2>4, <2>5, <2>6, <2>7 DEF Framed
  <1> QED BY <1>7, <1>8, <1>9, <1>10, <1>11, <1>12, <1>13 DEF Templates

LEMMA IdiomGood ==
    ASSUME NEW p \in IdiomPrograms
    PROVE  Good(p)
  <1>1. PICK body \in Templates : p = <<MovImm(0)>> \o body
    BY DEF IdiomPrograms, Templates
  <1> QED BY <1>1, TemplatesFramed, FramedGood

LEMMA InitPass == Init => PassInv
  <1> SUFFICES ASSUME Init PROVE PassInv
    OBVIOUS
  <1>1. CASE \E s \in Files : Start("file", s)
    <2>1. origin = "file"
      BY <1>1 DEF Start
    <2> QED BY <2>1 DEF PassInv
  <1>2. CASE \E p \in GenPrograms \cup IdiomPrograms : Start("gen", EncodeAll(p))
    <2>1. PICK p \in GenPrograms \cup IdiomPrograms : Start("gen", EncodeAll(p))
      BY <1>2
    <2>2. Good(p)
      BY GenGood, IdiomGood
    <2>3. p \in Seq(RegularInsns)
      BY <2>2 DEF Good
    <2>4. Parsed(EncodeAll(p)) = p
      BY <2>3, ParsedEncoded
    <2>5. Emitted(EncodeAll(p))
      BY <2>2, <2>4 DEF Emitted
    <2>6. origin = "gen" /\ slots = EncodeAll(p) /\ mode = "env" /\ phase = "decode"
      BY <2>1 DEF Start
    <2> QED BY <2>5, <2>6 DEF PassInv, Rejects
  <1> QED BY <1>1, <1>2 DEF Init

\* What gen_program and gen_idiom_program emit is never turned away by
\* decode_program, add_subprog or check_cfg, for every body length: the
\* generator's "by construction".
THEOREM GeneratedPass == Spec => []GeneratedPasses
  <1>1. PassInv => GeneratedPasses
    BY DEF PassInv, GeneratedPasses, Rejects
  <1>2. Init => Base /\ DecodeInv /\ SearchInv /\ PassInv
    BY InitBase, InitDecode, InitSearch, InitPass
  <1>3. Base /\ DecodeInv /\ SearchInv /\ PassInv /\ [Next]_vars
            => (Base /\ DecodeInv /\ SearchInv /\ PassInv)'
    BY BaseStep, DecodeStep, SearchStep, PassStep
  <1> QED BY <1>1, <1>2, <1>3, PTL DEF Spec

\* A mutant that try_mutate keeps, of any seeds without an ldimm64, decodes
\* and passes the same checks again when the verifier loads its encoding.
THEOREM MutantPass == Spec => []MutantPasses
  <1>1. PassInv => MutantPasses
    BY DEF PassInv, MutantPasses, Rejects
  <1>2. Init => Base /\ DecodeInv /\ SearchInv /\ PassInv
    BY InitBase, InitDecode, InitSearch, InitPass
  <1>3. Base /\ DecodeInv /\ SearchInv /\ PassInv /\ [Next]_vars
            => (Base /\ DecodeInv /\ SearchInv /\ PassInv)'
    BY BaseStep, DecodeStep, SearchStep, PassStep
  <1> QED BY <1>1, <1>2, <1>3, PTL DEF Spec

=============================================================================
