----------------------------- MODULE MiniProofs -----------------------------
(***************************************************************************)
(* Proofs about the exploration of the mini pass, for every program the     *)
(* structural pass lets by and every setting of the limits: its types, the  *)
(* branch counts of the checkpoints, and that an unfinished checkpoint is   *)
(* an ancestor of the path that is popped.                                  *)
(***************************************************************************)
EXTENDS Mini, FiniteSetTheorems, SequenceTheorems, WellFoundedInduction, TLAPS

-----------------------------------------------------------------------------
(* Chains of checkpoints.                                                   *)

\* Every checkpoint is younger than its parent.
Linked(cs) == \A c \in 1..Len(cs) : cs[c].parent \in 0..(c - 1)

\* A nonempty set of numbers has a least one.
LEMMA LeastNat ==
    ASSUME NEW S \in SUBSET Nat, S # {}
    PROVE  \E m \in S : \A n \in S : m <= n
  <1>1. PICK m \in S : \A n \in S : ~(<<n, m>> \in OpToRel(<, Nat))
    BY NatLessThanWellFounded, WFMin
  <1>2. \A n \in S : ~(n < m)
    BY <1>1 DEF OpToRel
  <1> QED BY <1>2

\* The chains up to the n-th checkpoint can be tabulated.
Table(cs, n, f) ==
    /\ f \in [0..n -> SUBSET Nat]
    /\ \A c \in 0..n : f[c] = IF c = 0 THEN {} ELSE {c} \cup f[cs[c].parent]

LEMMA TableExists ==
    ASSUME NEW cs, Len(cs) \in Nat, Linked(cs), NEW n \in 0..Len(cs)
    PROVE  \E f : Table(cs, n, f)
  <1> DEFINE Bad == {m \in 0..Len(cs) : ~ \E f : Table(cs, m, f)}
  <1>1. SUFFICES ASSUME Bad # {} PROVE FALSE
    OBVIOUS
  <1>2. PICK m \in Bad : \A k \in Bad : m <= k
    <2>1. Bad \in SUBSET Nat
      OBVIOUS
    <2> HIDE DEF Bad
    <2> QED BY <1>1, <2>1, LeastNat
  <1>3. CASE m = 0
    <2> DEFINE f == [c \in 0..0 |-> {}]
    <2>1. Table(cs, 0, f)
      BY DEF Table
    <2> QED BY <1>2, <1>3, <2>1
  <1>4. CASE m # 0
    <2>1. m - 1 \in 0..Len(cs) /\ m - 1 \notin Bad /\ m \in Nat /\ m <= Len(cs)
      BY <1>2, <1>4
    <2>2. PICK g : Table(cs, m - 1, g)
      BY <2>1
    <2> DEFINE f == [c \in 0..m |-> IF c = m THEN {m} \cup g[cs[m].parent] ELSE g[c]]
    <2>3. cs[m].parent \in 0..(m - 1)
      BY <1>4, <2>1 DEF Linked
    <2>4. f \in [0..m -> SUBSET Nat]
      BY <2>1, <2>2, <2>3 DEF Table
    <2>5. ASSUME NEW c \in 0..m PROVE f[c] = IF c = 0 THEN {} ELSE {c} \cup f[cs[c].parent]
      <3>1. CASE c = m
        <4>1. f[cs[m].parent] = g[cs[m].parent]
          BY <2>1, <2>3
        <4> QED BY <1>4, <3>1, <4>1
      <3>2. CASE c # m
        <4>1. c \in 0..(m - 1) /\ f[c] = g[c]
          BY <2>1, <3>2
        <4>2. g[c] = IF c = 0 THEN {} ELSE {c} \cup g[cs[c].parent]
          BY <2>2, <4>1 DEF Table
        <4>3. c # 0 => cs[c].parent \in 0..(c - 1)
          BY <2>1, <4>1 DEF Linked
        <4>4. c # 0 => f[cs[c].parent] = g[cs[c].parent]
          BY <2>1, <4>1, <4>3
        <4> QED BY <4>1, <4>2, <4>4
      <3> QED BY <3>1, <3>2
    <2> HIDE DEF f
    <2>6. Table(cs, m, f)
      BY <2>4, <2>5 DEF Table
    <2> QED BY <1>2, <2>6
  <1> QED BY <1>3, <1>4

\* What Chain computes.
LEMMA ChainTable ==
    ASSUME NEW cs, Len(cs) \in Nat, Linked(cs)
    PROVE  Table(cs, Len(cs), [c \in 0..Len(cs) |-> Chain(cs, c)])
  <1> DEFINE Up(f) == f = [c \in 0..Len(cs) |-> IF c = 0 THEN {} ELSE {c} \cup f[cs[c].parent]]
             up == CHOOSE f : Up(f)
  <1>1. \A c : Chain(cs, c) = up[c]
    BY DEF Chain
  <1>2. PICK f : Table(cs, Len(cs), f)
    BY TableExists
  <1>3. Up(f)
    BY <1>2 DEF Table
  <1>4. Up(up)
    BY <1>3
  <1> HIDE DEF up
  <1>5. \A c \in 0..Len(cs) : up[c] \in SUBSET Nat
    <2> DEFINE Bad == {c \in 0..Len(cs) : up[c] \notin SUBSET Nat}
    <2>1. SUFFICES ASSUME Bad # {} PROVE FALSE
      OBVIOUS
    <2>2. PICK m \in Bad : \A k \in Bad : m <= k
      <3>1. Bad \in SUBSET Nat
        OBVIOUS
      <3> HIDE DEF Bad
      <3> QED BY <2>1, <3>1, LeastNat
    <2>3. m # 0 /\ m \in 1..Len(cs) /\ up[m] = {m} \cup up[cs[m].parent]
      BY <1>4, <2>2
    <2>4. cs[m].parent \in 0..(m - 1)
      BY <2>3 DEF Linked
    <2>5. cs[m].parent \in 0..Len(cs) /\ cs[m].parent \notin Bad
      BY <2>2, <2>3, <2>4
    <2> QED BY <2>2, <2>3, <2>5
  <1>6. \A c \in 0..Len(cs) : up[c] = IF c = 0 THEN {} ELSE {c} \cup up[cs[c].parent]
    BY <1>4
  <1> DEFINE g == [c \in 0..Len(cs) |-> Chain(cs, c)]
  <1>7. g = [c \in 0..Len(cs) |-> up[c]]
    BY <1>1
  <1>8. \A c \in 1..Len(cs) : cs[c].parent \in 0..Len(cs)
    BY DEF Linked
  <1> HIDE DEF g
  <1>a. g \in [0..Len(cs) -> SUBSET Nat]
    BY <1>5, <1>7
  <1>b. \A c \in 0..Len(cs) : g[c] = up[c]
    BY <1>7
  <1>c. ASSUME NEW c \in 0..Len(cs) PROVE g[c] = IF c = 0 THEN {} ELSE {c} \cup g[cs[c].parent]
    <2>1. c # 0 => cs[c].parent \in 0..Len(cs)
      BY <1>8
    <2>2. c # 0 => g[cs[c].parent] = up[cs[c].parent]
      BY <1>b, <2>1
    <2> QED BY <1>6, <1>b, <2>2
  <1>9. Table(cs, Len(cs), g)
    BY <1>a, <1>c DEF Table
  <1> QED BY <1>9 DEF g

\* The chain of a checkpoint is itself and its parent's chain; its members
\* are no younger than it.
LEMMA ChainDef ==
    ASSUME NEW cs, Len(cs) \in Nat, Linked(cs)
    PROVE  /\ Chain(cs, 0) = {}
           /\ \A c \in 1..Len(cs) : Chain(cs, c) = {c} \cup Chain(cs, cs[c].parent)
           /\ \A c \in 0..Len(cs) : Chain(cs, c) \subseteq 1..c
  <1> DEFINE g == [c \in 0..Len(cs) |-> Chain(cs, c)]
  <1>1. \A c \in 0..Len(cs) : g[c] = IF c = 0 THEN {} ELSE {c} \cup g[cs[c].parent]
    BY ChainTable DEF Table
  <1>2. \A c \in 1..Len(cs) : cs[c].parent \in 0..(c - 1) /\ cs[c].parent \in 0..Len(cs)
    BY DEF Linked
  <1>3. Chain(cs, 0) = {}
    BY <1>1
  <1>4. ASSUME NEW c \in 1..Len(cs) PROVE Chain(cs, c) = {c} \cup Chain(cs, cs[c].parent)
    <2>1. c \in 0..Len(cs) /\ c # 0 /\ cs[c].parent \in 0..Len(cs)
      BY <1>2
    <2>2. g[c] = Chain(cs, c) /\ g[cs[c].parent] = Chain(cs, cs[c].parent)
      BY <2>1
    <2>3. g[c] = {c} \cup g[cs[c].parent]
      BY <1>1, <2>1
    <2> QED BY <2>2, <2>3
  <1>5. \A c \in 0..Len(cs) : Chain(cs, c) \subseteq 1..c
    <2> HIDE DEF g
    <2> DEFINE Bad == {c \in 0..Len(cs) : ~(Chain(cs, c) \subseteq 1..c)}
    <2>1. SUFFICES ASSUME Bad # {} PROVE FALSE
      OBVIOUS
    <2>2. PICK m \in Bad : \A k \in Bad : m <= k
      <3>1. Bad \in SUBSET Nat
        OBVIOUS
      <3> HIDE DEF Bad
      <3> QED BY <2>1, <3>1, LeastNat
    <2>3. m \in 1..Len(cs)
      BY <1>3, <2>2
    <2>4. cs[m].parent \in 0..(m - 1) /\ cs[m].parent \in 0..Len(cs)
      BY <1>2, <2>3
    <2>5. cs[m].parent \notin Bad
      BY <2>2, <2>3, <2>4
    <2>6. Chain(cs, cs[m].parent) \subseteq 1..cs[m].parent
      BY <2>4, <2>5
    <2>7. 1..cs[m].parent \subseteq 1..m /\ {m} \subseteq 1..m
      BY <2>3, <2>4
    <2>8. Chain(cs, m) \subseteq 1..m
      BY <1>4, <2>3, <2>6, <2>7
    <2> QED BY <2>2, <2>8
  <1> QED BY <1>3, <1>4, <1>5

\* Checkpoints are only added, and never move to another parent.
Grown(cs, ds) ==
    /\ Len(cs) <= Len(ds)
    /\ \A c \in 1..Len(cs) : ds[c].parent = cs[c].parent

LEMMA ChainSame ==
    ASSUME NEW cs, NEW ds, Len(cs) \in Nat, Len(ds) \in Nat, Linked(cs), Linked(ds),
           Grown(cs, ds), NEW last \in 0..Len(cs)
    PROVE  Chain(ds, last) = Chain(cs, last)
  <1> DEFINE Bad == {c \in 0..Len(cs) : Chain(ds, c) # Chain(cs, c)}
  <1>1. SUFFICES ASSUME Bad # {} PROVE FALSE
    OBVIOUS
  <1>2. PICK m \in Bad : \A k \in Bad : m <= k
    <2>1. Bad \in SUBSET Nat
      OBVIOUS
    <2> HIDE DEF Bad
    <2> QED BY <1>1, <2>1, LeastNat
  <1>3. m \in 1..Len(cs) /\ m \in 1..Len(ds)
    <2>1. Chain(cs, 0) = {} /\ Chain(ds, 0) = {}
      BY ChainDef
    <2>2. m # 0 /\ m \in 0..Len(cs)
      BY <1>2, <2>1
    <2> QED BY <2>2 DEF Grown
  <1>4. cs[m].parent \in 0..(m - 1) /\ ds[m].parent = cs[m].parent
    BY <1>3 DEF Linked, Grown
  <1>5. cs[m].parent \in 0..Len(cs) /\ cs[m].parent \notin Bad
    BY <1>2, <1>3, <1>4
  <1>6. Chain(cs, m) = {m} \cup Chain(cs, cs[m].parent)
    BY <1>3, ChainDef
  <1>7. Chain(ds, m) = {m} \cup Chain(ds, ds[m].parent)
    BY <1>3, ChainDef
  <1> QED BY <1>2, <1>4, <1>5, <1>6, <1>7

-----------------------------------------------------------------------------
(* Branch counts, for any checkpoints and worklist.                         *)

\* The items whose path leads through checkpoint c.
Users(cs, w, c) == {k \in 1..Len(w) : c \in Chain(cs, w[k].last_cp)}

Counted(cs, w) ==
    \A c \in 1..Len(cs) : cs[c].branches = Cardinality(Users(cs, w, c))

\* A later item's path leads through every checkpoint of an earlier one's.
Stacked(cs, w) ==
    \A j, k \in 1..Len(w) :
        j <= k => Chain(cs, w[j].last_cp) \subseteq Chain(cs, w[k].last_cp)

\* w with its last item replaced by n items of checkpoint last.
Replaced(w, v, n, last) ==
    /\ Len(v) = Len(w) - 1 + n
    /\ \A k \in 1..(Len(w) - 1) : v[k].last_cp = w[k].last_cp
    /\ \A k \in Len(w)..Len(v) : v[k].last_cp = last

\* The counts that go with it.
Rebalanced(cs, ds, n, last, top) ==
    \A c \in 1..Len(ds) :
        ds[c].branches =
            (IF c <= Len(cs) THEN cs[c].branches ELSE 0)
            + (IF c \in Chain(ds, last) THEN n ELSE 0)
            - (IF c \in Chain(ds, top) THEN 1 ELSE 0)

LEMMA CountsKept ==
    ASSUME NEW cs, NEW ds, Len(cs) \in Nat, Len(ds) \in Nat, Linked(cs), Linked(ds), Grown(cs, ds),
           NEW w, NEW v, Len(w) \in Nat \ {0}, Len(v) \in Nat, NEW n \in Nat,
           NEW last \in 0..Len(ds),
           \A k \in 1..Len(w) : w[k].last_cp \in 0..Len(cs),
           Replaced(w, v, n, last), Counted(cs, w),
           Rebalanced(cs, ds, n, last, w[Len(w)].last_cp)
    PROVE  Counted(ds, v)
  <1> DEFINE top == w[Len(w)].last_cp
             m   == Len(w)
  <1>1. SUFFICES ASSUME NEW c \in 1..Len(ds)
                 PROVE  ds[c].branches = Cardinality(Users(ds, v, c))
    BY DEF Counted
  <1> DEFINE old  == {k \in 1..(m - 1) : c \in Chain(cs, w[k].last_cp)}
             gone == IF c \in Chain(cs, top) THEN {m} ELSE {}
             new  == IF c \in Chain(ds, last) THEN m..(m - 1 + n) ELSE {}
  <1>2. m \in Nat /\ m >= 1 /\ top \in 0..Len(cs) /\ Len(v) = m - 1 + n
    BY DEF Replaced
  <1>3. \A k \in 1..m : Chain(ds, w[k].last_cp) = Chain(cs, w[k].last_cp)
    BY ChainSame
  <1>4. Users(cs, w, c) = old \cup gone
    BY <1>2 DEF Users
  <1>5. Users(ds, v, c) = old \cup new
    <2>1. \A k \in 1..(m - 1) : Chain(ds, v[k].last_cp) = Chain(cs, w[k].last_cp)
      BY <1>2, <1>3 DEF Replaced
    <2>2. \A k \in m..(m - 1 + n) : v[k].last_cp = last
      BY <1>2 DEF Replaced
    <2>3. \A k : k \in 1..(m - 1 + n) <=> k \in 1..(m - 1) \/ k \in m..(m - 1 + n)
      BY <1>2
    <2> QED BY <1>2, <2>1, <2>2, <2>3 DEF Users
  <1>6. IsFiniteSet(old) /\ Cardinality(old) \in Nat
    <2>1. IsFiniteSet(1..(m - 1))
      BY <1>2, FS_Interval
    <2>2. old \subseteq 1..(m - 1)
      OBVIOUS
    <2> HIDE DEF old
    <2> QED BY <2>1, <2>2, FS_Subset, FS_CardinalityType
  <1>7. IsFiniteSet(gone) /\ Cardinality(gone) = IF c \in Chain(cs, top) THEN 1 ELSE 0
    BY FS_Singleton, FS_EmptySet
  <1>8. IsFiniteSet(new) /\ Cardinality(new) = IF c \in Chain(ds, last) THEN n ELSE 0
    <2> DEFINE b == m - 1 + n
    <2>1. m \in Int /\ b \in Int
      BY <1>2
    <2>2. IsFiniteSet(m..b) /\ Cardinality(m..b) = IF m > b THEN 0 ELSE b - m + 1
      <3> HIDE DEF b, m
      <3> QED BY <2>1, FS_Interval
    <2>3. (IF m > b THEN 0 ELSE b - m + 1) = n
      BY <1>2
    <2> QED BY <2>2, <2>3, FS_EmptySet
  <1>9. old \cap gone = {} /\ old \cap new = {}
    BY <1>2
  <1> HIDE DEF old, gone, new
  <1>10. Cardinality(old \cup gone) = Cardinality(old) + Cardinality(gone)
    <2>1. Cardinality(old \cap gone) = 0
      BY <1>9, FS_EmptySet
    <2>2. Cardinality(old \cup gone) = Cardinality(old) + Cardinality(gone) - Cardinality(old \cap gone)
      BY <1>6, <1>7, FS_Union
    <2> QED BY <1>6, <1>7, <2>1, <2>2
  <1>11. Cardinality(old \cup new) = Cardinality(old) + Cardinality(new)
    <2>1. Cardinality(old \cap new) = 0
      BY <1>9, FS_EmptySet
    <2>2. Cardinality(old \cup new) = Cardinality(old) + Cardinality(new) - Cardinality(old \cap new)
      BY <1>6, <1>8, FS_Union
    <2> QED BY <1>6, <1>8, <2>1, <2>2
  <1>12. Chain(ds, top) = Chain(cs, top)
    BY <1>2, ChainSame
  <1>13. ds[c].branches = (IF c <= Len(cs) THEN cs[c].branches ELSE 0)
                          + Cardinality(new) - Cardinality(gone)
    <2>1. Cardinality(gone) = IF c \in Chain(ds, top) THEN 1 ELSE 0
      BY <1>7, <1>12
    <2> QED BY <1>8, <2>1 DEF Rebalanced
  <1>14. CASE c <= Len(cs)
    <2>1. cs[c].branches = Cardinality(old) + Cardinality(gone)
      <3>1. c \in 1..Len(cs)
        BY <1>14
      <3>2. cs[c].branches = Cardinality(Users(cs, w, c))
        BY <3>1 DEF Counted
      <3> QED BY <1>4, <1>10, <3>2
    <2>2. Cardinality(gone) \in Nat /\ Cardinality(new) \in Nat /\ Cardinality(old) \in Nat
      BY <1>6, <1>7, <1>8
    <2>3. ds[c].branches = Cardinality(old) + Cardinality(new)
      BY ONLY <1>13, <1>14, <2>1, <2>2
    <2> QED BY <1>5, <1>11, <2>3
  <1>15. CASE ~(c <= Len(cs))
    <2>1. \A k \in 1..m : Chain(cs, w[k].last_cp) \subseteq 1..Len(cs)
      BY ChainDef
    <2>2. \A k \in 1..m : c \notin Chain(cs, w[k].last_cp)
      BY <1>15, <2>1
    <2>3. old = {} /\ gone = {}
      BY <1>2, <2>2 DEF old, gone
    <2>4. Cardinality(old) = 0 /\ Cardinality(gone) = 0
      BY <2>3, FS_EmptySet
    <2>5. Cardinality(new) \in Nat
      BY <1>8
    <2> QED BY <1>5, <1>11, <1>13, <1>15, <2>4, <2>5
  <1> QED BY <1>14, <1>15

LEMMA StackKept ==
    ASSUME NEW cs, NEW ds, Len(cs) \in Nat, Len(ds) \in Nat, Linked(cs), Linked(ds), Grown(cs, ds),
           NEW w, NEW v, Len(w) \in Nat \ {0}, Len(v) \in Nat, NEW n \in Nat,
           NEW last \in 0..Len(ds),
           \A k \in 1..Len(w) : w[k].last_cp \in 0..Len(cs),
           Replaced(w, v, n, last), Stacked(cs, w),
           Chain(cs, w[Len(w)].last_cp) \subseteq Chain(ds, last)
    PROVE  Stacked(ds, v)
  <1> DEFINE m == Len(w)
  <1>1. SUFFICES ASSUME NEW j \in 1..Len(v), NEW k \in 1..Len(v), j <= k
                 PROVE  Chain(ds, v[j].last_cp) \subseteq Chain(ds, v[k].last_cp)
    BY DEF Stacked
  <1>2. \A i \in 1..(m - 1) : Chain(ds, v[i].last_cp) = Chain(cs, w[i].last_cp)
    <2>1. \A i \in 1..(m - 1) : i \in 1..m
      OBVIOUS
    <2>2. \A i \in 1..(m - 1) : v[i].last_cp = w[i].last_cp
      BY DEF Replaced
    <2> QED BY <2>1, <2>2, ChainSame
  <1>3. \A i \in 1..Len(v) : i \in 1..(m - 1) \/ v[i].last_cp = last
    BY DEF Replaced
  <1>4. CASE j \in 1..(m - 1) /\ k \in 1..(m - 1)
    <2>0. j \in 1..m /\ k \in 1..m
      BY <1>4
    <2>1. Chain(cs, w[j].last_cp) \subseteq Chain(cs, w[k].last_cp)
      BY <1>1, <2>0 DEF Stacked
    <2> QED BY <1>2, <1>4, <2>1
  <1>5. CASE j \in 1..(m - 1) /\ v[k].last_cp = last
    <2>0. j \in 1..m /\ m \in 1..m /\ j <= m
      BY <1>5
    <2>1. Chain(cs, w[j].last_cp) \subseteq Chain(cs, w[m].last_cp)
      BY <2>0 DEF Stacked
    <2> QED BY <1>2, <1>5, <2>1
  <1>6. CASE j \notin 1..(m - 1)
    <2>1. k \notin 1..(m - 1)
      BY <1>1, <1>6
    <2> QED BY <1>3, <1>6, <2>1
  <1> QED BY <1>3, <1>4, <1>5, <1>6

-----------------------------------------------------------------------------
(* The data of the exploration of a program p.                              *)

AbsReg  == [t : {"uninit", "scalar", "ctx", "map"}, lo : Int, hi : Int, al : Int]
RegFile == [Regs -> AbsReg]
FrameOf(p) == [regs : RegFile, ret : Pcs(p)]
StateOf(p) == [regs : RegFile, ret : Pcs(p), saved : Seq(FrameOf(p))]
NextOf(p)  == [pc : Pcs(p), state : StateOf(p)]
ItemOf(p)  == [pc : Pcs(p), state : StateOf(p), last_cp : Nat, history : Seq(Pcs(p))]
CpOf(p) ==
    [state : StateOf(p), parent : Nat, branches : Int, hit_cnt : Nat,
     miss_cnt : Nat, segment : Seq(Pcs(p)), precise : SUBSET Regs]

LEMMA Constructors ==
    /\ Unbounded \in Nat /\ ALIGN_UNKNOWN \in Nat
    /\ Uninit \in AbsReg
    /\ \A lo, hi \in Int : Scalar(lo, hi) \in AbsReg
    /\ \A v \in Int : Const(v) \in AbsReg /\ PtrToCtx(v) \in AbsReg
    /\ \A lo, hi, al \in Int : PtrToMapValue(lo, hi, al) \in AbsReg
  <1>1. Unbounded \in Nat /\ ALIGN_UNKNOWN \in Nat
    BY DEF Unbounded, ALIGN_UNKNOWN
  <1> QED BY <1>1 DEF Uninit, Scalar, Const, PtrToCtx, PtrToMapValue, Reg, AbsReg

LEMMA AluTyped ==
    ASSUME NEW a \in AbsReg, NEW b \in AbsReg
    PROVE  alu_add(a, b) \subseteq AbsReg
  <1>1. a.lo \in Int /\ a.hi \in Int /\ a.al \in Int /\ b.lo \in Int /\ b.hi \in Int /\ b.al \in Int
    BY DEF AbsReg
  <1>2. AddScalars(a, b) \in AbsReg
    BY <1>1, Constructors DEF AddScalars
  <1>3. ASSUME NEW p \in AbsReg, NEW s \in AbsReg PROVE AddToPointer(p, s) \subseteq AbsReg
    <2>1. p.lo \in Int /\ p.hi \in Int /\ p.al \in Int /\ s.lo \in Int /\ s.hi \in Int
      BY DEF AbsReg
    <2> DEFINE al == IF IsConstant(s) THEN (p.al + (s.lo % 8)) % 8 ELSE ALIGN_UNKNOWN
    <2>2. al \in Int
      BY <2>1, Constructors
    <2>3. PtrToCtx(p.lo + s.lo) \in AbsReg
      BY <2>1, Constructors
    <2>4. PtrToMapValue(p.lo + s.lo, p.hi + s.hi, al) \in AbsReg
      <3> HIDE DEF al
      <3> QED BY <2>1, <2>2, Constructors
    <2> QED BY <2>3, <2>4 DEF AddToPointer
  <1> QED BY <1>2, <1>3 DEF alu_add

\* A state stays one when a register is written.
LEMMA WriteTyped ==
    ASSUME NEW p, NEW st \in StateOf(p), NEW r \in Regs, NEW v \in AbsReg
    PROVE  Write(st, r, v) \in StateOf(p)
  BY DEF Write, StateOf, RegFile

LEMMA StepTyped ==
    ASSUME NEW p, NEW st \in StateOf(p), NEW i \in Insns
    PROVE  step(i, st) \subseteq StateOf(p)
  <1>1. i.dst \in Regs /\ i.src \in Regs /\ i.imm \in Nat
    BY DEF Insns
  <1>2. st.regs[i.dst] \in AbsReg /\ st.regs[i.src] \in AbsReg
    BY <1>1 DEF StateOf, RegFile
  <1>3. load(st.regs[i.src], i) \subseteq AbsReg
    <2>1. Scalar(0, 255) \in AbsReg /\ Scalar(0, Unbounded) \in AbsReg
      BY Constructors
    <2> QED BY <2>1 DEF load
  <1>4. alu_add(st.regs[i.dst], Const(i.imm)) \subseteq AbsReg
    BY <1>1, <1>2, AluTyped, Constructors
  <1>5. alu_add(st.regs[i.dst], st.regs[i.src]) \subseteq AbsReg
    BY <1>2, AluTyped
  <1>6. {Const(i.imm)} \subseteq AbsReg /\ {PtrToMapValue(i.imm, i.imm, i.imm % 8)} \subseteq AbsReg
    BY <1>1, Constructors
  <1> DEFINE results ==
          CASE i.op = "mov"   -> {Const(i.imm)}
            [] i.op = "add"   -> alu_add(st.regs[i.dst], Const(i.imm))
            [] i.op = "addr"  -> alu_add(st.regs[i.dst], st.regs[i.src])
            [] i.op = "ldmap" -> {PtrToMapValue(i.imm, i.imm, i.imm % 8)}
            [] OTHER          -> load(st.regs[i.src], i)
  <1>7. results \subseteq AbsReg
    BY <1>3, <1>4, <1>5, <1>6
  <1>8. step(i, st) = IF i.op = "second" THEN {st} ELSE {Write(st, i.dst, v) : v \in results}
    BY DEF step
  <1> HIDE DEF results
  <1>9. \A v \in results : Write(st, i.dst, v) \in StateOf(p)
    BY <1>1, <1>7, WriteTyped
  <1> QED BY <1>8, <1>9

LEMMA RefineTyped ==
    ASSUME NEW i \in Insns, NEW d \in AbsReg, NEW taken
    PROVE  refine(i, d, taken) \in AbsReg
  <1>1. d.lo \in Int /\ d.hi \in Int /\ i.imm \in Int
    BY DEF AbsReg, Insns
  <1> QED BY <1>1, Constructors DEF refine

\* The instruction at q, none of whose successors leaves the program.
Inside(p, q) ==
    LET i == At(p, q) IN
    /\ i.op \in {"ja", "jgt", "jeq", "call"} => Target(q, i) \in Pcs(p)
    /\ i.op \notin {"ja", "exit"} => q + 1 \in Pcs(p)

LEMMA AtTyped ==
    ASSUME NEW p \in Seq(Insns), NEW q \in Pcs(p)
    PROVE  At(p, q) \in Insns
  BY DEF At, Pcs

LEMMA BranchTyped ==
    ASSUME NEW p \in Seq(Insns), NEW q \in Pcs(p), Inside(p, q), NEW st \in StateOf(p),
           At(p, q).op \in {"jgt", "jeq"}
    PROVE  cond_branch(q, At(p, q), st) \in Seq(NextOf(p))
  <1> DEFINE i == At(p, q)
             d == st.regs[i.dst]
             side(b) == [pc |-> IF b THEN Target(q, i) ELSE q + 1,
                         state |-> IF IsScalar(d)
                                   THEN Write(st, i.dst, refine(i, d, b)) ELSE st]
  <1>1. i \in Insns /\ Target(q, i) \in Pcs(p) /\ q + 1 \in Pcs(p)
    BY AtTyped DEF Inside
  <1>2. i.dst \in Regs /\ d \in AbsReg
    BY <1>1 DEF Insns, StateOf, RegFile
  <1>3. \A b : Write(st, i.dst, refine(i, d, b)) \in StateOf(p)
    <2> HIDE DEF i, d
    <2> QED BY <1>1, <1>2, RefineTyped, WriteTyped
  <1>4. \A b : side(b) \in NextOf(p)
    BY <1>1, <1>3 DEF NextOf
  <1>5. \/ cond_branch(q, i, st) = <<>>
        \/ cond_branch(q, i, st) = <<side(TRUE)>>
        \/ cond_branch(q, i, st) = <<side(FALSE)>>
        \/ cond_branch(q, i, st) = <<side(TRUE), side(FALSE)>>
    <2>1. cond_branch(q, i, st) =
            CASE d.t = "uninit" -> <<>>
              [] d.t = "map" /\ i.op = "jgt" /\ i.imm = 0 -> <<>>
              [] IsScalar(d) /\ AlwaysTaken(i, d)    -> <<side(TRUE)>>
              [] IsScalar(d) /\ AlwaysNotTaken(i, d) -> <<side(FALSE)>>
              [] OTHER -> <<side(TRUE), side(FALSE)>>
      BY DEF cond_branch
    <2> HIDE DEF side, d, i
    <2> QED BY <2>1
  <1> DEFINE S == NextOf(p)
             x == side(TRUE)
             y == side(FALSE)
             z == cond_branch(q, i, st)
  <1>6. x \in S /\ y \in S
    BY <1>4
  <1>7. z = <<>> \/ z = <<x>> \/ z = <<y>> \/ z = <<x, y>>
    BY <1>5
  <1>8. z \in Seq(S)
    <2> HIDE DEF x, y, z, S
    <2>1. <<>> \in Seq(S) /\ <<x>> \in Seq(S) /\ <<y>> \in Seq(S)
      BY <1>6
    <2>2. <<x, y>> \in Seq(S)
      BY <1>6
    <2> QED BY <1>7, <2>1, <2>2
  <1> QED BY <1>8

LEMMA SuccessorsTyped ==
    ASSUME NEW p \in Seq(Insns), NEW q \in Pcs(p), Inside(p, q), NEW st \in StateOf(p),
           At(p, q).op # "exit"
    PROVE  successors(q, At(p, q), st) \in Seq(NextOf(p))
  <1> DEFINE i == At(p, q)
  <1>1. i \in Insns
    BY AtTyped
  <1>2. CASE i.op = "ja"
    <2>1. Target(q, i) \in Pcs(p)
      BY <1>2 DEF Inside
    <2>2. [pc |-> Target(q, i), state |-> st] \in NextOf(p)
      BY <2>1 DEF NextOf
    <2>3. successors(q, i, st) = <<[pc |-> Target(q, i), state |-> st]>>
      BY <1>2 DEF successors, is_conditional_branch
    <2> QED BY <2>2, <2>3
  <1>3. CASE i.op = "call"
    <2>1. Target(q, i) \in Pcs(p) /\ q + 1 \in Pcs(p)
      BY <1>3 DEF Inside
    <2> DEFINE file  == [r \in Regs |-> IF r \in 1..5 THEN st.regs[r] ELSE Uninit]
               frame == [regs |-> st.regs, ret |-> st.ret]
    <2>2. st.regs \in RegFile /\ st.ret \in Pcs(p) /\ st.saved \in Seq(FrameOf(p))
      BY DEF StateOf
    <2>3. file \in RegFile
      BY <2>2, Constructors DEF RegFile
    <2>4. frame \in FrameOf(p)
      BY <2>2 DEF FrameOf
    <2>5. Append(st.saved, frame) \in Seq(FrameOf(p))
      <3> HIDE DEF frame
      <3> QED BY <2>2, <2>4
    <2>6. call_subprog(st, q + 1) = [regs |-> file, ret |-> q + 1, saved |-> Append(st.saved, frame)]
      BY DEF call_subprog
    <2> HIDE DEF file, frame
    <2>7. call_subprog(st, q + 1) \in StateOf(p)
      BY <2>1, <2>3, <2>5, <2>6 DEF StateOf
    <2>8. [pc |-> Target(q, i), state |-> call_subprog(st, q + 1)] \in NextOf(p)
      BY <2>1, <2>7 DEF NextOf
    <2> DEFINE x == [pc |-> Target(q, i), state |-> call_subprog(st, q + 1)]
    <2>9. successors(q, i, st) = IF Len(st.saved) >= MAX_CALL_FRAMES - 1 THEN <<>> ELSE <<x>>
      BY <1>3 DEF successors, is_conditional_branch
    <2> HIDE DEF x
    <2> QED BY <2>8, <2>9 DEF x
  <1>4. CASE i.op \in {"jgt", "jeq"}
    <2>1. cond_branch(q, i, st) \in Seq(NextOf(p))
      BY <1>4, BranchTyped
    <2> QED BY <1>4, <2>1 DEF successors, is_conditional_branch
  <1>5. CASE i.op \notin {"ja", "call", "jgt", "jeq"}
    <2>1. q + 1 \in Pcs(p)
      BY <1>5 DEF Inside
    <2>2. step(i, st) \subseteq StateOf(p)
      BY <1>1, StepTyped
    <2> DEFINE s == CHOOSE s \in step(i, st) : TRUE
    <2>3. successors(q, i, st) = IF step(i, st) = {} THEN <<>> ELSE <<[pc |-> q + 1, state |-> s]>>
      BY <1>5 DEF successors, is_conditional_branch
    <2>4. step(i, st) # {} => s \in StateOf(p)
      BY <2>2
    <2> HIDE DEF s
    <2>5. step(i, st) # {} => [pc |-> q + 1, state |-> s] \in NextOf(p)
      BY <2>1, <2>4 DEF NextOf
    <2> QED BY <2>3, <2>5
  <1> QED BY <1>2, <1>3, <1>4, <1>5

LEMMA ReturnTyped ==
    ASSUME NEW p, NEW st \in StateOf(p), st.saved # <<>>
    PROVE  return_from_subprog(st) \in StateOf(p)
  <1> DEFINE n      == Len(st.saved)
             caller == st.saved[n]
             file   == [r \in Regs |-> CASE r = 0 -> st.regs[0]
                                         [] r \in 1..5 -> Uninit
                                         [] OTHER -> caller.regs[r]]
             rest   == SubSeq(st.saved, 1, n - 1)
  <1>1. st.saved \in Seq(FrameOf(p)) /\ st.regs \in RegFile
    BY DEF StateOf
  <1>2. n \in Nat /\ n >= 1
    BY <1>1, EmptySeq
  <1>3. caller \in FrameOf(p)
    BY <1>1, <1>2, ElementOfSeq
  <1>4. caller.regs \in RegFile /\ caller.ret \in Pcs(p)
    BY <1>3 DEF FrameOf
  <1>5. file \in RegFile
    <2> HIDE DEF caller
    <2> QED BY <1>1, <1>4, Constructors, RegsAssumption DEF RegFile
  <1>6. rest \in Seq(FrameOf(p))
    BY <1>1, <1>2, SubSeqProperties
  <1>7. return_from_subprog(st) = [regs |-> file, ret |-> caller.ret, saved |-> rest]
    BY DEF return_from_subprog
  <1> HIDE DEF file, caller, rest
  <1> QED BY <1>4, <1>5, <1>6, <1>7 DEF StateOf

LEMMA CleanTyped ==
    ASSUME NEW p, NEW st \in StateOf(p), NEW alive
    PROVE  clean_state(st, alive) \in StateOf(p)
  <1> DEFINE file == [r \in Regs |-> IF r \in alive THEN st.regs[r] ELSE Uninit]
  <1>1. file \in RegFile
    BY Constructors DEF StateOf, RegFile
  <1>2. clean_state(st, alive) = [st EXCEPT !.regs = file]
    BY DEF clean_state
  <1> HIDE DEF file
  <1> QED BY <1>1, <1>2 DEF StateOf

-----------------------------------------------------------------------------
(* The operators on checkpoints.                                            *)

\* The same tree with the same counts; only marks and statistics differ.
SameTree(cs, ds) ==
    /\ Len(ds) = Len(cs)
    /\ \A c \in 1..Len(cs) : ds[c].parent = cs[c].parent /\ ds[c].branches = cs[c].branches

LEMMA MarkTyped ==
    ASSUME NEW p, NEW cs \in Seq(CpOf(p)), NEW last, NEW segment, NEW need
    PROVE  /\ mark_chain_precision(cs, last, segment, need) \in Seq(CpOf(p))
           /\ SameTree(cs, mark_chain_precision(cs, last, segment, need))
  <1> DEFINE left  == BacktrackSegment(P, segment, need)
             chain == IF left = Fallback THEN Chain(cs, last) ELSE {last}
             regs  == IF left = Fallback THEN Regs ELSE left
             n     == Len(cs)
             ds    == [c \in 1..n |-> IF c \in chain THEN MarkPrecise(cs[c], regs) ELSE cs[c]]
  <1>1. n \in Nat /\ DOMAIN cs = 1..n /\ \A c \in 1..n : cs[c] \in CpOf(p)
    BY ElementOfSeq
  <1>2. mark_chain_precision(cs, last, segment, need) = ds
    BY <1>1 DEF mark_chain_precision
  <1> HIDE DEF chain, regs
  <1>3. ASSUME NEW c \in 1..n
        PROVE  /\ MarkPrecise(cs[c], regs) \in CpOf(p)
               /\ MarkPrecise(cs[c], regs).parent = cs[c].parent
               /\ MarkPrecise(cs[c], regs).branches = cs[c].branches
    <2> DEFINE cp == cs[c]
               more == {r \in Regs : r \in regs /\ IsScalar(cp.state.regs[r])}
    <2>1. cp \in CpOf(p) /\ more \in SUBSET Regs
      BY <1>1
    <2>2. MarkPrecise(cp, regs) = [cp EXCEPT !.precise = cp.precise \cup more]
      BY DEF MarkPrecise
    <2> HIDE DEF cp, more
    <2>3. /\ MarkPrecise(cp, regs) \in CpOf(p)
          /\ MarkPrecise(cp, regs).parent = cp.parent
          /\ MarkPrecise(cp, regs).branches = cp.branches
      BY <2>1, <2>2 DEF CpOf
    <2> QED BY <2>3 DEF cp
  <1>4. \A c \in 1..n : ds[c] \in CpOf(p)
    BY <1>1, <1>3
  <1>5. ds \in Seq(CpOf(p)) /\ Len(ds) = n
    <2> DEFINE S == CpOf(p)
    <2>1. ds \in [1..n -> S]
      BY <1>4
    <2> HIDE DEF ds, S, n
    <2>2. ds \in Seq(S) /\ Len(ds) = n
      BY <1>1, <2>1
    <2> QED BY <2>2 DEF S
  <1>6. \A c \in 1..n : ds[c].parent = cs[c].parent /\ ds[c].branches = cs[c].branches
    BY <1>3
  <1> QED BY <1>2, <1>5, <1>6 DEF SameTree

LEMMA BumpTyped ==
    ASSUME NEW p, NEW cs \in Seq(CpOf(p)), NEW last, NEW delta \in Int
    PROVE  LET ds == bump_branches(cs, last, delta) IN
           /\ ds \in Seq(CpOf(p)) /\ Len(ds) = Len(cs)
           /\ \A c \in 1..Len(cs) :
                /\ ds[c].parent = cs[c].parent
                /\ ds[c].branches = cs[c].branches + IF c \in Chain(cs, last) THEN delta ELSE 0
  <1> DEFINE chain == Chain(cs, last)
             n  == Len(cs)
             up(c) == [cs[c] EXCEPT !.branches = cs[c].branches + delta]
             ds == [c \in 1..n |-> IF c \in chain THEN up(c) ELSE cs[c]]
  <1>1. n \in Nat /\ DOMAIN cs = 1..n /\ \A c \in 1..n : cs[c] \in CpOf(p)
    BY ElementOfSeq
  <1>2. bump_branches(cs, last, delta) = ds
    BY <1>1 DEF bump_branches
  <1> HIDE DEF chain
  <1>3. ASSUME NEW c \in 1..n
        PROVE  /\ up(c) \in CpOf(p) /\ up(c).parent = cs[c].parent
               /\ up(c).branches = cs[c].branches + delta /\ cs[c].branches \in Int
    <2> DEFINE cp == cs[c]
    <2>1. cp \in CpOf(p)
      BY <1>1
    <2> HIDE DEF cp
    <2> DEFINE b == cp.branches + delta
               u == [cp EXCEPT !.branches = b]
    <2>2. cp.branches \in Int /\ b \in Int
      BY <2>1 DEF CpOf
    <2> HIDE DEF b
    <2>3. u \in CpOf(p) /\ u.parent = cp.parent /\ u.branches = b
      BY <2>1, <2>2 DEF CpOf
    <2> QED BY <2>2, <2>3 DEF cp, b
  <1> HIDE DEF up
  <1>4. \A c \in 1..n : ds[c] \in CpOf(p)
    BY <1>1, <1>3
  <1>5. ds \in Seq(CpOf(p)) /\ Len(ds) = n
    <2> DEFINE S == CpOf(p)
    <2>1. ds \in [1..n -> S]
      BY <1>4
    <2> HIDE DEF ds, S, n
    <2>2. ds \in Seq(S) /\ Len(ds) = n
      BY <1>1, <2>1
    <2> QED BY <2>2 DEF S
  <1>6. \A c \in 1..n :
           /\ ds[c].parent = cs[c].parent
           /\ ds[c].branches = cs[c].branches + IF c \in chain THEN delta ELSE 0
    BY <1>3
  <1> HIDE DEF ds
  <1> QED BY <1>2, <1>5, <1>6 DEF chain

\* cs, with a checkpoint that no item uses yet added or not.
Extended(cs, ms) ==
    /\ Linked(ms) /\ Grown(cs, ms)
    /\ \A c \in 1..Len(ms) : ms[c].branches = IF c <= Len(cs) THEN cs[c].branches ELSE 0

\* One item's branches less.
LEMMA BumpedOnce ==
    ASSUME NEW p, NEW cs \in Seq(CpOf(p)), Linked(cs), NEW ms \in Seq(CpOf(p)),
           Extended(cs, ms), NEW top \in 0..Len(cs)
    PROVE  LET ds == bump_branches(ms, top, -1) IN
           /\ ds \in Seq(CpOf(p)) /\ Len(ds) = Len(ms) /\ Linked(ds) /\ Grown(cs, ds)
           /\ Rebalanced(cs, ds, 0, top, top)
  <1> DEFINE ds == bump_branches(ms, top, -1)
  <1>1. Len(cs) \in Nat /\ Len(ms) \in Nat /\ \A c \in 1..Len(ms) : ms[c] \in CpOf(p)
    BY ElementOfSeq
  <1>2. /\ ds \in Seq(CpOf(p)) /\ Len(ds) = Len(ms)
        /\ \A c \in 1..Len(ms) :
             /\ ds[c].parent = ms[c].parent
             /\ ds[c].branches = ms[c].branches + IF c \in Chain(ms, top) THEN -1 ELSE 0
    BY BumpTyped
  <1> HIDE DEF ds
  <1>3. Linked(ds) /\ Grown(cs, ds) /\ Grown(ms, ds)
    <2>1. Linked(ds)
      BY <1>1, <1>2 DEF Extended, Linked
    <2>2. Grown(cs, ds)
      BY <1>1, <1>2 DEF Extended, Grown
    <2>3. Grown(ms, ds)
      BY <1>1, <1>2 DEF Grown
    <2> QED BY <2>1, <2>2, <2>3
  <1>4. top \in 0..Len(ms) /\ Linked(ms)
    BY <1>1 DEF Extended, Grown
  <1>5. Chain(ds, top) = Chain(ms, top)
    BY <1>1, <1>2, <1>3, <1>4, ChainSame
  <1>6. ASSUME NEW c \in 1..Len(ds)
        PROVE ds[c].branches = (IF c <= Len(cs) THEN cs[c].branches ELSE 0)
                + (IF c \in Chain(ds, top) THEN 0 ELSE 0) - (IF c \in Chain(ds, top) THEN 1 ELSE 0)
    <2>1. ms[c].branches = (IF c <= Len(cs) THEN cs[c].branches ELSE 0) /\ ms[c].branches \in Int
      BY <1>1, <1>2 DEF Extended, CpOf
    <2>2. ds[c].branches = ms[c].branches + IF c \in Chain(ds, top) THEN -1 ELSE 0
      BY <1>2, <1>5
    <2> QED BY <2>1, <2>2
  <1> QED BY <1>2, <1>3, <1>6 DEF Rebalanced, ds

\* n branches more under last, one less under top.
LEMMA BumpedTwice ==
    ASSUME NEW p, NEW cs \in Seq(CpOf(p)), Linked(cs), NEW ms \in Seq(CpOf(p)),
           Extended(cs, ms), NEW top \in 0..Len(cs), NEW last \in 0..Len(ms), NEW n \in Nat
    PROVE  LET ds == bump_branches(bump_branches(ms, last, n), top, -1) IN
           /\ ds \in Seq(CpOf(p)) /\ Len(ds) = Len(ms) /\ Linked(ds) /\ Grown(cs, ds)
           /\ Rebalanced(cs, ds, n, last, top)
           /\ Chain(ds, last) = Chain(ms, last)
  <1> DEFINE es == bump_branches(ms, last, n)
             ds == bump_branches(es, top, -1)
  <1>1. Len(cs) \in Nat /\ Len(ms) \in Nat /\ \A c \in 1..Len(ms) : ms[c] \in CpOf(p)
    BY ElementOfSeq
  <1>2. /\ es \in Seq(CpOf(p)) /\ Len(es) = Len(ms)
        /\ \A c \in 1..Len(ms) :
             /\ es[c].parent = ms[c].parent
             /\ es[c].branches = ms[c].branches + IF c \in Chain(ms, last) THEN n ELSE 0
    BY BumpTyped
  <1> HIDE DEF es
  <1>3. /\ ds \in Seq(CpOf(p)) /\ Len(ds) = Len(es)
        /\ \A c \in 1..Len(es) :
             /\ ds[c].parent = es[c].parent
             /\ ds[c].branches = es[c].branches + IF c \in Chain(es, top) THEN -1 ELSE 0
    BY <1>2, BumpTyped
  <1> HIDE DEF ds
  <1>4. /\ Linked(ms) /\ Linked(es) /\ Linked(ds)
        /\ Grown(cs, ds) /\ Grown(ms, es) /\ Grown(ms, ds)
    <2>1. Linked(ms)
      BY DEF Extended
    <2>2. Linked(es)
      BY <1>2, <2>1 DEF Linked
    <2>3. Linked(ds)
      BY <1>2, <1>3, <2>2 DEF Linked
    <2>4. Grown(ms, es)
      BY <1>1, <1>2 DEF Grown
    <2>5. Grown(ms, ds)
      BY <1>1, <1>2, <1>3 DEF Grown
    <2>6. Grown(cs, ds)
      BY <1>1, <2>5 DEF Extended, Grown
    <2> QED BY <2>1, <2>2, <2>3, <2>4, <2>5, <2>6
  <1>5. top \in 0..Len(ms)
    BY <1>1 DEF Extended, Grown
  <1>6. Chain(ds, top) = Chain(ms, top) /\ Chain(ds, last) = Chain(ms, last) /\ Chain(es, top) = Chain(ms, top)
    BY <1>1, <1>2, <1>3, <1>4, <1>5, ChainSame
  <1>7. ASSUME NEW c \in 1..Len(ds)
        PROVE ds[c].branches = (IF c <= Len(cs) THEN cs[c].branches ELSE 0)
                + (IF c \in Chain(ds, last) THEN n ELSE 0) - (IF c \in Chain(ds, top) THEN 1 ELSE 0)
    <2>1. ms[c].branches = (IF c <= Len(cs) THEN cs[c].branches ELSE 0) /\ ms[c].branches \in Int
      BY <1>1, <1>2, <1>3 DEF Extended, CpOf
    <2>2. es[c].branches = ms[c].branches + IF c \in Chain(ds, last) THEN n ELSE 0
      BY <1>2, <1>3, <1>6
    <2>3. ds[c].branches = es[c].branches + IF c \in Chain(ds, top) THEN -1 ELSE 0
      BY <1>2, <1>3, <1>6
    <2> DEFINE a == ms[c].branches
               x == IF c \in Chain(ds, last) THEN n ELSE 0
               y == IF c \in Chain(ds, top) THEN 1 ELSE 0
    <2>4. a \in Int /\ x \in Int /\ y \in Int
      BY <2>1
    <2>5. (IF c \in Chain(ds, top) THEN -1 ELSE 0) = -y
      OBVIOUS
    <2> HIDE DEF a, x, y
    <2>6. (a + x) + (-y) = a + x - y
      BY <2>4
    <2> QED BY <2>1, <2>2, <2>3, <2>5, <2>6 DEF a, x, y
  <1> QED BY <1>2, <1>3, <1>4, <1>6, <1>7 DEF Rebalanced, ds, es

-----------------------------------------------------------------------------
(* The inductive invariant.                                                 *)

Typed ==
    /\ prog \in Programs /\ verdict \in Verdicts
    /\ steps \in Nat /\ jmps \in Nat /\ prevInsn \in Nat /\ prevJmps \in Nat
    /\ work \in Seq(ItemOf(P)) /\ cps \in Seq(CpOf(P))
    /\ \A k \in 1..Len(work) : work[k].last_cp \in 0..Len(cps)
    /\ visited \in [Pcs(P) -> Seq(1..Len(cps))]

Explored == Typed /\ Linked(cps) /\ Counted(cps, work) /\ Stacked(cps, work)

LEMMA ProgramFacts ==
    ASSUME prog \in Programs
    PROVE  /\ P \in Seq(Insns) /\ 0 \in Pcs(P) /\ Pcs(P) \subseteq Nat
           /\ \A q \in Pcs(P) : Inside(P, q)
  <1>1. P \in Seq(Insns) /\ P # <<>>
    BY ProgramsAssumption DEF P
  <1>2. \A q \in Pcs(P) : Inside(P, q)
    BY ProgramsAssumption DEF P, Inside
  <1>3. Len(P) \in Nat /\ Len(P) # 0
    BY <1>1, EmptySeq
  <1> QED BY <1>1, <1>2, <1>3 DEF Pcs

LEMMA InitExplored == Init => Explored
  <1> SUFFICES ASSUME Init PROVE Explored
    OBVIOUS
  <1>1. prog \in Programs /\ work = <<Item(0, initial, 0, <<>>)>> /\ cps = <<>>
    BY DEF Init
  <1>2. 0 \in Pcs(P)
    BY <1>1, ProgramFacts
  <1>3. initial \in StateOf(P)
    <2> DEFINE file == [r \in Regs |-> IF r = 1 THEN PtrToCtx(0) ELSE Uninit]
    <2>1. file \in RegFile
      BY Constructors DEF RegFile
    <2>2. initial = [regs |-> file, ret |-> 0, saved |-> <<>>]
      BY DEF initial
    <2> HIDE DEF file
    <2> QED BY <1>2, <2>1, <2>2 DEF StateOf
  <1> DEFINE x == Item(0, initial, 0, <<>>)
  <1>4. x \in ItemOf(P) /\ x.last_cp = 0
    BY <1>2, <1>3 DEF Item, ItemOf
  <1> HIDE DEF x
  <1>5. work = <<x>>
    BY <1>1 DEF x
  <1>6. work \in Seq(ItemOf(P)) /\ Len(work) = 1 /\ work[1] = x
    BY <1>4, <1>5
  <1>7. cps \in Seq(CpOf(P)) /\ Len(cps) = 0
    BY <1>1
  <1>8. visited \in [Pcs(P) -> Seq(1..Len(cps))]
    <2>1. visited = [q \in Pcs(P) |-> <<>>]
      BY DEF Init, P
    <2>2. <<>> \in Seq(1..Len(cps))
      OBVIOUS
    <2> QED BY <2>1, <2>2
  <1>9. Typed
    <2>1. steps = 0 /\ jmps = 0 /\ prevInsn = 0 /\ prevJmps = 0 /\ verdict = "run"
      BY DEF Init
    <2>2. \A k \in 1..Len(work) : work[k].last_cp \in 0..Len(cps)
      BY <1>4, <1>6, <1>7
    <2> QED BY <1>1, <1>6, <1>7, <1>8, <2>1, <2>2 DEF Typed, Verdicts
  <1>10. Linked(cps) /\ Counted(cps, work)
    BY <1>7 DEF Linked, Counted
  <1>11. Stacked(cps, work)
    BY <1>6 DEF Stacked
  <1> QED BY <1>9, <1>10, <1>11 DEF Explored

\* The popped item and what is left.
LEMMA TopTyped ==
    ASSUME Typed, work # <<>>
    PROVE  /\ Len(work) \in Nat \ {0} /\ Top = work[Len(work)] /\ Top \in ItemOf(P)
           /\ Top.last_cp \in 0..Len(cps) /\ pc \in Pcs(P) /\ insn \in Insns
           /\ Top.state \in StateOf(P) /\ Inside(P, pc)
           /\ Rest \in Seq(ItemOf(P)) /\ Len(Rest) = Len(work) - 1
           /\ \A k \in 1..(Len(work) - 1) : Rest[k] = work[k]
  <1>1. work \in Seq(ItemOf(P)) /\ Len(work) \in Nat \ {0}
    BY EmptySeq DEF Typed
  <1>2. Top = work[Len(work)] /\ Top \in ItemOf(P)
    BY <1>1, ElementOfSeq DEF Top, TopIndex
  <1>3. Top.last_cp \in 0..Len(cps) /\ pc \in Pcs(P) /\ Top.state \in StateOf(P)
    <2>1. Top.last_cp \in 0..Len(cps)
      BY <1>1, <1>2 DEF Typed
    <2> QED BY <1>2, <2>1 DEF pc, ItemOf
  <1>4. insn \in Insns /\ Inside(P, pc)
    BY <1>3, ProgramFacts, AtTyped DEF insn, Typed
  <1>5. /\ Rest \in Seq(ItemOf(P)) /\ Len(Rest) = Len(work) - 1
        /\ \A k \in 1..(Len(work) - 1) : Rest[k] = work[k]
    <2> DEFINE S == ItemOf(P)
               n == Len(work)
               a == SubSeq(work, 1, n - 1)
               b == SubSeq(work, n + 1, n)
    <2>1. Rest = a \o b
      BY DEF Rest, RemoveAt, TopIndex
    <2>2. a \in Seq(S) /\ Len(a) = n - 1 /\ \A k \in 1..(n - 1) : a[k] = work[k]
      <3>1. n \in Nat /\ n >= 1 /\ work \in Seq(S) /\ n = Len(work)
        BY <1>1
      <3>2. 1 \in 1..(n + 1) /\ n - 1 \in 0..n /\ n - 1 \in (1 - 1)..n
        BY <3>1
      <3> HIDE DEF n, S
      <3>3. /\ a \in Seq(S)
            /\ Len(a) = IF 1 <= n - 1 THEN (n - 1) - 1 + 1 ELSE 0
            /\ \A k \in 1..((n - 1) - 1 + 1) : a[k] = work[1 + k - 1]
        BY <3>1, <3>2, SubSeqProperties
      <3> QED BY <3>1, <3>3
    <2>3. b = <<>>
      BY <1>1, SubSeqProperties, EmptySeq
    <2> HIDE DEF a, b
    <2>4. Rest = a
      BY <2>1, <2>2, <2>3
    <2> QED BY <2>2, <2>4
  <1> QED BY <1>1, <1>2, <1>3, <1>4, <1>5

\* What a sequence keeps of another, one element at a time.
Filtered(s, G, n, f) ==
    \A k \in 0..n : f[k] = IF k = 0 THEN <<>>
                           ELSE IF k \in G THEN Append(f[k - 1], s[k]) ELSE f[k - 1]

LEMMA FilterExists ==
    ASSUME NEW S, NEW s \in Seq(S), NEW G, NEW n \in 0..Len(s)
    PROVE  \E f \in [0..n -> Seq(S)] : Filtered(s, G, n, f)
  <1> USE DEF Filtered
  <1> DEFINE Is(m, f) == Filtered(s, G, m, f)
             Bad == {m \in 0..Len(s) : ~ \E f \in [0..m -> Seq(S)] : Is(m, f)}
  <1>0. Len(s) \in Nat
    OBVIOUS
  <1>1. SUFFICES ASSUME Bad # {} PROVE FALSE
    OBVIOUS
  <1>2. PICK m \in Bad : \A k \in Bad : m <= k
    <2>1. Bad \in SUBSET Nat
      BY <1>0
    <2> HIDE DEF Bad
    <2> QED BY <1>1, <2>1, LeastNat
  <1>3. CASE m = 0
    <2> DEFINE f == [c \in 0..0 |-> <<>>]
    <2>1. f \in [0..0 -> Seq(S)] /\ Is(0, f)
      OBVIOUS
    <2> QED BY <1>2, <1>3, <2>1
  <1>4. CASE m # 0
    <2>0. m \in Nat /\ m \in 1..Len(s) /\ m - 1 \in 0..Len(s)
      BY <1>0, <1>2, <1>4
    <2>1. m - 1 \in 0..Len(s) /\ m - 1 \notin Bad /\ m \in Nat /\ m \in 1..Len(s)
      <3> HIDE DEF Bad
      <3> QED BY <1>2, <2>0
    <2>2. PICK g \in [0..(m - 1) -> Seq(S)] : Is(m - 1, g)
      BY <2>1
    <2> DEFINE x == IF m \in G THEN Append(g[m - 1], s[m]) ELSE g[m - 1]
               f == [c \in 0..m |-> IF c = m THEN x ELSE g[c]]
    <2>3. x \in Seq(S)
      <3>1. g[m - 1] \in Seq(S) /\ s[m] \in S
        BY <2>1, <2>2, ElementOfSeq
      <3> QED BY <3>1
    <2> HIDE DEF x
    <2>4. f \in [0..m -> Seq(S)]
      BY <2>1, <2>2, <2>3
    <2>5. ASSUME NEW c \in 0..m
          PROVE  f[c] = IF c = 0 THEN <<>>
                        ELSE IF c \in G THEN Append(f[c - 1], s[c]) ELSE f[c - 1]
      <3>1. CASE c = m
        <4>1. f[m - 1] = g[m - 1] /\ f[m] = x
          BY <2>1
        <4> HIDE DEF f
        <4> QED BY <1>4, <3>1, <4>1 DEF x
      <3>2. CASE c # m
        <4>1. c \in 0..(m - 1) /\ f[c] = g[c] /\ (c # 0 => f[c - 1] = g[c - 1])
          BY <2>1, <3>2
        <4>2. g[c] = IF c = 0 THEN <<>>
                     ELSE IF c \in G THEN Append(g[c - 1], s[c]) ELSE g[c - 1]
          BY <2>2, <4>1
        <4> HIDE DEF f
        <4> QED BY <4>1, <4>2
      <3> QED BY <3>1, <3>2
    <2> HIDE DEF f
    <2>6. Is(m, f)
      BY <2>5
    <2> HIDE DEF Is
    <2> QED BY <1>2, <2>4, <2>6
  <1> QED BY <1>3, <1>4

LEMMA ListTyped ==
    ASSUME Typed, pc \in Pcs(P)
    PROVE  List \in Seq(1..Len(cps))
  <1>1. visited[pc] \in Seq(1..Len(cps))
    BY DEF Typed
  <1>2. <<>> \in Seq(1..Len(cps))
    OBVIOUS
  <1> QED BY <1>1, <1>2 DEF List

\* Eviction keeps a list of checkpoints.
LEMMA KeptTyped ==
    ASSUME Typed, pc \in Pcs(P)
    PROVE  Kept \in Seq(1..Len(cps))
  <1> DEFINE S == 1..Len(cps)
             n == Len(List)
             missed == Missed(Len(List))
             Fine(k) == missed[List[k]].miss_cnt <= cps[List[k]].hit_cnt * 3 + 3
             Is(f) == f = [k \in 0..n |-> IF k = 0 THEN <<>>
                              ELSE IF Fine(k) THEN Append(f[k - 1], List[k]) ELSE f[k - 1]]
             keep == CHOOSE f : Is(f)
             G == {k \in 1..n : Fine(k)}
  <1>1. List \in Seq(S) /\ n \in Nat
    BY ListTyped
  <1>2. Kept = keep[n]
    BY DEF Kept
  <1> HIDE DEF Fine, missed, S
  <1>3. PICK f \in [0..n -> Seq(S)] : Filtered(List, G, n, f)
    <2>1. n \in 0..Len(List)
      BY <1>1
    <2> HIDE DEF G, n
    <2> QED BY <1>1, <2>1, FilterExists
  <1>4. Is(f)
    <2>1. \A k \in 0..n : k # 0 => (k \in G <=> Fine(k))
      BY <1>1
    <2> HIDE DEF G
    <2> QED BY <1>1, <1>3, <2>1 DEF Filtered
  <1>5. Is(keep)
    BY <1>4
  <1> HIDE DEF keep
  <1>6. \A k \in 0..n : keep[k] = IF k = 0 THEN <<>>
                         ELSE IF Fine(k) THEN Append(keep[k - 1], List[k]) ELSE keep[k - 1]
    BY <1>5
  <1> HIDE DEF Is
  <1> DEFINE Bad == {k \in 0..n : keep[k] \notin Seq(S)}
  <1>7. Bad = {}
    <2>1. SUFFICES ASSUME Bad # {} PROVE FALSE
      OBVIOUS
    <2>2. PICK m \in Bad : \A k \in Bad : m <= k
      <3>1. Bad \in SUBSET Nat
        BY <1>1
      <3> HIDE DEF Bad
      <3> QED BY <2>1, <3>1, LeastNat
    <2>3. m \in 0..n /\ keep[m] \notin Seq(S)
      BY <2>2
    <2>4. m # 0
      <3>1. 0 \in 0..n
        BY <1>1
      <3>2. keep[0] = <<>>
        BY <1>6, <3>1
      <3>3. <<>> \in Seq(S)
        OBVIOUS
      <3> QED BY <2>3, <3>2, <3>3
    <2>5. m \in 1..n /\ m - 1 \in 0..n /\ ~(m <= m - 1)
      BY <1>1, <2>3, <2>4
    <2>6. m - 1 \notin Bad
      <3> HIDE DEF Bad
      <3> QED BY <2>2, <2>5
    <2>7. keep[m - 1] \in Seq(S)
      BY <2>5, <2>6
    <2>8. List[m] \in S
      BY <1>1, <2>5, ElementOfSeq
    <2>9. Append(keep[m - 1], List[m]) \in Seq(S)
      BY <2>7, <2>8
    <2> QED BY <1>6, <2>3, <2>4, <2>7, <2>9
  <1>8. keep[n] \in Seq(S)
    BY <1>1, <1>7
  <1> QED BY <1>2, <1>8 DEF S

\* A comparison that failed changes statistics only.
LEMMA MissedTyped ==
    ASSUME Typed, NEW n
    PROVE  Missed(n) \in Seq(CpOf(P)) /\ SameTree(cps, Missed(n))
  <1> DEFINE L == Len(cps)
             Hit(c) == \E k \in 1..n : List[k] = c /\ AddNewState(k)
             up(c) == [cps[c] EXCEPT !.miss_cnt = cps[c].miss_cnt + 1]
             ds == [c \in 1..L |-> IF Hit(c) THEN up(c) ELSE cps[c]]
  <1>1. L \in Nat /\ DOMAIN cps = 1..L /\ \A c \in 1..L : cps[c] \in CpOf(P)
    BY ElementOfSeq DEF Typed
  <1>2. Missed(n) = ds
    BY <1>1 DEF Missed
  <1> HIDE DEF Hit
  <1>3. ASSUME NEW c \in 1..L
        PROVE  up(c) \in CpOf(P) /\ up(c).parent = cps[c].parent /\ up(c).branches = cps[c].branches
    <2> DEFINE cp == cps[c]
    <2>1. cp \in CpOf(P)
      BY <1>1
    <2> HIDE DEF cp
    <2> DEFINE b == cp.miss_cnt + 1
               u == [cp EXCEPT !.miss_cnt = b]
    <2>2. b \in Nat
      BY <2>1 DEF CpOf
    <2> HIDE DEF b
    <2>3. u \in CpOf(P) /\ u.parent = cp.parent /\ u.branches = cp.branches
      BY <2>1, <2>2 DEF CpOf
    <2> QED BY <2>3 DEF cp, b
  <1> HIDE DEF up
  <1>4. \A c \in 1..L : ds[c] \in CpOf(P)
    BY <1>1, <1>3
  <1>5. ds \in Seq(CpOf(P)) /\ Len(ds) = L
    <2> DEFINE S == CpOf(P)
    <2>1. ds \in [1..L -> S]
      BY <1>4
    <2> HIDE DEF ds, S, L
    <2>2. ds \in Seq(S) /\ Len(ds) = L
      BY <1>1, <2>1
    <2> QED BY <2>2 DEF S
  <1>6. \A c \in 1..L : ds[c].parent = cps[c].parent /\ ds[c].branches = cps[c].branches
    BY <1>3
  <1> HIDE DEF ds
  <1> QED BY <1>2, <1>5, <1>6 DEF SameTree

LEMMA SameExtended ==
    ASSUME NEW p, NEW cs \in Seq(CpOf(p)), NEW ds \in Seq(CpOf(p)), Linked(cs), SameTree(cs, ds)
    PROVE  Extended(cs, ds)
  <1>1. Len(cs) \in Nat /\ Len(ds) = Len(cs)
    BY DEF SameTree
  <1>2. Linked(ds)
    BY <1>1 DEF Linked, SameTree
  <1>3. Grown(cs, ds)
    BY <1>1 DEF Grown, SameTree
  <1>4. \A c \in 1..Len(ds) : ds[c].branches = IF c <= Len(cs) THEN cs[c].branches ELSE 0
    BY <1>1 DEF SameTree
  <1> QED BY <1>2, <1>3, <1>4 DEF Extended

\* The checkpoints once the item is let in: the same tree, or a new leaf of
\* the item's path.
LEMMA CheckpointsTyped ==
    ASSUME Typed, Linked(cps), work # <<>>
    PROVE  /\ Checkpoints \in Seq(CpOf(P)) /\ Extended(cps, Checkpoints)
           /\ LastCp \in 0..Len(Checkpoints)
           /\ Chain(cps, Top.last_cp) \subseteq Chain(Checkpoints, LastCp)
           /\ Store => Len(Checkpoints) = Len(cps) + 1
           /\ ~Store => Len(Checkpoints) = Len(cps)
  <1> DEFINE ms == Missed(Len(List))
             L  == Len(cps)
  <1>1. ms \in Seq(CpOf(P)) /\ SameTree(cps, ms)
    BY MissedTyped
  <1>2. L \in Nat /\ Len(ms) = L /\ cps \in Seq(CpOf(P)) /\ Top.last_cp \in 0..L
    BY <1>1, TopTyped DEF SameTree, Typed
  <1>3. Extended(cps, ms)
    BY <1>1, <1>2, SameExtended
  <1>4. CASE ~Store
    <2>1. Checkpoints = ms /\ LastCp = Top.last_cp
      BY <1>4 DEF Checkpoints, LastCp
    <2>2. Chain(ms, Top.last_cp) = Chain(cps, Top.last_cp)
      BY <1>2, <1>3, ChainSame DEF Extended
    <2> QED BY <1>1, <1>2, <1>3, <1>4, <2>1, <2>2
  <1>5. CASE Store
    <2> DEFINE cp == NewCheckpoint
               ds == Append(ms, cp)
    <2>1. Checkpoints = ds /\ LastCp = L + 1
      BY <1>5 DEF Checkpoints, LastCp
    <2>2. cp \in CpOf(P) /\ cp.parent = Top.last_cp /\ cp.branches = 0
      <3>1. cleaned \in StateOf(P)
        BY TopTyped, CleanTyped DEF cleaned
      <3>2. Top.history \in Seq(Pcs(P)) /\ Top.last_cp \in Nat
        BY TopTyped DEF ItemOf
      <3> QED BY <3>1, <3>2 DEF NewCheckpoint, CpOf
    <2> HIDE DEF cp, ms
    <2>3. /\ ds \in Seq(CpOf(P)) /\ Len(ds) = L + 1 /\ ds[L + 1] = cp
          /\ \A c \in 1..L : ds[c] = ms[c]
      BY <1>1, <1>2, <2>2, AppendProperties
    <2> HIDE DEF ds
    <2>4. Linked(ds)
      <3>1. SUFFICES ASSUME NEW c \in 1..(L + 1) PROVE ds[c].parent \in 0..(c - 1)
        BY <2>3 DEF Linked
      <3>2. CASE c = L + 1
        BY <1>2, <2>2, <2>3, <3>2
      <3>3. CASE c # L + 1
        <4>1. c \in 1..L
          BY <1>2, <3>3
        <4>2. ms[c].parent \in 0..(c - 1)
          BY <1>2, <1>3, <4>1 DEF Extended, Linked
        <4> QED BY <2>3, <4>1, <4>2
      <3> QED BY <3>2, <3>3
    <2>5. Grown(cps, ds)
      BY <1>1, <1>2, <2>3 DEF Grown, SameTree
    <2>6. \A c \in 1..Len(ds) : ds[c].branches = IF c <= Len(cps) THEN cps[c].branches ELSE 0
      <3>1. SUFFICES ASSUME NEW c \in 1..(L + 1)
                     PROVE ds[c].branches = IF c <= L THEN cps[c].branches ELSE 0
        BY <2>3
      <3>2. CASE c = L + 1
        BY <1>2, <2>2, <2>3, <3>2
      <3>3. CASE c # L + 1
        <4>1. c \in 1..L /\ c <= L
          BY <1>2, <3>3
        <4>2. ms[c].branches = cps[c].branches
          BY <1>1, <1>2, <4>1 DEF SameTree
        <4> QED BY <2>3, <4>1, <4>2
      <3> QED BY <3>2, <3>3
    <2>7. Chain(ds, L + 1) = {L + 1} \cup Chain(ds, Top.last_cp)
      <3>1. L + 1 \in 1..Len(ds) /\ ds[L + 1].parent = Top.last_cp /\ Len(ds) \in Nat
        BY <1>2, <2>2, <2>3
      <3> QED BY <2>4, <3>1, ChainDef
    <2>8. Chain(ds, Top.last_cp) = Chain(cps, Top.last_cp)
      BY <1>2, <2>3, <2>4, <2>5, ChainSame
    <2>9. Extended(cps, ds)
      BY <2>4, <2>5, <2>6 DEF Extended
    <2>10. L + 1 \in 0..Len(ds)
      BY <1>2, <2>3
    <2> QED BY <1>5, <2>1, <2>3, <2>7, <2>8, <2>9, <2>10
  <1> QED BY <1>4, <1>5

-----------------------------------------------------------------------------
(* The steps.                                                               *)

\* What every pop does that goes on: the popped item gives way to n items.
LEMMA Popped ==
    ASSUME Explored, work # <<>>, NEW n \in Nat, NEW last \in 0..Len(cps'),
           cps' \in Seq(CpOf(P)), Linked(cps'), Grown(cps, cps'), work' \in Seq(ItemOf(P)),
           Replaced(work, work', n, last), Rebalanced(cps, cps', n, last, Top.last_cp),
           Chain(cps, Top.last_cp) \subseteq Chain(cps', last)
    PROVE  /\ \A k \in 1..Len(work') : work'[k].last_cp \in 0..Len(cps')
           /\ Counted(cps', work') /\ Stacked(cps', work')
  <1> DEFINE cs == cps
             ds == cps'
             w  == work
             v  == work'
  <1>1. /\ Len(cs) \in Nat /\ Len(ds) \in Nat /\ Len(w) \in Nat \ {0} /\ Len(v) \in Nat
        /\ Top.last_cp = w[Len(w)].last_cp
        /\ \A k \in 1..Len(w) : w[k].last_cp \in 0..Len(cs)
    BY TopTyped DEF Explored, Typed
  <1>2. Linked(cs) /\ Counted(cs, w) /\ Stacked(cs, w)
    BY DEF Explored
  <1>3. /\ Linked(ds) /\ Grown(cs, ds) /\ Replaced(w, v, n, last) /\ last \in 0..Len(ds)
        /\ Rebalanced(cs, ds, n, last, w[Len(w)].last_cp)
        /\ Chain(cs, w[Len(w)].last_cp) \subseteq Chain(ds, last)
    BY <1>1
  <1> HIDE DEF cs, ds, w, v
  <1>4. Counted(ds, v)
    BY <1>1, <1>2, <1>3, CountsKept
  <1>5. Stacked(ds, v)
    BY <1>1, <1>2, <1>3, StackKept
  <1>6. \A k \in 1..Len(v) : v[k].last_cp \in 0..Len(ds)
    <2>1. SUFFICES ASSUME NEW k \in 1..Len(v) PROVE v[k].last_cp \in 0..Len(ds)
      OBVIOUS
    <2>2. CASE k \in 1..(Len(w) - 1)
      <3>1. v[k].last_cp = w[k].last_cp
        BY <1>3, <2>2 DEF Replaced
      <3>2. k \in 1..Len(w)
        BY <1>1, <2>2
      <3>3. Len(cs) <= Len(ds)
        BY <1>3 DEF Grown
      <3> QED BY <1>1, <3>1, <3>2, <3>3
    <2>3. CASE k \notin 1..(Len(w) - 1)
      <3>1. k \in Len(w)..Len(v)
        BY <1>1, <2>3
      <3> QED BY <1>3, <3>1 DEF Replaced
    <2> QED BY <2>2, <2>3
  <1> QED BY <1>4, <1>5, <1>6 DEF ds, v

\* Nothing but the counters, the verdict or the machine changes.
LEMMA RejectExplored ==
    ASSUME Explored, UNCHANGED <<prog, live, work, cps, visited, counters>>, verdict' \in Verdicts
    PROVE  Explored'
  <1>1. /\ prog' = prog /\ work' = work /\ cps' = cps /\ visited' = visited /\ steps' = steps
        /\ jmps' = jmps /\ prevInsn' = prevInsn /\ prevJmps' = prevJmps
    BY DEF counters
  <1>2. Typed'
    BY <1>1 DEF Explored, Typed, P
  <1>3. Linked(cps)' /\ Counted(cps, work)' /\ Stacked(cps, work)'
    BY <1>1 DEF Explored
  <1> QED BY <1>2, <1>3 DEF Explored

\* The bookkeeping of an admitted item, whatever its instruction does.
LEMMA AdmittedTyped ==
    ASSUME Explored, work # <<>>, Admitted, Len(cps') = Len(Checkpoints), UNCHANGED verdict,
           work' \in Seq(ItemOf(P)), cps' \in Seq(CpOf(P)),
           \A k \in 1..Len(work') : work'[k].last_cp \in 0..Len(cps')
    PROVE  Typed'
  <1>1. Typed /\ Linked(cps)
    BY DEF Explored
  <1>2. pc \in Pcs(P) /\ List \in Seq(1..Len(cps)) /\ Kept \in Seq(1..Len(cps)) /\ Len(cps) \in Nat
    BY <1>1, TopTyped, ListTyped, KeptTyped DEF Typed
  <1>3. prog' = prog /\ P' = P
    BY DEF Admitted, P
  <1>4. steps' \in Nat /\ jmps' \in Nat /\ prevInsn' \in Nat /\ prevJmps' \in Nat
    BY <1>1 DEF Admitted, Typed
  <1>5. /\ Len(cps) <= Len(cps') /\ Len(cps') \in Nat
        /\ Store => LastCp \in 1..Len(cps')
    BY <1>1, <1>2, CheckpointsTyped DEF LastCp
  <1> DEFINE S == 1..Len(cps)
             T == 1..Len(cps')
             stored == IF Store THEN <<LastCp>> ELSE <<>>
             entry == IF pc \notin compute_prune_points THEN visited[pc] ELSE Kept \o stored
  <1>6. S \subseteq T
    BY <1>2, <1>5
  <1>7. ASSUME NEW s \in Seq(S) PROVE s \in Seq(T)
    <2> HIDE DEF S, T
    <2> QED BY <1>6
  <1>8. visited' = [visited EXCEPT ![pc] = entry]
    BY DEF Admitted
  <1>9. entry \in Seq(T)
    <2>1. visited[pc] \in Seq(T) /\ Kept \in Seq(T)
      BY <1>1, <1>2, <1>7 DEF Typed
    <2>2. stored \in Seq(T)
      <3>1. Store => LastCp \in T
        BY <1>5
      <3>2. <<>> \in Seq(T)
        OBVIOUS
      <3> HIDE DEF T
      <3>3. Store => <<LastCp>> \in Seq(T)
        BY <3>1
      <3> QED BY <3>2, <3>3
    <2>3. Kept \o stored \in Seq(T)
      <3> HIDE DEF T, stored
      <3> QED BY <2>1, <2>2, ConcatProperties
    <2> HIDE DEF stored
    <2> QED BY <2>1, <2>3
  <1> HIDE DEF entry, S, T
  <1>10. visited \in [Pcs(P) -> Seq(S)]
    BY <1>1 DEF Typed, S
  <1>11. visited' \in [Pcs(P) -> Seq(T)]
    BY <1>7, <1>8, <1>9, <1>10
  <1>12. visited' \in [Pcs(P') -> Seq(1..Len(cps'))]
    BY <1>3, <1>11 DEF T
  <1> QED BY <1>1, <1>3, <1>4, <1>12 DEF Typed

LEMMA HitTyped ==
    ASSUME NEW p, NEW cs \in Seq(CpOf(p)), NEW c \in 1..Len(cs)
    PROVE  /\ [cs EXCEPT ![c].hit_cnt = @ + 1] \in Seq(CpOf(p))
           /\ SameTree(cs, [cs EXCEPT ![c].hit_cnt = @ + 1])
  <1> DEFINE cp == cs[c]
             h  == cp.hit_cnt + 1
             up == [cp EXCEPT !.hit_cnt = h]
             ds == [cs EXCEPT ![c] = up]
             S  == CpOf(p)
  <1>1. cp \in CpOf(p)
    BY ElementOfSeq
  <1>2. h \in Nat
    <2> HIDE DEF cp
    <2>1. cp.hit_cnt \in Nat
      BY <1>1 DEF CpOf
    <2> QED BY <2>1
  <1>3. ds = [cs EXCEPT ![c].hit_cnt = @ + 1]
    OBVIOUS
  <1>4. up \in CpOf(p) /\ up.parent = cp.parent /\ up.branches = cp.branches
    <2> HIDE DEF cp, h
    <2> QED BY <1>1, <1>2 DEF CpOf
  <1> HIDE DEF up, S
  <1>5. cs \in Seq(S) /\ up \in S
    BY <1>4 DEF S
  <1>6. ds \in Seq(S) /\ Len(ds) = Len(cs)
    BY <1>5, ExceptSeq
  <1>7. \A k \in 1..Len(cs) : ds[k] = IF k = c THEN up ELSE cs[k]
    BY <1>5
  <1>8. SameTree(cs, ds)
    <2> HIDE DEF ds
    <2> QED BY <1>4, <1>6, <1>7 DEF SameTree
  <1> QED BY <1>3, <1>6, <1>8 DEF S

LEMMA ExtendedSame ==
    ASSUME NEW p, NEW cs, NEW ms \in Seq(CpOf(p)), NEW ds \in Seq(CpOf(p)), Len(cs) \in Nat,
           Extended(cs, ms), SameTree(ms, ds)
    PROVE  Extended(cs, ds)
  <1>1. Len(ms) \in Nat /\ Len(ds) = Len(ms) /\ Len(cs) <= Len(ms)
    BY DEF SameTree, Extended, Grown
  <1>2. Linked(ds)
    BY <1>1 DEF Linked, SameTree, Extended
  <1>3. Grown(cs, ds)
    BY <1>1 DEF Grown, SameTree, Extended
  <1>4. \A c \in 1..Len(ds) : ds[c].branches = IF c <= Len(cs) THEN cs[c].branches ELSE 0
    BY <1>1 DEF SameTree, Extended
  <1> QED BY <1>2, <1>3, <1>4 DEF Extended

\* A path that is cut leaves its branches behind.
LEMMA RestReplaced ==
    ASSUME Typed, work # <<>>, NEW last
    PROVE  Replaced(work, Rest, 0, last)
  <1>1. Len(work) \in Nat \ {0} /\ Len(Rest) = Len(work) - 1
    BY TopTyped
  <1>2. \A k \in 1..(Len(work) - 1) : Rest[k].last_cp = work[k].last_cp
    BY TopTyped
  <1>3. Len(work)..Len(Rest) = {} /\ Len(Rest) = Len(work) - 1 + 0
    BY <1>1
  <1> QED BY <1>2, <1>3 DEF Replaced

LEMMA PruneExplored == Explored /\ Prune => Explored'
  <1> SUFFICES ASSUME Explored, Prune PROVE Explored'
    OBVIOUS
  <1>1. Typed /\ Linked(cps) /\ work # <<>>
    BY DEF Explored, Prune, Arrives
  <1>2. FirstStop \in Stops
    <2>1. Stops \in SUBSET Nat /\ Stops # {}
      <3>1. DOMAIN List \in SUBSET Nat
        <4>1. List \in Seq(1..Len(cps))
          BY <1>1, TopTyped, ListTyped
        <4> QED BY <4>1
      <3> QED BY <3>1 DEF Stops, Prune
    <2>2. \E k \in Stops : \A j \in Stops : k <= j
      BY <2>1, LeastNat
    <2> QED BY <2>2 DEF FirstStop
  <1> DEFINE hit == List[FirstStop]
             top == Top.last_cp
             ns  == Missed(FirstStop - 1)
             ms  == [ns EXCEPT ![hit].hit_cnt = @ + 1]
  <1>3. hit \in 1..Len(cps) /\ top \in 0..Len(cps) /\ cps \in Seq(CpOf(P)) /\ Len(cps) \in Nat
    <2>1. List \in Seq(1..Len(cps)) /\ FirstStop \in DOMAIN List
      BY <1>1, <1>2, TopTyped, ListTyped DEF Stops
    <2> QED BY <1>1, <2>1, TopTyped, ElementOfSeq DEF Typed
  <1>4. ns \in Seq(CpOf(P)) /\ SameTree(cps, ns) /\ Len(ns) = Len(cps)
    BY <1>1, MissedTyped DEF SameTree
  <1>5. cps' = bump_branches(ms, top, -1) /\ work' = Rest /\ steps' = steps + 1
    BY DEF Prune
  <1> HIDE DEF hit, top, ns
  <1>6. ms \in Seq(CpOf(P)) /\ SameTree(ns, ms)
    BY <1>3, <1>4, HitTyped
  <1> HIDE DEF ms
  <1>7. Extended(cps, ms) /\ Len(ms) = Len(cps)
    <2>1. Extended(cps, ns)
      BY <1>1, <1>3, <1>4, SameExtended
    <2>2. Extended(cps, ms)
      BY <1>3, <1>4, <1>6, <2>1, ExtendedSame
    <2> QED BY <1>4, <1>6, <2>2 DEF SameTree
  <1>8. /\ cps' \in Seq(CpOf(P)) /\ Len(cps') = Len(cps) /\ Linked(cps') /\ Grown(cps, cps')
        /\ Rebalanced(cps, cps', 0, top, top)
    <2> DEFINE ds == bump_branches(ms, top, -1)
    <2>1. /\ ds \in Seq(CpOf(P)) /\ Len(ds) = Len(ms) /\ Linked(ds) /\ Grown(cps, ds)
          /\ Rebalanced(cps, ds, 0, top, top)
      BY <1>1, <1>3, <1>6, <1>7, BumpedOnce
    <2> HIDE DEF ds
    <2>2. cps' = ds
      BY <1>5 DEF ds
    <2> QED BY <1>7, <2>1, <2>2
  <1>9. Chain(cps', top) = Chain(cps, top)
    <2>1. Len(cps') \in Nat
      BY <1>3, <1>8
    <2> QED BY <1>1, <1>3, <1>8, <2>1, ChainSame
  <1>10. work' \in Seq(ItemOf(P)) /\ Replaced(work, work', 0, top)
    BY <1>1, <1>5, TopTyped, RestReplaced
  <1>11. /\ \A k \in 1..Len(work') : work'[k].last_cp \in 0..Len(cps')
         /\ Counted(cps', work') /\ Stacked(cps', work')
    <2>1. top \in 0..Len(cps')
      BY <1>3, <1>8
    <2> QED BY <1>1, <1>8, <1>9, <1>10, <2>1, Popped DEF top
  <1>12. Typed'
    <2>1. /\ prog' = prog /\ P' = P /\ visited' = visited /\ verdict' = verdict
          /\ jmps' = jmps /\ prevInsn' = prevInsn /\ prevJmps' = prevJmps
      BY DEF Prune, P
    <2>2. steps' \in Nat
      BY <1>1, <1>5 DEF Typed
    <2>3. visited' \in [Pcs(P') -> Seq(1..Len(cps'))]
      BY <1>1, <1>8, <2>1 DEF Typed
    <2> QED BY <1>1, <1>8, <1>10, <1>11, <2>1, <2>2, <2>3 DEF Typed
  <1> QED BY <1>8, <1>11, <1>12 DEF Explored

LEMMA ExitExplored == Explored /\ ExitMain => Explored'
  <1> SUFFICES ASSUME Explored, ExitMain PROVE Explored'
    OBVIOUS
  <1>1. Typed /\ Linked(cps) /\ work # <<>> /\ Admitted
    BY DEF Explored, ExitMain, Admitted, Proceeds, Arrives
  <1> DEFINE top == Top.last_cp
             ms  == Checkpoints
  <1>2. top \in 0..Len(cps) /\ cps \in Seq(CpOf(P)) /\ Len(cps) \in Nat
    BY <1>1, TopTyped DEF Typed
  <1>3. ms \in Seq(CpOf(P)) /\ Extended(cps, ms)
    BY <1>1, CheckpointsTyped
  <1>4. cps' = bump_branches(ms, top, -1) /\ work' = Rest /\ UNCHANGED verdict
    BY DEF ExitMain
  <1> HIDE DEF top, ms
  <1>5. /\ cps' \in Seq(CpOf(P)) /\ Len(cps') = Len(ms) /\ Linked(cps') /\ Grown(cps, cps')
        /\ Rebalanced(cps, cps', 0, top, top)
    <2> DEFINE ds == bump_branches(ms, top, -1)
    <2>1. /\ ds \in Seq(CpOf(P)) /\ Len(ds) = Len(ms) /\ Linked(ds) /\ Grown(cps, ds)
          /\ Rebalanced(cps, ds, 0, top, top)
      BY <1>1, <1>2, <1>3, BumpedOnce
    <2> HIDE DEF ds
    <2>2. cps' = ds
      BY <1>4 DEF ds
    <2> QED BY <2>1, <2>2
  <1>6. Len(cps') \in Nat /\ top \in 0..Len(cps')
    BY <1>2, <1>5 DEF Grown
  <1>7. Chain(cps', top) = Chain(cps, top)
    BY <1>1, <1>2, <1>5, <1>6, ChainSame
  <1>8. work' \in Seq(ItemOf(P)) /\ Replaced(work, work', 0, top)
    BY <1>1, <1>4, TopTyped, RestReplaced
  <1>9. /\ \A k \in 1..Len(work') : work'[k].last_cp \in 0..Len(cps')
        /\ Counted(cps', work') /\ Stacked(cps', work')
    BY <1>1, <1>5, <1>6, <1>7, <1>8, Popped DEF top
  <1>10. Typed'
    BY <1>1, <1>4, <1>5, <1>8, <1>9, AdmittedTyped DEF ms
  <1> QED BY <1>5, <1>9, <1>10 DEF Explored

LEMMA ReturnExplored == Explored /\ Return => Explored'
  <1> SUFFICES ASSUME Explored, Return PROVE Explored'
    OBVIOUS
  <1>1. Typed /\ Linked(cps) /\ work # <<>> /\ Admitted
    BY DEF Explored, Return, Admitted, Proceeds, Arrives
  <1> DEFINE top == Top.last_cp
             ms  == Checkpoints
             x   == Continuation
  <1>2. top \in 0..Len(cps) /\ cps \in Seq(CpOf(P)) /\ Len(cps) \in Nat
    BY <1>1, TopTyped DEF Typed
  <1>3. ms \in Seq(CpOf(P)) /\ Extended(cps, ms)
    BY <1>1, CheckpointsTyped
  <1>4. /\ cps' = bump_branches(bump_branches(ms, top, 1), top, -1)
        /\ work' = Append(Rest, x) /\ UNCHANGED verdict
    BY DEF Return
  <1>5. x \in ItemOf(P) /\ x.last_cp = top
    <2>1. Top.state \in StateOf(P) /\ Top.state.saved # <<>>
      BY <1>1, TopTyped DEF Return, Nested
    <2>2. return_from_subprog(Top.state) \in StateOf(P)
      BY <2>1, ReturnTyped
    <2>3. Top.state.ret \in Pcs(P) /\ top \in Nat
      BY <1>2, <2>1 DEF StateOf
    <2>4. <<>> \in Seq(Pcs(P))
      OBVIOUS
    <2> QED BY <2>2, <2>3, <2>4 DEF Continuation, Item, ItemOf
  <1> HIDE DEF top, ms, x
  <1>6. top \in 0..Len(ms)
    BY <1>2, <1>3 DEF Extended, Grown
  <1>7. /\ cps' \in Seq(CpOf(P)) /\ Len(cps') = Len(ms) /\ Linked(cps') /\ Grown(cps, cps')
        /\ Rebalanced(cps, cps', 1, top, top)
    <2> DEFINE ds == bump_branches(bump_branches(ms, top, 1), top, -1)
    <2>1. /\ ds \in Seq(CpOf(P)) /\ Len(ds) = Len(ms) /\ Linked(ds) /\ Grown(cps, ds)
          /\ Rebalanced(cps, ds, 1, top, top)
      BY <1>1, <1>2, <1>3, <1>6, BumpedTwice
    <2> HIDE DEF ds
    <2>2. cps' = ds
      BY <1>4 DEF ds
    <2> QED BY <2>1, <2>2
  <1>8. Len(cps') \in Nat /\ top \in 0..Len(cps')
    BY <1>2, <1>7 DEF Grown
  <1>9. Chain(cps', top) = Chain(cps, top)
    BY <1>1, <1>2, <1>7, <1>8, ChainSame
  <1>10. work' \in Seq(ItemOf(P)) /\ Replaced(work, work', 1, top)
    <2> DEFINE n == Len(work)
    <2>1. /\ n \in Nat /\ n >= 1 /\ Rest \in Seq(ItemOf(P)) /\ Len(Rest) = n - 1
          /\ \A k \in 1..(n - 1) : Rest[k] = work[k]
      BY <1>1, TopTyped
    <2>2. /\ work' \in Seq(ItemOf(P)) /\ Len(work') = n /\ work'[n] = x
          /\ \A k \in 1..(n - 1) : work'[k] = Rest[k]
      BY <1>4, <1>5, <2>1, AppendProperties
    <2>3. Len(work') = n - 1 + 1
      BY <2>1, <2>2
    <2>4. \A k \in n..Len(work') : work'[k].last_cp = top
      BY <1>5, <2>1, <2>2
    <2> QED BY <2>1, <2>2, <2>3, <2>4 DEF Replaced
  <1>11. /\ \A k \in 1..Len(work') : work'[k].last_cp \in 0..Len(cps')
         /\ Counted(cps', work') /\ Stacked(cps', work')
    BY <1>1, <1>7, <1>8, <1>9, <1>10, Popped DEF top
  <1>12. Typed'
    BY <1>1, <1>4, <1>7, <1>10, <1>11, AdmittedTyped DEF ms
  <1> QED BY <1>7, <1>11, <1>12 DEF Explored

\* The items that are pushed for the successors of an instruction.
LEMMA PushedTyped ==
    ASSUME Typed, work # <<>>, NEW nexts \in Seq(NextOf(P)), NEW last \in Nat,
           NEW hist \in Seq(Pcs(P)), NEW v,
           v = Rest \o Reverse([k \in DOMAIN nexts |-> Item(nexts[k].pc, nexts[k].state, last, hist)])
    PROVE  v \in Seq(ItemOf(P)) /\ Replaced(work, v, Len(nexts), last)
  <1> DEFINE m == Len(nexts)
             n == Len(work)
             S == ItemOf(P)
             x == [k \in 1..m |-> Item(nexts[k].pc, nexts[k].state, last, hist)]
             y == Reverse(x)
  <1>1. m \in Nat /\ DOMAIN nexts = 1..m /\ \A k \in 1..m : nexts[k] \in NextOf(P)
    BY ElementOfSeq
  <1>2. \A k \in 1..m : x[k] \in S /\ x[k].last_cp = last
    BY <1>1 DEF Item, ItemOf, NextOf
  <1>3. x \in Seq(S) /\ Len(x) = m
    <2>1. x \in [1..m -> S]
      BY <1>2
    <2> HIDE DEF x, S, m
    <2> QED BY <1>1, <2>1
  <1>4. v = Rest \o y
    BY <1>1
  <1> HIDE DEF x, S
  <1>5. \A k \in 1..m : y[k] \in S /\ y[k].last_cp = last
    <2>1. y = [k \in 1..m |-> x[(m - k) + 1]]
      BY <1>3 DEF Reverse
    <2>2. \A k \in 1..m : (m - k) + 1 \in 1..m
      BY <1>1
    <2> HIDE DEF m, y
    <2> QED BY <1>2, <2>1, <2>2
  <1>6. y \in Seq(S) /\ Len(y) = m
    <2>1. y \in [1..m -> S]
      <3>1. y = [k \in 1..m |-> x[(m - k) + 1]]
        BY <1>3 DEF Reverse
      <3> HIDE DEF y
      <3> QED BY <1>5, <3>1
    <2> HIDE DEF y, m
    <2> QED BY <1>1, <2>1
  <1> HIDE DEF y
  <1>7. /\ n \in Nat /\ n >= 1 /\ Rest \in Seq(S) /\ Len(Rest) = n - 1
        /\ \A k \in 1..(n - 1) : Rest[k] = work[k]
    BY TopTyped DEF S
  <1> HIDE DEF n, m
  <1>8. /\ v \in Seq(S) /\ Len(v) = n - 1 + m
        /\ \A k \in 1..(n - 1 + m) : v[k] = IF k <= n - 1 THEN Rest[k] ELSE y[k - (n - 1)]
    <2> DEFINE a == Rest
    <2>1. a \in Seq(S) /\ Len(a) = n - 1 /\ v = a \o y
      BY <1>4, <1>7
    <2> HIDE DEF a
    <2>2. /\ v \in Seq(S) /\ Len(v) = Len(a) + Len(y)
          /\ \A k \in 1..(Len(a) + Len(y)) : v[k] = IF k <= Len(a) THEN a[k] ELSE y[k - Len(a)]
      <3>1. /\ a \o y \in Seq(S) /\ Len(a \o y) = Len(a) + Len(y)
            /\ \A k \in 1..(Len(a) + Len(y)) : (a \o y)[k] = IF k <= Len(a) THEN a[k] ELSE y[k - Len(a)]
        BY <1>6, <2>1, ConcatProperties
      <3> QED BY <2>1, <3>1
    <2>3. Len(a) + Len(y) = n - 1 + m
      BY <1>6, <2>1
    <2> QED BY <2>1, <2>2, <2>3 DEF a
  <1>9. \A k \in 1..(n - 1) : v[k].last_cp = work[k].last_cp
    <2>1. \A k \in 1..(n - 1) : k \in 1..(n - 1 + m) /\ k <= n - 1
      BY <1>1, <1>7
    <2> QED BY <1>7, <1>8, <2>1
  <1>10. \A k \in n..(n - 1 + m) : v[k].last_cp = last
    <2>1. \A k \in n..(n - 1 + m) : k \in 1..(n - 1 + m) /\ ~(k <= n - 1) /\ k - (n - 1) \in 1..m
      BY <1>1, <1>7
    <2> QED BY <1>5, <1>8, <2>1
  <1> QED BY <1>8, <1>9, <1>10 DEF Replaced, S, n, m

LEMMA AnalyzeExplored == Explored /\ Analyze => Explored'
  <1> SUFFICES ASSUME Explored, Analyze PROVE Explored'
    OBVIOUS
  <1>1. Typed /\ Linked(cps) /\ work # <<>> /\ Admitted /\ Step
    BY DEF Explored, Analyze, Admitted, Proceeds, Arrives
  <1> DEFINE nexts == successors(pc, insn, Top.state)
             need  == precision_regs(insn, Top.state, Len(nexts))
             seg   == IF Store THEN <<>> ELSE Top.history
             ms    == mark_chain_precision(Checkpoints, LastCp, seg, need)
             hist  == IF Store THEN <<pc>> ELSE Append(Top.history, pc)
             top   == Top.last_cp
             last  == LastCp
             n     == Len(nexts)
  <1>2. /\ cps' = bump_branches(bump_branches(ms, last, n), top, -1) /\ UNCHANGED verdict
        /\ work' = Rest \o Reverse([k \in DOMAIN nexts |-> Item(nexts[k].pc, nexts[k].state, last, hist)])
        /\ insn.op # "exit"
    BY <1>1 DEF Step
  <1>3. top \in 0..Len(cps) /\ cps \in Seq(CpOf(P)) /\ Len(cps) \in Nat
    BY <1>1, TopTyped DEF Typed
  <1>4. nexts \in Seq(NextOf(P)) /\ n \in Nat
    <2>1. P \in Seq(Insns) /\ pc \in Pcs(P) /\ Inside(P, pc) /\ Top.state \in StateOf(P)
      BY <1>1, TopTyped, ProgramFacts DEF Typed
    <2> QED BY <1>2, <2>1, SuccessorsTyped DEF insn
  <1>5. hist \in Seq(Pcs(P))
    <2>1. pc \in Pcs(P) /\ Top.history \in Seq(Pcs(P))
      BY <1>1, TopTyped DEF ItemOf
    <2>2. <<pc>> \in Seq(Pcs(P)) /\ Append(Top.history, pc) \in Seq(Pcs(P))
      BY <2>1
    <2> QED BY <2>2
  <1>6. /\ Checkpoints \in Seq(CpOf(P)) /\ Extended(cps, Checkpoints) /\ last \in 0..Len(Checkpoints)
        /\ Chain(cps, top) \subseteq Chain(Checkpoints, last) /\ Len(Checkpoints) \in Nat
    BY <1>1, CheckpointsTyped
  <1> HIDE DEF seg, need, nexts, hist, top, n, last
  <1>7. ms \in Seq(CpOf(P)) /\ SameTree(Checkpoints, ms)
    BY <1>6, MarkTyped DEF last
  <1> HIDE DEF ms
  <1>8. Extended(cps, ms) /\ Len(ms) = Len(Checkpoints) /\ last \in 0..Len(ms)
    <2>1. Extended(cps, ms)
      BY <1>3, <1>6, <1>7, ExtendedSame
    <2> QED BY <1>6, <1>7, <2>1 DEF SameTree
  <1>9. Chain(ms, last) = Chain(Checkpoints, last)
    <2>1. Linked(Checkpoints) /\ Linked(ms)
      BY <1>6, <1>8 DEF Extended
    <2>2. Grown(Checkpoints, ms)
      BY <1>6, <1>7 DEF Grown, SameTree
    <2>3. Len(ms) \in Nat
      BY <1>7
    <2> QED BY <1>6, <2>1, <2>2, <2>3, ChainSame
  <1>10. /\ cps' \in Seq(CpOf(P)) /\ Len(cps') = Len(ms) /\ Linked(cps') /\ Grown(cps, cps')
         /\ Rebalanced(cps, cps', n, last, top) /\ Chain(cps', last) = Chain(ms, last)
    <2> DEFINE ds == bump_branches(bump_branches(ms, last, n), top, -1)
    <2>1. /\ ds \in Seq(CpOf(P)) /\ Len(ds) = Len(ms) /\ Linked(ds) /\ Grown(cps, ds)
          /\ Rebalanced(cps, ds, n, last, top) /\ Chain(ds, last) = Chain(ms, last)
      BY <1>1, <1>3, <1>4, <1>7, <1>8, BumpedTwice
    <2> HIDE DEF ds
    <2>2. cps' = ds
      BY <1>2 DEF ds
    <2> QED BY <2>1, <2>2
  <1>11. last \in 0..Len(cps') /\ last \in Nat
    BY <1>6, <1>8, <1>10
  <1>12. work' \in Seq(ItemOf(P)) /\ Replaced(work, work', n, last)
    BY <1>1, <1>2, <1>4, <1>5, <1>11, PushedTyped DEF n
  <1>13. Chain(cps, top) \subseteq Chain(cps', last)
    BY <1>6, <1>9, <1>10
  <1>14. /\ \A k \in 1..Len(work') : work'[k].last_cp \in 0..Len(cps')
         /\ Counted(cps', work') /\ Stacked(cps', work')
    BY <1>1, <1>4, <1>10, <1>11, <1>12, <1>13, Popped DEF top
  <1>15. Typed'
    BY <1>1, <1>2, <1>8, <1>10, <1>12, <1>14, AdmittedTyped
  <1> QED BY <1>10, <1>14, <1>15 DEF Explored

LEMMA NextExplored == Explored /\ [Next]_vars => Explored'
  <1> SUFFICES ASSUME Explored, [Next]_vars PROVE Explored'
    OBVIOUS
  <1>0. verdict \in Verdicts
    BY DEF Explored, Typed
  <1>1. CASE TooManySteps \/ InfiniteLoop \/ TooManyLoops \/ TooManyStates \/ Refuse
    <2>1. UNCHANGED <<prog, live, work, cps, visited, counters>> /\ verdict' \in Verdicts
      BY <1>1 DEF TooManySteps, InfiniteLoop, TooManyLoops, TooManyStates, Refuse, Reject, Verdicts
    <2> QED BY <2>1, RejectExplored
  <1>2. CASE Prune
    BY <1>2, PruneExplored
  <1>3. CASE Return
    BY <1>3, ReturnExplored
  <1>4. CASE ExitMain
    BY <1>4, ExitExplored
  <1>5. CASE Analyze
    BY <1>5, AnalyzeExplored
  <1>6. CASE Accept
    <2>1. UNCHANGED <<prog, live, work, cps, visited, counters>> /\ verdict' \in Verdicts
      BY <1>6 DEF Accept, Verdicts
    <2> QED BY <2>1, RejectExplored
  <1>7. CASE Execute
    <2>1. UNCHANGED <<prog, live, work, cps, visited, counters>> /\ verdict' = verdict
      BY <1>7 DEF Execute
    <2> QED BY <1>0, <2>1, RejectExplored
  <1>8. CASE UNCHANGED vars
    <2>1. UNCHANGED <<prog, live, work, cps, visited, counters>> /\ verdict' = verdict
      BY <1>8 DEF vars
    <2> QED BY <1>0, <2>1, RejectExplored
  <1> QED BY <1>1, <1>2, <1>3, <1>4, <1>5, <1>6, <1>7, <1>8 DEF Next, Verify

-----------------------------------------------------------------------------
(* Theorems                                                                 *)

LEMMA UsersFinite ==
    ASSUME NEW cs, NEW w, Len(w) \in Nat, NEW c
    PROVE  IsFiniteSet(Users(cs, w, c)) /\ Cardinality(Users(cs, w, c)) \in Nat
  <1>1. IsFiniteSet(1..Len(w))
    BY FS_Interval
  <1>2. Users(cs, w, c) \subseteq 1..Len(w)
    BY DEF Users
  <1> QED BY <1>1, <1>2, FS_Subset, FS_CardinalityType

\* The mini pass keeps its types: worklist items stay inside the program
\* (also after a return), parents are older than their children, the lists of
\* the prune points hold checkpoints, and no branch count falls below zero.
THEOREM TypeCorrect == Spec => []TypeOK
  <1>1. Explored => TypeOK
    <2> SUFFICES ASSUME Explored PROVE TypeOK
      OBVIOUS
    <2>1. /\ Typed /\ work \in Seq(ItemOf(P)) /\ cps \in Seq(CpOf(P))
          /\ DOMAIN work = 1..Len(work) /\ DOMAIN cps = 1..Len(cps)
          /\ Len(work) \in Nat
      BY DEF Explored, Typed
    <2>2. ASSUME NEW k \in DOMAIN work
          PROVE  work[k].pc \in Pcs(P) /\ work[k].last_cp \in 0..Len(cps)
      <3>1. work[k] \in ItemOf(P)
        BY <2>1, ElementOfSeq
      <3> QED BY <2>1, <3>1 DEF ItemOf, Typed
    <2>3. ASSUME NEW c \in DOMAIN cps
          PROVE  cps[c].parent \in 0..(c - 1) /\ cps[c].branches \in Nat
      <3>1. cps[c].parent \in 0..(c - 1)
        BY <2>1 DEF Explored, Linked
      <3>2. cps[c].branches = Cardinality(Users(cps, work, c))
        BY <2>1 DEF Explored, Counted
      <3> QED BY <2>1, <3>1, <3>2, UsersFinite
    <2>4. \A q \in Pcs(P) : visited[q] \in Seq(DOMAIN cps)
      BY <2>1 DEF Typed
    <2>5. verdict \in Verdicts /\ {steps, jmps, prevInsn, prevJmps} \subseteq Nat
      BY <2>1 DEF Typed
    <2> QED BY <2>2, <2>3, <2>4, <2>5 DEF TypeOK
  <1> QED BY InitExplored, NextExplored, <1>1, PTL DEF Spec

\* bump_branches keeps the count of every checkpoint equal to the number of
\* worklist items whose parent chain leads to it, through forks, prunes,
\* calls, returns and evictions, for every program and every limit.
THEOREM CountsExact == Spec => []BranchCounts
  <1>1. Explored => BranchCounts
    <2> SUFFICES ASSUME Explored PROVE BranchCounts
      OBVIOUS
    <2>1. DOMAIN work = 1..Len(work) /\ DOMAIN cps = 1..Len(cps)
      BY DEF Explored, Typed
    <2> QED BY <2>1 DEF Explored, Counted, Users, BranchCounts
  <1> QED BY InitExplored, NextExplored, <1>1, PTL DEF Spec

\* At every pop the unfinished checkpoints are ancestors of the popped item,
\* so that an identical unfinished one is a loop of this very path.
THEOREM UnfinishedAreAncestors == Spec => []InProgressIsAncestor
  <1>1. Explored => InProgressIsAncestor
    <2> SUFFICES ASSUME Explored, work # <<>>, NEW c \in DOMAIN cps, cps[c].branches > 0
                 PROVE  c \in Chain(cps, Top.last_cp)
      BY DEF InProgressIsAncestor
    <2>1. /\ Typed /\ DOMAIN cps = 1..Len(cps) /\ Len(work) \in Nat \ {0}
          /\ Top = work[Len(work)]
      BY TopTyped DEF Explored, Typed
    <2>2. cps[c].branches = Cardinality(Users(cps, work, c))
      BY <2>1 DEF Explored, Counted
    <2>3. Users(cps, work, c) # {}
      <3>1. SUFFICES ASSUME Users(cps, work, c) = {} PROVE FALSE
        OBVIOUS
      <3>2. Cardinality(Users(cps, work, c)) = 0
        BY <3>1, FS_EmptySet
      <3> QED BY <2>2, <3>2
    <2>4. PICK k \in 1..Len(work) : c \in Chain(cps, work[k].last_cp)
      BY <2>3 DEF Users
    <2>5. Len(work) \in 1..Len(work) /\ k <= Len(work)
      BY <2>1
    <2>6. Chain(cps, work[k].last_cp) \subseteq Chain(cps, work[Len(work)].last_cp)
      BY <2>5 DEF Explored, Stacked
    <2> QED BY <2>1, <2>4, <2>6
  <1> QED BY InitExplored, NextExplored, <1>1, PTL DEF Spec
=============================================================================
