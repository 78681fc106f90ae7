---------------------------- MODULE MemoryProofs ----------------------------
(***************************************************************************)
(* Proofs about the stack of the mini verifier, for every size of slots and *)
(* frames, every number of frames and all programs: the types, and that no  *)
(* register or spilled slot of a frame holds a pointer into a frame above   *)
(* it, so that none names a frame that has ended.                           *)
(***************************************************************************)
EXTENDS Memory, SequenceTheorems, WellFoundedInduction, TLAPS

-----------------------------------------------------------------------------
(* Values, frames and the stack of frames.                                  *)

\* What a register or slot of the n-th frame may hold.
ScalarVal == [k : {"scalar"}, set : (SUBSET Words) \ {{}}]
MapVal    == [k : {"map"}, min : Int, max : Int, align : Int]
StackVal(n) == [k : {"stack"}, min : Int, max : Int, align : Int, frame : 1..n]
Val(a, n) == a = Uninit \/ a \in ScalarVal \/ a \in MapVal \/ a \in StackVal(n)

Kinds == {"invalid", "misc", "zero", "spill"}
FileOf(regs, n) ==
    /\ regs = [r \in Regs |-> regs[r]] /\ \A r \in Regs : Val(regs[r], n)
    /\ regs[10] = StackPtr(0, 0, 0, n)
SpillsOf(spilled, n) ==
    spilled = [c \in Cells |-> spilled[c]] /\ \A c \in Cells : Val(spilled[c], n)
FrameOf(f, n) ==
    /\ f = [regs |-> f.regs, bytes |-> f.bytes, spilled |-> f.spilled]
    /\ FileOf(f.regs, n) /\ SpillsOf(f.spilled, n) /\ f.bytes \in [Offsets -> Kinds]

\* A sequence of n frames.
Sized(s, n) == s = [i \in 1..n |-> s[i]]
StackOf(s, n) == Sized(s, n) /\ \A i \in 1..n : FrameOf(s[i], i)

Typed ==
    /\ Len(abs) \in 1..MaxFrames /\ steps \in 0..MaxSteps /\ failed \in BOOLEAN
    /\ StackOf(abs, Len(abs))
    /\ failed \/ Sized(con, Len(abs))

LEMMA SizedLen ==
    ASSUME NEW s, NEW n \in Nat, Sized(s, n)
    PROVE  Len(s) = n /\ DOMAIN s = 1..n
  <1>1. s \in [1..n -> {s[i] : i \in 1..n}]
    BY DEF Sized
  <1>2. s \in Seq({s[i] : i \in 1..n}) /\ Len(s) = n
    <2> DEFINE S == {s[i] : i \in 1..n}
    <2>1. s \in [1..n -> S]
      BY <1>1
    <2> HIDE DEF S
    <2>2. s \in Seq(S) /\ Len(s) = n
      BY <2>1
    <2> QED BY <2>2 DEF S
  <1> QED BY <1>1, <1>2

LEMMA SizedExcept ==
    ASSUME NEW s, NEW n, Sized(s, n), NEW i, NEW g
    PROVE  Sized([s EXCEPT ![i] = g], n)
  <1> DEFINE t == [s EXCEPT ![i] = g]
  <1>1. DOMAIN t = 1..n
    BY DEF Sized
  <1>2. t = [j \in DOMAIN t |-> t[j]]
    BY DEF Sized
  <1> QED BY <1>1, <1>2 DEF Sized

\* A frame of the stack is replaced.
LEMMA StackExcept ==
    ASSUME NEW s, NEW n, StackOf(s, n), NEW i \in 1..n, NEW g, FrameOf(g, i)
    PROVE  StackOf([s EXCEPT ![i] = g], n)
  <1> DEFINE t == [s EXCEPT ![i] = g]
  <1>1. Sized(t, n)
    BY SizedExcept DEF StackOf
  <1>2. \A j \in 1..n : t[j] = IF j = i THEN g ELSE s[j]
    BY DEF StackOf, Sized
  <1> HIDE DEF t
  <1>3. \A j \in 1..n : FrameOf(t[j], j)
    BY <1>2 DEF StackOf
  <1> QED BY <1>1, <1>3 DEF StackOf, t

\* A register other than the frame pointer is written.
LEMMA FramePut ==
    ASSUME NEW f, NEW n, FrameOf(f, n), NEW r \in {0, 1, 6}, NEW a, Val(a, n)
    PROVE  FrameOf([f EXCEPT !.regs[r] = a], n)
  <1> DEFINE regs == [f.regs EXCEPT ![r] = a]
             g == [f EXCEPT !.regs = regs]
  <1>1. FileOf(regs, n)
    <2>1. f.regs = [x \in Regs |-> f.regs[x]] /\ r \in Regs /\ 10 \in Regs /\ r # 10
      BY DEF FrameOf, FileOf, Regs
    <2>2. regs = [x \in Regs |-> IF x = r THEN a ELSE f.regs[x]]
      BY <2>1
    <2>3. \A x \in Regs : regs[x] = IF x = r THEN a ELSE f.regs[x]
      BY <2>2
    <2> HIDE DEF regs
    <2>4. regs = [x \in Regs |-> regs[x]]
      BY <2>2, <2>3
    <2>5. \A x \in Regs : Val(regs[x], n)
      BY <2>3 DEF FrameOf, FileOf
    <2>6. regs[10] = StackPtr(0, 0, 0, n)
      BY <2>1, <2>3 DEF FrameOf, FileOf
    <2> QED BY <2>4, <2>5, <2>6 DEF FileOf
  <1> HIDE DEF regs
  <1>2. g = [regs |-> regs, bytes |-> f.bytes, spilled |-> f.spilled]
    BY DEF FrameOf
  <1> HIDE DEF g
  <1>3. FrameOf(g, n)
    BY <1>1, <1>2 DEF FrameOf
  <1>4. g = [f EXCEPT !.regs[r] = a]
    BY DEF g, regs
  <1> QED BY <1>3, <1>4

-----------------------------------------------------------------------------
(* Steps.                                                                   *)

\* The running frame.
LEMMA Running ==
    ASSUME Typed
    PROVE  /\ cur \in Nat /\ cur \in 1..cur /\ cur \in 1..MaxFrames
           /\ StackOf(abs, cur) /\ FrameOf(abs[cur], cur)
           /\ \A r \in Regs : Val(A(r), cur)
           /\ \A i \in 1..cur : \A c \in Cells : Val(abs[i].spilled[c], cur)
  <1>1. cur \in 1..MaxFrames /\ StackOf(abs, cur)
    BY DEF Typed, cur
  <1>2. cur \in Nat /\ cur \in 1..cur
    BY <1>1, MemoryAssumption
  <1>3. FrameOf(abs[cur], cur)
    BY <1>1, <1>2 DEF StackOf
  <1>4. \A r \in Regs : Val(A(r), cur)
    BY <1>3 DEF FrameOf, FileOf, A
  <1>5. ASSUME NEW i \in 1..cur, NEW c \in Cells PROVE Val(abs[i].spilled[c], cur)
    <2>1. Val(abs[i].spilled[c], i)
      BY <1>1 DEF StackOf, FrameOf, SpillsOf
    <2>2. 1..i \subseteq 1..cur
      BY <1>2
    <2> QED BY <2>1, <2>2 DEF Val, StackVal
  <1> QED BY <1>1, <1>2, <1>3, <1>4, <1>5

\* An instruction whose effect is a stack of n frames keeps the types.
LEMMA TakeTyped ==
    ASSUME Typed, NEW a, NEW ok, NEW c, Take(a, ok, c),
           NEW n \in 1..MaxFrames, StackOf(a, n), ok => Sized(c, n)
    PROVE  Typed'
  <1>1. n \in Nat /\ Len(a) = n
    <2>1. n \in Nat
      BY MemoryAssumption
    <2> QED BY <2>1, SizedLen DEF StackOf
  <1>2. abs' = a /\ steps' \in 0..MaxSteps
    BY MemoryAssumption DEF Take, Typed
  <1>3. failed' \in BOOLEAN /\ (ok => con' = c) /\ (~ok => failed')
    BY DEF Take
  <1>4. Len(abs') = n /\ StackOf(abs', n)
    BY <1>1, <1>2
  <1>5. failed' \/ Sized(con', n)
    BY <1>3
  <1>6. /\ Len(abs') \in 1..MaxFrames /\ steps' \in 0..MaxSteps /\ failed' \in BOOLEAN
        /\ StackOf(abs', Len(abs')) /\ (failed' \/ Sized(con', Len(abs')))
    BY <1>2, <1>3, <1>4, <1>5
  <1> QED BY <1>6 DEF Typed

\* Instructions that run leave the interpreter's frames in place.
LEMMA ConSized ==
    ASSUME Typed, ~failed
    PROVE  /\ Sized(con, cur)
           /\ \A i, g : Sized([con EXCEPT ![i] = g], cur)
  <1>1. Sized(con, cur)
    BY DEF Typed, cur
  <1> QED BY <1>1, SizedExcept

LEMMA SetTyped ==
    ASSUME Typed, NEW r \in {0, 1, 6}, NEW a, Val(a, cur), NEW ok, NEW d, NEW c,
           Take(SetA(r, a), ok, SetC(d, c))
    PROVE  Typed'
  <1>1. ~failed
    BY DEF Take
  <1> DEFINE f == [abs[cur] EXCEPT !.regs[r] = a]
             g == [con[cur] EXCEPT !.regs[d] = c]
  <1>2. FrameOf(f, cur)
    BY Running, FramePut
  <1>3. SetA(r, a) = [abs EXCEPT ![cur] = f]
    BY DEF SetA
  <1>5. SetC(d, c) = [con EXCEPT ![cur] = g]
    BY DEF SetC
  <1> HIDE DEF f, g
  <1>4. StackOf(SetA(r, a), cur)
    <2>1. StackOf([abs EXCEPT ![cur] = f], cur)
      BY <1>2, Running, StackExcept
    <2> QED BY <1>3, <2>1
  <1>6. Sized(SetC(d, c), cur)
    <2>1. Sized([con EXCEPT ![cur] = g], cur)
      BY <1>1, ConSized
    <2> QED BY <1>5, <2>1
  <1> QED BY <1>4, <1>6, Running, TakeTyped

\* r0 and r1 after a helper.
LEMMA HelperTyped ==
    ASSUME Typed, NEW a, Val(a, cur), NEW ok, NEW c,
           Take([abs EXCEPT ![cur].regs[0] = a, ![cur].regs[1] = Uninit], ok,
                [con EXCEPT ![cur].regs[0] = c, ![cur].regs[1] = None])
    PROVE  Typed'
  <1> DEFINE f == [abs[cur] EXCEPT !.regs[0] = a]
             g == [f EXCEPT !.regs[1] = Uninit]
             x == [con[cur] EXCEPT !.regs[0] = c]
             y == [x EXCEPT !.regs[1] = None]
  <1>1. ~failed
    BY DEF Take
  <1>2. FrameOf(f, cur)
    BY Running, FramePut
  <1>3. FrameOf(g, cur)
    <2> HIDE DEF f
    <2>1. Val(Uninit, cur)
      BY DEF Val
    <2> QED BY <1>2, <2>1, FramePut
  <1>4. [abs EXCEPT ![cur].regs[0] = a, ![cur].regs[1] = Uninit] = [abs EXCEPT ![cur] = g]
    BY Running DEF StackOf, Sized
  <1>5. [con EXCEPT ![cur].regs[0] = c, ![cur].regs[1] = None] = [con EXCEPT ![cur] = y]
    <2>1. con = [i \in 1..cur |-> con[i]] /\ cur \in 1..cur
      BY <1>1, Running, ConSized DEF Sized
    <2>2. cur \in DOMAIN con
      BY <2>1
    <2> QED BY <2>2
  <1> HIDE DEF g, y
  <1>6. StackOf([abs EXCEPT ![cur] = g], cur)
    BY <1>3, Running, StackExcept
  <1>7. Sized([con EXCEPT ![cur] = y], cur)
    BY <1>1, ConSized
  <1> QED BY <1>4, <1>5, <1>6, <1>7, Running, TakeTyped

-----------------------------------------------------------------------------
(* Values.                                                                  *)

LEMMA KindOf ==
    ASSUME NEW n, NEW a, Val(a, n)
    PROVE  /\ a.k = "stack" => a \in StackVal(n)
           /\ a.k = "map" => a \in MapVal
           /\ a.k = "scalar" => a \in ScalarVal
           /\ a.k # "stack" => \A m : Val(a, m)
  BY DEF Val, StackVal, MapVal, ScalarVal, Uninit

LEMMA ValGrows ==
    ASSUME NEW n \in Nat, NEW m \in Nat, n <= m, NEW a, Val(a, n)
    PROVE  Val(a, m)
  BY DEF Val, StackVal

LEMMA WordsFacts ==
    /\ Base^Slot \in Nat /\ Base^Slot >= 4 /\ Words \subseteq Nat
    /\ 0 \in Words /\ 1 \in Words /\ Slot \in Words
  <1>1. Base^Slot \in Nat /\ Base^Slot >= 4 /\ Slot < Base^Slot
    BY MemoryAssumption, PowerAssumption DEF Base
  <1> DEFINE b == Base^Slot
  <1> HIDE DEF b
  <1>2. Words = 0..(b - 1) /\ b \in Nat /\ b >= 4 /\ Slot < b
    BY <1>1 DEF Words, b
  <1> QED BY <1>1, <1>2, MemoryAssumption

\* Constants, and scalars that nothing is known of.
LEMMA Scalars ==
    /\ Unknown \in ScalarVal /\ \A w \in Words : Const(w) \in ScalarVal
    /\ \A n : Val(Uninit, n) /\ Val(Unknown, n) /\ \A w \in Words : Val(Const(w), n)
  <1>1. Words # {}
    BY WordsFacts
  <1>2. Unknown \in ScalarVal /\ \A w \in Words : Const(w) \in ScalarVal
    BY <1>1 DEF Unknown, Const, Scalar, ScalarVal
  <1> QED BY <1>2 DEF Val

LEMMA LeastNat ==
    ASSUME NEW S \in SUBSET Nat, S # {}
    PROVE  \E m \in S : \A n \in S : m <= n
  <1>1. PICK m \in S : \A n \in S : ~(<<n, m>> \in OpToRel(<, Nat))
    BY NatLessThanWellFounded, WFMin
  <1>2. \A n \in S : ~(n < m)
    BY <1>1 DEF OpToRel
  <1> QED BY <1>2

\* A set of integers between two bounds has a least and a greatest element.
LEMMA Extremes ==
    ASSUME NEW S \in SUBSET Int, S # {}, NEW lo \in Int, NEW hi \in Int,
           \A x \in S : lo <= x /\ x <= hi
    PROVE  (\E m \in S : \A x \in S : m <= x) /\ (\E m \in S : \A x \in S : m >= x)
  <1>1. \E m \in S : \A x \in S : m <= x
    <2> DEFINE T == {x - lo : x \in S}
    <2>0. \A x \in S : x - lo \in Nat
      OBVIOUS
    <2>1. T \in SUBSET Nat /\ T # {}
      BY <2>0
    <2>2. PICK t \in T : \A u \in T : t <= u
      <3> HIDE DEF T
      <3> QED BY <2>1, LeastNat
    <2>3. PICK m \in S : t = m - lo
      BY <2>2
    <2>4. \A x \in S : m - lo <= x - lo
      BY <2>2, <2>3
    <2>5. \A x \in S : x \in Int /\ m \in Int
      OBVIOUS
    <2>6. \A x \in S : m <= x
      BY <2>4, <2>5
    <2> QED BY <2>6
  <1>2. \E m \in S : \A x \in S : m >= x
    <2> DEFINE T == {hi - x : x \in S}
    <2>0. \A x \in S : hi - x \in Nat
      OBVIOUS
    <2>1. T \in SUBSET Nat /\ T # {}
      BY <2>0
    <2>2. PICK t \in T : \A u \in T : t <= u
      <3> HIDE DEF T
      <3> QED BY <2>1, LeastNat
    <2>3. PICK m \in S : t = hi - m
      BY <2>2
    <2>4. \A x \in S : hi - m <= hi - x
      BY <2>2, <2>3
    <2>5. \A x \in S : x \in Int /\ m \in Int
      OBVIOUS
    <2>6. \A x \in S : m >= x
      BY <2>4, <2>5
    <2> QED BY <2>6
  <1> QED BY <1>1, <1>2

LEMMA SignedBounds ==
    ASSUME NEW s \in ScalarVal
    PROVE  smin(s) \in Int /\ smax(s) \in Int
  <1> DEFINE b == Base^Slot
             S == {Signed(w) : w \in s.set}
  <1>1. b \in Nat /\ Words = 0..(b - 1) /\ MIN = -(b \div 2)
    BY WordsFacts DEF Words, MIN
  <1> HIDE DEF b
  <1>2. b \div 2 \in Int /\ MIN \in Int
    BY <1>1
  <1>3. s.set \subseteq Words /\ s.set # {}
    BY DEF ScalarVal
  <1>4. \A w \in Words : Signed(w) \in Int /\ 2 * MIN - b <= Signed(w) /\ Signed(w) <= b - 2 * MIN
    BY <1>1, <1>2 DEF Signed
  <1>5. S \in SUBSET Int /\ S # {} /\ \A x \in S : 2 * MIN - b <= x /\ x <= b - 2 * MIN
    BY <1>3, <1>4
  <1>6. 2 * MIN - b \in Int /\ b - 2 * MIN \in Int
    BY <1>1, <1>2
  <1>7. (\E m \in S : \A x \in S : m <= x) /\ (\E m \in S : \A x \in S : m >= x)
    <2> HIDE DEF S
    <2> QED BY <1>5, <1>6, Extremes
  <1>8. smin(s) \in S
    <2>1. \E m \in S : \A w \in s.set : m <= Signed(w)
      BY <1>7
    <2> QED BY <2>1 DEF smin
  <1>9. smax(s) \in S
    <2>1. \E m \in S : \A w \in s.set : m >= Signed(w)
      BY <1>7
    <2> QED BY <2>1 DEF smax
  <1> QED BY <1>5, <1>8, <1>9

\* Additions move a pointer within its frame.
LEMMA MovedTyped ==
    ASSUME NEW n, NEW p, Val(p, n), IsPtr(p), NEW lo \in Int, NEW hi \in Int, NEW al \in Int
    PROVE  Val([p EXCEPT !.min = lo, !.max = hi, !.align = al], n)
  <1>1. CASE p.k = "stack"
    <2>1. p \in StackVal(n)
      BY <1>1, KindOf
    <2>2. [p EXCEPT !.min = lo, !.max = hi, !.align = al] \in StackVal(n)
      BY <2>1 DEF StackVal
    <2> QED BY <2>2 DEF Val
  <1>2. CASE p.k = "map"
    <2>1. p \in MapVal
      BY <1>2, KindOf
    <2>2. [p EXCEPT !.min = lo, !.max = hi, !.align = al] \in MapVal
      BY <2>1 DEF MapVal
    <2> QED BY <2>2 DEF Val
  <1> QED BY <1>1, <1>2 DEF IsPtr

LEMMA PtrInts ==
    ASSUME NEW n, NEW p, Val(p, n), IsPtr(p)
    PROVE  p.min \in Int /\ p.max \in Int /\ p.align \in Int
  BY KindOf DEF IsPtr, StackVal, MapVal

LEMMA AluTyped ==
    ASSUME NEW n, NEW p, Val(p, n), IsPtr(p), NEW imm \in Int
    PROVE  Val(alu_imm(p, imm), n)
  <1> DEFINE al == (p.align + imm) % Slot
             lo == p.min + imm
             hi == p.max + imm
  <1>1. al \in Int /\ lo \in Int /\ hi \in Int
    BY PtrInts, MemoryAssumption
  <1>2. alu_imm(p, imm) = [p EXCEPT !.min = lo, !.max = hi, !.align = al]
    BY DEF alu_imm
  <1> HIDE DEF al, lo, hi
  <1>3. Val([p EXCEPT !.min = lo, !.max = hi, !.align = al], n)
    BY <1>1, MovedTyped
  <1> QED BY <1>2, <1>3

LEMMA AddTyped ==
    ASSUME NEW n, NEW p, Val(p, n), IsPtr(p), NEW s \in ScalarVal
    PROVE  Val(add_scalar(p, s), n)
  <1> DEFINE al == IF \E b \in 0..(Slot - 1) : \A w \in s.set : w % Slot = b
                   THEN (p.align + smin(s)) % Slot ELSE ALIGN_UNKNOWN
             lo == p.min + smin(s)
             hi == p.max + smax(s)
  <1>1. lo \in Int /\ hi \in Int
    BY SignedBounds, PtrInts
  <1>2. al \in Int
    <2>1. smin(s) \in Int /\ p.align \in Int
      BY SignedBounds, PtrInts
    <2>2. (p.align + smin(s)) % Slot \in Int /\ ALIGN_UNKNOWN \in Int
      BY <2>1, MemoryAssumption DEF ALIGN_UNKNOWN
    <2> QED BY <2>2
  <1>3. add_scalar(p, s) = [p EXCEPT !.min = lo, !.max = hi, !.align = al]
    BY DEF add_scalar
  <1> HIDE DEF al, lo, hi
  <1>4. Val([p EXCEPT !.min = lo, !.max = hi, !.align = al], n)
    BY <1>1, <1>2, MovedTyped
  <1> QED BY <1>3, <1>4

\* Narrow reads of a scalar give a scalar.
LEMMA CoerceTyped ==
    ASSUME NEW a \in ScalarVal, NEW size \in Sizes, NEW sign
    PROVE  coerce_scalar(a, size, sign) \in ScalarVal
  <1> DEFINE b == Base^Slot
             c == Base^size
             S == {Extend(w % c, size, sign) : w \in a.set}
  <1>1. size \in 1..Slot
    BY MemoryAssumption DEF Sizes
  <1>2. b \in Nat /\ c \in Nat /\ c >= 4 /\ c <= b /\ Words = 0..(b - 1)
    <2>1. c \in Nat /\ Base <= c /\ c <= b /\ Base = 4
      BY <1>1, PowerAssumption DEF Base
    <2> QED BY <2>1, WordsFacts DEF Words
  <1>3. a.set \subseteq Words /\ a.set # {}
    BY DEF ScalarVal
  <1>4. coerce_scalar(a, size, sign) = [k |-> "scalar", set |-> S]
    BY DEF coerce_scalar, Scalar
  <1>5. \A v : Extend(v, size, sign) = v \/ Extend(v, size, sign) = v + b - c
    BY DEF Extend
  <1> HIDE DEF b, c
  <1>6. ASSUME NEW w \in Words PROVE Extend(w % c, size, sign) \in Words
    <2>1. w % c \in 0..(c - 1)
      BY <1>2
    <2>2. w % c \in Words /\ (w % c) + b - c \in Words
      BY <1>2, <2>1
    <2> QED BY <1>5, <2>2
  <1>7. S \in (SUBSET Words) \ {{}}
    BY <1>3, <1>6
  <1> HIDE DEF S
  <1> QED BY <1>4, <1>7 DEF ScalarVal

LEMMA CellInside ==
    ASSUME NEW o \in Int, o >= -Size, o <= -1
    PROVE  CellOf(o) \in Cells
  <1> DEFINE j == -o - 1
  <1>1. j \in Int /\ j >= 0 /\ j < Slot * Slots /\ Slot \in Nat /\ Slot # 0 /\ Slots \in Nat
    <2>1. Slot \in Nat /\ Slot # 0 /\ Slots \in Nat /\ Size \in Int /\ Size = Slot * Slots
      BY MemoryAssumption DEF Size
    <2> QED BY <2>1
  <1> HIDE DEF j
  <1>2. (j \div Slot) \in 0..(Slots - 1)
    BY <1>1
  <1> QED BY <1>2 DEF CellOf, Cells, j

\* What a load through a stack pointer yields belongs to the running frame.
LEMMA ReadTyped ==
    ASSUME Typed, NEW p \in StackVal(cur), NEW off \in Int, NEW size \in Sizes, NEW sign,
           stack_read(p, off, size, sign) # Reject
    PROVE  Val(stack_read(p, off, size, sign), cur)
  <1>1. p.min \in Int /\ p.max \in Int /\ p.frame \in 1..cur
    BY DEF StackVal
  <1>2. size \in Nat /\ size >= 1
    BY MemoryAssumption DEF Sizes
  <1>3. CASE ~Accessible(p, off, size)
    BY <1>3 DEF stack_read
  <1>4. CASE Fixed(p) /\ Accessible(p, off, size)
    <2> DEFINE lo == p.min + off
               f == abs[p.frame]
               v == f.spilled[CellOf(lo)]
               a == stack_read(p, off, size, sign)
    <2>1. lo \in Int /\ lo >= -Size /\ lo <= -1
      <3>1. p.min = p.max /\ p.min + off >= -Size /\ p.max + off + size <= 0
        BY <1>4 DEF Fixed, Accessible
      <3> QED BY <1>1, <1>2, <3>1
    <2>2. Val(v, cur)
      BY <1>1, <2>1, CellInside, Running
    <2>3. a = fixed_stack_read(f, lo, size, sign)
      BY <1>4 DEF stack_read
    <2> HIDE DEF lo, f
    <2>4. \/ a = v \/ a = Reject \/ a = Const(0) \/ a = Unknown
          \/ IsScalar(v) /\ a = coerce_scalar(v, size, sign)
      <3> HIDE DEF a, v
      <3>1. a = fixed_stack_read(f, lo, size, sign) /\ v = f.spilled[CellOf(lo)]
        BY <2>3 DEF v
      <3> QED BY <3>1 DEF fixed_stack_read
    <2> HIDE DEF v
    <2>5. IsScalar(v) => Val(coerce_scalar(v, size, sign), cur)
      BY <2>2, KindOf, CoerceTyped DEF IsScalar, Val
    <2>6. Val(Const(0), cur) /\ Val(Unknown, cur)
      BY Scalars, WordsFacts
    <2> QED BY <2>2, <2>4, <2>5, <2>6
  <1>5. CASE ~Fixed(p) /\ Accessible(p, off, size)
    <2>1. stack_read(p, off, size, sign) = variable_stack_read(abs[p.frame], CoveredBytes(p, off, size))
      BY <1>5 DEF stack_read
    <2>2. stack_read(p, off, size, sign) = Unknown
      BY <2>1 DEF variable_stack_read
    <2> QED BY <2>2, Scalars
  <1> QED BY <1>3, <1>4, <1>5

-----------------------------------------------------------------------------
(* Stores.                                                                  *)

LEMMA FrameRebuilt ==
    ASSUME NEW f, NEW n, FrameOf(f, n), NEW sp, SpillsOf(sp, n), NEW b \in [Offsets -> Kinds]
    PROVE  FrameOf([f EXCEPT !.spilled = sp, !.bytes = b], n)
  <1> DEFINE g == [f EXCEPT !.spilled = sp, !.bytes = b]
  <1>1. g = [regs |-> f.regs, bytes |-> b, spilled |-> sp]
    <2> DEFINE h == [f EXCEPT !.spilled = sp]
    <2>1. h = [regs |-> f.regs, bytes |-> f.bytes, spilled |-> sp]
      BY DEF FrameOf
    <2>2. g = [h EXCEPT !.bytes = b]
      OBVIOUS
    <2> HIDE DEF g, h
    <2> QED BY <2>1, <2>2
  <1> HIDE DEF g
  <1>2. FrameOf(g, n)
    BY <1>1 DEF FrameOf
  <1> QED BY <1>2 DEF g

\* A spilled register belongs to the frame that it is stored in.
LEMMA SpillTyped ==
    ASSUME NEW f, NEW n, FrameOf(f, n), NEW lo, NEW size, NEW a, Val(a, n)
    PROVE  FrameOf(spill(f, lo, size, a), n)
  <1> DEFINE sp == [f.spilled EXCEPT ![CellOf(lo)] = a]
             b == [o \in Offsets |-> IF CellOf(o) # CellOf(lo) THEN f.bytes[o]
                                     ELSE IF o < lo + size THEN "spill" ELSE "misc"]
  <1>1. f.spilled = [c \in Cells |-> f.spilled[c]] /\ \A c \in Cells : Val(f.spilled[c], n)
    BY DEF FrameOf, SpillsOf
  <1>2. sp = [c \in Cells |-> IF c = CellOf(lo) THEN a ELSE f.spilled[c]]
    BY <1>1
  <1>3. b \in [Offsets -> Kinds]
    BY DEF FrameOf, Kinds
  <1>4. spill(f, lo, size, a) = [f EXCEPT !.spilled = sp, !.bytes = b]
    BY DEF spill
  <1> HIDE DEF sp, b
  <1>5. \A c \in Cells : sp[c] = IF c = CellOf(lo) THEN a ELSE f.spilled[c]
    BY <1>2
  <1>6. sp = [c \in Cells |-> sp[c]]
    BY <1>2, <1>5
  <1>7. SpillsOf(sp, n)
    BY <1>1, <1>5, <1>6 DEF SpillsOf
  <1>8. FrameOf([f EXCEPT !.spilled = sp, !.bytes = b], n)
    BY <1>3, <1>7, FrameRebuilt
  <1> QED BY <1>4, <1>8

\* Slots that are given up hold nothing.
LEMMA GivenUp ==
    ASSUME NEW f, NEW n, FrameOf(f, n), NEW gone
    PROVE  SpillsOf([c \in Cells |-> IF c \in gone THEN Uninit ELSE f.spilled[c]], n)
  <1> DEFINE sp == [c \in Cells |-> IF c \in gone THEN Uninit ELSE f.spilled[c]]
  <1>1. \A c \in Cells : Val(f.spilled[c], n) /\ Val(Uninit, n)
    BY DEF FrameOf, SpillsOf, Val
  <1>2. \A c \in Cells : sp[c] = IF c \in gone THEN Uninit ELSE f.spilled[c]
    OBVIOUS
  <1>3. sp = [c \in Cells |-> sp[c]]
    OBVIOUS
  <1> HIDE DEF sp
  <1>4. SpillsOf(sp, n)
    BY <1>1, <1>2, <1>3 DEF SpillsOf
  <1> QED BY <1>4 DEF sp

LEMMA ScrubTyped ==
    ASSUME NEW f, NEW n, FrameOf(f, n), NEW bytes, NEW a
    PROVE  FrameOf(scrub(f, bytes, a), n)
  <1> DEFINE sp == [c \in Cells |-> IF c \in CellsOf(bytes) THEN Uninit ELSE f.spilled[c]]
             b == [o \in Offsets |->
                     CASE o \in bytes -> IF Is(a, 0) THEN "zero" ELSE "misc"
                       [] o \notin bytes /\ CellOf(o) \in CellsOf(bytes)
                                         /\ f.bytes[o] = "spill" -> "misc"
                       [] OTHER -> f.bytes[o]]
  <1>1. SpillsOf(sp, n)
    BY GivenUp
  <1>2. b \in [Offsets -> Kinds]
    <2>1. \A o \in Offsets : f.bytes[o] \in Kinds
      BY DEF FrameOf
    <2>2. "zero" \in Kinds /\ "misc" \in Kinds
      BY DEF Kinds
    <2>3. \A o \in Offsets : b[o] \in Kinds
      BY <2>1, <2>2
    <2> QED BY <2>3
  <1>3. scrub(f, bytes, a) = [f EXCEPT !.spilled = sp, !.bytes = b]
    BY DEF scrub
  <1> HIDE DEF sp, b
  <1>4. FrameOf([f EXCEPT !.spilled = sp, !.bytes = b], n)
    BY <1>1, <1>2, FrameRebuilt
  <1> QED BY <1>3, <1>4

\* A store keeps the frames: a stack pointer is spilled into the running
\* frame only.
LEMMA WriteTyped ==
    ASSUME Typed, NEW p \in StackVal(cur), NEW off, NEW size, NEW a, Val(a, cur),
           MayWrite(p, off, size, a)
    PROVE  StackOf(stack_write(p, off, size, a), cur)
  <1> DEFINE i == p.frame
             f == abs[i]
             g == IF AtSlot(p, off) THEN spill(f, p.min + off, size, a)
                  ELSE scrub(f, CoveredBytes(p, off, size), a)
  <1>1. i \in 1..cur
    BY DEF StackVal
  <1>2. FrameOf(f, i)
    BY <1>1, Running DEF StackOf
  <1>3. AtSlot(p, off) => Val(a, i)
    BY KindOf DEF MayWrite, MaySpill
  <1>4. stack_write(p, off, size, a) = [abs EXCEPT ![i] = g]
    BY DEF stack_write
  <1> HIDE DEF f
  <1>5. FrameOf(g, i)
    <2> HIDE DEF i
    <2>1. CASE AtSlot(p, off)
      BY <2>1, <1>2, <1>3, SpillTyped
    <2>2. CASE ~AtSlot(p, off)
      BY <2>2, <1>2, ScrubTyped
    <2> QED BY <2>1, <2>2
  <1> HIDE DEF g, i
  <1>6. StackOf([abs EXCEPT ![i] = g], cur)
    BY <1>1, <1>5, Running, StackExcept
  <1> QED BY <1>4, <1>6

-----------------------------------------------------------------------------
(* Calls and returns.                                                       *)

LEMMA SizedSeq ==
    ASSUME NEW s, NEW n \in Nat, Sized(s, n), NEW x
    PROVE  \E S : s \in Seq(S) /\ x \in S
  <1> DEFINE S == {s[i] : i \in 1..n} \cup {x}
  <1>1. s \in [1..n -> S] /\ x \in S
    BY DEF Sized
  <1> HIDE DEF S
  <1>2. s \in Seq(S)
    BY <1>1
  <1> QED BY <1>1, <1>2

LEMMA Called ==
    ASSUME NEW s, NEW n \in Nat, Sized(s, n), NEW g
    PROVE  /\ Sized(Append(s, g), n + 1)
           /\ StackOf(s, n) /\ FrameOf(g, n + 1) => StackOf(Append(s, g), n + 1)
  <1>1. PICK S : s \in Seq(S) /\ g \in S
    BY SizedSeq
  <1>2. Len(s) = n
    BY SizedLen
  <1> DEFINE t == Append(s, g)
  <1>3. t \in Seq(S) /\ Len(t) = n + 1 /\ \A i \in 1..n : t[i] = s[i]
    BY <1>1, <1>2, AppendProperties
  <1>4. t[n + 1] = g
    BY <1>1, <1>2, AppendProperties
  <1> HIDE DEF t
  <1>5. Sized(t, n + 1)
    BY <1>3 DEF Sized
  <1>6. \A i \in 1..(n + 1) : i = n + 1 \/ i \in 1..n
    OBVIOUS
  <1>7. StackOf(s, n) /\ FrameOf(g, n + 1) => \A i \in 1..(n + 1) : FrameOf(t[i], i)
    BY <1>3, <1>4, <1>6 DEF StackOf
  <1> QED BY <1>5, <1>7 DEF t, StackOf

LEMMA Cut ==
    ASSUME NEW s, NEW n \in Nat, n > 1, Sized(s, n)
    PROVE  /\ Sized(SubSeq(s, 1, n - 1), n - 1)
           /\ \A i \in 1..(n - 1) : SubSeq(s, 1, n - 1)[i] = s[i]
  <1>1. PICK S : s \in Seq(S)
    BY SizedSeq
  <1>2. Len(s) = n
    BY SizedLen
  <1> DEFINE m == n - 1
             t == SubSeq(s, 1, m)
  <1>3. m \in Nat /\ m >= 1 /\ m <= Len(s)
    BY <1>2
  <1> HIDE DEF m
  <1>4. t \in Seq(S) /\ Len(t) = m /\ \A i \in 1..m : t[i] = s[i]
    BY <1>1, <1>3, SubSeqProperties
  <1> HIDE DEF t
  <1>5. t = [i \in 1..m |-> t[i]]
    BY <1>4
  <1> QED BY <1>4, <1>5 DEF t, m, Sized

LEMMA NewFrameTyped ==
    ASSUME NEW n \in Nat \ {0}, NEW arg, Val(arg, n)
    PROVE  FrameOf(NewFrame(n, arg), n)
  <1> DEFINE regs == [r \in Regs |-> CASE r = 10 -> StackPtr(0, 0, 0, n)
                                       [] r = 1 -> arg
                                       [] OTHER -> Uninit]
             b == [o \in Offsets |-> "invalid"]
             sp == [c \in Cells |-> Uninit]
  <1>1. Val(StackPtr(0, 0, 0, n), n) /\ Val(Uninit, n)
    BY DEF Val, StackVal, StackPtr
  <1>2. \A r \in Regs : regs[r] = IF r = 10 THEN StackPtr(0, 0, 0, n)
                                  ELSE IF r = 1 THEN arg ELSE Uninit
    OBVIOUS
  <1>3. regs = [r \in Regs |-> regs[r]] /\ 10 \in Regs
    BY DEF Regs
  <1>4. b \in [Offsets -> Kinds]
    BY DEF Kinds
  <1>5. SpillsOf(sp, n)
    BY <1>1 DEF SpillsOf
  <1>6. NewFrame(n, arg) = [regs |-> regs, bytes |-> b, spilled |-> sp]
    BY DEF NewFrame
  <1> HIDE DEF regs, b, sp
  <1>7. FileOf(regs, n)
    BY <1>1, <1>2, <1>3 DEF FileOf
  <1> DEFINE g == NewFrame(n, arg)
  <1>8. g = [regs |-> regs, bytes |-> b, spilled |-> sp]
    BY <1>6
  <1> HIDE DEF g
  <1>9. FrameOf(g, n)
    BY <1>4, <1>5, <1>7, <1>8 DEF FrameOf
  <1> QED BY <1>9 DEF g

LEMMA CallTyped ==
    ASSUME Typed, call_subprog
    PROVE  Typed'
  <1> DEFINE n == cur + 1
             g == NewFrame(n, A(1))
             h == NewConcreteFrame(n, C(1))
  <1>1. ~failed /\ cur < MaxFrames /\ Take(Append(abs, g), TRUE, Append(con, h))
    BY DEF call_subprog, Take
  <1>2. cur \in Nat /\ n \in 1..MaxFrames /\ n \in Nat \ {0} /\ cur <= n
    BY <1>1, Running, MemoryAssumption
  <1>3. Val(A(1), n)
    <2>1. Val(A(1), cur)
      BY Running DEF Regs
    <2> QED BY <1>2, <2>1, ValGrows
  <1>4. FrameOf(g, n)
    BY <1>2, <1>3, NewFrameTyped
  <1> HIDE DEF g, h
  <1>5. Sized(Append(con, h), n)
    BY <1>1, <1>2, ConSized, Called
  <1>6. StackOf(Append(abs, g), n)
    BY <1>2, <1>4, Running, Called DEF StackOf
  <1> HIDE DEF n
  <1> QED BY <1>1, <1>2, <1>5, <1>6, TakeTyped

\* The caller gets r0 back: it is no stack pointer.
LEMMA ReturnTyped ==
    ASSUME Typed, return_from_subprog
    PROVE  Typed'
  <1> DEFINE n == cur
             m == n - 1
             t == SubSeq(abs, 1, m)
             u == SubSeq(con, 1, m)
             regs == [r \in Regs |-> CASE r = 0 -> abs[n].regs[0]
                                       [] r = 1 -> Uninit
                                       [] OTHER -> t[m].regs[r]]
             g == [t[m] EXCEPT !.regs = regs]
             x == [r \in Regs |-> CASE r = 0 -> con[n].regs[0]
                                    [] r = 1 -> None
                                    [] OTHER -> u[m].regs[r]]
             h == [u[m] EXCEPT !.regs = x]
  <1>1. /\ ~failed /\ n > 1 /\ MayReturn(A(0))
        /\ Take(Returned(abs, Uninit), C(0).k # "stack", Returned(con, None))
    BY DEF return_from_subprog, Take
  <1>2. n \in Nat /\ m \in Nat /\ m \in 1..m /\ m \in 1..n /\ m \in 1..MaxFrames
    BY <1>1, Running, MemoryAssumption
  <1>3. Len(con) = n
    BY <1>1, <1>2, ConSized, SizedLen
  <1>4. Returned(abs, Uninit) = [t EXCEPT ![m] = g]
    BY DEF Returned, cur
  <1>5. Returned(con, None) = [u EXCEPT ![m] = h]
    BY <1>3 DEF Returned
  <1>6. Sized(t, m) /\ \A i \in 1..m : t[i] = abs[i]
    BY <1>1, <1>2, Running, Cut DEF StackOf
  <1>7. Sized(u, m)
    BY <1>1, <1>2, ConSized, Cut
  <1>8. FrameOf(abs[m], m) /\ t[m] = abs[m]
    BY <1>2, <1>6, Running DEF StackOf
  <1>9. FileOf(regs, m)
    <2> DEFINE a == abs[n].regs[0]
    <2>1. Val(a, m)
      <3>1. Val(A(0), cur) /\ A(0).k # "stack"
        BY <1>1, Running DEF MayReturn, Regs
      <3>2. Val(A(0), m)
        BY <3>1, KindOf
      <3> QED BY <3>2 DEF A
    <2> DEFINE old == t[m].regs
    <2>2. /\ \A r \in Regs : Val(old[r], m)
          /\ old[10] = StackPtr(0, 0, 0, m) /\ 10 \in Regs /\ Val(Uninit, m)
      BY <1>8 DEF FrameOf, FileOf, Regs, Val
    <2> HIDE DEF a, old, t, m
    <2>3. \A r \in Regs : regs[r] = IF r = 0 THEN a ELSE IF r = 1 THEN Uninit ELSE old[r]
      BY DEF a, old
    <2>4. regs = [r \in Regs |-> regs[r]]
      OBVIOUS
    <2> HIDE DEF regs
    <2>5. \A r \in Regs : Val(regs[r], m)
      BY <2>1, <2>2, <2>3
    <2>6. regs[10] = StackPtr(0, 0, 0, m)
      BY <2>2, <2>3
    <2> QED BY <2>4, <2>5, <2>6 DEF FileOf
  <1> HIDE DEF regs, x, t, u, m
  <1>10. FrameOf(g, m)
    <2> DEFINE f == t[m]
    <2>1. FrameOf(f, m)
      BY <1>8
    <2> HIDE DEF f
    <2>2. [f EXCEPT !.regs = regs] = [regs |-> regs, bytes |-> f.bytes, spilled |-> f.spilled]
      BY <2>1 DEF FrameOf
    <2>3. g = [regs |-> regs, bytes |-> f.bytes, spilled |-> f.spilled]
      BY <2>2 DEF f
    <2> HIDE DEF g
    <2> QED BY <1>9, <2>1, <2>3 DEF FrameOf
  <1> HIDE DEF g, h
  <1>11. StackOf(t, m)
    <2>1. \A i \in 1..m : i \in 1..cur
      BY <1>2 DEF m
    <2> QED BY <1>6, <2>1, Running DEF StackOf
  <1>12. StackOf([t EXCEPT ![m] = g], m)
    BY <1>2, <1>10, <1>11, StackExcept
  <1>13. Sized([u EXCEPT ![m] = h], m)
    BY <1>7, SizedExcept
  <1> QED BY <1>1, <1>2, <1>4, <1>5, <1>12, <1>13, TakeTyped

-----------------------------------------------------------------------------
(* The other instructions.                                                  *)

LEMMA Small ==
    /\ \A off \in Offsets : off \in Int
    /\ 0 \in Int /\ -1 \in Int /\ -Slot \in Int /\ Slot \in Int /\ -2 * Slot \in Int
    /\ Slot \in Sizes /\ 1 \in Sizes
    /\ 0 \in Regs /\ 1 \in Regs /\ 6 \in Regs /\ 10 \in Regs
  <1>1. Slot \in Int /\ Size \in Int
    BY MemoryAssumption DEF Size
  <1> QED BY <1>1 DEF Offsets, Sizes, Regs

LEMMA AddTakes ==
    ASSUME Typed, NEW d \in {0, 1}, NEW s \in {0, 1}, AddReg(d, s)
    PROVE  Typed'
  <1> DEFINE p == IF IsPtr(A(d)) THEN d ELSE s
             add == IF p = d THEN s ELSE d
  <1>1. /\ IsPtr(A(p)) /\ IsScalar(A(add))
        /\ Take(SetA(d, add_scalar(A(p), A(add))),
                IsPtr(C(p)) /\ C(add).k = "scalar",
                SetC(d, Moved(C(p), Signed(C(add).v))))
    BY DEF AddReg
  <1>2. p \in Regs /\ add \in Regs /\ d \in {0, 1, 6}
    BY DEF Regs
  <1> HIDE DEF p, add
  <1>3. Val(A(p), cur) /\ A(add) \in ScalarVal
    BY <1>1, <1>2, Running, KindOf DEF IsScalar
  <1>4. Val(add_scalar(A(p), A(add)), cur)
    BY <1>1, <1>3, AddTyped
  <1> QED BY <1>1, <1>2, <1>4, SetTyped

LEMMA StoreTakes ==
    ASSUME Typed, NEW c \in Regs, NEW off, NEW size, NEW v, Val(v[1], cur),
           A(c).k = "stack", Covers(A(c), off, size, v[1]), ConcreteStore(c, off, size, v)
    PROVE  Typed'
  <1>1. A(c) \in StackVal(cur)
    BY Running, KindOf
  <1>2. MayWrite(A(c), off, size, v[1])
    BY DEF Covers
  <1> DEFINE a == stack_write(A(c), off, size, v[1])
             i == C(c).frame
             g == [con[i] EXCEPT !.slots = concrete_merge(con[i].slots, C(c).off + off, size, v[2])]
             ok == /\ C(c).k = "stack" /\ v[2] # None
                   /\ concrete_stack_range(C(c).off + off, size)
  <1>3. StackOf(a, cur)
    BY <1>1, <1>2, WriteTyped
  <1>4. Take(a, ok, [con EXCEPT ![i] = g])
    BY DEF ConcreteStore
  <1>5. ~failed
    BY <1>4 DEF Take
  <1> HIDE DEF a, i, g, ok
  <1>6. Sized([con EXCEPT ![i] = g], cur)
    BY <1>5, ConSized
  <1> QED BY <1>3, <1>4, <1>6, Running, TakeTyped

LEMMA LoadTakes ==
    ASSUME Typed, NEW dst \in {0, 6}, NEW base \in Regs, NEW off \in Int, NEW size \in Sizes,
           NEW sign, Load(dst, base, off, size, sign)
    PROVE  Typed'
  <1> DEFINE a == stack_read(A(base), off, size, sign)
             o == C(base).off + off
             v == con[C(base).frame].slots[CellOf(o)]
             ok == C(base).k = "stack" /\ concrete_stack_range(o, size) /\ v # None
             c == concrete_extract(v, o, size, sign)
  <1>1. A(base).k = "stack" /\ a # Reject /\ Take(SetA(dst, a), ok, SetC(dst, c))
    BY DEF Load
  <1>2. A(base) \in StackVal(cur)
    BY <1>1, Running, KindOf
  <1>3. Val(a, cur)
    BY <1>1, <1>2, ReadTyped
  <1> HIDE DEF a, o, v, ok, c
  <1> QED BY <1>1, <1>3, SetTyped

LEMMA MapTakes ==
    ASSUME Typed, NEW off,
           (\E imm \in BOOLEAN : MapStore(1, off, 0, imm)) \/ (\E w \in Seeds : MapLoad(0, 1, off, w))
    PROVE  Typed'
  <1>1. CASE \E imm \in BOOLEAN : MapStore(1, off, 0, imm)
    <2>1. PICK ok : Take(abs, ok, con)
      BY <1>1 DEF MapStore
    <2>2. Sized(con, cur)
      BY <2>1, ConSized DEF Take
    <2> QED BY <2>1, <2>2, Running, TakeTyped
  <1>2. CASE \E w \in Seeds : MapLoad(0, 1, off, w)
    <2>1. PICK w, ok : Take(SetA(0, Unknown), ok, SetC(0, CScalar(w)))
      BY <1>2 DEF MapLoad
    <2>2. Val(Unknown, cur)
      BY Scalars
    <2> QED BY <2>1, <2>2, SetTyped
  <1> QED BY <1>1, <1>2

\* An atomic drops the slots it covers and hands their old value to r0.
LEMMA AtomicTakes ==
    ASSUME Typed, NEW base \in Regs, NEW off \in Int, NEW size \in Sizes, NEW op,
           Atomic(base, off, size, 0, op)
    PROVE  Typed'
  <1> DEFINE p == A(base)
             bytes == CoveredBytes(p, off, size)
             old == stack_read(p, off, size, FALSE)
             seen == IF size = Slot THEN old ELSE scalar_for_width(size, FALSE)
             o == C(base).off + off
             v == con[cur].slots[CellOf(o)]
             was == IF size = Slot THEN v ELSE CScalar(0)
             b == [x \in Offsets |-> IF x \in bytes THEN "misc" ELSE abs[cur].bytes[x]]
             sp == [c \in Cells |-> IF c \in CellsOf(bytes) THEN Uninit ELSE abs[cur].spilled[c]]
             f == [abs[cur] EXCEPT !.bytes = b, !.spilled = sp, !.regs[Result(op, 0)] = seen]
             g == [con[cur] EXCEPT
                     !.slots[CellOf(o)] =
                        IF size = Slot /\ v.k = "scalar"
                        THEN CScalar(NewBits(op, v.v, C(0).v, bits(C(0)))) ELSE @,
                     !.regs[Result(op, 0)] = was]
             ok == C(base).k = "stack" /\ concrete_stack_range(o, size) /\ v # None
  <1>1. /\ p.k = "stack" /\ old # Reject
        /\ Take([abs EXCEPT ![cur] = f], ok, [con EXCEPT ![cur] = g])
    BY DEF Atomic
  <1>2. ~failed
    BY <1>1 DEF Take
  <1>3. p \in StackVal(cur)
    BY <1>1, Running, KindOf
  <1>4. Val(seen, cur)
    <2>1. Val(old, cur)
      BY <1>1, <1>3, ReadTyped
    <2>2. Val(scalar_for_width(size, FALSE), cur)
      BY Scalars, CoerceTyped DEF scalar_for_width, Val
    <2> QED BY <2>1, <2>2
  <1>5. b \in [Offsets -> Kinds]
    BY Running DEF FrameOf, Kinds
  <1>6. SpillsOf(sp, cur)
    BY Running, GivenUp
  <1>7. FrameOf(f, cur)
    <2> DEFINE h == [abs[cur] EXCEPT !.spilled = sp, !.bytes = b]
               k == [abs[cur] EXCEPT !.bytes = b, !.spilled = sp]
               e == abs[cur]
    <2> HIDE DEF b, sp, seen
    <2>1. FrameOf(h, cur)
      BY <1>5, <1>6, Running, FrameRebuilt
    <2>2. h = k
      <3>1. e = [regs |-> e.regs, bytes |-> e.bytes, spilled |-> e.spilled]
        BY Running DEF FrameOf
      <3> HIDE DEF e
      <3>2. [e EXCEPT !.spilled = sp, !.bytes = b] = [e EXCEPT !.bytes = b, !.spilled = sp]
        BY <3>1
      <3> QED BY <3>2 DEF e
    <2>3. Result(op, 0) = 0
      BY DEF Result
    <2>4. f = [k EXCEPT !.regs[0] = seen]
      BY <2>3
    <2> HIDE DEF h, k, f
    <2> QED BY <1>4, <2>1, <2>2, <2>4, FramePut
  <1> HIDE DEF f, g, ok
  <1>8. StackOf([abs EXCEPT ![cur] = f], cur)
    BY <1>7, Running, StackExcept
  <1>9. Sized([con EXCEPT ![cur] = g], cur)
    BY <1>2, ConSized
  <1> QED BY <1>1, <1>8, <1>9, Running, TakeTyped

LEMMA MoveTakes ==
    ASSUME Typed, NEW d \in {0, 1, 6}, NEW s \in Regs, MovReg(d, s)
    PROVE  Typed'
  <1>1. Take(SetA(d, A(s)), C(s) # None, SetC(d, C(s))) /\ Val(A(s), cur)
    BY Running DEF MovReg
  <1> QED BY <1>1, SetTyped

LEMMA AddImmTakes ==
    ASSUME Typed, NEW imm \in Int, AddImm(1, imm)
    PROVE  Typed'
  <1>1. /\ IsPtr(A(1))
        /\ Take(SetA(1, alu_imm(A(1), imm)), IsPtr(C(1)), SetC(1, Moved(C(1), imm)))
    BY DEF AddImm
  <1>2. Val(alu_imm(A(1), imm), cur)
    BY <1>1, Small, Running, AluTyped
  <1> QED BY <1>1, <1>2, SetTyped

LEMMA MapHelperTakes ==
    ASSUME Typed, MapHelper
    PROVE  Typed'
  <1>1. PICK ok : Take([abs EXCEPT ![cur].regs[0] = Const(0), ![cur].regs[1] = Uninit], ok,
                       [con EXCEPT ![cur].regs[0] = CScalar(0), ![cur].regs[1] = None])
    BY DEF MapHelper
  <1>2. Val(Const(0), cur)
    BY Scalars, WordsFacts
  <1> QED BY <1>1, <1>2, HelperTyped

-----------------------------------------------------------------------------
LEMMA InitTyped == Init => Typed
  <1> SUFFICES ASSUME Init PROVE Typed
    OBVIOUS
  <1>1. PICK set \in {{0}, {0, 1}, {0, Slot}, Words} : \E w \in set \cap (Seeds \cup {Slot}) :
          /\ abs = <<[NewFrame(1, StackPtr(0, 0, 0, 1)) EXCEPT !.regs[0] = Scalar(set)]>>
          /\ con = <<[NewConcreteFrame(1, CStack(0, 1)) EXCEPT !.regs[0] = CScalar(w)]>>
          /\ failed = FALSE /\ steps = 0
    BY DEF Init
  <1>8. PICK w : /\ abs = <<[NewFrame(1, StackPtr(0, 0, 0, 1)) EXCEPT !.regs[0] = Scalar(set)]>>
                 /\ con = <<[NewConcreteFrame(1, CStack(0, 1)) EXCEPT !.regs[0] = CScalar(w)]>>
                 /\ failed = FALSE /\ steps = 0
    BY <1>1
  <1> DEFINE p == StackPtr(0, 0, 0, 1)
             f == [NewFrame(1, p) EXCEPT !.regs[0] = Scalar(set)]
             g == [NewConcreteFrame(1, CStack(0, 1)) EXCEPT !.regs[0] = CScalar(w)]
  <1>2. Val(p, 1)
    BY DEF Val, StackVal, StackPtr
  <1>3. Val(Scalar(set), 1)
    BY <1>1, WordsFacts DEF Val, ScalarVal, Scalar
  <1>4. FrameOf(f, 1)
    BY <1>2, <1>3, NewFrameTyped, FramePut
  <1>5. abs = <<f>> /\ con = <<g>>
    BY <1>8
  <1> HIDE DEF f, g
  <1>6. Len(abs) = 1 /\ Sized(abs, 1) /\ Sized(con, 1) /\ abs[1] = f
    BY <1>5 DEF Sized
  <1>7. StackOf(abs, 1)
    BY <1>4, <1>6 DEF StackOf
  <1>9. Len(abs) \in 1..MaxFrames /\ steps \in 0..MaxSteps
    BY <1>6, <1>8, MemoryAssumption
  <1>10. failed \in BOOLEAN
    BY <1>8
  <1>11. StackOf(abs, Len(abs)) /\ Sized(con, Len(abs))
    BY <1>6, <1>7
  <1> QED BY <1>9, <1>10, <1>11 DEF Typed

LEMMA NextTyped == Typed /\ [Next]_vars => Typed'
  <1> SUFFICES ASSUME Typed, [Next]_vars PROVE Typed'
    OBVIOUS
  <1>1. CASE MovImm(0, Slot)
    <2>1. Val(Const(Slot), cur)
      BY Scalars, WordsFacts
    <2> QED BY <1>1, <2>1, SetTyped DEF MovImm
  <1>2. ASSUME NEW d \in {1, 6}, NEW s \in Regs, MovReg(d, s) PROVE Typed'
    BY <1>2, MoveTakes
  <1>3. CASE MovReg(0, 6)
    BY <1>3, Small, MoveTakes
  <1>4. ASSUME NEW w \in Seeds, Helper(w) PROVE Typed'
    BY <1>4, Scalars, HelperTyped DEF Helper
  <1>5. CASE LdMapValue(1)
    <2>1. Val(MapPtr(0, 0, 0), cur)
      BY DEF Val, MapVal, MapPtr
    <2> QED BY <1>5, <2>1, SetTyped DEF LdMapValue
  <1>6. ASSUME NEW imm \in {-1, -2 * Slot}, AddImm(1, imm) PROVE Typed'
    BY <1>6, Small, AddImmTakes
  <1>7. CASE AddReg(1, 0) \/ AddReg(0, 1)
    BY <1>7, AddTakes
  <1>8. ASSUME NEW base \in Regs, NEW off, NEW size, NEW src \in Regs, Store(base, off, size, src)
        PROVE  Typed'
    <2> DEFINE v == <<A(src), C(src)>>
    <2>1. v[1] = A(src) /\ Val(v[1], cur)
      BY Running
    <2>2. A(base).k = "stack" /\ Covers(A(base), off, size, v[1]) /\ ConcreteStore(base, off, size, v)
      BY <1>8 DEF Store
    <2> HIDE DEF v
    <2> QED BY <2>1, <2>2, StoreTakes
  <1>9. ASSUME NEW base \in Regs, NEW off, NEW size, NEW w \in {0, 1}, StoreImm(base, off, size, w)
        PROVE  Typed'
    <2> DEFINE v == <<Const(w), CScalar(w)>>
    <2>1. v[1] = Const(w) /\ Val(v[1], cur)
      BY Scalars, WordsFacts
    <2>2. A(base).k = "stack" /\ Covers(A(base), off, size, v[1]) /\ ConcreteStore(base, off, size, v)
      BY <1>9 DEF StoreImm
    <2> HIDE DEF v
    <2> QED BY <2>1, <2>2, StoreTakes
  <1>10. ASSUME NEW off \in Offsets, NEW size \in Sizes, NEW sign \in BOOLEAN,
                Load(6, 10, off, size, sign)
         PROVE  Typed'
    BY <1>10, Small, LoadTakes
  <1>11. ASSUME NEW off \in {-Slot, 0}, NEW size \in Sizes, Load(0, 1, off, size, FALSE)
         PROVE  Typed'
    BY <1>11, Small, LoadTakes
  <1>12. ASSUME NEW off \in {0, Slot},
                \/ \E imm \in BOOLEAN : MapStore(1, off, 0, imm)
                \/ \E w \in Seeds : MapLoad(0, 1, off, w)
         PROVE  Typed'
    BY <1>12, MapTakes
  <1>13. ASSUME NEW off \in {-Slot, 0}, NEW size \in Sizes, NEW op \in {"add", "xchg", "cmpxchg"},
                NEW base \in {1, 10}, Atomic(base, off, size, 0, op)
         PROVE  Typed'
    BY <1>13, Small, AtomicTakes
  <1>14. CASE MapHelper
    BY <1>14, MapHelperTakes
  <1>15. CASE call_subprog \/ return_from_subprog
    BY <1>15, CallTyped, ReturnTyped
  <1>16. CASE UNCHANGED vars
    BY <1>16 DEF Typed, vars
  <1> QED
    BY <1>1, <1>2, <1>3, <1>4, <1>5, <1>6, <1>7, <1>8, <1>9, <1>10, <1>11, <1>12, <1>13, <1>14,
       <1>15, <1>16, Small DEF Next

LEMMA AlwaysTyped == Spec => []Typed
  BY InitTyped, NextTyped, PTL DEF Spec

\* The verifier never has more frames than the limit, the interpreter has as
\* many until it refuses an instruction, and r10 is the frame pointer of its
\* frame (exec.rs call_subprog, return_from_subprog, concrete.rs).
THEOREM TypeCorrect == Spec => []TypeOK
  <1>1. Typed => TypeOK
    <2> SUFFICES ASSUME Typed PROVE TypeOK
      OBVIOUS
    <2>1. ~failed => Len(con) = Len(abs)
      BY ConSized, Running, SizedLen DEF cur
    <2>2. \A i \in 1..Len(abs) : abs[i].bytes \in [Offsets -> Kinds] /\ abs[i].regs[10] = StackPtr(0, 0, 0, i)
      BY DEF Typed, StackOf, FrameOf, FileOf
    <2> QED BY <2>1, <2>2 DEF Typed, TypeOK, Kinds
  <1> QED BY <1>1, AlwaysTyped, PTL

\* No register and no spilled slot of a frame points into a frame above it,
\* whatever the program stores, spills, fills, adds, calls and returns: the
\* frame that exec.rs frame_stack looks up is always there.
THEOREM NoStalePointer == Spec => []FramesActive
  <1>1. Typed => FramesActive
    <2> SUFFICES ASSUME Typed, NEW i \in 1..Len(abs), NEW a, a.k = "stack",
                        (\E r \in Regs : a = abs[i].regs[r]) \/ (\E c \in Cells : a = abs[i].spilled[c])
                 PROVE  a.frame <= i
      BY DEF FramesActive
    <2>1. Val(a, i)
      BY DEF Typed, StackOf, FrameOf, FileOf, SpillsOf
    <2>2. a \in StackVal(i)
      BY <2>1, KindOf
    <2> QED BY <2>2 DEF StackVal
  <1> QED BY <1>1, AlwaysTyped, PTL
=============================================================================
