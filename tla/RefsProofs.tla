------------------------------ MODULE RefsProofs ------------------------------
(***************************************************************************)
(* Proofs about Refs, for any number of references, records, frames and     *)
(* instructions.                                                            *)
(*                                                                         *)
(* Covered and NoFault are not inductive: they do not say that a reference  *)
(* of which no alias is left still stands for a record.  The invariant      *)
(* Sound names, for every id that is held, the record it stands for (or     *)
(* NULL), and for every lookup what it found; the cells of all frames       *)
(* follow these two assignments, and every live record has an id.           *)
(***************************************************************************)
EXTENDS Refs, SequenceTheorems, FiniteSetTheorems, TLAPS

Val     == [kind : Kinds, id : Nat, max : Nat]
Content == {Null, Word, MapValue} \cup (1..MaxRecords)
Mem     == {"PtrToMem", "PtrToMemOrNull"}

FramesTyped ==
    /\ abs \in Seq([Cells -> Val]) /\ con \in Seq([Cells -> Content])
    /\ Len(abs) \in 1..MaxCallFrames /\ Len(con) = Len(abs)

RefsTyped ==
    /\ refs \in Seq(Nat) /\ Len(refs) <= MAX_REFS
    /\ \A i, j \in 1..Len(refs) : refs[i] = refs[j] => i = j

Typed ==
    /\ FramesTyped /\ RefsTyped
    /\ made \in 0..MaxRecords /\ live \subseteq [rec : 1..made, size : Sizes]
    /\ seen \subseteq Sites /\ over \in BOOLEAN

\* What the run has where the verifier knows v: m names the records of the
\* ids, l the results of the lookups.
CellOK(v, x, m, l) ==
    /\ v.kind = "zero" => x = Null
    /\ v.kind \in Mem => v.id \in DOMAIN m /\ x = m[v.id]
    /\ v.kind = "PtrToMem" => x # Null
    /\ v.kind = "PtrToMapValue" => x = MapValue
    /\ v.kind = "PtrToMapValueOrNull" => v.id - 1 \in DOMAIN l /\ x = l[v.id - 1]

Known(m, l) ==
    \A f \in 1..Len(abs) : \A c \in Cells : CellOK(abs[f][c], con[f][c], m, l)

\* The ids stand for different records, which are live; and for all of them.
Owned(m) ==
    /\ \A i \in ToSet(refs) : m[i] = Null \/ \E r \in live : r.rec = m[i]
    /\ \A i, j \in ToSet(refs) : m[i] = m[j] /\ m[i] # Null => i = j
    /\ \A r \in live : \E i \in ToSet(refs) : m[i] = r.rec

Sound ==
    \E m \in [ToSet(refs) -> 0..MaxRecords], l \in [seen -> {Null, MapValue}] :
      Known(m, l) /\ Owned(m)

\* The buffers are as large as an access may be.
BigEnough == \A r \in live : r.size >= 8
IInv == Typed /\ Sound /\ BigEnough /\ NoFault

--------------------------------------------------------------------------------
\* Sequences and reference ids

\* The first n elements of a sequence, and all but the last.
LEMMA PrefixOfSeq ==
    ASSUME NEW S, NEW s \in Seq(S), NEW n \in Nat, n <= Len(s)
    PROVE  /\ SubSeq(s, 1, n) \in Seq(S) /\ Len(SubSeq(s, 1, n)) = n
           /\ \A i \in 1..n : SubSeq(s, 1, n)[i] = s[i]
  OBVIOUS

LEMMA FrontOfSeq ==
    ASSUME NEW S, NEW s \in Seq(S), Len(s) >= 1
    PROVE  /\ Front(s) \in Seq(S) /\ Len(Front(s)) = Len(s) - 1
           /\ \A i \in 1..(Len(s) - 1) : Front(s)[i] = s[i]
<1>1. Len(s) - 1 \in Nat /\ Len(s) - 1 <= Len(s)
  OBVIOUS
<1>2. QED
  BY <1>1, PrefixOfSeq DEF Front

\* Replacing the last element of a sequence.
LEMMA ReplaceLast ==
    ASSUME NEW S, NEW s \in Seq(S), Len(s) >= 1, NEW e \in S
    PROVE  /\ Append(Front(s), e) \in Seq(S)
           /\ Len(Append(Front(s), e)) = Len(s)
           /\ Append(Front(s), e)[Len(s)] = e
           /\ \A i \in 1..(Len(s) - 1) : Append(Front(s), e)[i] = s[i]
<1>1. /\ Front(s) \in Seq(S) /\ Len(Front(s)) = Len(s) - 1
      /\ \A i \in 1..(Len(s) - 1) : Front(s)[i] = s[i]
  BY FrontOfSeq
<1>2. QED
  BY <1>1, AppendProperties

\* Two references differ, so the ids are as many as the references.
LEMMA DistinctIds ==
    ASSUME NEW s \in Seq(Nat), \A i, j \in 1..Len(s) : s[i] = s[j] => i = j
    PROVE  IsFiniteSet(ToSet(s)) /\ Cardinality(ToSet(s)) = Len(s)
<1>1. s \in Bijection(1..Len(s), ToSet(s))
  <2>1. DOMAIN s = 1..Len(s) /\ ToSet(s) = {s[i] : i \in 1..Len(s)}
    BY DEF ToSet
  <2>2. s \in [1..Len(s) -> ToSet(s)]
    BY <2>1
  <2>3. s \in Injection(1..Len(s), ToSet(s))
    BY <2>1, <2>2 DEF Injection, IsInjective
  <2>4. s \in Surjection(1..Len(s), ToSet(s))
    BY <2>1, <2>2 DEF Surjection
  <2>5. QED
    BY <2>3, <2>4 DEF Bijection
<1>2. ExistsBijection(1..Len(s), ToSet(s))
  BY <1>1 DEF ExistsBijection
<1>3. \A n \in Nat : IsFiniteSet(1..n) /\ Cardinality(1..n) = n
  BY FS_Interval
<1>4. Len(s) \in Nat
  OBVIOUS
<1>5. QED
  BY <1>2, <1>3, <1>4, FS_Bijection

\* fresh_reference_id finds an id, and it is none that is held.
LEMMA FreshId ==
    ASSUME RefsTyped
    PROVE  fresh_reference_id \in Nat \ {0} /\ fresh_reference_id \notin ToSet(refs)
<1> DEFINE Free == {i \in 1..(Len(refs) + 1) : i \notin ToSet(refs)}
<1>1. Free # {}
  <2>1. SUFFICES ASSUME 1..(Len(refs) + 1) \subseteq ToSet(refs) PROVE FALSE
    OBVIOUS
  <2>2. IsFiniteSet(ToSet(refs)) /\ Cardinality(ToSet(refs)) = Len(refs)
    BY DistinctIds DEF RefsTyped
  <2>3. Cardinality(1..(Len(refs) + 1)) <= Len(refs)
    BY <2>1, <2>2, FS_Subset
  <2>4. QED
    BY <2>3, FS_Interval DEF RefsTyped
<1>2. PICK i \in Free : \A j \in Free : ~(<<j, i>> \in OpToRel(<, Nat))
  <2>1. Free \subseteq Nat
    BY DEF RefsTyped
  <2> HIDE DEF Free
  <2>2. QED
    BY <1>1, <2>1, NatLessThanWellFounded, WFMin
<1>3. \A j \in Free : ~(j < i)
  <2>1. Free \subseteq Nat
    BY DEF RefsTyped
  <2> HIDE DEF Free
  <2>2. QED
    BY <1>2, <2>1 DEF OpToRel
<1>4. Len(refs) \in Nat
  BY DEF RefsTyped
<1>5. \A j \in 1..(i - 1) : j \in ToSet(refs)
  <2> SUFFICES ASSUME NEW j \in 1..(i - 1), j \notin ToSet(refs) PROVE FALSE
    OBVIOUS
  <2>1. i \in Nat /\ i <= Len(refs) + 1
    BY <1>4
  <2>2. j \in 1..(Len(refs) + 1) /\ j < i
    BY <1>4, <2>1
  <2>3. QED
    BY <1>3, <2>2
<1>6. i \in Nat \ {0} /\ i \in 1..(Len(refs) + 1) /\ i \notin ToSet(refs)
  BY <1>4
<1> HIDE DEF Free
<1> DEFINE P(x) == x \notin ToSet(refs) /\ \A j \in 1..(x - 1) : j \in ToSet(refs)
<1>7. \E x \in 1..(Len(refs) + 1) : P(x)
  BY <1>5, <1>6
<1>8. fresh_reference_id = CHOOSE x \in 1..(Len(refs) + 1) : P(x)
  BY DEF fresh_reference_id
<1>9. fresh_reference_id \in 1..(Len(refs) + 1) /\ P(fresh_reference_id)
  <2> HIDE DEF P
  <2>1. QED
    BY <1>7, <1>8
<1>10. QED
  BY <1>4, <1>9

\* drop_reference: the last reference takes the place of the dropped one;
\* exactly its id is gone and the others still differ.
LEMMA DroppedId ==
    ASSUME RefsTyped, NEW id \in ToSet(refs)
    PROVE  /\ Dropped(id) \in Seq(Nat) /\ Len(Dropped(id)) = Len(refs) - 1
           /\ ToSet(Dropped(id)) = ToSet(refs) \ {id}
           /\ \A i, j \in 1..Len(Dropped(id)) :
                Dropped(id)[i] = Dropped(id)[j] => i = j
<1> DEFINE k == CHOOSE j \in 1..Len(refs) : refs[j] = id
<1>1. k \in 1..Len(refs) /\ refs[k] = id
  BY DEF ToSet, RefsTyped
<1> HIDE DEF k
<1>2. Dropped(id) = Front([refs EXCEPT ![k] = Last(refs)])
  BY DEF Dropped, k
<1> DEFINE u == [refs EXCEPT ![k] = Last(refs)]
           t == Front(u)
<1>3. /\ t \in Seq(Nat) /\ Len(t) = Len(refs) - 1
      /\ \A i \in 1..(Len(refs) - 1) :
           t[i] = IF i = k THEN refs[Len(refs)] ELSE refs[i]
  <2>1. Last(refs) \in Nat /\ Len(refs) >= 1
    BY <1>1 DEF Last, RefsTyped
  <2>2. /\ u \in Seq(Nat) /\ Len(u) = Len(refs)
        /\ \A i \in 1..Len(refs) : u[i] = IF i = k THEN Last(refs) ELSE refs[i]
    BY <1>1, <2>1, ExceptSeq DEF RefsTyped
  <2> HIDE DEF u
  <2>3. /\ Front(u) \in Seq(Nat) /\ Len(Front(u)) = Len(u) - 1
        /\ \A i \in 1..(Len(u) - 1) : Front(u)[i] = u[i]
    BY <2>1, <2>2, FrontOfSeq
  <2>4. QED
    BY <2>1, <2>2, <2>3 DEF Last, RefsTyped
<1> HIDE DEF u, t
<1>4. Len(refs) \in Nat \ {0} /\ Len(refs) \in 1..Len(refs)
  BY <1>1 DEF RefsTyped
<1>5. ASSUME NEW i \in 1..Len(t)
      PROVE  /\ i \in 1..Len(refs) /\ i # Len(refs)
             /\ t[i] \in ToSet(refs) \ {id}
             /\ \A j \in 1..Len(t) : t[i] = t[j] => i = j
  <2>1. \A j \in 1..Len(t) : j \in 1..Len(refs) /\ j # Len(refs)
    BY <1>3, <1>4
  <2>2. \A j \in 1..Len(t) : t[j] = IF j = k THEN refs[Len(refs)] ELSE refs[j]
    BY <1>3, <1>4
  <2>3. \A j \in 1..Len(refs) : refs[j] \in ToSet(refs)
    BY DEF ToSet, RefsTyped
  <2>4. t[i] \in ToSet(refs) \ {id}
    BY <1>1, <1>4, <2>1, <2>2, <2>3 DEF RefsTyped
  <2>5. ASSUME NEW j \in 1..Len(t), t[i] = t[j] PROVE i = j
    BY <1>4, <2>1, <2>2, <2>5 DEF RefsTyped
  <2>6. QED
    BY <2>1, <2>4, <2>5
<1>6. ToSet(t) \subseteq ToSet(refs) \ {id}
  <2>1. ToSet(t) = {t[i] : i \in 1..Len(t)}
    BY <1>3 DEF ToSet
  <2>2. QED
    BY <1>5, <2>1
<1>7. ASSUME NEW x \in ToSet(refs), x # id PROVE x \in ToSet(t)
  <2>1. PICK i \in 1..Len(refs) : refs[i] = x
    BY DEF ToSet, RefsTyped
  <2>2. CASE i = Len(refs)
    <3>1. k \in 1..(Len(refs) - 1)
      BY <1>1, <1>4, <1>7, <2>1, <2>2
    <3>2. t[k] = x
      BY <1>3, <2>1, <2>2, <3>1
    <3>3. QED
      BY <1>3, <3>1, <3>2 DEF ToSet
  <2>3. CASE i # Len(refs)
    <3>1. i \in 1..(Len(refs) - 1) /\ i # k
      BY <1>1, <1>4, <1>7, <2>1, <2>3
    <3>2. t[i] = x
      BY <1>3, <2>1, <3>1
    <3>3. QED
      BY <1>3, <3>1, <3>2 DEF ToSet
  <2>4. QED
    BY <2>2, <2>3
<1>8. QED
  BY <1>2, <1>3, <1>5, <1>6, <1>7 DEF t, u

LEMMA DroppedTyped ==
    ASSUME RefsTyped, NEW id \in ToSet(refs), refs' = Dropped(id)
    PROVE  RefsTyped'
<1> DEFINE t == Dropped(id)
<1>1. /\ t \in Seq(Nat) /\ Len(t) = Len(refs) - 1
      /\ \A i, j \in 1..Len(t) : t[i] = t[j] => i = j
  BY DroppedId
<1> HIDE DEF t
<1>2. Len(t) <= MAX_REFS
  BY <1>1, RefsAssumption DEF RefsTyped
<1>3. refs' = t
  BY DEF t
<1>4. QED
  BY <1>1, <1>2, <1>3 DEF RefsTyped

--------------------------------------------------------------------------------
\* Frames

LEMMA Running ==
    ASSUME FramesTyped
    PROVE  /\ A \in [Cells -> Val] /\ C \in [Cells -> Content]
           /\ A = abs[Len(abs)] /\ C = con[Len(abs)]
           /\ Len(abs) \in Nat \ {0} /\ Len(abs) \in 1..Len(abs)
  BY RefsAssumption DEF FramesTyped, A, C, Last

\* A step of the running frame leaves the others alone.
LEMMA TopFrame ==
    ASSUME FramesTyped, NEW a \in [Cells -> Val], NEW c \in [Cells -> Content],
           Frames(a, c)
    PROVE  /\ FramesTyped' /\ Len(abs') = Len(abs)
           /\ abs'[Len(abs)] = a /\ con'[Len(abs)] = c
           /\ \A f \in 1..(Len(abs) - 1) : abs'[f] = abs[f] /\ con'[f] = con[f]
<1>1. Len(abs) >= 1 /\ Len(con) = Len(abs)
  BY RefsAssumption DEF FramesTyped
<1>2. /\ abs' \in Seq([Cells -> Val]) /\ Len(abs') = Len(abs)
      /\ abs'[Len(abs)] = a /\ \A f \in 1..(Len(abs) - 1) : abs'[f] = abs[f]
  BY <1>1, ReplaceLast DEF FramesTyped, Frames
<1>3. /\ con' \in Seq([Cells -> Content]) /\ Len(con') = Len(con)
      /\ con'[Len(con)] = c /\ \A f \in 1..(Len(con) - 1) : con'[f] = con[f]
  BY <1>1, ReplaceLast DEF FramesTyped, Frames
<1>4. QED
  BY <1>1, <1>2, <1>3 DEF FramesTyped

LEMMA ValTyped ==
    ASSUME NEW k \in Kinds, NEW i \in Nat, NEW n \in Nat
    PROVE  V(k, i, n) \in Val
  BY DEF V, Val

LEMMA ReturnsTyped ==
    ASSUME NEW S, NEW frame \in [Cells -> S], NEW x \in S, NEW y \in S
    PROVE  Returns(frame, x, y) \in [Cells -> S]
  BY DEF Returns, Cells, Regs, SpillSlot

LEMMA ReplacedTyped ==
    ASSUME NEW frame \in [Cells -> Val], NEW id, NEW ks, NEW v \in Val
    PROVE  Replaced(frame, id, ks, v) \in [Cells -> Val]
  BY DEF Replaced

\* The constant values.
LEMMA ConstantValues ==
    /\ Uninit \in Val /\ Scalar \in Val /\ Zero \in Val
    /\ Null \in Content /\ Word \in Content /\ MapValue \in Content
  BY ValTyped DEF Uninit, Scalar, Zero, Kinds, Content

\* A helper or subprogram returns x in r0, to the verifier and to the run.
LEMMA AbsReturns ==
    ASSUME NEW frame \in [Cells -> Val], NEW x \in Val
    PROVE  /\ Returns(frame, x, Uninit) \in [Cells -> Val]
           /\ \A c \in Cells : Returns(frame, x, Uninit)[c] =
                IF c = 0 THEN x ELSE IF c = 1 THEN Uninit ELSE frame[c]
<1>1. Returns(frame, x, Uninit) \in [Cells -> Val]
  BY ReturnsTyped, ConstantValues
<1>2. QED
  BY <1>1 DEF Returns, Cells, Regs, SpillSlot

LEMMA ConReturns ==
    ASSUME NEW frame \in [Cells -> Content], NEW x \in Content
    PROVE  /\ Returns(frame, x, Word) \in [Cells -> Content]
           /\ \A c \in Cells : Returns(frame, x, Word)[c] =
                IF c = 0 THEN x ELSE IF c = 1 THEN Word ELSE frame[c]
<1>1. Returns(frame, x, Word) \in [Cells -> Content]
  BY ReturnsTyped, ConstantValues
<1>2. QED
  BY <1>1 DEF Returns, Cells, Regs, SpillSlot

\* A release goes through all frames.
LEMMA InvalidatedTyped ==
    ASSUME FramesTyped, NEW id
    PROVE  /\ invalidate_reference_aliases(abs, id) \in Seq([Cells -> Val])
           /\ Len(invalidate_reference_aliases(abs, id)) = Len(abs)
           /\ \A f \in 1..Len(abs) :
                invalidate_reference_aliases(abs, id)[f] =
                  Replaced(abs[f], id, Mem, Scalar)
<1> DEFINE n == Len(abs)
<1>1. n \in Nat /\ \A f \in 1..n : abs[f] \in [Cells -> Val]
  BY RefsAssumption DEF FramesTyped
<1>2. \A f \in 1..n : Replaced(abs[f], id, Mem, Scalar) \in [Cells -> Val]
  BY <1>1, ReplacedTyped, ConstantValues
<1>3. invalidate_reference_aliases(abs, id)
        = [f \in 1..n |-> Replaced(abs[f], id, Mem, Scalar)]
  BY DEF invalidate_reference_aliases, Mem
<1> HIDE DEF n
<1>4. invalidate_reference_aliases(abs, id) \in [1..n -> [Cells -> Val]]
  BY <1>2, <1>3
<1>5. invalidate_reference_aliases(abs, id) \in Seq([Cells -> Val])
  BY <1>1, <1>4, SeqDef
<1>6. QED
  BY <1>1, <1>3, <1>4, <1>5, LenProperties DEF n

--------------------------------------------------------------------------------
\* Types

LEMMA TypedInit == Init => Typed
<1> SUFFICES ASSUME Init PROVE Typed
  OBVIOUS
<1>1. Empty(Uninit) \in [Cells -> Val] /\ Empty(Word) \in [Cells -> Content]
  BY ConstantValues DEF Empty
<1>2. FramesTyped
  BY <1>1, RefsAssumption DEF Init, FramesTyped
<1>3. RefsTyped
  BY RefsAssumption DEF Init, RefsTyped
<1>4. over \in BOOLEAN
  BY DEF Init
<1>5. QED
  BY <1>2, <1>3, <1>4, RefsAssumption DEF Init, Typed

\* Every instruction keeps the types, and the ids of the references apart.
LEMMA TypedStep == Typed /\ [Next]_vars => Typed'
<1> SUFFICES ASSUME Typed, [Next]_vars PROVE Typed'
  OBVIOUS
<1>0. FramesTyped /\ RefsTyped /\ over \in BOOLEAN
  BY DEF Typed
<1>a. /\ A \in [Cells -> Val] /\ C \in [Cells -> Content]
      /\ Len(abs) \in Nat \ {0}
  BY <1>0, Running
<1>b. \A c \in Cells : /\ A[c].kind \in Kinds /\ A[c].id \in Nat
                       /\ A[c].max \in Nat
  BY <1>a DEF Val
<1>c. ASSUME NEW a \in [Cells -> Val], NEW c \in [Cells -> Content], Frames(a, c)
      PROVE  FramesTyped'
  BY <1>0, <1>c, TopFrame
<1>d. 0 \in Cells /\ 1 \in Cells /\ Regs \subseteq Cells
  BY DEF Cells, Regs
<1>1. ASSUME NEW n \in Sizes, NEW known \in BOOLEAN, Reserve(n, known)
      PROVE  Typed'
  <2> DEFINE id == fresh_reference_id
             r0 == V("PtrToMemOrNull", id, IF known THEN n ELSE 0)
  <2>1. id \in Nat /\ id \notin ToSet(refs)
    BY <1>0, FreshId
  <2>2. n \in Nat
    BY RefsAssumption
  <2>3. r0 \in Val
    BY <2>1, <2>2, ValTyped DEF Kinds
  <2> HIDE DEF id, r0
  <2>4. PICK got \in {Null} \cup (IF made < MaxRecords THEN {made + 1} ELSE {}) :
          /\ Frames(Returns(A, r0, Uninit), Returns(C, got, Word))
          /\ made' = IF got = Null THEN made ELSE got
          /\ live' = live \cup {[rec |-> r, size |-> n] : r \in {got} \ {Null}}
    BY <1>1 DEF Reserve, r0, id
  <2>5. made \in 0..MaxRecords /\ MaxRecords \in Nat
    BY RefsAssumption DEF Typed
  <2>6. got \in Content
    BY <2>5 DEF Content, Null
  <2>7. FramesTyped'
    <3>1. Returns(A, r0, Uninit) \in [Cells -> Val]
      BY <1>a, <2>3, ReturnsTyped, ConstantValues
    <3>2. Returns(C, got, Word) \in [Cells -> Content]
      BY <1>a, <2>6, ReturnsTyped, ConstantValues
    <3>3. QED
      BY <1>c, <2>4, <3>1, <3>2
  <2>8. RefsTyped'
    <3>1. refs' = Append(refs, id) /\ Len(refs) < MAX_REFS
      BY <1>1 DEF Reserve, id
    <3>2. \A i \in 1..Len(refs) : refs[i] # id
      BY <1>0, <2>1 DEF ToSet, RefsTyped
    <3>3. QED
      BY <1>0, <2>1, <3>1, <3>2, RefsAssumption DEF RefsTyped
  <2>9. made' \in 0..MaxRecords /\ live' \subseteq [rec : 1..made', size : Sizes]
    BY <2>4, <2>5 DEF Typed, Null
  <2>10. seen' \subseteq Sites /\ over' \in BOOLEAN
    BY <1>1 DEF Reserve, Typed
  <2>11. QED
    BY <2>7, <2>8, <2>9, <2>10 DEF Typed
<1>2. CASE Release
  <2> DEFINE id == A[1].id
             frames == invalidate_reference_aliases(abs, id)
  <2>1. /\ frames \in Seq([Cells -> Val]) /\ Len(frames) = Len(abs)
    BY <1>0, InvalidatedTyped
  <2>2. Last(frames) \in [Cells -> Val]
    BY <1>a, <2>1 DEF Last
  <2>3. /\ refs' = Dropped(id) /\ id \in ToSet(refs)
        /\ abs' = Append(Front(frames), Returns(Last(frames), Zero, Uninit))
        /\ con' = Append(Front(con), Returns(C, Null, Word))
        /\ live' = {r \in live : r.rec # C[1]}
        /\ UNCHANGED <<made, seen, over>>
    BY <1>2 DEF Release
  <2> HIDE DEF id, frames
  <2>4. abs' \in Seq([Cells -> Val]) /\ Len(abs') = Len(abs)
    <3>1. Returns(Last(frames), Zero, Uninit) \in [Cells -> Val]
      BY <2>2, ReturnsTyped, ConstantValues
    <3>2. QED
      BY <1>a, <2>1, <2>3, <3>1, ReplaceLast
  <2>5. con' \in Seq([Cells -> Content]) /\ Len(con') = Len(con)
    BY <1>0, <1>a, <2>3, ReturnsTyped, ConstantValues, ReplaceLast DEF FramesTyped
  <2>6. RefsTyped'
    BY <1>0, <2>3, DroppedTyped
  <2>7. QED
    BY <1>0, <2>3, <2>4, <2>5, <2>6 DEF Typed, FramesTyped
<1>3. ASSUME NEW pc \in Sites, Lookup(pc) PROVE Typed'
  <2>1. pc + 1 \in Nat /\ ValueSize \in Nat
    BY RefsAssumption
  <2>2. V("PtrToMapValueOrNull", pc + 1, ValueSize) \in Val
    BY <2>1, ValTyped DEF Kinds
  <2>3. PICK found \in {Null, MapValue} :
          Frames(Returns(A, V("PtrToMapValueOrNull", pc + 1, ValueSize), Uninit),
                 Returns(C, found, Word))
    BY <1>3 DEF Lookup
  <2>4. FramesTyped'
    <3>1. Returns(A, V("PtrToMapValueOrNull", pc + 1, ValueSize), Uninit)
            \in [Cells -> Val]
      BY <1>a, <2>2, ReturnsTyped, ConstantValues
    <3>2. Returns(C, found, Word) \in [Cells -> Content]
      BY <1>a, ReturnsTyped, ConstantValues
    <3>3. QED
      BY <1>c, <2>3, <3>1, <3>2
  <2>5. QED
    BY <1>3, <2>4 DEF Lookup, Typed, RefsTyped
<1>4. ASSUME NEW r \in Regs, CheckMapValue(r) PROVE Typed'
  <2> DEFINE side == IF C[r] = Null THEN Zero
                     ELSE V("PtrToMapValue", A[r].id, A[r].max)
  <2>1. side \in Val
    BY <1>b, <1>d, ValTyped, ConstantValues DEF Kinds
  <2>2. Frames(Replaced(A, A[r].id, {"PtrToMapValueOrNull"}, side), C)
    BY <1>4 DEF CheckMapValue
  <2> HIDE DEF side
  <2>3. FramesTyped'
    BY <1>a, <1>c, <2>1, <2>2, ReplacedTyped
  <2>4. QED
    BY <1>4, <2>3 DEF CheckMapValue, Typed, RefsTyped
<1>5. ASSUME NEW r \in Regs, CheckRecord(r) PROVE Typed'
  <2> DEFINE id == A[r].id
             checked == V("PtrToMem", id, max_off(A[r].max))
  <2>1. id \in Nat /\ checked \in Val /\ V("PtrToMem", id, 0) \in Val
    BY <1>b, <1>d, ValTyped DEF Kinds, max_off
  <2>2. CASE C[r] = Null
    <3>1. /\ refs' = Dropped(id) /\ UNCHANGED <<live, made, seen, over>>
          /\ Frames(Replaced(A, id, {"PtrToMem", "PtrToMemOrNull"}, Zero), C)
      BY <1>5, <2>2 DEF CheckRecord
    <3> HIDE DEF id
    <3>2. FramesTyped'
      BY <1>a, <1>c, <3>1, ReplacedTyped, ConstantValues
    <3>3. RefsTyped'
      <4>1. CASE id \in ToSet(refs)
        BY <1>0, <3>1, <4>1, DroppedTyped
      <4>2. CASE id \notin ToSet(refs)
        BY <1>0, <3>1, <4>2 DEF RefsTyped, Dropped
      <4>3. QED
        BY <4>1, <4>2
    <3>4. QED
      BY <3>1, <3>2, <3>3 DEF Typed
  <2>3. CASE C[r] # Null
    <3>1. /\ UNCHANGED <<refs, live, made, seen, over>>
          /\ Frames([Replaced(A, id, {"PtrToMemOrNull"}, checked)
                       EXCEPT ![r] = V("PtrToMem", id, 0)], C)
      BY <1>5, <2>3 DEF CheckRecord
    <3> HIDE DEF id, checked
    <3>2. Replaced(A, id, {"PtrToMemOrNull"}, checked) \in [Cells -> Val]
      BY <1>a, <2>1, ReplacedTyped
    <3>3. FramesTyped'
      BY <1>a, <1>c, <2>1, <3>1, <3>2
    <3>4. QED
      BY <3>1, <3>3 DEF Typed, RefsTyped
  <2>4. QED
    BY <2>2, <2>3
<1>6. ASSUME NEW r \in Regs, NEW off, NEW w, Access(r, off, w) PROVE Typed'
  BY <1>6 DEF Access, Typed, FramesTyped, RefsTyped
<1>7. ASSUME NEW d \in Cells, NEW s \in Cells, Copy(d, s) PROVE Typed'
  <2>1. Frames([A EXCEPT ![d] = A[s]], [C EXCEPT ![d] = C[s]])
    BY <1>7 DEF Copy
  <2>2. FramesTyped'
    BY <1>a, <1>c, <2>1
  <2>3. QED
    BY <1>7, <2>2 DEF Copy, Typed, RefsTyped
<1>8. CASE SetZero
  <2>1. Frames([A EXCEPT ![0] = Zero], [C EXCEPT ![0] = Null])
    BY <1>8 DEF SetZero
  <2>2. FramesTyped'
    BY <1>a, <1>c, <2>1, ConstantValues
  <2>3. QED
    BY <1>8, <2>2 DEF SetZero, Typed, RefsTyped
<1>9. CASE call_subprog
  <2> DEFINE a == [Empty(Uninit) EXCEPT ![1] = A[1]]
             c == [Empty(Word) EXCEPT ![1] = C[1]]
  <2>1. a \in [Cells -> Val] /\ c \in [Cells -> Content]
    BY <1>a, <1>d, ConstantValues DEF Empty
  <2>2. abs' = Append(abs, a) /\ con' = Append(con, c) /\ Len(abs) < MaxCallFrames
    BY <1>9 DEF call_subprog
  <2> HIDE DEF a, c
  <2>3. FramesTyped'
    BY <1>0, <2>1, <2>2, RefsAssumption DEF FramesTyped
  <2>4. QED
    BY <1>9, <2>3 DEF call_subprog, Typed, RefsTyped
<1>10. CASE return_from_subprog
  <2>1. /\ Len(abs) > 1
        /\ abs' = Append(Front(Front(abs)), Returns(Last(Front(abs)), A[0], Uninit))
        /\ con' = Append(Front(Front(con)), Returns(Last(Front(con)), C[0], Word))
    BY <1>10 DEF return_from_subprog
  <2>2. /\ Front(abs) \in Seq([Cells -> Val]) /\ Len(Front(abs)) = Len(abs) - 1
        /\ Front(con) \in Seq([Cells -> Content]) /\ Len(Front(con)) = Len(abs) - 1
    BY <1>0, <1>a, FrontOfSeq DEF FramesTyped
  <2>3. Last(Front(abs)) \in [Cells -> Val] /\ Last(Front(con)) \in [Cells -> Content]
    BY <1>a, <2>1, <2>2 DEF Last
  <2>4. /\ Returns(Last(Front(abs)), A[0], Uninit) \in [Cells -> Val]
        /\ Returns(Last(Front(con)), C[0], Word) \in [Cells -> Content]
    BY <1>a, <1>d, <2>3, ReturnsTyped, ConstantValues
  <2>5. /\ abs' \in Seq([Cells -> Val]) /\ Len(abs') = Len(abs) - 1
        /\ con' \in Seq([Cells -> Content]) /\ Len(con') = Len(abs) - 1
    BY <1>a, <2>1, <2>2, <2>4, ReplaceLast
  <2>6. FramesTyped'
    BY <1>0, <2>1, <2>5, RefsAssumption DEF FramesTyped
  <2>7. QED
    BY <1>10, <2>6 DEF return_from_subprog, Typed, RefsTyped
<1>11. CASE Exit
  <2>1. over' \in BOOLEAN
    BY <1>11 DEF Exit
  <2>2. UNCHANGED <<abs, refs, con, live, made, seen>>
    BY <1>11 DEF Exit
  <2>3. QED
    BY <2>1, <2>2 DEF Typed, FramesTyped, RefsTyped
<1>12. CASE UNCHANGED vars
  BY <1>12 DEF vars, Typed, FramesTyped, RefsTyped
<1>13. QED
  BY <1>1, <1>2, <1>3, <1>4, <1>5, <1>6, <1>7, <1>8, <1>9, <1>10, <1>11, <1>12
  DEF Next

--------------------------------------------------------------------------------
\* What the verifier knows of the run

\* The programs in which the NULL check of a record is made where its aliases
\* are, and every lookup is executed once.
Expected == "callee_check" \notin Programs /\ "loop_lookup" \notin Programs

\* To know a step of the running frame, know its cells and the other frames.
LEMMA TopKnown ==
    ASSUME FramesTyped, NEW a \in [Cells -> Val], NEW c \in [Cells -> Content],
           Frames(a, c), NEW m, NEW l,
           \A f \in 1..(Len(abs) - 1) : \A x \in Cells :
             CellOK(abs[f][x], con[f][x], m, l),
           \A x \in Cells : CellOK(a[x], c[x], m, l)
    PROVE  Known(m, l)'
<1>1. /\ Len(abs') = Len(abs) /\ abs'[Len(abs)] = a /\ con'[Len(abs)] = c
      /\ \A f \in 1..(Len(abs) - 1) : abs'[f] = abs[f] /\ con'[f] = con[f]
  BY TopFrame
<1>2. Len(abs) \in Nat \ {0}
  BY Running
<1>3. SUFFICES ASSUME NEW f \in 1..Len(abs'), NEW x \in Cells
               PROVE  CellOK(abs'[f][x], con'[f][x], m, l)
  BY DEF Known, CellOK
<1>4. CASE f = Len(abs)
  BY <1>1, <1>4
<1>5. CASE f # Len(abs)
  <2>1. f \in 1..(Len(abs) - 1)
    BY <1>1, <1>2, <1>5
  <2>2. QED
    BY <1>1, <2>1
<1>6. QED
  BY <1>4, <1>5

\* Larger assignments know what smaller ones do.
LEMMA MoreKnown ==
    ASSUME NEW v, NEW x, NEW m, NEW l, NEW m2, NEW l2, CellOK(v, x, m, l),
           DOMAIN m \subseteq DOMAIN m2, \A i \in DOMAIN m : m2[i] = m[i],
           DOMAIN l \subseteq DOMAIN l2, \A i \in DOMAIN l : l2[i] = l[i]
    PROVE  CellOK(v, x, m2, l2)
  BY DEF CellOK

\* A cell without a pointer is known if it is 0 where the verifier says so.
LEMMA PlainKnown ==
    ASSUME NEW m, NEW l, NEW x
    PROVE  CellOK(Uninit, x, m, l) /\ CellOK(Scalar, x, m, l) /\ CellOK(Zero, Null, m, l)
  BY DEF CellOK, Uninit, Scalar, Zero, V, Mem

LEMMA KnownFrames ==
    ASSUME FramesTyped, NEW m, NEW l, Known(m, l)
    PROVE  /\ \A f \in 1..(Len(abs) - 1) : \A x \in Cells :
                CellOK(abs[f][x], con[f][x], m, l)
           /\ \A x \in Cells : CellOK(A[x], C[x], m, l)
<1>1. /\ A = abs[Len(abs)] /\ C = con[Len(abs)] /\ Len(abs) \in 1..Len(abs)
      /\ Len(abs) \in Nat \ {0}
  BY Running
<1>2. \A f \in 1..(Len(abs) - 1) : f \in 1..Len(abs)
  BY <1>1
<1>3. QED
  BY <1>1, <1>2 DEF Known

\* A step that leaves the references alone, and of which the assignments m and
\* l are still true.
LEMMA SameRecords ==
    ASSUME NEW m \in [ToSet(refs) -> 0..MaxRecords],
           NEW l \in [seen -> {Null, MapValue}], Owned(m), Known(m, l)',
           UNCHANGED <<refs, live, seen>>
    PROVE  Sound'
  BY DEF Sound, Owned

\* bpf_ringbuf_reserve: the new id stands for the new record, or NULL.
LEMMA SoundReserve ==
    ASSUME Typed, Sound, NEW n \in Sizes, NEW known \in BOOLEAN, Reserve(n, known)
    PROVE  Sound'
<1> DEFINE id == fresh_reference_id
           r0 == V("PtrToMemOrNull", id, IF known THEN n ELSE 0)
<1>1. FramesTyped /\ RefsTyped /\ made \in 0..MaxRecords /\ MaxRecords \in Nat
  BY RefsAssumption DEF Typed
<1>2. id \in Nat /\ id \notin ToSet(refs) /\ r0 \in Val
  <2>1. id \in Nat /\ id \notin ToSet(refs) /\ n \in Nat
    BY <1>1, FreshId, RefsAssumption
  <2>2. QED
    BY <2>1, ValTyped DEF Kinds
<1>3. r0.kind = "PtrToMemOrNull" /\ r0.id = id
  BY DEF V
<1> HIDE DEF id, r0
<1>4. PICK m \in [ToSet(refs) -> 0..MaxRecords], l \in [seen -> {Null, MapValue}] :
        Known(m, l) /\ Owned(m)
  BY DEF Sound
<1>5. PICK got \in {Null} \cup (IF made < MaxRecords THEN {made + 1} ELSE {}) :
        /\ Frames(Returns(A, r0, Uninit), Returns(C, got, Word))
        /\ live' = live \cup {[rec |-> r, size |-> n] : r \in {got} \ {Null}}
  BY DEF Reserve, r0, id
<1>6. got \in 0..MaxRecords /\ got \in Content
  BY <1>1 DEF Null, Content
<1>7. \A r \in live : r.rec \in Nat /\ r.rec <= made /\ r.rec # got
  BY <1>1 DEF Typed, Null
<1>8. ToSet(refs') = ToSet(refs) \cup {id} /\ seen' = seen
  <2>1. refs' = Append(refs, id) /\ seen' = seen
    BY DEF Reserve, id
  <2>2. DOMAIN refs = 1..Len(refs) /\ Len(refs) \in Nat
    BY <1>1 DEF RefsTyped
  <2>3. /\ DOMAIN refs' = 1..(Len(refs) + 1) /\ refs'[Len(refs) + 1] = id
        /\ \A i \in 1..Len(refs) : refs'[i] = refs[i]
    BY <1>1, <1>2, <2>1 DEF RefsTyped
  <2>4. 1..(Len(refs) + 1) = 1..Len(refs) \cup {Len(refs) + 1}
    BY <2>2
  <2>5. QED
    BY <2>1, <2>2, <2>3, <2>4 DEF ToSet
<1>9. PICK m2 \in [ToSet(refs') -> 0..MaxRecords] :
        /\ m2[id] = got /\ DOMAIN m2 = ToSet(refs')
        /\ \A i \in ToSet(refs) : i # id /\ m2[i] = m[i]
  <2> DEFINE w == [i \in ToSet(refs') |-> IF i = id THEN got ELSE m[i]]
  <2>1. w \in [ToSet(refs') -> 0..MaxRecords]
    BY <1>2, <1>4, <1>6, <1>8
  <2>2. /\ w[id] = got /\ DOMAIN w = ToSet(refs')
        /\ \A i \in ToSet(refs) : i # id /\ w[i] = m[i]
    BY <1>2, <1>4, <1>6, <1>8
  <2> HIDE DEF w
  <2>3. QED
    BY <2>1, <2>2
<1>10. ASSUME NEW v, NEW x, CellOK(v, x, m, l) PROVE CellOK(v, x, m2, l)
  <2>1. DOMAIN m \subseteq DOMAIN m2 /\ \A i \in DOMAIN m : m2[i] = m[i]
    BY <1>4, <1>8, <1>9
  <2>2. QED
    BY <1>10, <2>1, MoreKnown
<1>11. Known(m2, l)'
  <2>1. A \in [Cells -> Val] /\ C \in [Cells -> Content]
    BY <1>1, Running
  <2>2. /\ Returns(A, r0, Uninit) \in [Cells -> Val]
        /\ \A c \in Cells : Returns(A, r0, Uninit)[c] =
             IF c = 0 THEN r0 ELSE IF c = 1 THEN Uninit ELSE A[c]
    BY <1>2, <2>1, AbsReturns
  <2>3. /\ Returns(C, got, Word) \in [Cells -> Content]
        /\ \A c \in Cells : Returns(C, got, Word)[c] =
             IF c = 0 THEN got ELSE IF c = 1 THEN Word ELSE C[c]
    BY <1>6, <2>1, ConReturns
  <2>4. CellOK(r0, got, m2, l)
    BY <1>3, <1>8, <1>9 DEF CellOK
  <2>5. \A c \in Cells :
          CellOK(Returns(A, r0, Uninit)[c], Returns(C, got, Word)[c], m2, l)
    BY <1>1, <1>4, <1>10, <2>2, <2>3, <2>4, KnownFrames, PlainKnown
  <2>6. \A f \in 1..(Len(abs) - 1) : \A c \in Cells :
          CellOK(abs[f][c], con[f][c], m2, l)
    BY <1>1, <1>4, <1>10, KnownFrames
  <2>7. QED
    BY <1>1, <1>5, <2>2, <2>3, <2>5, <2>6, TopKnown
<1>12. Owned(m2)'
  <2>1. \A i \in ToSet(refs') : m2[i] = Null \/ \E r \in live' : r.rec = m2[i]
    <3>1. CASE got = Null
      BY <1>4, <1>5, <1>8, <1>9, <3>1 DEF Owned
    <3>2. CASE got # Null
      <4>1. [rec |-> got, size |-> n] \in live'
        BY <1>5, <3>2
      <4>2. QED
        BY <1>4, <1>5, <1>8, <1>9, <4>1 DEF Owned
    <3>3. QED
      BY <3>1, <3>2
  <2>2. \A i, j \in ToSet(refs') : m2[i] = m2[j] /\ m2[i] # Null => i = j
    <3>1. \A i \in ToSet(refs) : m[i] # Null => m[i] # got
      BY <1>4, <1>7 DEF Owned
    <3>2. QED
      BY <1>4, <1>8, <1>9, <3>1 DEF Owned
  <2>3. \A r \in live' : \E i \in ToSet(refs') : m2[i] = r.rec
    BY <1>4, <1>5, <1>8, <1>9 DEF Owned
  <2>4. QED
    BY <2>1, <2>2, <2>3 DEF Owned
<1>13. QED
  BY <1>8, <1>9, <1>11, <1>12 DEF Sound

\* bpf_ringbuf_submit and bpf_ringbuf_discard: the record that the argument
\* points to is live, and is gone with all aliases of its id.
LEMMA SoundRelease ==
    ASSUME Typed, Sound, Release
    PROVE  Sound' /\ \E r \in live : r.rec = C[1]
<1> DEFINE id == A[1].id
           frames == invalidate_reference_aliases(abs, id)
<1>1. FramesTyped /\ RefsTyped
  BY DEF Typed
<1>2. PICK m \in [ToSet(refs) -> 0..MaxRecords], l \in [seen -> {Null, MapValue}] :
        Known(m, l) /\ Owned(m)
  BY DEF Sound
<1>3. 1 \in Cells /\ 0 \in Cells
  BY DEF Cells, Regs
<1>4. id \in ToSet(refs) /\ C[1] = m[id] /\ m[id] # Null
  <2>1. A[1].kind = "PtrToMem" /\ id \in ToSet(refs)
    BY DEF Release
  <2>2. CellOK(A[1], C[1], m, l)
    BY <1>1, <1>2, <1>3, KnownFrames
  <2>3. QED
    BY <2>1, <2>2 DEF CellOK, Mem
<1>5. \E r \in live : r.rec = C[1]
  BY <1>2, <1>4 DEF Owned
<1>6. /\ frames \in Seq([Cells -> Val]) /\ Len(frames) = Len(abs)
      /\ \A f \in 1..Len(abs) : frames[f] = Replaced(abs[f], id, Mem, Scalar)
  BY <1>1, InvalidatedTyped
<1>7. /\ abs' = Append(Front(frames), Returns(Last(frames), Zero, Uninit))
      /\ con' = Append(Front(con), Returns(C, Null, Word))
      /\ live' = {r \in live : r.rec # C[1]} /\ seen' = seen
      /\ refs' = Dropped(id)
  BY DEF Release
<1> HIDE DEF id, frames
<1>8. ToSet(refs') = ToSet(refs) \ {id}
  BY <1>1, <1>4, <1>7, DroppedId
<1>9. PICK m2 \in [ToSet(refs') -> 0..MaxRecords] :
        /\ DOMAIN m2 = ToSet(refs')
        /\ \A i \in ToSet(refs') : i # id /\ i \in ToSet(refs) /\ m2[i] = m[i]
  <2> DEFINE w == [i \in ToSet(refs') |-> m[i]]
  <2>1. w \in [ToSet(refs') -> 0..MaxRecords]
    BY <1>2, <1>8
  <2>2. /\ DOMAIN w = ToSet(refs')
        /\ \A i \in ToSet(refs') : i # id /\ i \in ToSet(refs) /\ w[i] = m[i]
    BY <1>8
  <2> HIDE DEF w
  <2>3. QED
    BY <2>1, <2>2
<1>10. Owned(m2)'
  <2>1. \A i \in ToSet(refs') : m2[i] # C[1] \/ m2[i] = Null
    BY <1>2, <1>4, <1>9 DEF Owned
  <2>2. ASSUME NEW i \in ToSet(refs'), m2[i] # Null
        PROVE  \E r \in live' : r.rec = m2[i]
    <3>1. PICK r \in live : r.rec = m2[i]
      BY <1>2, <1>9, <2>2 DEF Owned
    <3>2. QED
      BY <1>7, <2>1, <2>2, <3>1
  <2>3. \A i, j \in ToSet(refs') : m2[i] = m2[j] /\ m2[i] # Null => i = j
    BY <1>2, <1>9 DEF Owned
  <2>4. ASSUME NEW r \in live' PROVE \E i \in ToSet(refs') : m2[i] = r.rec
    <3>1. PICK i \in ToSet(refs) : m[i] = r.rec
      BY <1>2, <1>7 DEF Owned
    <3>2. i # id
      BY <1>4, <1>7, <3>1
    <3>3. QED
      BY <1>8, <1>9, <3>1, <3>2
  <2>5. QED
    BY <2>2, <2>3, <2>4 DEF Owned
<1>11. ASSUME NEW f \in 1..Len(abs), NEW c \in Cells
       PROVE  CellOK(frames[f][c], con[f][c], m2, l)
  <2>1. CellOK(abs[f][c], con[f][c], m, l)
    BY <1>2 DEF Known
  <2>2. frames[f][c] = IF Alias(abs[f][c], id, Mem) THEN Scalar ELSE abs[f][c]
    <3>1. frames[f] = Replaced(abs[f], id, Mem, Scalar)
      BY <1>6
    <3>2. QED
      BY <3>1 DEF Replaced
  <2>3. CASE Alias(abs[f][c], id, Mem)
    BY <2>2, <2>3, PlainKnown
  <2>4. CASE ~Alias(abs[f][c], id, Mem)
    BY <1>2, <1>8, <1>9, <2>1, <2>2, <2>4 DEF CellOK, Alias
  <2>5. QED
    BY <2>3, <2>4
<1>12. Known(m2, l)'
  <2>1. /\ Len(abs) \in Nat \ {0} /\ Len(con) = Len(abs) /\ C = con[Len(abs)]
        /\ con \in Seq([Cells -> Content]) /\ C \in [Cells -> Content]
        /\ Len(abs) \in 1..Len(abs)
    BY <1>1, Running DEF FramesTyped
  <2>2. Last(frames) = frames[Len(abs)] /\ Last(frames) \in [Cells -> Val]
    BY <1>6, <2>1 DEF Last
  <2>3. /\ Returns(Last(frames), Zero, Uninit) \in [Cells -> Val]
        /\ \A c \in Cells : Returns(Last(frames), Zero, Uninit)[c] =
             IF c = 0 THEN Zero ELSE IF c = 1 THEN Uninit ELSE Last(frames)[c]
    BY <2>2, AbsReturns, ConstantValues
  <2>4. /\ Returns(C, Null, Word) \in [Cells -> Content]
        /\ \A c \in Cells : Returns(C, Null, Word)[c] =
             IF c = 0 THEN Null ELSE IF c = 1 THEN Word ELSE C[c]
    BY <2>1, ConReturns, ConstantValues
  <2>5. /\ Len(abs') = Len(abs)
        /\ abs'[Len(abs)] = Returns(Last(frames), Zero, Uninit)
        /\ \A f \in 1..(Len(abs) - 1) : abs'[f] = frames[f]
    BY <1>6, <1>7, <2>1, <2>3, ReplaceLast
  <2>6. /\ con'[Len(abs)] = Returns(C, Null, Word)
        /\ \A f \in 1..(Len(abs) - 1) : con'[f] = con[f]
    BY <1>7, <2>1, <2>4, ReplaceLast
  <2>7. SUFFICES ASSUME NEW f \in 1..Len(abs'), NEW c \in Cells
                 PROVE  CellOK(abs'[f][c], con'[f][c], m2, l)
    BY DEF Known, CellOK
  <2>8. CASE f = Len(abs)
    <3>1. CellOK(Last(frames)[c], C[c], m2, l)
      BY <1>11, <2>1, <2>2
    <3>2. CASE c = 0
      <4>1. abs'[f][c] = Zero /\ con'[f][c] = Null
        BY <1>3, <2>3, <2>4, <2>5, <2>6, <2>8, <3>2
      <4>2. QED
        BY <4>1, PlainKnown
    <3>3. CASE c = 1
      BY <2>3, <2>4, <2>5, <2>6, <2>8, <3>3, PlainKnown
    <3>4. CASE c # 0 /\ c # 1
      BY <2>3, <2>4, <2>5, <2>6, <2>8, <3>1, <3>4
    <3>5. QED
      BY <3>2, <3>3, <3>4
  <2>9. CASE f # Len(abs)
    <3>1. f \in 1..(Len(abs) - 1) /\ f \in 1..Len(abs)
      BY <2>1, <2>5, <2>9
    <3>2. QED
      BY <1>11, <2>5, <2>6, <3>1
  <2>10. QED
    BY <2>8, <2>9
<1>13. QED
  BY <1>5, <1>7, <1>9, <1>10, <1>12 DEF Sound

\* bpf_map_lookup_elem, executed for the first time: its id is a new one.
LEMMA SoundLookup ==
    ASSUME Expected, Typed, Sound, NEW pc \in Sites, Lookup(pc)
    PROVE  Sound'
<1> DEFINE r0 == V("PtrToMapValueOrNull", pc + 1, ValueSize)
<1>1. FramesTyped
  BY DEF Typed
<1>2. PICK m \in [ToSet(refs) -> 0..MaxRecords], l \in [seen -> {Null, MapValue}] :
        Known(m, l) /\ Owned(m)
  BY DEF Sound
<1>3. pc \in Nat /\ r0 \in Val
  <2>1. pc \in Nat /\ pc + 1 \in Nat /\ ValueSize \in Nat
    BY RefsAssumption
  <2>2. QED
    BY <2>1, ValTyped DEF Kinds
<1>4. r0.kind = "PtrToMapValueOrNull" /\ r0.id - 1 = pc
  BY <1>3 DEF V
<1>5. PICK found \in {Null, MapValue} :
        Frames(Returns(A, r0, Uninit), Returns(C, found, Word))
  BY DEF Lookup
<1> HIDE DEF r0
<1>6. pc \notin seen /\ seen' = seen \cup {pc} /\ UNCHANGED <<refs, live>>
  BY DEF Lookup, Expected
<1>7. PICK l2 \in [seen' -> {Null, MapValue}] :
        l2[pc] = found /\ DOMAIN l2 = seen' /\ \A i \in seen : l2[i] = l[i]
  <2> DEFINE w == [i \in seen' |-> IF i = pc THEN found ELSE l[i]]
  <2>1. w \in [seen' -> {Null, MapValue}]
    BY <1>2, <1>5, <1>6
  <2>2. w[pc] = found /\ DOMAIN w = seen' /\ \A i \in seen : w[i] = l[i]
    BY <1>6
  <2> HIDE DEF w
  <2>3. QED
    BY <2>1, <2>2
<1>8. ASSUME NEW v, NEW x, CellOK(v, x, m, l) PROVE CellOK(v, x, m, l2)
  <2>1. DOMAIN l \subseteq DOMAIN l2 /\ \A i \in DOMAIN l : l2[i] = l[i]
    BY <1>2, <1>6, <1>7
  <2>2. QED
    BY <1>8, <2>1, MoreKnown
<1>9. Known(m, l2)'
  <2>1. A \in [Cells -> Val] /\ C \in [Cells -> Content] /\ found \in Content
    BY <1>1, Running, ConstantValues
  <2>2. /\ Returns(A, r0, Uninit) \in [Cells -> Val]
        /\ \A c \in Cells : Returns(A, r0, Uninit)[c] =
             IF c = 0 THEN r0 ELSE IF c = 1 THEN Uninit ELSE A[c]
    BY <1>3, <2>1, AbsReturns
  <2>3. /\ Returns(C, found, Word) \in [Cells -> Content]
        /\ \A c \in Cells : Returns(C, found, Word)[c] =
             IF c = 0 THEN found ELSE IF c = 1 THEN Word ELSE C[c]
    BY <2>1, ConReturns
  <2>4. CellOK(r0, found, m, l2)
    BY <1>4, <1>6, <1>7 DEF CellOK, Mem
  <2>5. \A c \in Cells :
          CellOK(Returns(A, r0, Uninit)[c], Returns(C, found, Word)[c], m, l2)
    BY <1>1, <1>2, <1>8, <2>2, <2>3, <2>4, KnownFrames, PlainKnown
  <2>6. \A f \in 1..(Len(abs) - 1) : \A c \in Cells :
          CellOK(abs[f][c], con[f][c], m, l2)
    BY <1>1, <1>2, <1>8, KnownFrames
  <2>7. QED
    BY <1>1, <1>5, <2>2, <2>3, <2>5, <2>6, TopKnown
<1>10. QED
  <2>1. Owned(m)' /\ m \in [ToSet(refs') -> 0..MaxRecords]
    BY <1>2, <1>6 DEF Owned
  <2>2. QED
    BY <1>7, <1>9, <2>1 DEF Sound

\* The NULL check of a map value, on the side that the run takes.
LEMMA SoundCheckMapValue ==
    ASSUME Typed, Sound, NEW r \in Regs, CheckMapValue(r)
    PROVE  Sound'
<1> DEFINE id == A[r].id
           side == IF C[r] = Null THEN Zero
                   ELSE V("PtrToMapValue", A[r].id, A[r].max)
           a == Replaced(A, A[r].id, {"PtrToMapValueOrNull"}, side)
<1>1. FramesTyped
  BY DEF Typed
<1>2. PICK m \in [ToSet(refs) -> 0..MaxRecords], l \in [seen -> {Null, MapValue}] :
        Known(m, l) /\ Owned(m)
  BY DEF Sound
<1>3. A \in [Cells -> Val] /\ C \in [Cells -> Content] /\ r \in Cells
  BY <1>1, Running DEF Cells
<1>4. /\ A[r].kind = "PtrToMapValueOrNull" /\ Frames(a, C)
      /\ UNCHANGED <<refs, live, seen>>
  BY DEF CheckMapValue
<1>5. side \in Val
  BY <1>3, ValTyped, ConstantValues DEF Kinds, Val
<1>6. a \in [Cells -> Val]
  BY <1>3, <1>5, ReplacedTyped
<1>7. C[r] = l[id - 1] /\ C[r] \in {Null, MapValue}
  BY <1>1, <1>2, <1>3, <1>4, KnownFrames DEF CellOK, Mem
<1>8. CellOK(side, C[r], m, l)
  <2>1. CASE C[r] = Null
    BY <2>1, PlainKnown
  <2>2. CASE C[r] # Null
    BY <1>7, <2>2 DEF CellOK, V, Mem
  <2>3. QED
    BY <2>1, <2>2
<1>9. ASSUME NEW c \in Cells PROVE CellOK(a[c], C[c], m, l)
  <2>1. CellOK(A[c], C[c], m, l)
    BY <1>1, <1>2, KnownFrames
  <2>2. CASE Alias(A[c], id, {"PtrToMapValueOrNull"})
    <3>1. a[c] = side
      BY <2>2 DEF Replaced
    <3>2. C[c] = C[r]
      BY <1>7, <2>1, <2>2 DEF Alias, CellOK
    <3>3. QED
      BY <1>8, <3>1, <3>2
  <2>3. CASE ~Alias(A[c], id, {"PtrToMapValueOrNull"})
    BY <2>1, <2>3 DEF Replaced
  <2>4. QED
    BY <2>2, <2>3
<1> HIDE DEF a
<1>10. Known(m, l)'
  BY <1>1, <1>2, <1>3, <1>4, <1>6, <1>9, KnownFrames, TopKnown
<1>11. QED
  BY <1>2, <1>4, <1>10, SameRecords

\* The NULL check of a record: the id of a NULL stands for no record, so the
\* reference may go; the other side proves all aliases of the frame.
LEMMA SoundCheckRecord ==
    ASSUME Expected, Typed, Sound, NEW r \in Regs, CheckRecord(r)
    PROVE  Sound'
<1> DEFINE id == A[r].id
           checked == V("PtrToMem", id, max_off(A[r].max))
<1>1. FramesTyped /\ RefsTyped
  BY DEF Typed
<1>2. PICK m \in [ToSet(refs) -> 0..MaxRecords], l \in [seen -> {Null, MapValue}] :
        Known(m, l) /\ Owned(m)
  BY DEF Sound
<1>3. A \in [Cells -> Val] /\ C \in [Cells -> Content] /\ r \in Cells
  BY <1>1, Running DEF Cells
<1>4. A[r].kind = "PtrToMemOrNull" /\ UNCHANGED <<live, seen>>
  BY DEF CheckRecord
<1>5. \A f \in 1..(Len(abs) - 1) : \A c \in Cells : ~Alias(abs[f][c], id, Mem)
  BY DEF CheckRecord, Expected, Mem
<1>6. id \in ToSet(refs) /\ C[r] = m[id] /\ id \in Nat
  <2>1. CellOK(A[r], C[r], m, l)
    BY <1>1, <1>2, <1>3, KnownFrames
  <2>2. QED
    BY <1>2, <1>3, <1>4, <2>1 DEF CellOK, Mem, Val
<1>7. CASE C[r] = Null
  <2> DEFINE a == Replaced(A, id, Mem, Zero)
  <2>1. refs' = Dropped(id) /\ Frames(a, C)
    BY <1>7 DEF CheckRecord, Mem
  <2>2. a \in [Cells -> Val]
    BY <1>3, ReplacedTyped, ConstantValues
  <2>3. \A c \in Cells : a[c] = IF Alias(A[c], id, Mem) THEN Zero ELSE A[c]
    BY DEF Replaced
  <2> HIDE DEF a, id
  <2>4. ToSet(refs') = ToSet(refs) \ {id}
    BY <1>1, <1>6, <2>1, DroppedId
  <2>5. PICK m2 \in [ToSet(refs') -> 0..MaxRecords] :
          /\ DOMAIN m2 = ToSet(refs')
          /\ \A i \in ToSet(refs') : i # id /\ i \in ToSet(refs) /\ m2[i] = m[i]
    <3> DEFINE w == [i \in ToSet(refs') |-> m[i]]
    <3>1. w \in [ToSet(refs') -> 0..MaxRecords]
      BY <1>2, <2>4
    <3>2. /\ DOMAIN w = ToSet(refs')
          /\ \A i \in ToSet(refs') : i # id /\ i \in ToSet(refs) /\ w[i] = m[i]
      BY <2>4
    <3> HIDE DEF w
    <3>3. QED
      BY <3>1, <3>2
  <2>6. ASSUME NEW v, NEW x, CellOK(v, x, m, l), ~Alias(v, id, Mem)
        PROVE  CellOK(v, x, m2, l)
    BY <1>2, <2>4, <2>5, <2>6 DEF CellOK, Alias
  <2>7. ASSUME NEW c \in Cells PROVE CellOK(a[c], C[c], m2, l)
    <3>1. CellOK(A[c], C[c], m, l)
      BY <1>1, <1>2, KnownFrames
    <3>2. CASE Alias(A[c], id, Mem)
      <4>1. C[c] = Null /\ a[c] = Zero
        BY <1>6, <1>7, <2>3, <3>1, <3>2 DEF Alias, CellOK
      <4>2. QED
        BY <4>1, PlainKnown
    <3>3. CASE ~Alias(A[c], id, Mem)
      BY <2>3, <2>6, <3>1, <3>3
    <3>4. QED
      BY <3>2, <3>3
  <2>8. \A f \in 1..(Len(abs) - 1) : \A c \in Cells :
          CellOK(abs[f][c], con[f][c], m2, l)
    BY <1>1, <1>2, <1>5, <2>6, KnownFrames DEF id
  <2>9. Known(m2, l)'
    BY <1>1, <1>3, <2>1, <2>2, <2>7, <2>8, TopKnown
  <2>10. Owned(m2)'
    <3>1. \A i \in ToSet(refs') : m2[i] = Null \/ \E q \in live' : q.rec = m2[i]
      BY <1>2, <1>4, <2>5 DEF Owned
    <3>2. \A i, j \in ToSet(refs') : m2[i] = m2[j] /\ m2[i] # Null => i = j
      BY <1>2, <2>5 DEF Owned
    <3>3. ASSUME NEW q \in live' PROVE \E i \in ToSet(refs') : m2[i] = q.rec
      <4>1. PICK i \in ToSet(refs) : m[i] = q.rec
        BY <1>2, <1>4 DEF Owned
      <4>2. q.rec # Null
        BY <1>4, RefsAssumption DEF Typed, Null
      <4>3. i # id
        BY <1>6, <1>7, <4>1, <4>2
      <4>4. QED
        BY <2>4, <2>5, <4>1, <4>3
    <3>4. QED
      BY <3>1, <3>2, <3>3 DEF Owned
  <2>11. QED
    BY <1>2, <1>4, <2>5, <2>9, <2>10 DEF Sound
<1>8. CASE C[r] # Null
  <2> DEFINE b == Replaced(A, id, {"PtrToMemOrNull"}, checked)
             a == [b EXCEPT ![r] = V("PtrToMem", id, 0)]
  <2>1. UNCHANGED refs /\ Frames(a, C)
    BY <1>8 DEF CheckRecord
  <2>2. checked \in Val /\ V("PtrToMem", id, 0) \in Val
    <3>1. max_off(A[r].max) \in Nat
      BY <1>3 DEF max_off, Val
    <3>2. QED
      BY <1>6, <3>1, ValTyped DEF Kinds
  <2>3. b \in [Cells -> Val]
    BY <1>3, <2>2, ReplacedTyped
  <2>4. a \in [Cells -> Val]
    BY <2>2, <2>3
  <2>5. \A n : CellOK(V("PtrToMem", id, n), C[r], m, l)
    BY <1>2, <1>6, <1>8 DEF CellOK, V, Mem
  <2>6. ASSUME NEW c \in Cells PROVE CellOK(a[c], C[c], m, l)
    <3>1. CellOK(A[c], C[c], m, l)
      BY <1>1, <1>2, KnownFrames
    <3>2. CASE c = r
      <4>1. a[c] = V("PtrToMem", id, 0)
        BY <1>3, <2>3, <3>2
      <4>2. QED
        BY <2>5, <3>2, <4>1
    <3>3. CASE c # r /\ Alias(A[c], id, {"PtrToMemOrNull"})
      <4>1. a[c] = checked
        BY <3>3 DEF Replaced
      <4>2. C[c] = C[r]
        BY <1>6, <3>1, <3>3 DEF Alias, CellOK, Mem
      <4>3. QED
        BY <2>5, <4>1, <4>2
    <3>4. CASE c # r /\ ~Alias(A[c], id, {"PtrToMemOrNull"})
      <4>1. a[c] = A[c]
        BY <3>4 DEF Replaced
      <4>2. QED
        BY <3>1, <4>1
    <3>5. QED
      BY <3>2, <3>3, <3>4
  <2> HIDE DEF a
  <2>7. Known(m, l)'
    BY <1>1, <1>2, <1>3, <2>1, <2>4, <2>6, KnownFrames, TopKnown
  <2>8. QED
    BY <1>2, <1>4, <2>1, <2>7, SameRecords
<1>9. QED
  BY <1>7, <1>8

\* Moves and stores of known values, and frames that come and go.
LEMMA SoundMoves ==
    ASSUME Typed, Sound,
           \/ \E d, s \in Cells : Copy(d, s)
           \/ SetZero \/ call_subprog \/ return_from_subprog
    PROVE  Sound'
<1>1. FramesTyped
  BY DEF Typed
<1>2. PICK m \in [ToSet(refs) -> 0..MaxRecords], l \in [seen -> {Null, MapValue}] :
        Known(m, l) /\ Owned(m)
  BY DEF Sound
<1>3. A \in [Cells -> Val] /\ C \in [Cells -> Content]
  BY <1>1, Running
<1>4. \A c \in Cells : CellOK(A[c], C[c], m, l)
  BY <1>1, <1>2, KnownFrames
<1>5. 0 \in Cells /\ 1 \in Cells
  BY DEF Cells, Regs
<1>6. UNCHANGED <<refs, live, seen>>
  BY DEF Copy, SetZero, call_subprog, return_from_subprog
<1>7. SUFFICES Known(m, l)'
  BY <1>2, <1>6, SameRecords
<1>8. ASSUME NEW d \in Cells, NEW s \in Cells, Copy(d, s) PROVE Known(m, l)'
  <2> DEFINE a == [A EXCEPT ![d] = A[s]]
             c == [C EXCEPT ![d] = C[s]]
  <2>1. Frames(a, c)
    BY <1>8 DEF Copy
  <2>2. a \in [Cells -> Val] /\ c \in [Cells -> Content]
    BY <1>3
  <2>3. \A x \in Cells : CellOK(a[x], c[x], m, l)
    BY <1>3, <1>4
  <2> HIDE DEF a, c
  <2>4. QED
    BY <1>1, <1>2, <2>1, <2>2, <2>3, KnownFrames, TopKnown
<1>9. CASE SetZero
  <2> DEFINE a == [A EXCEPT ![0] = Zero]
             c == [C EXCEPT ![0] = Null]
  <2>1. Frames(a, c)
    BY <1>9 DEF SetZero
  <2>2. a \in [Cells -> Val] /\ c \in [Cells -> Content]
    BY <1>3, ConstantValues
  <2>3. \A x \in Cells : CellOK(a[x], c[x], m, l)
    <3>1. CellOK(Zero, Null, m, l)
      BY PlainKnown
    <3>2. QED
      BY <1>3, <1>4, <3>1
  <2> HIDE DEF a, c
  <2>4. QED
    BY <1>1, <1>2, <2>1, <2>2, <2>3, KnownFrames, TopKnown
<1>10. CASE call_subprog
  <2> DEFINE a == [Empty(Uninit) EXCEPT ![1] = A[1]]
             c == [Empty(Word) EXCEPT ![1] = C[1]]
  <2>1. abs' = Append(abs, a) /\ con' = Append(con, c)
    BY <1>10 DEF call_subprog
  <2>2. a \in [Cells -> Val] /\ c \in [Cells -> Content]
    BY <1>3, <1>5, ConstantValues DEF Empty
  <2>3. ASSUME NEW x \in Cells PROVE CellOK(a[x], c[x], m, l)
    <3>1. CASE x = 1
      BY <1>4, <1>5, <3>1 DEF Empty
    <3>2. CASE x # 1
      <4>1. a[x] = Uninit
        BY <3>2 DEF Empty
      <4>2. QED
        BY <4>1, PlainKnown
    <3>3. QED
      BY <3>1, <3>2
  <2> HIDE DEF a, c
  <2>4. Len(abs) \in Nat /\ Len(con) = Len(abs)
    BY <1>1, Running DEF FramesTyped
  <2>5. /\ Len(abs') = Len(abs) + 1
        /\ abs'[Len(abs) + 1] = a /\ con'[Len(abs) + 1] = c
        /\ \A f \in 1..Len(abs) : abs'[f] = abs[f] /\ con'[f] = con[f]
    BY <1>1, <2>1, <2>2, <2>4 DEF FramesTyped
  <2>6. SUFFICES ASSUME NEW f \in 1..Len(abs'), NEW x \in Cells
                 PROVE  CellOK(abs'[f][x], con'[f][x], m, l)
    BY DEF Known, CellOK
  <2>7. CASE f = Len(abs) + 1
    BY <2>3, <2>5, <2>7
  <2>8. CASE f # Len(abs) + 1
    <3>1. f \in 1..Len(abs)
      BY <2>4, <2>5, <2>8
    <3>2. QED
      BY <1>2, <2>5, <3>1 DEF Known
  <2>9. QED
    BY <2>7, <2>8
<1>11. CASE return_from_subprog
  <2> DEFINE n == Len(abs) - 1
             a == Returns(Last(Front(abs)), A[0], Uninit)
             c == Returns(Last(Front(con)), C[0], Word)
  <2>1. /\ Len(abs) > 1 /\ abs' = Append(Front(Front(abs)), a)
        /\ con' = Append(Front(Front(con)), c)
    BY <1>11 DEF return_from_subprog
  <2>2. Len(abs) \in Nat /\ Len(con) = Len(abs) /\ n \in Nat \ {0}
    <3>1. Len(abs) \in Nat /\ Len(con) = Len(abs)
      BY <1>1, Running DEF FramesTyped
    <3>2. QED
      BY <2>1, <3>1
  <2>3. /\ Front(abs) \in Seq([Cells -> Val]) /\ Len(Front(abs)) = n
        /\ Front(con) \in Seq([Cells -> Content]) /\ Len(Front(con)) = n
        /\ \A f \in 1..n : Front(abs)[f] = abs[f] /\ Front(con)[f] = con[f]
    BY <1>1, <2>1, <2>2, FrontOfSeq DEF FramesTyped
  <2> HIDE DEF n
  <2>4. /\ Last(Front(abs)) = abs[n] /\ Last(Front(abs)) \in [Cells -> Val]
        /\ Last(Front(con)) = con[n] /\ Last(Front(con)) \in [Cells -> Content]
    BY <2>2, <2>3 DEF Last
  <2>5. /\ a \in [Cells -> Val]
        /\ \A x \in Cells : a[x] =
             IF x = 0 THEN A[0] ELSE IF x = 1 THEN Uninit ELSE abs[n][x]
    <3>1. A[0] \in Val
      BY <1>3, <1>5
    <3>2. QED
      BY <2>4, <3>1, AbsReturns
  <2>6. /\ c \in [Cells -> Content]
        /\ \A x \in Cells : c[x] =
             IF x = 0 THEN C[0] ELSE IF x = 1 THEN Word ELSE con[n][x]
    <3>1. C[0] \in Content
      BY <1>3, <1>5
    <3>2. QED
      BY <2>4, <3>1, ConReturns
  <2> HIDE DEF a, c
  <2>7. \A f \in 1..n : \A x \in Cells : CellOK(abs[f][x], con[f][x], m, l)
    BY <1>1, <1>2, KnownFrames DEF n
  <2>8. ASSUME NEW x \in Cells PROVE CellOK(a[x], c[x], m, l)
    BY <1>4, <1>5, <2>2, <2>5, <2>6, <2>7, PlainKnown
  <2>9. /\ Len(abs') = n /\ abs'[n] = a
        /\ \A f \in 1..(n - 1) : abs'[f] = Front(abs)[f]
    <3>1. Len(Front(abs)) >= 1
      BY <2>2, <2>3
    <3> DEFINE s == Front(abs)
    <3>2. s \in Seq([Cells -> Val]) /\ Len(s) = n /\ Len(s) >= 1
      BY <2>3, <3>1
    <3>3. abs' = Append(Front(s), a)
      BY <2>1
    <3> HIDE DEF s
    <3>4. /\ Len(abs') = n /\ abs'[n] = a
          /\ \A f \in 1..(n - 1) : abs'[f] = s[f]
      BY <2>5, <3>2, <3>3, ReplaceLast
    <3>5. QED
      BY <3>4 DEF s
  <2>10. con'[n] = c /\ \A f \in 1..(n - 1) : con'[f] = Front(con)[f]
    <3>1. Len(Front(con)) >= 1
      BY <2>2, <2>3
    <3> DEFINE s == Front(con)
    <3>2. s \in Seq([Cells -> Content]) /\ Len(s) = n /\ Len(s) >= 1
      BY <2>3, <3>1
    <3>3. con' = Append(Front(s), c)
      BY <2>1
    <3> HIDE DEF s
    <3>4. /\ Len(con') = n /\ con'[n] = c
          /\ \A f \in 1..(n - 1) : con'[f] = s[f]
      BY <2>6, <3>2, <3>3, ReplaceLast
    <3>5. QED
      BY <3>4 DEF s
  <2>11. SUFFICES ASSUME NEW f \in 1..Len(abs'), NEW x \in Cells
                  PROVE  CellOK(abs'[f][x], con'[f][x], m, l)
    BY DEF Known, CellOK
  <2>12. CASE f = n
    BY <2>8, <2>9, <2>10, <2>12
  <2>13. CASE f # n
    <3>1. f \in 1..(n - 1) /\ f \in 1..n
      BY <2>2, <2>9, <2>13
    <3>2. QED
      BY <2>3, <2>7, <2>9, <2>10, <3>1
  <2>14. QED
    BY <2>12, <2>13
<1>12. QED
  BY <1>8, <1>9, <1>10, <1>11

\* Every instruction keeps what the verifier knows true of the run.
LEMMA SoundStep == Expected /\ Typed /\ Sound /\ [Next]_vars => Sound'
<1> SUFFICES ASSUME Expected, Typed, Sound, [Next]_vars PROVE Sound'
  OBVIOUS
<1>1. ASSUME NEW r \in Regs, NEW off, NEW w, Access(r, off, w) PROVE Sound'
  <2>1. UNCHANGED <<abs, refs, con, live, seen>>
    BY <1>1 DEF Access
  <2>2. QED
    BY <2>1 DEF Sound, Known, CellOK, Owned
<1>2. CASE Exit
  <2>1. UNCHANGED <<abs, refs, con, live, seen>>
    BY <1>2 DEF Exit
  <2>2. QED
    BY <2>1 DEF Sound, Known, CellOK, Owned
<1>3. CASE UNCHANGED vars
  BY <1>3 DEF vars, Sound, Known, CellOK, Owned
<1>4. QED
  BY <1>1, <1>2, <1>3, SoundReserve, SoundRelease, SoundLookup,
     SoundCheckMapValue, SoundCheckRecord, SoundMoves
  DEF Next

LEMMA SoundInit == Init => Sound
<1> SUFFICES ASSUME Init PROVE Sound
  OBVIOUS
<1>1. abs = <<Empty(Uninit)>> /\ con = <<Empty(Word)>> /\ refs = <<>> /\ seen = {}
  BY DEF Init
<1>2. PICK m \in [ToSet(refs) -> 0..MaxRecords] : TRUE
  <2>1. ToSet(refs) = {}
    BY <1>1 DEF ToSet
  <2>2. [i \in {} |-> 0] \in [ToSet(refs) -> 0..MaxRecords]
    BY <2>1
  <2>3. QED
    BY <2>2
<1>3. PICK l \in [seen -> {Null, MapValue}] : TRUE
  <2>1. [i \in seen |-> Null] \in [seen -> {Null, MapValue}]
    OBVIOUS
  <2>2. QED
    BY <2>1
<1>4. \A f \in 1..Len(abs) : \A c \in Cells : abs[f][c] = Uninit
  BY <1>1 DEF Empty
<1>5. Known(m, l)
  BY <1>4, PlainKnown DEF Known
<1>6. Owned(m)
  BY <1>1 DEF Init, Owned, ToSet
<1>7. QED
  BY <1>5, <1>6 DEF Sound

\* A reservation that the programs make has room for any access.
LEMMA FaultFree ==
    Programs = {} /\ Typed /\ Sound /\ BigEnough /\ NoFault /\ [Next]_vars
      => BigEnough' /\ NoFault'
<1> SUFFICES ASSUME Programs = {}, Typed, Sound, BigEnough, NoFault, [Next]_vars
             PROVE  BigEnough' /\ NoFault'
  OBVIOUS
<1>1. ASSUME NEW n \in Sizes, NEW known \in BOOLEAN, Reserve(n, known)
      PROVE  BigEnough' /\ NoFault'
  <2>1. n >= 8 /\ UNCHANGED fault
    BY <1>1 DEF Reserve
  <2>2. \A r \in live' : r \in live \/ r.size = n
    BY <1>1 DEF Reserve
  <2>3. QED
    BY <2>1, <2>2 DEF BigEnough, NoFault
<1>2. CASE Release
  <2>1. \E r \in live : r.rec = C[1]
    BY <1>2, SoundRelease
  <2>2. fault' = fault /\ live' \subseteq live
    BY <1>2, <2>1 DEF Release
  <2>3. QED
    BY <2>2 DEF BigEnough, NoFault
<1>3. ASSUME NEW r \in Regs, NEW off \in {0, 4, 8}, NEW w \in {4, 8},
             Access(r, off, w)
      PROVE  BigEnough' /\ NoFault'
  <2>1. PICK m \in [ToSet(refs) -> 0..MaxRecords], l \in [seen -> {Null, MapValue}] :
          Known(m, l) /\ Owned(m)
    BY DEF Sound
  <2>2. FramesTyped /\ r \in Cells
    BY DEF Typed, Cells
  <2>3. CellOK(A[r], C[r], m, l) /\ A[r] \in Val
    BY <2>1, <2>2, KnownFrames, Running
  <2>4. fault' = fault
    <3>1. CASE A[r].kind = "PtrToMem" /\ mem_access_check(A[r], off, w)
      <4>1. off + w <= 8
        BY <2>3, <3>1 DEF mem_access_check, Val
      <4>2. PICK rec \in live : rec.rec = C[r]
        BY <2>1, <2>3, <3>1 DEF CellOK, Mem, Owned
      <4>3. off + w <= rec.size
        <5>1. rec.size \in Nat /\ rec.size >= 8
          BY RefsAssumption DEF BigEnough, Typed
        <5>2. off + w \in Nat
          OBVIOUS
        <5>3. QED
          BY <4>1, <5>1, <5>2
      <4>4. QED
        BY <1>3, <4>2, <4>3 DEF Access
    <3>2. CASE A[r].kind = "PtrToMapValue"
      BY <1>3, <2>3, <3>2 DEF Access, CellOK
    <3>3. QED
      BY <1>3, <3>1, <3>2 DEF Access
  <2>5. QED
    BY <1>3, <2>4 DEF Access, BigEnough, NoFault
<1>4. CASE Exit
  <2>1. PICK m \in [ToSet(refs) -> 0..MaxRecords] : Owned(m)
    BY DEF Sound
  <2>2. ToSet(refs) = {}
    BY <1>4 DEF Exit, ToSet
  <2>3. live = {}
    BY <2>1, <2>2 DEF Owned
  <2>4. QED
    BY <1>4, <2>3 DEF Exit, BigEnough, NoFault
<1>5. CASE UNCHANGED <<live, fault>>
  BY <1>5 DEF BigEnough, NoFault
<1>6. QED
  BY <1>1, <1>2, <1>3, <1>4, <1>5
  DEF Next, vars, Lookup, CheckMapValue, CheckRecord, Copy, SetZero,
      call_subprog, return_from_subprog

--------------------------------------------------------------------------------
\* The theorems

\* The cells, frames and references keep their types, no two references have
\* the same id and no more than MAX_REFS are held: for all programs.
THEOREM TypeCorrect == Spec => []TypeOK
<1>1. Typed => TypeOK
  <2> SUFFICES ASSUME Typed PROVE TypeOK
    OBVIOUS
  <2>1. Len(refs) <= MAX_REFS /\ Cardinality(ToSet(refs)) = Len(refs)
    BY DistinctIds DEF Typed, RefsTyped
  <2>2. \A f \in 1..Len(abs) : abs[f] \in [Cells -> Val] /\ con[f] \in [Cells -> Content]
    BY DEF Typed, FramesTyped
  <2>3. \A f \in 1..Len(abs) : \A c \in Cells :
          /\ abs[f][c].kind \in Kinds /\ abs[f][c].id \in Nat /\ abs[f][c].max \in Nat
          /\ con[f][c] \in {Null, Word, MapValue} \cup (1..MaxRecords)
    BY <2>2 DEF Val, Content
  <2>4. QED
    BY <2>1, <2>3 DEF Typed, FramesTyped, TypeOK
<1>2. QED
  BY <1>1, TypedInit, TypedStep, PTL DEF Spec

\* Where NULL checks are made in the frame that has the aliases and lookups
\* are executed once, every cell of every frame holds what the verifier knows
\* of it, and one id stands for one record in all frames.
THEOREM CellsCovered == Expected => (Spec => []Covered)
<1> SUFFICES ASSUME Expected PROVE Spec => []Covered
  OBVIOUS
<1>1. Typed /\ Sound => Covered
  <2> SUFFICES ASSUME Typed, Sound PROVE Covered
    OBVIOUS
  <2>1. PICK m \in [ToSet(refs) -> 0..MaxRecords], l \in [seen -> {Null, MapValue}] :
          Known(m, l) /\ Owned(m)
    BY DEF Sound
  <2>2. SUFFICES ASSUME NEW f \in 1..Len(abs), NEW c \in Cells
                 PROVE  /\ Holds(abs[f][c], con[f][c])
                        /\ \A g \in 1..Len(abs) : \A d \in Cells :
                             (/\ abs[f][c].kind \in Mem
                              /\ Alias(abs[g][d], abs[f][c].id, Mem))
                             => con[f][c] = con[g][d]
    BY DEF Covered, Mem
  <2>3. CellOK(abs[f][c], con[f][c], m, l)
    BY <2>1 DEF Known
  <2>4. Holds(abs[f][c], con[f][c])
    BY <2>1, <2>3 DEF CellOK, Holds, Owned, Mem
  <2>5. ASSUME NEW g \in 1..Len(abs), NEW d \in Cells, abs[f][c].kind \in Mem,
               Alias(abs[g][d], abs[f][c].id, Mem)
        PROVE  con[f][c] = con[g][d]
    BY <2>1, <2>3, <2>5 DEF Known, CellOK, Alias
  <2>6. QED
    BY <2>4, <2>5
<1>2. QED
  BY <1>1, TypedInit, TypedStep, SoundInit, SoundStep, PTL DEF Spec

\* Of the programs without any oddity none touches a record it does not hold
\* or bytes behind its end, releases one twice or leaves one behind.
THEOREM NoRunFaults == Programs = {} => (Spec => []NoFault)
<1> SUFFICES ASSUME Programs = {} PROVE Spec => []NoFault
  OBVIOUS
<1>1. Expected
  BY DEF Expected
<1>2. Init => IInv
  BY TypedInit, SoundInit DEF Init, IInv, BigEnough, NoFault
<1>3. IInv /\ [Next]_vars => IInv'
  BY <1>1, TypedStep, SoundStep, FaultFree DEF IInv
<1>4. IInv => NoFault
  BY DEF IInv
<1>5. QED
  BY <1>2, <1>3, <1>4, PTL DEF Spec
===============================================================================
