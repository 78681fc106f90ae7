----------------------------- MODULE ScalarOps -----------------------------
(***************************************************************************)
(* Arithmetic on scalars and what a conditional jump teaches about them     *)
(* (exec.rs), with the exact operations on words that the concrete          *)
(* interpreter shares.                                                      *)
(***************************************************************************)
EXTENDS Scalars

AluOps  == {"add", "sub", "and", "or", "xor", "lsh", "rsh", "arsh", "mul",
            "div", "mod"}
Shifts  == {"lsh", "rsh", "arsh"}
CondOps == {"eq", "ne", "ugt", "uge", "ult", "ule", "sgt", "sge", "slt", "sle"}

Full64s == <<S_MIN, S_MAX>>
Full64u == <<0, U_MAX>>
Full32  == <<0, U32_MAX>>

-----------------------------------------------------------------------------
(* Exact operations on words                                                *)

\* Division by zero is 0 and the remainder by zero the dividend; a shift
\* takes its amount modulo the width.
alu_const(op, bits, a, b) ==
    LET mod    == 2^bits
        signed == IF a >= mod \div 2 THEN a - mod ELSE a
        k      == b % bits
    IN  CASE op = "add"  -> (a + b) % mod
          [] op = "sub"  -> (a - b) % mod
          [] op = "and"  -> a & b
          [] op = "or"   -> a | b
          [] op = "xor"  -> a ^^ b
          [] op = "mul"  -> (a * b) % mod
          [] op = "div"  -> IF b = 0 THEN 0 ELSE a \div b
          [] op = "mod"  -> IF b = 0 THEN a ELSE a % b
          [] op = "neg"  -> (-a) % mod
          [] op = "lsh"  -> (a * 2^k) % mod
          [] op = "rsh"  -> a \div 2^k
          [] op = "arsh" -> (signed \div 2^k) % mod

alu_const64(op, a, b) == alu_const(op, W, a, b)
alu_const32(op, a, b) == alu_const(op, H, Low(a), Low(b))
AluConst(op, half, a, b) ==
    IF half THEN alu_const32(op, a, b) ELSE alu_const64(op, a, b)

\* Signed or unsigned comparison of two words.
Compare(op, a, b) ==
    CASE op = "eq"  -> a = b
      [] op = "ne"  -> a # b
      [] op = "ugt" -> a > b
      [] op = "uge" -> a >= b
      [] op = "ult" -> a < b
      [] op = "ule" -> a <= b
      [] op = "sgt" -> Signed(a) > Signed(b)
      [] op = "sge" -> Signed(a) >= Signed(b)
      [] op = "slt" -> Signed(a) < Signed(b)
      [] op = "sle" -> Signed(a) <= Signed(b)

-----------------------------------------------------------------------------
(* Ranges through an operation.  A range is a pair of ends.                 *)

Corners(d, s) == {d[i] * s[j] : i, j \in 1..2}
Hull(set) == <<CHOOSE x \in set : \A y \in set : x <= y,
               CHOOSE x \in set : \A y \in set : x >= y>>

\* The range lo..hi when both ends are representable, else everything.
OrFull(lo, hi, full) ==
    IF lo >= full[1] /\ hi <= full[2] THEN <<lo, hi>> ELSE full

\* x << k is monotone within one block of 2^(W-k); a result on both sides of
\* the sign bit is no signed range.
shift64_by_const(op, d, k) ==
    CASE op = "lsh" ->
           LET lo == Shl(d[1], k)
               hi == Shl(d[2], k)
           IN  IF d[1] < 0 THEN Full64s
               ELSE IF k = 0 THEN d
               ELSE IF Shr(d[1], W - k) # Shr(d[2], W - k) THEN Full64s
               ELSE IF lo > S_MAX \/ hi <= S_MAX THEN <<Signed(lo), Signed(hi)>>
               ELSE Full64s
      [] op = "rsh"  -> IF d[1] < 0 THEN Full64s ELSE <<Shr(d[1], k), Shr(d[2], k)>>
      [] op = "arsh" -> <<d[1] \div 2^k, d[2] \div 2^k>>

shift64_range(op, d, s) ==
    CASE s[1] = s[2]  -> shift64_by_const(op, d, s[1])
      [] s[1] # s[2] /\ op = "lsh"  -> Full64s
      [] s[1] # s[2] /\ op = "rsh"  -> IF d[1] >= 0 THEN <<0, d[2]>> ELSE Full64s
      [] s[1] # s[2] /\ op = "arsh" -> <<d[1] \div 2^(W - 1), d[2]>>

alu64_signed(op, d, s) ==
    LET positive == d[1] >= 0 /\ s[1] >= 0
        magnitude == IF s[1] < 0 THEN -s[1] ELSE s[1]
    IN  IF d[1] = d[2] /\ s[1] = s[2]
        THEN LET v == Signed(alu_const64(op, Unsigned(d[1]), Unsigned(s[1])))
             IN  <<v, v>>
        ELSE
        CASE op = "add" -> OrFull(d[1] + s[1], d[2] + s[2], Full64s)
          [] op = "sub" -> OrFull(d[1] - s[2], d[2] - s[1], Full64s)
          [] op = "and" -> IF positive THEN <<0, Lesser(d[2], s[2])>> ELSE Full64s
          [] op = "or"  -> IF positive THEN <<Greater(d[1], s[1]), S_MAX>>
                                       ELSE Full64s
          [] op = "xor" -> IF positive THEN <<0, S_MAX>> ELSE Full64s
          [] op = "mul" -> LET h == Hull(Corners(d, s)) IN OrFull(h[1], h[2], Full64s)
          [] op = "div" -> Full64s
          [] op = "mod" -> IF s[1] = s[2] /\ s[1] # 0
                           THEN <<1 - magnitude, magnitude - 1>> ELSE Full64s
          [] op \in Shifts -> shift64_range(op, d, s)

alu64_unsigned(op, d, s) ==
    CASE op = "add" -> OrFull(d[1] + s[1], d[2] + s[2], Full64u)
      [] op = "sub" -> OrFull(d[1] - s[2], d[2] - s[1], Full64u)
      [] op = "and" -> <<0, Lesser(d[2], s[2])>>
      [] op = "or"  -> <<Greater(d[1], s[1]), U_MAX>>
      [] op = "xor" -> Full64u
      [] op = "mul" -> LET h == Hull(Corners(d, s)) IN OrFull(h[1], h[2], Full64u)
      [] op = "div" -> IF s[1] = 0 THEN Full64u
                       ELSE <<d[1] \div Greater(s[2], 1), d[2] \div s[1]>>
      [] op = "mod" -> IF s[1] = 0 THEN Full64u ELSE <<0, s[2] - 1>>
      [] op = "lsh" -> IF s[1] = s[2] /\ d[2] <= Shr(U_MAX, s[1])
                       THEN <<Shl(d[1], s[1]), Shl(d[2], s[1])>> ELSE Full64u
      [] op = "rsh" -> IF s[1] = s[2] THEN <<Shr(d[1], s[1]), Shr(d[2], s[1])>>
                       ELSE <<0, d[2]>>
      [] op = "arsh" -> Full64u

\* An integer range modulo 2^H is one range when it stays in one window.
interval_mod(lo, hi) ==
    IF hi - lo < 2^H /\ Low(lo) <= Low(hi) THEN <<Low(lo), Low(hi)>> ELSE Full32

shift32_range(op, d, s) ==
    LET k == s[1] IN
    IF s[1] # s[2] THEN IF op = "rsh" THEN <<0, d[2]>> ELSE Full32
    ELSE
    CASE op = "lsh" -> IF k >= H THEN <<0, 0>>
                       ELSE IF k = 0 THEN d
                       ELSE IF d[2] < 2^(H - k) THEN <<d[1] * 2^k, d[2] * 2^k>>
                       ELSE Full32
      [] op = "rsh" -> IF k >= H THEN <<0, 0>> ELSE <<Shr(d[1], k), Shr(d[2], k)>>
      [] op = "arsh" ->
           IF k >= H THEN IF LowSigned(d[1]) < 0 THEN <<U32_MAX, U32_MAX>>
                                                 ELSE <<0, 0>>
           ELSE <<Low(LowSigned(d[1]) \div 2^k), Low(LowSigned(d[2]) \div 2^k)>>

alu32_range(op, d, s) ==
    CASE op = "add" -> interval_mod(d[1] + s[1], d[2] + s[2])
      [] op = "sub" -> interval_mod(d[1] - s[2], d[2] - s[1])
      [] op = "and" -> <<0, Lesser(d[2], s[2])>>
      [] op = "or"  -> <<Greater(d[1], s[1]), U32_MAX>>
      [] op = "xor" -> Full32
      [] op = "mul" -> interval_mod(d[1] * s[1], d[2] * s[2])
      [] op = "div" -> IF s[1] = 0 THEN Full32
                       ELSE <<d[1] \div Greater(s[2], 1), d[2] \div s[1]>>
      [] op = "mod" -> IF s[1] = 0 THEN Full32 ELSE <<0, s[2] - 1>>
      [] op \in Shifts -> shift32_range(op, d, s)

\* A shift by an unknown amount, a product and a quotient know no bit.
alu_tnum(op, d, s, min, max) ==
    CASE op = "add" -> tnum_add(d, s)
      [] op = "sub" -> tnum_sub(d, s)
      [] op = "and" -> tnum_and(d, s)
      [] op = "or"  -> tnum_or(d, s)
      [] op = "xor" -> tnum_xor(d, s)
      [] op \in {"mul", "div", "mod"} \/ (op \in Shifts /\ min # max) -> TnumUnknown
      [] op = "lsh"  /\ min = max -> tnum_lshift(d, min)
      [] op = "rsh"  /\ min = max -> tnum_rshift(d, min)
      [] op = "arsh" /\ min = max -> tnum_arshift(d, min)

-----------------------------------------------------------------------------
(* An operation on scalars                                                  *)

apply_alu_inner(op, half, d, s) ==
    LET bitness == IF half THEN H ELSE W
        amount  == IF op \in Shifts THEN <<s.smin, s.smax>> ELSE <<s.umin, s.umax>>
        t       == alu_tnum(op, d.tnum, s.tnum, s.smin, s.smax)
        sr      == alu64_signed(op, <<d.smin, d.smax>>, <<s.smin, s.smax>>)
        ur      == alu64_unsigned(op, <<d.umin, d.umax>>, amount)
        r       == alu32_range(op, <<d.u32_min, d.u32_max>>, <<s.u32_min, s.u32_max>>)
    IN  IF op \in Shifts /\ (s.smin < 0 \/ s.smax >= bitness) THEN unknown
        ELSE IF is_constant(d) /\ is_constant(s)
        THEN constant(Signed(AluConst(op, half, Unsigned(d.smin), Unsigned(s.smin))))
        ELSE IF half
        THEN synced(Bounds(r[1], r[2], r[1], r[2], tnum_subreg(t), d.id, d.delta))
        ELSE synced(Bounds(sr[1], sr[2], ur[1], ur[2], t, d.id, d.delta))

\* Mutant of apply_linking: a 32-bit addition keeps the link.
apply_linking_any_width(op, half, result, d, s) ==
    LET off  == IF op = "sub" THEN -s.smin ELSE s.smin
        keep == /\ op \in {"add", "sub"} /\ is_constant(s)
                /\ d.id # 0 /\ result.id = d.id /\ result.delta = 0
                /\ off \in -(2^(H - 1))..(2^(H - 1) - 1)
    IN  [result EXCEPT !.id = IF keep THEN @ ELSE 0,
                       !.delta = IF keep THEN off ELSE 0]

\* Only the first 64-bit addition of a small constant keeps the link, at that
\* distance.
apply_linking(op, half, result, d, s) ==
    LET off  == IF op = "sub" THEN -s.smin ELSE s.smin
        keep == /\ op \in {"add", "sub"} /\ is_constant(s) /\ ~half
                /\ d.id # 0 /\ result.id = d.id /\ result.delta = 0
                /\ off \in -(2^(H - 1))..(2^(H - 1) - 1)
    IN  [result EXCEPT !.id = IF keep THEN @ ELSE 0,
                       !.delta = IF keep THEN off ELSE 0]

apply_alu(op, half, d, s) ==
    apply_linking(op, half, apply_alu_inner(op, half, d, s), d, s)

\* BPF_NEG folds constants and knows nothing of the rest.
alu_neg(half, d) ==
    IF is_constant(d)
    THEN constant(Signed(AluConst("neg", half, Unsigned(d.smin), 0))) ELSE unknown

\* The high word of a product: exact for constants, unknown otherwise.
hmul_const(signed, a, b) ==
    Unsigned((IF signed THEN Signed(a) * Signed(b) ELSE a * b) \div 2^W)
mul_high(signed, d, s) ==
    IF is_constant(d) /\ is_constant(s)
    THEN constant(Signed(hmul_const(signed, d.umin, s.umin))) ELSE unknown

\* A narrow load of a spilled scalar: n low bits, zero- or sign-extended.
coerce_scalar(b, n, sign_extend) ==
    LET v    == Unsigned(b.smin) % 2^n
        ext  == IF sign_extend /\ v >= 2^(n - 1) THEN v - 2^n ELSE v
        low  == Tnum(b.tnum.value % 2^n,
                     (b.tnum.mask % 2^n) | (U_MAX - (2^n - 1)))
    IN  IF n >= W THEN b
        ELSE IF is_constant(b) THEN constant(ext)
        ELSE IF sign_extend THEN [unknown EXCEPT !.tnum = low]
        ELSE [Bounds(0, 2^n - 1, 0, 2^n - 1, low, 0, 0)
                EXCEPT !.u32_max = Lesser(2^n - 1, U32_MAX)]

-----------------------------------------------------------------------------
(* Branches                                                                 *)

OrdOp(op) == CASE op \in {"ugt", "sgt"} -> "gt" [] op \in {"uge", "sge"} -> "ge"
               [] op \in {"ult", "slt"} -> "lt" [] op \in {"ule", "sle"} -> "le"
is_signed(op) == op \in {"sgt", "sge", "slt", "sle"}
Range64(b, op) == IF is_signed(op) THEN <<b.smin, b.smax>> ELSE <<b.umin, b.umax>>

\* wrapping_add(ONE) and wrapping_sub(ONE) on one family.
Succ(v, full) == IF v = full[2] THEN full[1] ELSE v + 1
Pred(v, full) == IF v = full[1] THEN full[2] ELSE v - 1

Above(d, s)     == <<Greater(d[1], s[1]), d[2]>>
Below(d, s)     == <<d[1], Lesser(d[2], s[2])>>

StrictlyAbove(d, s, full) == <<Greater(d[1], Succ(s[1], full)), d[2]>>
StrictlyBelow(d, s, full) == <<d[1], Lesser(d[2], Pred(s[2], full))>>

\* (dst, src) on the side where d ord s holds, or where it does not.  The
\* false side of `ge` bounds dst by src's lower end.
refine_ordered(ord, d, s, full, side) ==
    LET case == IF side THEN ord
                ELSE CASE ord = "gt" -> "le" [] ord = "ge" -> "nge"
                       [] ord = "lt" -> "ge" [] ord = "le" -> "gt"
    IN  CASE case = "gt" -> <<StrictlyAbove(d, s, full), StrictlyBelow(s, d, full)>>
          [] case = "ge" -> <<Above(d, s), Below(s, d)>>
          [] case = "lt" -> <<StrictlyBelow(d, s, full), StrictlyAbove(s, d, full)>>
          [] case = "le" -> <<Below(d, s), Above(s, d)>>
          [] case = "nge" -> <<<<d[1], Lesser(d[2], Pred(s[1], full))>>,
                               StrictlyAbove(s, d, full)>>

WithFamily(b, op, r) ==
    synced(IF is_signed(op) THEN [b EXCEPT !.smin = r[1], !.smax = r[2]]
                            ELSE [b EXCEPT !.umin = r[1], !.umax = r[2]])

\* a without the value v; a value inside leaves two ranges, and a as it is.
exclude_interval(a, v, full) ==
    IF v <= a[1] /\ v >= a[2] THEN <<full[2], full[1]>>
    ELSE IF v <= a[1] THEN <<Succ(v, full), a[2]>>
    ELSE IF v >= a[2] THEN <<a[1], Pred(v, full)>>
    ELSE a

exclude_bounds(a, b) ==
    LET sr == exclude_interval(<<a.smin, a.smax>>, b.smin, Full64s)
        ur == exclude_interval(<<a.umin, a.umax>>, b.umin, Full64u)
    IN  IF ~is_constant(b) THEN a
        ELSE Bounds(sr[1], sr[2], ur[1], ur[2], a.tnum, 0, 0)

\* (dst, src) where they are equal, or where they are not.
refine_eq(d, s, side) ==
    LET both == synced(Bounds(Greater(d.smin, s.smin), Lesser(d.smax, s.smax),
                              Greater(d.umin, s.umin), Lesser(d.umax, s.umax),
                              tnum_intersect(d.tnum, s.tnum), 0, 0))
    IN  IF side THEN <<both, both>>
        ELSE <<synced(exclude_bounds(d, s)), synced(exclude_bounds(s, d))>>

refine_ne(d, s, side) == refine_eq(d, s, ~side)

refine_cmp(op, d, s, side) ==
    LET full == IF is_signed(op) THEN Full64s ELSE Full64u
        r == refine_ordered(OrdOp(op), Range64(d, op), Range64(s, op), full, side)
    IN  CASE op = "eq" -> refine_eq(d, s, side)
          [] op = "ne" -> refine_ne(d, s, side)
          [] OTHER -> <<WithFamily(d, op, r[1]), WithFamily(s, op, r[2])>>

ranges_disjoint(a, b) == a[2] < b[1] \/ a[1] > b[2]
Disjoint(d, s) == \/ ranges_disjoint(<<d.smin, d.smax>>, <<s.smin, s.smax>>)
                  \/ ranges_disjoint(<<d.umin, d.umax>>, <<s.umin, s.umax>>)
SameConstant(d, s) == /\ is_constant(d) /\ is_constant(s)
                      /\ d.smin = s.smin /\ d.umin = s.umin

\* The sides of a comparison that are possible in one family.
ordered_verdict(ord, d, s) ==
    LET always == CASE ord = "gt" -> d[1] > s[2]  [] ord = "ge" -> d[1] >= s[2]
                    [] ord = "lt" -> d[2] < s[1]  [] ord = "le" -> d[2] <= s[1]
        never  == CASE ord = "gt" -> d[2] <= s[1] [] ord = "ge" -> d[2] < s[1]
                    [] ord = "lt" -> d[1] >= s[2] [] ord = "le" -> d[1] > s[2]
    IN  IF always THEN {TRUE} ELSE IF never THEN {FALSE} ELSE BOOLEAN

\* Mutant of is_branch_taken: one matching end of the ranges is taken for
\* equality.
is_branch_taken_by_ends(op, d, s) ==
    CASE op \in {"eq", "ne"} ->
           IF d.umin = s.umin /\ d.umax = s.umax THEN {op = "eq"}
           ELSE IF Disjoint(d, s) THEN {op = "ne"} ELSE BOOLEAN
      [] OTHER -> ordered_verdict(OrdOp(op), Range64(d, op), Range64(s, op))

is_branch_taken(op, d, s) ==
    CASE op \in {"eq", "ne"} ->
           IF SameConstant(d, s) THEN {op = "eq"}
           ELSE IF Disjoint(d, s) THEN {op = "ne"} ELSE BOOLEAN
      [] OTHER -> ordered_verdict(OrdOp(op), Range64(d, op), Range64(s, op))

\* dst & src # 0, from the constants, the common ones, the possible bits.
jset_verdict(d, s) ==
    LET ones == (d.tnum.value & Inv(d.tnum.mask)) & (s.tnum.value & Inv(s.tnum.mask))
        bits == (d.tnum.value | d.tnum.mask) & (s.tnum.value | s.tnum.mask)
    IN  IF is_constant(d) /\ is_constant(s) THEN {(d.umin & s.umin) # 0}
        ELSE IF ones # 0 THEN {TRUE}
        ELSE IF bits = 0 THEN {FALSE} ELSE BOOLEAN

\* jset dst, imm not taken: the bits of imm are clear.
jset_not_taken(d, imm) == apply_alu("and", FALSE, d, constant(Signed(Inv(Unsigned(imm)))))

\* A 32-bit comparison is decided on constants only, and refines nothing.
jmp32_verdict(op, d, s) ==
    IF is_constant(d) /\ is_constant(s)
    THEN {Compare(op, IF is_signed(op) THEN Unsigned(LowSigned(d.umin)) ELSE Low(d.umin),
                      IF is_signed(op) THEN Unsigned(LowSigned(s.umin)) ELSE Low(s.umin))}
    ELSE BOOLEAN

\* A scalar of the link group of one that is now known: known, moved by the
\* distance of the two.
Relinked(b, id, delta, known) ==
    LET shift == b.delta - delta
        moved == IF shift = 0 THEN known
                 ELSE apply_alu("add", FALSE, known, constant(shift))
    IN  IF id = 0 \/ b.id # id \/ bounds_equal(b, known) THEN b
        ELSE [moved EXCEPT !.id = b.id, !.delta = b.delta]

sync_linked_scalars(regs, id, delta, known) ==
    [r \in DOMAIN regs |-> Relinked(regs[r], id, delta, known)]
=============================================================================
