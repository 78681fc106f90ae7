------------------------------ MODULE Scalars ------------------------------
(***************************************************************************)
(* The scalar domain of the mini verifier: tracked numbers (tnum.rs), the   *)
(* signed, unsigned and low-half ranges kept beside them (state.rs), the    *)
(* arithmetic on them and what a branch teaches about them (exec.rs).  The  *)
(* register width is a parameter: 64 in the code, small here, so that every *)
(* overflow, sign change and shift happens.                                 *)
(***************************************************************************)
EXTENDS Integers, Bitwise

CONSTANTS W,    \* bits of a register, 64 in the code
          H     \* bits of the low half that ALU32 works on, 32 in the code

ASSUME WidthAssumption == W \in Nat /\ H \in 1..(W - 1)

U_MAX   == 2^W - 1
S_MIN   == -(2^(W - 1))
S_MAX   == 2^(W - 1) - 1
U32_MAX == 2^H - 1
Words   == 0..U_MAX

\* `as u64`, `as i64`, `as u32`, `as i32` and `!` on a word.
Unsigned(v) == v % 2^W
Signed(u)   == IF u > S_MAX THEN u - 2^W ELSE u
Low(u)      == u % 2^H
LowSigned(u) == IF Low(u) >= 2^(H - 1) THEN Low(u) - 2^H ELSE Low(u)
Inv(u)      == U_MAX - u

Lesser(a, b)  == IF a < b THEN a ELSE b
Greater(a, b) == IF a > b THEN a ELSE b

Shl(u, k)  == Unsigned(u * 2^k)
Shr(u, k)  == u \div 2^k
Ashr(u, k) == Unsigned(Signed(u) \div 2^k)

-----------------------------------------------------------------------------
(* Tracked numbers: the bits of mask are unknown, the others are value's.   *)

Tnum(value, mask) == [value |-> value, mask |-> mask]
TnumConst(v)      == Tnum(v, 0)
TnumUnknown       == Tnum(0, U_MAX)
TnumHas(t, u)     == (u & Inv(t.mask)) = t.value

tnum_add(a, b) ==
    LET sv == Unsigned(a.value + b.value)
        mu == ((Unsigned(a.mask + b.mask + sv) ^^ sv) | a.mask) | b.mask
    IN  Tnum(sv & Inv(mu), mu)

\* Mutant of tnum_sub: the carry chain is folded as in an addition.
tnum_sub_as_add(a, b) ==
    LET dv == Unsigned(a.value - b.value)
        mu == ((Unsigned(a.mask + b.mask + dv) ^^ dv) | a.mask) | b.mask
    IN  Tnum(dv & Inv(mu), mu)

tnum_sub(a, b) ==
    LET dv == Unsigned(a.value - b.value)
        mu == ((Unsigned(dv + a.mask) ^^ Unsigned(dv - b.mask)) | a.mask) | b.mask
    IN  Tnum(dv & Inv(mu), mu)

tnum_and(a, b) ==
    LET v == a.value & b.value
    IN  Tnum(v, ((a.value | a.mask) & (b.value | b.mask)) ^^ v)

tnum_or(a, b) ==
    LET ones  == (a.value & Inv(a.mask)) | (b.value & Inv(b.mask))
        zeros == (Inv(a.value) & Inv(a.mask)) & (Inv(b.value) & Inv(b.mask))
    IN  Tnum(ones, Inv(ones | zeros))

tnum_xor(a, b) ==
    LET mask == a.mask | b.mask IN Tnum((a.value ^^ b.value) & Inv(mask), mask)

tnum_intersect(a, b) ==
    LET mu == a.mask & b.mask IN Tnum((a.value | b.value) & Inv(mu), mu)

tnum_lshift(t, k)  == Tnum(Shl(t.value, k), Shl(t.mask, k))
tnum_rshift(t, k)  == Tnum(Shr(t.value, k), Shr(t.mask, k))
tnum_arshift(t, k) == Tnum(Ashr(t.value, k), Ashr(t.mask, k))
tnum_subreg(t)     == Tnum(Low(t.value), Low(t.mask))

\* The bits above the highest one in which the two ends differ are known.
tnum_from_range(min, max) ==
    LET bits == CHOOSE k \in 0..W : /\ Shr(min, k) = Shr(max, k)
                                    /\ \A j \in 0..(k - 1) :
                                          Shr(min, j) # Shr(max, j)
    IN  Tnum(Shl(Shr(min, bits), bits), 2^bits - 1)

\* a bit known in a is known, with the same value, in b
tnum_subsumes(a, b) ==
    /\ (b.mask & Inv(a.mask)) = 0
    /\ (b.value & Inv(a.mask)) = (a.value & Inv(a.mask))

-----------------------------------------------------------------------------
(* ScalarBounds.  id and delta link scalars that are copies of one another  *)
(* up to a constant; id 0 is no link.                                       *)

Bounds(smin, smax, umin, umax, tnum, id, delta) ==
    [smin |-> smin, smax |-> smax, umin |-> umin, umax |-> umax,
     u32_min |-> 0, u32_max |-> U32_MAX, tnum |-> tnum,
     id |-> id, delta |-> delta]

constant(v) ==
    [Bounds(v, v, Unsigned(v), Unsigned(v), TnumConst(Unsigned(v)), 0, 0)
       EXCEPT !.u32_min = Low(v), !.u32_max = Low(v)]
unknown == Bounds(S_MIN, S_MAX, 0, U_MAX, TnumUnknown, 0, 0)

is_constant(b) == b.smin = b.smax /\ b.umin = b.umax /\ b.tnum.mask = 0
is_zero(b)     == b.smin = 0 /\ b.smax = 0 /\ b.umin = 0 /\ b.umax = 0
IsEmpty(b)     == b.smin > b.smax \/ b.umin > b.umax

\* Either family's range narrows the other where both are one bit range.
Combined(b) ==
    CASE b.smin >= 0 \/ b.smax < 0 ->
           LET lo == Greater(Unsigned(b.smin), b.umin)
               hi == Lesser(Unsigned(b.smax), b.umax)
           IN  [b EXCEPT !.smin = Signed(lo), !.smax = Signed(hi),
                         !.umin = lo, !.umax = hi]
      [] b.smin < 0 /\ b.smax >= 0 /\ b.umax <= S_MAX ->
           [b EXCEPT !.smin = b.umin, !.smax = Lesser(b.smax, b.umax)]
      [] b.smin < 0 /\ b.smax >= 0 /\ b.umin > S_MAX ->
           [b EXCEPT !.smin = Greater(b.smin, Signed(b.umin)),
                     !.smax = Signed(b.umax)]
      [] OTHER -> b

\* reg_bounds_sync.  An empty range is left alone.
synced(b) ==
    LET c      == Combined(b)
        window == Shr(c.umin, H) = Shr(c.umax, H)
    IN  IF IsEmpty(b) THEN b
        ELSE [c EXCEPT !.u32_min = IF window THEN Low(c.umin) ELSE 0,
                       !.u32_max = IF window THEN Low(c.umax) ELSE U32_MAX,
                       !.tnum = tnum_intersect(@, tnum_from_range(c.umin, c.umax))]

\* Mutant of from_signed: the ends are swapped.
from_signed_swapped(min, max) ==
    synced(Bounds(max, min, Unsigned(max), Unsigned(min), TnumUnknown, 0, 0))

from_signed(min, max) ==
    synced(IF min < 0 /\ max >= 0
           THEN Bounds(min, max, 0, U_MAX, TnumUnknown, 0, 0)
           ELSE Bounds(min, max, Unsigned(min), Unsigned(max), TnumUnknown, 0, 0))

\* The concrete values that a scalar stands for (the coverage check of
\* concrete.rs).
Contains(b, u) ==
    /\ b.smin <= Signed(u) /\ Signed(u) <= b.smax
    /\ b.umin <= u /\ u <= b.umax
    /\ TnumHas(b.tnum, u)

bounds_equal(a, b) ==
    /\ a.smin = b.smin /\ a.smax = b.smax /\ a.umin = b.umin
    /\ a.umax = b.umax /\ a.tnum = b.tnum
=============================================================================
