------------------------------ MODULE MiniInsn ------------------------------
(***************************************************************************)
(* What the mini verifier knows of one instruction: its effect on an        *)
(* abstract state (exec.rs, state.rs), the registers it reads and writes    *)
(* (liveness.rs), how a precision requirement passes backward through it    *)
(* (mini.rs) and what it does to concrete registers (concrete.rs).          *)
(*                                                                         *)
(* The instructions are the ones that decide what exploration and pruning   *)
(* do: constants, additions to scalars and pointers, loads through a        *)
(* context or map-value pointer, jumps, two compares, subprogram calls and  *)
(* exit.  A scalar is an interval of naturals; for these instructions the   *)
(* tnum of ScalarBounds knows the low bits exactly when the interval is a   *)
(* single value.  The stack and linked registers are left out.              *)
(***************************************************************************)
EXTENDS Integers, Sequences

CONSTANTS
    Regs,            \* the registers of the model, a subset of 0..9
    ValueSize,       \* value_size of the one map
    CtxFields,       \* context offsets that a one-byte load may read
    MAX_CALL_FRAMES  \* frames, the main program's included

ASSUME RegsAssumption == {0, 1} \subseteq Regs /\ Regs \subseteq 0..9
ASSUME SizeAssumption == ValueSize \in Nat /\ MAX_CALL_FRAMES \in Nat \ {0}

-----------------------------------------------------------------------------
(* Abstract registers                                                       *)

Unbounded       == 2^30    \* stands for the largest 64-bit value
BPF_MAX_VAR_OFF == 2^28
ALIGN_UNKNOWN   == 255

Reg(t, lo, hi, al) == [t |-> t, lo |-> lo, hi |-> hi, al |-> al]

Uninit             == Reg("uninit", 0, 0, 0)
Scalar(lo, hi)     == Reg("scalar", lo, hi, 0)
Const(v)           == Scalar(v, v)
PtrToCtx(off)      == Reg("ctx", off, off, 0)
PtrToMapValue(lo, hi, al) == Reg("map", lo, hi, al)

IsScalar(r)   == r.t = "scalar"
IsPointer(r)  == r.t \in {"ctx", "map"}
IsConstant(r) == r.lo = r.hi

\* A state is the running frame, its return address and the callers' frames.
initial ==
    [regs |-> [r \in Regs |-> IF r = 1 THEN PtrToCtx(0) ELSE Uninit],
     ret |-> 0, saved |-> <<>>]

Write(st, r, v) == [st EXCEPT !.regs[r] = v]

call_subprog(st, return_pc) ==
    [regs  |-> [r \in Regs |-> IF r \in 1..5 THEN st.regs[r] ELSE Uninit],
     ret   |-> return_pc,
     saved |-> Append(st.saved, [regs |-> st.regs, ret |-> st.ret])]

return_from_subprog(st) ==
    LET caller == st.saved[Len(st.saved)] IN
    [regs  |-> [r \in Regs |-> CASE r = 0 -> st.regs[0]
                                 [] r \in 1..5 -> Uninit
                                 [] OTHER -> caller.regs[r]],
     ret   |-> caller.ret,
     saved |-> SubSeq(st.saved, 1, Len(st.saved) - 1)]

-----------------------------------------------------------------------------
(* Instructions: `off` is a jump's or an access's offset.                   *)

I(op, dst, src, imm, off) ==
    [op |-> op, dst |-> dst, src |-> src, imm |-> imm, off |-> off]

MovImm(d, imm)      == I("mov", d, 0, imm, 0)
AddImm(d, imm)      == I("add", d, 0, imm, 0)
AddReg(d, s)        == I("addr", d, s, 0, 0)
LdByte(d, b, off)   == I("ldb", d, b, 0, off)
LdMem(d, b, off)    == I("ldx", d, b, 0, off)
LdMapValue(d, o)    == I("ldmap", d, 0, o, 0)
LdImm64Second       == I("second", 0, 0, 0, 0)
Jmp(off)            == I("ja", 0, 0, 0, off)
JgtImm(d, imm, off) == I("jgt", d, 0, imm, off)
JeqImm(d, imm, off) == I("jeq", d, 0, imm, off)
CallSub(off)        == I("call", 0, 0, 0, off)
Exit                == I("exit", 0, 0, 0, 0)

is_conditional_branch(i) == i.op \in {"jgt", "jeq"}
is_control_flow(i) == i.op \in {"exit", "ja"} \/ is_conditional_branch(i)

Target(pc, i) == pc + 1 + i.off
At(p, pc)     == p[pc + 1]
Pcs(p)        == 0..(Len(p) - 1)

-----------------------------------------------------------------------------
(* Abstract execution.  A result is a set: one value, or none when the      *)
(* verifier rejects.                                                        *)

\* Scalar addition; a sum that may wrap is unbounded.
AddScalars(a, b) ==
    IF Unbounded \in {a.hi, b.hi} THEN Scalar(0, Unbounded)
    ELSE Scalar(a.lo + b.lo, a.hi + b.hi)

check_sane_addend(s) == s.hi # Unbounded /\ s.lo < BPF_MAX_VAR_OFF

\* Pointer plus scalar.  A context pointer moves by constants only; a map
\* value pointer's alignment is known when the addend's low bits are.
AddToPointer(p, s) ==
    IF ~check_sane_addend(s) THEN {}
    ELSE IF p.t = "ctx"
    THEN IF IsConstant(s) THEN {PtrToCtx(p.lo + s.lo)} ELSE {}
    ELSE IF p.lo + s.lo >= BPF_MAX_VAR_OFF THEN {}
    ELSE {PtrToMapValue(p.lo + s.lo, p.hi + s.hi,
                        IF IsConstant(s) THEN (p.al + (s.lo % 8)) % 8
                                         ELSE ALIGN_UNKNOWN)}

alu_add(a, b) ==
    CASE IsScalar(a) /\ IsScalar(b)  -> {AddScalars(a, b)}
      [] IsPointer(a) /\ IsScalar(b) -> AddToPointer(a, b)
      [] IsScalar(a) /\ IsPointer(b) -> AddToPointer(b, a)
      [] OTHER                       -> {}

\* Every offset of an eight-byte access is aligned and inside the value.
map_value_access_check(p, off) ==
    /\ p.al # ALIGN_UNKNOWN /\ (p.al + off) % 8 = 0
    /\ p.lo + off >= 0 /\ p.hi + off + 8 <= ValueSize

load(base, i) ==
    CASE base.t = "ctx" ->
           IF i.op = "ldb" /\ base.lo + i.off \in CtxFields
           THEN {Scalar(0, 255)} ELSE {}
      [] base.t = "map" ->
           IF map_value_access_check(base, i.off)
           THEN {Scalar(0, Unbounded)} ELSE {}
      [] OTHER -> {}

step(i, st) ==
    LET results ==
          CASE i.op = "mov"   -> {Const(i.imm)}
            [] i.op = "add"   -> alu_add(st.regs[i.dst], Const(i.imm))
            [] i.op = "addr"  -> alu_add(st.regs[i.dst], st.regs[i.src])
            [] i.op = "ldmap" -> {PtrToMapValue(i.imm, i.imm, i.imm % 8)}
            [] OTHER          -> load(st.regs[i.src], i)
    IN  IF i.op = "second" THEN {st} ELSE {Write(st, i.dst, v) : v \in results}

\* What the two sides of a compare know of a scalar (refine_ordered,
\* refine_eq, exclude_interval).
refine(i, d, taken) ==
    IF i.op = "jgt"
    THEN IF taken THEN Scalar(IF d.lo > i.imm THEN d.lo ELSE i.imm + 1, d.hi)
                  ELSE Scalar(d.lo, IF d.hi < i.imm THEN d.hi ELSE i.imm)
    ELSE IF taken THEN Const(i.imm)
    ELSE IF d.lo = i.imm THEN Scalar(d.lo + 1, d.hi)
    ELSE IF d.hi = i.imm THEN Scalar(d.lo, d.hi - 1)
    ELSE d

AlwaysTaken(i, d) ==
    IF i.op = "jgt" THEN d.lo > i.imm ELSE d.lo = i.imm /\ d.hi = i.imm
AlwaysNotTaken(i, d) ==
    IF i.op = "jgt" THEN d.hi <= i.imm ELSE i.imm \notin d.lo..d.hi

\* The taken side first.  A pointer compared with a constant takes both
\* sides unrefined, except that a map value pointer is not ordered against 0.
cond_branch(pc, i, st) ==
    LET d       == st.regs[i.dst]
        side(b) == [pc |-> IF b THEN Target(pc, i) ELSE pc + 1,
                    state |-> IF IsScalar(d)
                              THEN Write(st, i.dst, refine(i, d, b)) ELSE st]
    IN  CASE d.t = "uninit" -> <<>>
          [] d.t = "map" /\ i.op = "jgt" /\ i.imm = 0 -> <<>>
          [] IsScalar(d) /\ AlwaysTaken(i, d)    -> <<side(TRUE)>>
          [] IsScalar(d) /\ AlwaysNotTaken(i, d) -> <<side(FALSE)>>
          [] OTHER -> <<side(TRUE), side(FALSE)>>

\* The successors of an instruction other than exit; none means rejected.
successors(pc, i, st) ==
    CASE i.op = "ja" -> <<[pc |-> Target(pc, i), state |-> st]>>
      [] i.op = "call" ->
           IF Len(st.saved) >= MAX_CALL_FRAMES - 1 THEN <<>>
           ELSE <<[pc |-> Target(pc, i), state |-> call_subprog(st, pc + 1)]>>
      [] is_conditional_branch(i) -> cond_branch(pc, i, st)
      [] OTHER ->
           IF step(i, st) = {} THEN <<>>
           ELSE <<[pc |-> pc + 1, state |-> CHOOSE s \in step(i, st) : TRUE]>>

-----------------------------------------------------------------------------
(* Liveness                                                                 *)

use_regs(i) ==
    CASE i.op \in {"add", "jgt", "jeq"} -> {i.dst}
      [] i.op = "addr"                  -> {i.dst, i.src}
      [] i.op \in {"ldb", "ldx"}        -> {i.src}
      [] i.op = "call"                  -> Regs \cap 1..5
      [] i.op = "exit"                  -> {0}
      [] OTHER                          -> {}

def_regs(i) ==
    CASE i.op \in {"mov", "add", "addr", "ldb", "ldx", "ldmap"} -> {i.dst}
      [] i.op = "call" -> Regs \cap 0..5
      [] OTHER         -> {}

Calls(p) == {pc \in Pcs(p) : At(p, pc).op = "call"}

\* The entries of the subprograms that start at or before pc.
EntriesUpTo(p, pc) == {Target(c, At(p, c)) : c \in Calls(p)} \cap 0..pc

\* An exit returns to every call of the subprogram it is in, and a call is
\* followed by the callee only.
static_successors(p, pc) ==
    LET i == At(p, pc) IN
    CASE i.op = "exit" ->
           {c + 1 : c \in {c \in Calls(p) :
               /\ Target(c, At(p, c)) # 0
               /\ Target(c, At(p, c)) \in EntriesUpTo(p, pc)
               /\ \A e \in EntriesUpTo(p, pc) : e <= Target(c, At(p, c))}}
      [] i.op \in {"ja", "call"} -> {Target(pc, i)}
      [] is_conditional_branch(i) -> {pc + 1, Target(pc, i)} \cap Pcs(p)
      [] OTHER -> {pc + 1} \cap Pcs(p)

\* The least solution of the dataflow equations: a use is at most Len(p)
\* steps away, so that many sweeps reach the fixed point.
analyze(p) ==
    LET sweep[k \in 0..Len(p)] ==
          IF k = 0 THEN [pc \in Pcs(p) |-> {}]
          ELSE LET before == sweep[k - 1] IN
               [pc \in Pcs(p) |->
                  use_regs(At(p, pc)) \cup
                  ((UNION {before[s] : s \in static_successors(p, pc)})
                      \ def_regs(At(p, pc)))]
    IN  sweep[Len(p)]

clean_state(st, live) ==
    [st EXCEPT !.regs = [r \in Regs |-> IF r \in live THEN st.regs[r]
                                                      ELSE Uninit]]

-----------------------------------------------------------------------------
(* Precision, backward through one instruction                              *)

Fallback == {-1}    \* the requirement cannot be resolved here

backtrack_insn(i, need) ==
    CASE i.op \in {"mov", "ldb", "ldx", "ldmap"} -> need \ {i.dst}
      [] i.op = "addr" /\ i.dst \in need         -> need \cup {i.src}
      [] i.op = "call" /\ need \cap 0..5 # {}    -> Fallback
      [] OTHER                                   -> need

\* Backward through a path segment until it is resolved or given up.
BacktrackSegment(p, segment, need) ==
    LET walk[k \in 0..Len(segment), regs \in SUBSET (Regs \cup Fallback)] ==
          IF k = 0 \/ regs \in {{}, Fallback} THEN regs
          ELSE walk[k - 1, backtrack_insn(At(p, segment[k]), regs)]
    IN  walk[Len(segment), need]

\* The operands whose values decided what the instruction does.
precision_regs(i, st, branches) ==
    CASE is_conditional_branch(i) /\ branches = 1 -> {i.dst}
      [] i.op = "addr" /\ IsPointer(st.regs[i.dst])
                       /\ IsScalar(st.regs[i.src]) -> {i.src}
      [] i.op = "addr" /\ IsScalar(st.regs[i.dst])
                       /\ IsPointer(st.regs[i.src]) -> {i.dst}
      [] OTHER -> {}
=============================================================================
