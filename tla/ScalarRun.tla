----------------------------- MODULE ScalarRun -----------------------------
(***************************************************************************)
(* Straight-line runs of the scalar instructions on registers that hold an  *)
(* abstract scalar (exec.rs step, cond_branch) and the word of a concrete    *)
(* run (concrete.rs).  Loads bring in unknown values, register copies link   *)
(* scalars, comparisons refine both operands and everything linked to them. *)
(***************************************************************************)
EXTENDS ScalarOps, FiniteSets, TLC

CONSTANTS
    Ops,        \* the ALU operations with an immediate, <<operation, half>>
    RegOps,     \* the ALU operations with a register
    Conds,      \* the comparisons of registers
    Imms,       \* the immediates that appear in it
    MaxSteps,   \* bound: instructions of a run
    MaxVisits   \* how often one copy instruction runs; 1 without loops

ASSUME RunAssumption ==
    /\ Ops \subseteq AluOps \X BOOLEAN /\ RegOps \subseteq AluOps \X BOOLEAN
    /\ Conds \subseteq CondOps
    /\ MaxSteps \in Nat /\ MaxVisits \in Nat

VARIABLES
    regs,     \* abstract scalars
    vals,     \* the words of the concrete run
    visits,   \* runs of each copy instruction so far
    steps,
    side      \* FALSE after the run left by a side that is not explored

vars == <<regs, vals, visits, steps, side>>

Regs  == 0..2
\* The program's copies r1 = r0 and r2 = r1, at two addresses.
Copies == {[pc |-> 1, dst |-> 1, src |-> 0], [pc |-> 2, dst |-> 2, src |-> 1]}

\* What a load of a whole word, or of its low half, leaves in a register.
Loaded(half) == IF half THEN from_signed(0, U32_MAX) ELSE unknown

\* r0, or its low half, and r1 have been loaded, r2 is zero.
Init ==
    /\ \E half \in BOOLEAN, v \in [0..1 -> Words] :
          /\ half => v[0] <= U32_MAX
          /\ regs = (0 :> Loaded(half) @@ 1 :> Loaded(FALSE) @@ 2 :> constant(0))
          /\ vals = (0 :> v[0] @@ 1 :> v[1] @@ 2 :> 0)
    /\ visits = [c \in Copies |-> 0] /\ steps = 0 /\ side = TRUE

Step == steps < MaxSteps /\ side /\ steps' = steps + 1
\* A comparison that teaches nothing does not count.
Look == steps < MaxSteps /\ side /\ UNCHANGED <<steps, regs, vals, visits>>
Set(r, b, v) == regs' = [regs EXCEPT ![r] = b] /\ vals' = [vals EXCEPT ![r] = v]

\* rX = imm
MovImm(r, imm) ==
    /\ Step /\ Set(r, constant(imm), Unsigned(imm)) /\ UNCHANGED <<visits, side>>

\* wX = imm keeps only an upper bound.
Mov32Imm(r, imm) ==
    /\ Step /\ Set(r, from_signed(0, Low(imm)), Low(imm)) /\ UNCHANGED <<visits, side>>

\* A load of a whole word or of its low half, from memory that holds anything.
Load(r, half, v) ==
    /\ Step /\ (half => v <= U32_MAX)
    /\ Set(r, Loaded(half), v)
    /\ UNCHANGED <<visits, side>>

\* rX = rY: an unlinked scalar that is no constant gets the id pc + 1, on both
\* sides of the copy.
MovReg(c) ==
    LET b == regs[c.src]
        linked == [b EXCEPT !.id = IF b.id = 0 /\ ~is_constant(b) THEN c.pc + 1 ELSE @]
    IN  /\ Step /\ visits[c] < MaxVisits
        /\ visits' = [visits EXCEPT ![c] = @ + 1]
        /\ regs' = [regs EXCEPT ![c.src] = linked, ![c.dst] = linked]
        /\ vals' = [vals EXCEPT ![c.dst] = vals[c.src]]
        /\ UNCHANGED side

\* ALU with a register, ALU with an immediate, negation.
AluReg(o, d, s) ==
    /\ Step
    /\ Set(d, apply_alu(o[1], o[2], regs[d], regs[s]), AluConst(o[1], o[2], vals[d], vals[s]))
    /\ UNCHANGED <<visits, side>>

AluImm(o, d, imm) ==
    /\ Step /\ (o[1] \in Shifts => imm \in 0..((IF o[2] THEN H ELSE W) - 1))
    /\ Set(d, apply_alu(o[1], o[2], regs[d], constant(imm)),
              AluConst(o[1], o[2], vals[d], Unsigned(imm)))
    /\ UNCHANGED <<visits, side>>

Neg(half, d) ==
    /\ Step /\ Set(d, alu_neg(half, regs[d]), AluConst("neg", half, vals[d], 0))
    /\ UNCHANGED <<visits, side>>

\* The high half of a product, signed or not; with a constant or a register.
MulHigh(signed, d, b, v) ==
    /\ Step /\ Set(d, mul_high(signed, regs[d], b), hmul_const(signed, vals[d], v))
    /\ UNCHANGED <<visits, side>>

\* rX = wY keeps a bound on the low half of a constant only.
Mov32Reg(d, s) ==
    /\ Step
    /\ Set(d, from_signed(0, IF is_constant(regs[s]) THEN Low(regs[s].umax) ELSE U32_MAX),
              Low(vals[s]))
    /\ UNCHANGED <<visits, side>>

\* A spill and a narrow load of the slot.
Narrow(d, sign_extend) ==
    LET v == Low(vals[d]) IN
    /\ Step
    /\ Set(d, coerce_scalar(regs[d], H, sign_extend),
              IF sign_extend THEN Unsigned(LowSigned(v)) ELSE v)
    /\ UNCHANGED <<visits, side>>

\* cond_branch: the run goes to the side that its words decide.  A register
\* compared with itself decides the side alone.
CondReg(op, d, s) ==
    LET taken == Compare(op, vals[d], vals[s])
        known == refine_cmp(op, regs[d], regs[s], taken)
        set   == [regs EXCEPT ![d] = known[1], ![s] = known[2]]
        first == sync_linked_scalars(set, regs[d].id, regs[d].delta, known[1])
    IN  /\ Step /\ d # s
        /\ side' = (taken \in is_branch_taken(op, regs[d], regs[s]))
        /\ regs' = IF side' THEN sync_linked_scalars(first, regs[s].id, regs[s].delta,
                                                     known[2])
                            ELSE regs
        /\ UNCHANGED <<vals, visits>>

SameReg(op, d) ==
    Look /\ side' = (Compare(op, vals[d], vals[d]) = (op \in {"eq", "ule", "uge", "sle", "sge"}))

CondImm(op, d, imm) ==
    LET taken == Compare(op, vals[d], Unsigned(imm))
        known == refine_cmp(op, regs[d], constant(imm), taken)[1]
    IN  /\ Step
        /\ side' = (taken \in is_branch_taken(op, regs[d], constant(imm)))
        /\ regs' = IF side' THEN sync_linked_scalars([regs EXCEPT ![d] = known],
                                     regs[d].id, regs[d].delta, known)
                            ELSE regs
        /\ UNCHANGED <<vals, visits>>

\* if rX & imm
JsetImm(d, imm) ==
    LET taken == (vals[d] & Unsigned(imm)) # 0
        verdict == jset_verdict(regs[d], constant(imm))
    IN  /\ Step /\ side' = (taken \in verdict)
        /\ regs' = IF ~taken /\ verdict = BOOLEAN
                   THEN [regs EXCEPT ![d] = jset_not_taken(@, imm)] ELSE regs
        /\ UNCHANGED <<vals, visits>>

\* if wX op wY
Jmp32(op, d, s) ==
    LET word(v) == IF is_signed(op) THEN Unsigned(LowSigned(v)) ELSE Low(v) IN
    Look /\ side' = (Compare(op, word(vals[d]), word(vals[s]))
                       \in jmp32_verdict(op, regs[d], regs[s]))

\* Registers are interchangeable: results go to r0 and copies to r1 and r2.
Next ==
    \/ \E imm \in Imms : MovImm(0, imm)
    \/ \E imm \in Imms : Mov32Imm(0, imm)
    \/ \E half \in BOOLEAN, v \in Words : Load(0, half, v)
    \/ \E c \in Copies : MovReg(c)
    \/ \E o \in RegOps : AluReg(o, 0, 1)
    \/ \E o \in Ops, imm \in Imms : AluImm(o, 0, imm)
    \/ \E half \in BOOLEAN : Neg(half, 0)
    \/ \E sign \in BOOLEAN, imm \in Imms : MulHigh(sign, 0, constant(imm), Unsigned(imm))
    \/ \E sign \in BOOLEAN : MulHigh(sign, 0, regs[1], vals[1])
    \/ Mov32Reg(0, 1)
    \/ \E sign \in BOOLEAN : Narrow(0, sign)
    \/ \E op \in Conds, d \in 0..1 : CondReg(op, d, 1 - d)
    \/ \E op \in CondOps : SameReg(op, 0)
    \/ \E op \in CondOps, imm \in Imms : CondImm(op, 0, imm)
    \/ \E imm \in Imms : JsetImm(0, imm)
    \/ \E op \in CondOps : Jmp32(op, 0, 1)

Spec == Init /\ [][Next]_vars

-----------------------------------------------------------------------------
\* The ranges of a scalar are never empty on a path that a run takes, and the
\* low half is a range too.
TypeOK ==
    /\ vals \in [Regs -> Words] /\ steps \in 0..MaxSteps /\ side \in BOOLEAN
    /\ \A r \in Regs : ~IsEmpty(regs[r]) /\ regs[r].tnum.value & regs[r].tnum.mask = 0

\* Every word of a run is one that the abstract scalar stands for, after any
\* sequence of arithmetic, copies and comparisons (exec.rs apply_alu,
\* refine_cmp, sync_linked_scalars); and the low-half range that ALU32 starts
\* from holds the low half of the word (state.rs synced).
Covered ==
    \A r \in Regs :
       /\ Contains(regs[r], vals[r])
       /\ Low(vals[r]) \in regs[r].u32_min..regs[r].u32_max

\* A run never leaves a comparison by a side that the verifier rules out
\* (exec.rs is_branch_taken, jset_verdict, jmp32_verdict).
SidesExplored == side

\* Linked scalars are at their recorded distance: what a refinement of one
\* says of the others (exec.rs apply_linking, MovReg).
LinksHold ==
    \A r, q \in Regs :
       (regs[r].id # 0 /\ regs[r].id = regs[q].id)
          => Unsigned(vals[r] - regs[r].delta) = Unsigned(vals[q] - regs[q].delta)
=============================================================================
