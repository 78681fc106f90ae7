------------------------------ MODULE MCReduce ------------------------------
(* Reductions of findings with three or four instructions.                  *)
EXTENDS Reduce

I(op, dst, src, imm, off) == [op |-> op, dst |-> dst, src |-> src, imm |-> imm, off |-> off]
ExitI == I("exit", 0, 0, 0, 0)
Sides(mini, reason, r, spec) == [mini |-> mini, reason |-> reason, run |-> r, spec |-> spec]

Safe     == Sides("Accept", "none", "clean", "Inconclusive")
Witness  == Sides("Accept", "none", "uncovered", "Accept")
Refusal  == Sides("Reject", "register", "fails", "Reject")
Gap      == Sides("Accept", "none", "clean", "RejectGap")
Crash    == Sides("Panic", "none", "none", "Accept")
Leak     == Sides("Reject", "reference", "fails", "Reject")

F(label, p, k, prog) == [label |-> label, p |-> p, k |-> k, prog |-> prog]
A(p, k) == [p |-> p, k |-> k]
Line(findings, answers, kernel, qemu, budget, tolerate) ==
    [findings |-> findings, answers |-> answers, kernel |-> kernel, qemu |-> qemu, strict |-> FALSE,
     budget |-> budget, tolerate |-> tolerate]

Plain == KernelAnswer("plain")
Other == KernelAnswer("invalid_read")
Fd    == KernelAnswer("fd")

\* A branch over an assignment; a store through a register; dead code.
Branch == <<I("jeqimm", 1, 0, 2, 1), I("movimm", 2, 0, 1, 0), ExitI>>
Store  == <<I("movimm", 3, 0, 0, 0), I("st", 10, 3, 0, -16), ExitI>>
Consts == <<I("movimm", 1, 0, 1, 0), I("addreg", 2, 1, 0, 0), ExitI>>
Dead   == <<I("jeqimm", 1, 0, 0, 0), I("ja", 0, 0, 0, 1), I("mulimm", 1, 0, 0, 0), ExitI>>
Jset   == <<I("jsetimm", 1, 0, 0, 1), I("call", 0, 0, 0, 0), I("ld", 1, 10, 0, -8), ExitI>>
Loop   == <<I("movimm", 1, 0, 1, 0), I("addimm", 1, 0, 0, 0), I("jeqimm", 1, 0, 0, -2), I("call", 0, 0, 0, 0), ExitI>>
Small  == <<I("call", 0, 0, 0, 0), ExitI>>

MCSetups ==
    {Line(<<F("PrecisionCandidate", Safe, Plain, p)>>, {A(Safe, Plain), A(Safe, Fd)}, TRUE, TRUE, b, FALSE) :
        p \in {Branch, Store, Consts, Dead, Jset, Loop}, b \in {0, 3}}
    \cup
    {Line(<<F("RvSoundnessBug", Witness, Fd, Small), F("verdict-flip", Refusal, Plain, Small)>>,
          {A(Witness, KernelSkipped), A(Refusal, KernelSkipped), A(Crash, KernelSkipped)}, FALSE, FALSE, 0, t) :
        t \in BOOLEAN}
    \cup
    {Line(<<F(l, p, Plain, Small), F("SoundnessCandidate", Leak, Fd, Small)>>,
          {A(Safe, Plain), A(Safe, Other), A(Safe, KernelAnswer("EPERM"))}, TRUE, FALSE, 0, FALSE) :
        l \in {"PrecisionCandidate"}, p \in {Safe}}
    \cup {Line(<<F("RvPanic", Crash, Fd, Small)>>, {}, FALSE, FALSE, 0, FALSE),
          Line(<<F("PrecisionCandidate", Safe, Plain, Small)>>, {A(Safe, Plain)}, FALSE, FALSE, 0, FALSE),
          Line(<<>>, {}, FALSE, FALSE, 0, TRUE)}

\* A model bug whose kernel side was recorded as a rejection, reduced without
\* the kernel.
UnprivilegedSetups ==
    {Line(<<F("RvSoundnessBug", Witness, Plain, Small)>>, {A(Witness, Plain)}, FALSE, FALSE, 0, FALSE)}
JsetSetups ==
    {Line(<<F("PrecisionCandidate", Safe, Plain, Jset)>>, {A(Safe, Plain), A(Safe, Fd)}, TRUE, TRUE, 0, FALSE)}
GapSetups ==
    {Line(<<F("PrecisionCandidate", Safe, Plain, Small)>>, {A(Safe, Plain), A(Gap, Plain)}, TRUE, TRUE, 0, FALSE)}
MinusFour == -4
=============================================================================
