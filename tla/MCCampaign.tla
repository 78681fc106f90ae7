----------------------------- MODULE MCCampaign -----------------------------
(* Campaigns: one program of every kind once, and two iterations of a few   *)
(* programs with kills, restarts and both modes.                            *)
EXTENDS Campaign

P(mini, reason, r, spec, id, fam, at) ==
    [mini |-> mini, reason |-> reason, run |-> r, spec |-> spec, shape |-> id, family |-> fam, at |-> at]

Specs == {"Accept", "Reject", "RejectGap", "Inconclusive"}
Results == {"fd", "EPERM", "bad_size", "no_line"} \cup DOMAIN categorize_reason
AllKernels == {KernelSkipped} \cup {KernelAnswer(r) : r \in Results}
KernelAccept == KernelAnswer("fd")

\* Every outcome of verify: an accepted program with every end of its concrete
\* run, a rejected one with every message, a decode error and a panic.
AllPrograms ==
    {P("Accept", "none", r, s, "s", "f", 0) :
        r \in AcceptRuns, s \in Specs}
    \cup {P("Reject", m, r, s, "s", "f", 1) :
        m \in DOMAIN categorize_mini_reason \ {"decode", "unsupported"},
        r \in RejectRuns, s \in Specs}
    \cup {P("Reject", m, "none", "Inconclusive", "s", "f", 0) : m \in {"decode", "unsupported"}}
    \cup {P("Panic", "none", "none", "Accept", "s", "f", 0)}

Bug      == P("Accept", "none", "uncovered", "Accept", "s1", "f1", 1)
Refusal  == P("Reject", "register", "fails", "Reject", "s2", "f1", 1)
Stuck    == P("Accept", "none", "no_exit", "Accept", "s5", "f2", 1)
Lenient  == P("Reject", "stack_slot", "clean", "Inconclusive", "s3", "f2", 2)
Panicked == P("Panic", "none", "none", "Accept", "s4", "f2", 0)

Line(mode, programs, kernels, iters, strict, tolerate, runs) ==
    [mode |-> mode, programs |-> programs, kernels |-> kernels, iters |-> iters, strict |-> strict,
     tolerate |-> tolerate, runs |-> runs]

\* Over two starts: two generated programs out of three, two of which are
\* findings of one class with other files; one of two mutants, which share a
\* name; two mutants that are both flips and findings.
MCSetups ==
    {Line("generation", AllPrograms, AllKernels, 1, s, TRUE, 1) : s \in BOOLEAN}
    \cup {Line("generation", {Bug, Refusal, Lenient, Panicked}, {KernelAccept}, 2, FALSE, FALSE, 1),
          Line("generation", {Bug, Refusal, Stuck}, {KernelAccept}, 2, FALSE, FALSE, 2),
          Line("mutation", {Bug, Refusal, Panicked}, {KernelAccept, KernelAnswer("plain")}, 2, FALSE, FALSE, 1),
          Line("mutation", {Bug, Stuck}, {KernelAccept}, 1, FALSE, FALSE, 2),
          Line("mutation", {Refusal}, {KernelAccept}, 2, FALSE, FALSE, 2)}

StrictSetups == {Line("generation", AllPrograms, AllKernels, 1, TRUE, TRUE, 1)}
PlainSetups == {Line("generation", AllPrograms, AllKernels, 1, FALSE, TRUE, 1)}

MCFixtures == <<P("Accept", "none", "clean", "Accept", "c1", "f9", 0)>>
=============================================================================
