------------------------------- MODULE Oracle -------------------------------
(***************************************************************************)
(* The classification of one program (fuzz/oracle.rs, diff.rs): what       *)
(* BpfVerifierEnv::verify leaves behind (env.rs), the surface the models    *)
(* do not cover, the whitelist and the precedence of the findings.          *)
(*                                                                          *)
(* A program is a record of what the components would say of it:            *)
(*   mini    "Accept", "Reject" or "Panic"                                  *)
(*   reason  the kind of mini's message ("none" unless it rejected)         *)
(*   run     how the concrete run ended ("none": there was no run)          *)
(*   spec    the independent specification's verdict                        *)
(* and a kernel answer is [side, message].                                  *)
(***************************************************************************)
EXTENDS Naturals

\* A message stands for the family of wordings its category is read from.
categorize_mini_reason ==
    [unreachable |-> "Unreachable", boundary |-> "CfgJump", register |-> "UninitRead",
     stack_slot |-> "UninitRead", indirect_read |-> "UninitRead", corrupt_fill |-> "UninitRead",
     misaligned |-> "StackAlign", arithmetic |-> "PointerArith", stack_range |-> "StackBounds",
     at_exit |-> "ExitR0", complexity |-> "Complexity", infinite_loop |-> "Loop",
     reference |-> "Ref", unknown_kfunc |-> "Ref", unknown_helper |-> "HelperArgs",
     ctx_access |-> "Other", decode |-> "Other", unsupported |-> "Other"]

\* The kernel's messages.
categorize_reason ==
    [plain |-> "Other", not_root |-> "StackBounds", invalid_read |-> "UninitRead",
     infinite_loop |-> "Loop"]

\* parse_verifier_log and load_with_level_typed: the outcome of the load.
load_with_level_typed(result) ==
    CASE result = "fd"       -> [outcome |-> "Accept", message |-> "none"]
      [] result = "EPERM"    -> [outcome |-> "Privilege", message |-> "none"]
      [] result = "bad_size" -> [outcome |-> "InvalidProgram", message |-> "none"]
      [] result = "no_line"  -> [outcome |-> "NoErrorLine", message |-> "none"]
      [] OTHER               -> [outcome |-> "Reject", message |-> result]

\* kernel_side_of: the campaign's side and the line kept for kernel.log.
kernel_side_of(o) ==
    CASE o.outcome = "Accept" -> [side |-> "Accept", message |-> "none"]
      [] o.outcome = "Reject" -> [side |-> "Reject", message |-> o.message]
      [] OTHER                -> [side |-> "Skipped", message |-> o.outcome]

KernelAnswer(result) == kernel_side_of(load_with_level_typed(result))
KernelSkipped == [side |-> "Skipped", message |-> "none"]   \* no kernel column

\* verify: how the concrete run of an accepted program may end, and
\* reject_with_cross_check: that of a rejected one.
AcceptRuns == {"clean", "inconclusive", "no_exit", "uncovered", "fails", "unsupported"}
RejectRuns == {"clean", "inconclusive", "no_exit", "fails", "unsupported"}

\* verify: the report of the concrete run.  A decode error has none.
ConcreteVerdict(p) ==
    CASE p.run = "none"         -> "Inconclusive"   \* classify_env: no report
      [] p.run = "inconclusive" -> "Inconclusive"
      [] p.run = "clean"        -> "Safe"
      [] OTHER                  -> "Unsafe"          \* fails, unsupported, uncovered, no_exit

\* concrete_report_text: whether there is anything to say.
HasReportText(p) ==
    \/ p.run \in {"inconclusive", "fails", "unsupported", "uncovered"}
    \/ p.mini = "Reject" /\ p.run # "none"           \* the reject note

\* surface_gap_kind of a message.
IsGapMessage(reason) == reason \in {"unknown_helper", "unknown_kfunc", "ctx_access", "unsupported"}

\* classify_env_with_gap: the concrete failure, mini's message, the spec's.
SurfaceGap(p) ==
    \/ p.run = "unsupported"
    \/ IsGapMessage(p.reason)
    \/ p.spec = "RejectGap"

spec_side(p) == IF p.spec = "RejectGap" THEN "Reject" ELSE p.spec

MiniCategory(p) == IF p.mini = "Reject" THEN categorize_mini_reason[p.reason] ELSE "none"
KernelCategory(k) == IF k.side = "Reject" THEN categorize_reason[k.message] ELSE "none"

\* The whitelist's fingerprints; all are about programs the kernel accepts.
\* (The fourth one knows two corpus fixtures by name; no campaign program has
\* such a name.)
privileged_stack_leniency(p) ==
    MiniCategory(p) = "UninitRead" /\ p.reason \in {"stack_slot", "indirect_read"}
Fingerprints(p, k) ==
    IF k.side # "Accept" THEN {}
    ELSE {f \in {"mini-complexity-budget", "privileged-uninit-stack", "privileged-r0-pointer-exit"} :
            CASE f = "mini-complexity-budget"     -> MiniCategory(p) = "Complexity"
              [] f = "privileged-uninit-stack"    -> privileged_stack_leniency(p)
              [] f = "privileged-r0-pointer-exit" -> MiniCategory(p) = "ExitR0"}
whitelisted(p, k) == Fingerprints(p, k) # {}

\* classify where the concrete run is unsafe.
ClassifyUnsafe(p, k) ==
    IF p.mini = "Accept" THEN "RvSoundnessBug"
    ELSE IF k.side # "Accept" THEN "Agree"
    ELSE IF whitelisted(p, k) THEN "Whitelisted"
    ELSE "SoundnessCandidate"

\* classify where it is safe and the kernel rejects.
ClassifyKernelRejects(p, k, strict) ==
    IF p.mini = "Reject" \/ (strict /\ k.message \in {"not_root", "invalid_read"}) THEN "Whitelisted"
    ELSE IF spec_side(p) = "Accept" THEN "KernelOverstrictCandidate"
    ELSE "PrecisionCandidate"

\* classify where it is safe and the kernel accepts.
ClassifyKernelAccepts(p, k) ==
    IF p.mini = "Accept" /\ spec_side(p) # "Reject" THEN "Agree"
    ELSE IF whitelisted(p, k) THEN "Whitelisted"
    ELSE IF spec_side(p) = "Reject" THEN "KernelUnsoundCandidate"
    ELSE "RvPrecisionGap"

\* (bug) the spec's judgement outranks the concrete witness.
classify_spec_first(p, k, strict) ==
    IF SurfaceGap(p) THEN "SurfaceGap"
    ELSE IF spec_side(p) = "Reject" /\ k.side = "Accept" THEN "KernelUnsoundCandidate"
    ELSE IF ConcreteVerdict(p) = "Unsafe" THEN ClassifyUnsafe(p, k)
    ELSE "Agree"

\* classify, in its order of precedence, once the surface is covered.
ClassifyCovered(p, k, strict) ==
    LET concrete == ConcreteVerdict(p) IN
    IF concrete = "Inconclusive" THEN "Inconclusive"
    ELSE IF concrete = "Unsafe" THEN ClassifyUnsafe(p, k)
    ELSE IF k.side = "Skipped" THEN "Skipped"
    ELSE IF k.side = "Reject" THEN ClassifyKernelRejects(p, k, strict)
    ELSE ClassifyKernelAccepts(p, k)

\* A gap outranks every verdict.
classify(p, k, strict) == IF SurfaceGap(p) THEN "SurfaceGap" ELSE ClassifyCovered(p, k, strict)

\* run_program: a panic is a finding of its own.
Classified(p, k, strict) == IF p.mini = "Panic" THEN "RvPanic" ELSE classify(p, k, strict)

Findings ==
    {"PrecisionCandidate", "KernelUnsoundCandidate", "KernelOverstrictCandidate",
     "SoundnessCandidate", "RvPrecisionGap", "RvSoundnessBug", "RvPanic"}
Classes == Findings \cup {"Agree", "Whitelisted", "SurfaceGap", "Inconclusive", "Skipped"}

\* mini's side as the campaign records it.
MiniSide(p) ==
    CASE p.mini = "Accept" -> "ACCEPT" [] p.mini = "Reject" -> "REJECT" [] OTHER -> "SKIPPED"
=============================================================================
