------------------------------- MODULE Reduce -------------------------------
(***************************************************************************)
(* The reducer (fuzz/reduce/ and bin/reduce.rs): a recorded finding is      *)
(* replayed, then cycles of CFG passes, delta debugging and operand         *)
(* minimisation replace its program by smaller ones that preserve it; every *)
(* candidate goes through the memoised, budgeted oracle, and the result is  *)
(* evaluated once more before it is written.                                *)
(*                                                                          *)
(* A program is a sequence of [op, dst, src, imm, off] (positions from 1).  *)
(* What the pipeline says of a candidate is a choice, made once.            *)
(***************************************************************************)
EXTENDS Oracle, Integers, FiniteSets, SequencesExt

CONSTANTS
    Setups,     \* command lines: [findings, answers, kernel, qemu, strict, budget, tolerate]
    ImmMin, ImmMax    \* the immediates at the ends of the width

None == <<>>

Ops ==
    {"movimm", "movreg", "addimm", "addreg", "mulimm", "ld", "st", "ja", "jeqimm", "jsetimm", "call", "exit"}
Insns == [op : Ops, dst : 0 .. 10, src : 0 .. 10, imm : Int, off : Int]
Programs == Seq(Insns)
ProgramSides == [mini : STRING, reason : STRING, run : STRING, spec : STRING]
KernelSides == [side : STRING, message : STRING]

ASSUME ImmAssumption == ImmMin \in Int /\ ImmMax \in Int
ASSUME SetupsAssumption ==
    \A s \in Setups :
        /\ s.findings \in Seq([label : STRING, p : ProgramSides, k : KernelSides, prog : Programs])
        /\ \A a \in s.answers : a \in [p : ProgramSides, k : KernelSides]
        /\ s.kernel \in BOOLEAN /\ s.qemu \in BOOLEAN /\ s.budget \in Nat

-----------------------------------------------------------------------------
(* Deletion (fixup.rs).                                                     *)

\* branch_offset: the branches that are re-based.
Based(i) == i.op \in {"ja", "jeqimm"}
Target(p, pc) == pc + 1 + p[pc].off

Position(kept, i) == Cardinality({j \in kept : j <= i})

Kept(kept, k) == CHOOSE i \in kept : Position(kept, i) = k

delete_insns(p, remove) ==
    LET kept == DOMAIN p \ remove
        old(k) == Kept(kept, k)
    IN  IF \E i \in kept : Based(p[i]) /\ Target(p, i) \notin kept THEN None
        ELSE [k \in 1 .. Cardinality(kept) |->
                 IF Based(p[old(k)])
                 THEN [p[old(k)] EXCEPT !.off = Position(kept, Target(p, old(k))) - k - 1]
                 ELSE p[old(k)]]

-----------------------------------------------------------------------------
(* CFG passes (passes.rs).                                                  *)

Conditional(i) == i.op \in {"jeqimm", "jsetimm"}

successors(p, pc) ==
    DOMAIN p \cap
        (IF p[pc].op = "exit" THEN {}
         ELSE IF p[pc].op = "ja" THEN {Target(p, pc)}
         ELSE {pc + 1} \cup (IF Conditional(p[pc]) /\ Based(p[pc]) THEN {Target(p, pc)} ELSE {}))

\* Reachability from entry without one edge.
reachable(p, skip) ==
    LET R[n \in 0 .. Len(p)] ==
            IF n = 0 THEN {1}
            ELSE R[n - 1] \cup UNION {{q \in successors(p, pc) : <<pc, q>> # skip} : pc \in R[n - 1]}
    IN  R[Len(p)]

backward_reachable(p, anchor) ==
    LET B[n \in 0 .. Len(p)] ==
            IF n = 0 THEN {anchor}
            ELSE B[n - 1] \cup {pc \in DOMAIN p : successors(p, pc) \cap B[n - 1] # {}}
    IN  B[Len(p)]

Without(p, remove) == IF remove = {} THEN None ELSE delete_insns(p, remove)

dead_code(p) == Without(p, DOMAIN p \ reachable(p, <<0, 0>>))

\* Keep what leads to the anchor, and every exit (anchor 0: there is none).
slice_to_anchor(p, anchor) ==
    IF anchor \notin DOMAIN p THEN None
    ELSE Without(p, {pc \in DOMAIN p \ backward_reachable(p, anchor) : p[pc].op # "exit"})

DeadSides(p, pc) ==
    IF ~(Conditional(p[pc]) /\ Based(p[pc]) /\ Target(p, pc) \in DOMAIN p) THEN <<>>
    ELSE (IF pc + 1 \in DOMAIN p /\ pc + 1 \notin reachable(p, <<pc, pc + 1>>)
          THEN <<[p EXCEPT ![pc] = [op |-> "ja", dst |-> 0, src |-> 0, imm |-> 0, off |-> p[pc].off]]>>
          ELSE <<>>)
         \o (IF Target(p, pc) \notin reachable(p, <<pc, Target(p, pc)>>)
             THEN <<delete_insns(p, {pc})>> ELSE <<>>)
simplify_dead_side(p) == FlattenSeq([pc \in DOMAIN p |-> DeadSides(p, pc)])

\* The CFG candidates of one cycle; the third slices the program without its
\* dead code at the anchor of the program with it.
cfg_candidates(p, anchor) ==
    <<dead_code(p), slice_to_anchor(p, anchor),
      IF dead_code(p) = None THEN None ELSE slice_to_anchor(dead_code(p), anchor)>>
    \o simplify_dead_side(p)

-----------------------------------------------------------------------------
(* Operand minimisation (operand.rs).                                       *)

VALUE_POOL == <<0, 1, -1, ImmMin, ImmMax>>
Magnitude(x) == IF x < 0 THEN -x ELSE x
Patch(p, pc, insn) == [p EXCEPT ![pc] = insn]

imm_of(i) == i.op \in {"movimm", "addimm", "jeqimm", "jsetimm"}
x_form_source(i) == i.op \in {"movreg", "addreg"}
KForm == [movreg |-> "movimm", addreg |-> "addimm"]

Immediates(p, pc) ==
    IF ~imm_of(p[pc]) THEN <<>>
    ELSE [m \in 1 .. 5 |-> IF Magnitude(VALUE_POOL[m]) < Magnitude(p[pc].imm)
                           THEN Patch(p, pc, [p[pc] EXCEPT !.imm = VALUE_POOL[m]]) ELSE None]

\* apply_def: the constants known before an instruction, as sets of at most
\* one value.  A multiplication leaves its destination "known".
apply_def(known, i) ==
    CASE i.op = "movimm" -> [known EXCEPT ![i.dst] = {i.imm}]
      [] i.op = "movreg" -> [known EXCEPT ![i.dst] = known[i.src]]
      [] i.op = "call"   -> [r \in DOMAIN known |-> IF r <= 5 THEN {} ELSE known[r]]
      [] i.op \in {"ld", "addimm", "addreg"} -> [known EXCEPT ![i.dst] = {}]
      [] OTHER -> known
Known(p, pc) ==
    LET K[n \in 0 .. pc] == IF n = 0 THEN [r \in 0 .. 10 |-> {}] ELSE apply_def(K[n - 1], p[n])
    IN  K[pc - 1]

AluForms(p, pc) ==
    IF ~x_form_source(p[pc]) \/ Known(p, pc)[p[pc].src] = {} THEN <<>>
    ELSE <<Patch(p, pc, [p[pc] EXCEPT !.op = KForm[p[pc].op], !.src = 0,
                                      !.imm = CHOOSE v \in Known(p, pc)[p[pc].src] : TRUE])>>

\* mark_regs: the register a store goes through is not counted.
mark_regs(i) ==
    CASE i.op \in {"movreg", "addreg"} -> {i.dst, i.src}
      [] i.op \in {"movimm", "addimm", "mulimm", "ld", "jeqimm", "jsetimm"} -> {i.dst}
      [] i.op = "st" -> {i.src}
      [] OTHER -> {}
Used(p) == (UNION {mark_regs(p[pc]) : pc \in DOMAIN p}) \cap (1 .. 9)
Free(p) == {r \in 1 .. 9 : r \notin Used(p) /\ \E h \in Used(p) : r < h}
lowering_pair(p) == [from |-> Max(Used(p)), to |-> Min(Free(p))]
rename_reg(i, from, to) ==
    [i EXCEPT !.dst = IF @ = from THEN to ELSE @, !.src = IF @ = from THEN to ELSE @]
Lowered(p) ==
    IF Free(p) = {} THEN <<>>
    ELSE <<[pc \in DOMAIN p |-> rename_reg(p[pc], lowering_pair(p).from, lowering_pair(p).to)]>>

stack_offset(i) == i.op \in {"ld", "st"}
Offsets(p, pc) ==
    IF ~stack_offset(p[pc]) THEN <<>>
    ELSE [k \in 1 .. (Magnitude(p[pc].off) \div 8) - 1 |->
             Patch(p, pc, [p[pc] EXCEPT !.off = IF @ < 0 THEN -(8 * k) ELSE 8 * k])]

operand_candidates(p) ==
    FlattenSeq([pc \in DOMAIN p |-> Immediates(p, pc)]) \o FlattenSeq([pc \in DOMAIN p |-> AluForms(p, pc)])
        \o Lowered(p) \o FlattenSeq([pc \in DOMAIN p |-> Offsets(p, pc)])

-----------------------------------------------------------------------------
(* Replay (replay.rs) and the oracle cache (ddmin.rs).                      *)

VARIABLES
    setup,       \* the command line
    idx,         \* the finding being reduced
    phase,
    result,      \* how the last reduction ended ("idle": none yet)
    baseline,    \* the sides the replay found
    current, sides,           \* the reproducer and its sides
    queue, progress,          \* candidates of the pass; whether this cycle replaced the reproducer
    keep, n, chunk, best,     \* ddmin
    cache, checks,            \* the oracle's memory and its cost
    final,       \* what the re-check's evaluation says (NoSides: not made yet)
    written,     \* finding -> the reduced program whose artifacts are all on disk
    failed, exit

mind == <<cache, checks>>
dd   == <<keep, n, chunk, best>>
vars == <<setup, idx, phase, result, baseline, current, sides, queue, progress, dd, mind, final, written, failed, exit>>

Finding == setup.findings[idx]
With(f, k, v) == [x \in DOMAIN f \cup {k} |-> IF x = k THEN v ELSE f[x]]

NoSides == [p |-> None, k |-> None]
No      == [kind |-> "no", sides |-> NoSides]
NoBudget == [kind |-> "none", sides |-> NoSides]

\* evaluate_bytes: the kernel column is skipped without --kernel.
Evaluated(s) == [p |-> s.p, k |-> IF setup.kernel THEN s.k ELSE KernelSkipped]
\* A host kernel that gives no verdict is an error; a guest's skip is not.
Refused(s) == setup.kernel /\ ~setup.qemu /\ s.k.side = "Skipped"

is_kernel_dependent(label) ==
    label \in {"PrecisionCandidate", "SoundnessCandidate", "RvPrecisionGap", "KernelUnsoundCandidate",
               "KernelOverstrictCandidate", "Whitelisted"}

\* Recorded sides carry no surface gap.
Classification(s) == ClassifyCovered(s.p, s.k, setup.strict)

\* Invariant::preserves, of the invariant invariant_for builds.
preserves(f, s) ==
    IF f.label = "verdict-flip" THEN MiniSide(s.p) = MiniSide(f.p)
    ELSE /\ Classification(s) = f.label
         /\ f.k.side = "Reject" => s.k.side = "Reject" /\ KernelCategory(s.k) = KernelCategory(f.k)

\* load_finding and invariant_for: the categories and labels they can parse.
Parsable(f) ==
    /\ MiniCategory(f.p) # "Ref" /\ KernelCategory(f.k) # "Ref"
    /\ f.label \in (Classes \ {"RvPanic", "SurfaceGap"}) \cup {"verdict-flip"}

replay_check(f, s) ==
    IF is_kernel_dependent(f.label) /\ s.k.side = "Skipped" THEN "KernelRequired"
    ELSE IF \/ MiniSide(s.p) # MiniSide(f.p) \/ MiniCategory(s.p) # MiniCategory(f.p)
            \/ spec_side(s.p) # spec_side(f.p)
            \/ f.label # "verdict-flip" /\ Classification(s) # f.label
    THEN "ReplayMismatch"
    ELSE "ok"

budget_exhausted == setup.budget > 0 /\ checks >= setup.budget

\* The oracle closure: an evaluation that fails preserves nothing.
Judged(s) == IF preserves(Finding, s) THEN [kind |-> "yes", sides |-> s] ELSE No
\* What an evaluation of a candidate may say; the original's sides are known.
Evaluations(c) ==
    LET said == IF c = Finding.prog THEN {baseline} ELSE {Evaluated(s) : s \in setup.answers}
    IN  {Judged(s) : s \in {t \in said : ~Refused(t) /\ t.p.mini # "Panic"}}
            \cup (IF setup.kernel THEN {No} ELSE {})

\* OracleCache::check.
\* (bug) an exhausted budget is a refusal that is remembered.
AnswersBlind(c) == IF c \in DOMAIN cache THEN {cache[c]} ELSE IF budget_exhausted THEN {No} ELSE Evaluations(c)
Answers(c) ==
    IF c \in DOMAIN cache THEN {cache[c]}
    ELSE IF budget_exhausted THEN {NoBudget}
    ELSE Evaluations(c)
Remember(c, a) ==
    IF c \in DOMAIN cache \/ a.kind = "none" THEN UNCHANGED mind
    ELSE cache' = With(cache, c, a) /\ checks' = checks + 1

-----------------------------------------------------------------------------
(* The driver (driver.rs, bin/reduce.rs).                                   *)

Init ==
    /\ setup \in Setups
    /\ idx = 1 /\ phase = "next" /\ result = "idle" /\ baseline = NoSides
    /\ current = None /\ sides = NoSides /\ queue = <<>> /\ progress = FALSE
    /\ keep = {} /\ n = 2 /\ chunk = 0 /\ best = None
    /\ cache = <<>> /\ checks = 0 /\ final = NoSides /\ written = <<>> /\ failed = 0 /\ exit = -1

\* The process ends at once: a kernel verdict is required, or mini panicked.
Stop(code) == phase' = "ended" /\ exit' = code /\ result' = "failed" /\ UNCHANGED <<idx, failed>>
\* Any other error: the next finding.
GiveUp == phase' = "next" /\ result' = "failed" /\ failed' = failed + 1 /\ idx' = idx + 1 /\ UNCHANGED exit

Unparsable ==
    /\ phase = "next" /\ idx <= Len(setup.findings) /\ ~Parsable(Finding)
    /\ IF Finding.p.mini = "Panic" THEN Stop(101) ELSE GiveUp
    /\ UNCHANGED <<setup, baseline, current, sides, queue, progress, dd, mind, final, written>>

\* load_and_replay: the recorded finding is evaluated again.
load_and_replay ==
    /\ phase = "next" /\ idx <= Len(setup.findings) /\ Parsable(Finding)
    /\ \E s \in {[p |-> Finding.p, k |-> Finding.k]} \cup setup.answers :
        /\ s.p.mini # "Panic"
        /\ LET verdict == IF Refused(s) THEN "KernelRequired" ELSE replay_check(Finding, Evaluated(s))
           IN  CASE verdict = "ok" ->
                       /\ phase' = "cycle" /\ result' = "reducing"
                       /\ baseline' = Evaluated(s) /\ sides' = Evaluated(s) /\ current' = Finding.prog
                       /\ cache' = <<>> /\ checks' = 0 /\ final' = NoSides
                       /\ UNCHANGED <<idx, failed, exit>>
                 [] verdict = "KernelRequired" -> Stop(2) /\ UNCHANGED <<baseline, sides, current, mind, final>>
                 [] OTHER -> GiveUp /\ UNCHANGED <<baseline, sides, current, mind, final>>
    /\ UNCHANGED <<setup, queue, progress, dd, written>>

\* The guest does not answer for the replay.
ReplayRefused ==
    /\ phase = "next" /\ idx <= Len(setup.findings) /\ Parsable(Finding) /\ setup.kernel
    /\ Stop(2)
    /\ UNCHANGED <<setup, baseline, current, sides, queue, progress, dd, mind, final, written>>

Still == UNCHANGED <<setup, idx, result, baseline, final, written, failed, exit>>

\* (bug) progress is never reset.
StartCycleStale ==
    /\ phase = "cycle"
    /\ \E anchor \in 0 .. Len(current) : queue' = cfg_candidates(current, anchor)
    /\ phase' = "cfg"
    /\ Still /\ UNCHANGED <<progress, current, sides, dd, mind>>
\* failure_anchor is whatever verify points at (0: nothing).
StartCycle ==
    /\ phase = "cycle"
    /\ \E anchor \in 0 .. Len(current) : queue' = cfg_candidates(current, anchor)
    /\ progress' = FALSE /\ phase' = "cfg"
    /\ Still /\ UNCHANGED <<current, sides, dd, mind>>

\* An unanswered candidate is passed over.
apply(a) == a.kind = "yes"

\* A pass had nothing to propose, or it proposes the reproducer itself.
Idle(c) == c \in {None, current}
SkipCandidate ==
    /\ phase \in {"cfg", "operand"} /\ queue # <<>> /\ Idle(Head(queue))
    /\ queue' = Tail(queue)
    /\ Still /\ UNCHANGED <<phase, current, sides, progress, dd, mind>>

\* The first candidate that preserves the finding is taken.
TryCandidate ==
    /\ phase \in {"cfg", "operand"} /\ queue # <<>> /\ ~Idle(Head(queue))
    /\ \E a \in Answers(Head(queue)) :
        /\ Remember(Head(queue), a)
        /\ IF apply(a)
           THEN current' = Head(queue) /\ sides' = a.sides /\ progress' = TRUE /\ queue' = <<>>
           ELSE queue' = Tail(queue) /\ UNCHANGED <<current, sides, progress>>
    /\ Still /\ UNCHANGED <<phase, dd>>

\* ddmin checks its input, then deletes chunks at a doubling granularity.
StartDdmin ==
    /\ phase = "cfg" /\ queue = <<>>
    /\ IF Len(current) < 2
       THEN phase' = "ddmin_done" /\ best' = current /\ UNCHANGED <<keep, n, chunk, mind>>
       ELSE \E a \in Answers(current) :
                /\ Remember(current, a)
                /\ phase' = IF a.kind = "yes" THEN "ddmin" ELSE "ddmin_done"
                /\ keep' = DOMAIN current /\ n' = 2 /\ chunk' = 0 /\ best' = current
    /\ Still /\ UNCHANGED <<current, sides, queue, progress>>

div_ceil(a, b) == (a + b - 1) \div b
Candidate == {i \in keep : (Position(keep, i) - 1) \div div_ceil(Cardinality(keep), n) # chunk}
Looping == Cardinality(keep) >= 2 /\ ~budget_exhausted

\* A chunk that is empty or that a jump needs is passed over.
SkipChunk ==
    /\ phase = "ddmin" /\ (chunk = 0 => Looping) /\ chunk < n
    /\ Candidate # keep => delete_insns(current, DOMAIN current \ Candidate) = None
    /\ chunk' = chunk + 1
    /\ Still /\ UNCHANGED <<phase, current, sides, queue, progress, keep, n, best, mind>>

TryChunk ==
    /\ phase = "ddmin" /\ (chunk = 0 => Looping) /\ chunk < n
    /\ LET candidate == delete_insns(current, DOMAIN current \ Candidate) IN
       /\ Candidate # keep /\ candidate # None
       /\ \E a \in Answers(candidate) :
            /\ Remember(candidate, a)
            /\ CASE a.kind = "yes" ->
                       /\ keep' = Candidate /\ best' = candidate
                       /\ n' = Max({n - 1, 2}) /\ chunk' = 0 /\ UNCHANGED phase
                 [] a.kind = "no" -> chunk' = chunk + 1 /\ UNCHANGED <<phase, keep, n, best>>
                 [] a.kind = "none" -> phase' = "ddmin_done" /\ UNCHANGED dd
    /\ Still /\ UNCHANGED <<current, sides, queue, progress>>

\* (bug) the granularity stops one step early.
FinestEarly == 2 * n >= Cardinality(keep)
Finest == n >= Cardinality(keep)

\* No chunk could go: a finer granularity, or the end.
Refine ==
    /\ phase = "ddmin" /\ chunk = n
    /\ IF Finest THEN phase' = "ddmin_done" /\ UNCHANGED <<n, chunk>>
       ELSE n' = Min({2 * n, Cardinality(keep)}) /\ chunk' = 0 /\ UNCHANGED phase
    /\ Still /\ UNCHANGED <<current, sides, queue, progress, keep, best, mind>>

\* The loop condition fails: one instruction is left or the budget is spent.
LeaveDdmin ==
    /\ phase = "ddmin" /\ chunk = 0 /\ ~Looping
    /\ phase' = "ddmin_done"
    /\ Still /\ UNCHANGED <<current, sides, queue, progress, dd, mind>>

StartOperand ==
    /\ phase = "ddmin_done"
    /\ current' = best
    /\ sides' = IF best = current THEN sides ELSE cache[best].sides
    /\ progress' = (progress \/ best # current)
    /\ queue' = operand_candidates(best)
    /\ phase' = "operand"
    /\ Still /\ UNCHANGED <<dd, mind>>

\* A cycle without progress is the fixpoint.
EndCycle ==
    /\ phase = "operand" /\ queue = <<>>
    /\ phase' = IF progress THEN "cycle" ELSE "recheck"
    /\ Still /\ UNCHANGED <<current, sides, queue, progress, dd, mind>>

\* The reproducer's evaluations after the fixpoint: what runs on the host says
\* the same again, the kernel need not.
Reevaluations ==
    {t \in {[p |-> sides.p, k |-> k] :
                k \in {sides.k} \cup (IF setup.kernel THEN {KernelSkipped} \cup {s.k : s \in setup.answers} ELSE {})} :
        ~Refused(t)}

\* (bug) what the passes saw is taken for granted.
RecheckSkipped ==
    /\ phase = "recheck" /\ phase' = "write"
    /\ UNCHANGED <<setup, idx, result, baseline, current, sides, queue, progress, dd, mind, final, written, failed, exit>>
\* The mandatory final re-check: the reproducer is evaluated once more, past
\* the cache and the budget.
Recheck ==
    /\ phase = "recheck"
    /\ \E s \in Reevaluations :
        /\ final' = s
        /\ IF preserves(Finding, s)
           THEN phase' = "write" /\ UNCHANGED <<idx, result, failed, exit>>
           ELSE GiveUp
    /\ UNCHANGED <<setup, baseline, current, sides, queue, progress, dd, mind, written>>

\* The kernel gives no verdict for the final evaluation.
RecheckRefused ==
    /\ phase = "recheck" /\ setup.kernel
    /\ Stop(2)
    /\ UNCHANGED <<setup, baseline, current, sides, queue, progress, dd, mind, final, written>>

write_artifacts ==
    /\ phase = "write"
    /\ written' = With(written, idx, current)
    /\ phase' = "next" /\ result' = "confirmed" /\ idx' = idx + 1
    /\ UNCHANGED <<setup, baseline, current, sides, queue, progress, dd, mind, final, failed, exit>>

\* One of the files cannot be written; the others stay, without a report.
WriteFails ==
    /\ phase = "write" /\ GiveUp
    /\ UNCHANGED <<setup, baseline, current, sides, queue, progress, dd, mind, final, written>>

\* mini panics on a candidate: nothing catches it here.
Evaluating == phase \in {"cfg", "operand", "ddmin"} /\ ~budget_exhausted
Panics ==
    /\ Evaluating /\ \E s \in setup.answers : s.p.mini = "Panic"
    /\ phase # "ddmin" => queue # <<>> /\ ~Idle(Head(queue))
    /\ Stop(101)
    /\ UNCHANGED <<setup, baseline, current, sides, queue, progress, dd, mind, final, written>>

Finish ==
    /\ phase = "next" /\ idx > Len(setup.findings)
    /\ phase' = "ended"
    /\ exit' = IF setup.findings = <<>> \/ (failed > 0 /\ ~setup.tolerate) THEN 1 ELSE 0
    /\ UNCHANGED <<setup, idx, result, baseline, current, sides, queue, progress, dd, mind, final, written, failed>>

Next ==
    \/ Unparsable \/ load_and_replay \/ ReplayRefused \/ StartCycle \/ SkipCandidate \/ TryCandidate \/ StartDdmin
    \/ SkipChunk \/ TryChunk \/ Refine \/ LeaveDdmin \/ StartOperand \/ EndCycle
    \/ Recheck \/ RecheckRefused \/ write_artifacts \/ WriteFails \/ Panics \/ Finish

Spec == Init /\ [][Next]_vars /\ WF_vars(Next)
-----------------------------------------------------------------------------
(* Properties.                                                              *)

Phases == {"next", "cycle", "cfg", "ddmin", "ddmin_done", "operand", "recheck", "write", "ended"}

\* The driver's state keeps its types: ddmin's best is the reproducer without
\* what keep leaves out, and the budget is never overrun.
TypeOK ==
    /\ phase \in Phases /\ result \in {"idle", "reducing", "confirmed", "failed"}
    /\ exit \in {-1, 0, 1, 2, 101} /\ failed \in 0 .. Len(setup.findings)
    /\ setup.budget > 0 => checks <= setup.budget
    /\ checks = Cardinality(DOMAIN cache)
    /\ phase = "ddmin" =>
        /\ keep \subseteq DOMAIN current /\ chunk \in 0 .. n
        /\ best = IF keep = DOMAIN current THEN current ELSE delete_insns(current, DOMAIN current \ keep)

\* What a pass makes smaller: the program, or else instructions of it, each
\* of which loses its condition, or its register operand, or gets lower
\* registers, a smaller immediate or a smaller stack offset.
Burden(i) ==
    <<IF Conditional(i) THEN 1 ELSE 0, IF x_form_source(i) THEN 1 ELSE 0, i.dst + i.src,
      Magnitude(i.imm), IF stack_offset(i) THEN Magnitude(i.off) ELSE 0>>
Lower(i, j) ==
    \E k \in 1 .. 5 : Burden(i)[k] < Burden(j)[k] /\ \A m \in 1 .. k - 1 : Burden(i)[m] = Burden(j)[m]
Lighter(p, q) ==
    \/ Len(p) < Len(q)
    \/ /\ Len(p) = Len(q) /\ p # q
       /\ \A pc \in DOMAIN p : p[pc] = q[pc] \/ Lower(p[pc], q[pc])

Preserving == {p \in DOMAIN cache : cache[p].kind = "yes"}
\* The reproducer passed the re-check.
Checked == result = "reducing" /\ final # NoSides /\ preserves(Finding, final)
Reduction == INSTANCE Shrink WITH
    Originals <- UNION {{f.prog : f \in Range(s.findings)} : s \in Setups},
    Smaller <- Lighter,
    prog <- current,
    known <- Preserving \cup (IF result = "confirmed" THEN {current} ELSE {}),
    checked <- Checked,
    handed <- Range(written),
    status <- result

\* The reducer implements Shrink: whatever the passes propose and however
\* evaluations, budgets and errors fall, the reproducer only gets lighter, by
\* programs the oracle saw to preserve the finding, and what is written is the
\* reproducer of a reduction whose re-check, made after its last replacement,
\* found that it still preserves the finding.
Shrinks == Reduction!Spec

\* "1-minimal with respect to single-insn deletion when the budget allows"
\* (ddmin.rs): what is about to be written has no instruction whose removal
\* the oracle did not refuse, unless the removal would break a jump.  (A
\* reproducer whose own check failed is not delta-debugged at all.)
OneMinimal ==
    phase = "write" /\ ~budget_exhausted /\ Len(current) >= 2 /\ cache[current].kind = "yes" =>
        \A i \in DOMAIN current :
            LET d == delete_insns(current, {i}) IN d # None => d \in DOMAIN cache /\ cache[d].kind = "no"

\* The cycle of passes reaches its fixpoint, for every finding and whatever
\* the oracle says: the reducer ends.
Terminates == <>(phase = "ended")

\* A finding that depends on the kernel is not given up because the kernel is
\* not asked: rv-soundness bugs and verdict flips "reduce unprivileged with
\* mini + concrete only" (is_kernel_dependent, replay.rs).  Once replayed,
\* such a finding passes its own final re-check.
ReducesUnprivileged ==
    phase = "recheck" /\ ~is_kernel_dependent(Finding.label) => preserves(Finding, sides)

\* A deletion re-bases "every BPF_JMP offset" and never silently reinterprets
\* one (fixup.rs): every jump that is left goes where it went.
Jump(i) == i.op \in {"ja", "jeqimm", "jsetimm"}
TargetsKept ==
    phase = "ddmin" =>
        \A k \in DOMAIN best :
            Jump(best[k]) /\ Target(best, k) \in DOMAIN best =>
                Kept(keep, Target(best, k)) = Target(current, Kept(keep, k))

\* "a gap is never a recorded finding" (replay.rs): the campaign would call
\* the reduced program what it called the original.
StaysFinding ==
    phase = "write" /\ Finding.label \in Findings => classify(final.p, final.k, setup.strict) = Finding.label
=============================================================================
