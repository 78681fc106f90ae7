-------------------------------- MODULE Mini --------------------------------
(***************************************************************************)
(* The mini pass (mini.rs verify_mini_core, state_eq.rs): a depth-first     *)
(* worklist of abstract states, checkpoints that prune equivalent arrivals, *)
(* branch counts that tell finished checkpoints from unfinished ones, and   *)
(* precision marks that say which scalars a checkpoint really compares.     *)
(* One step is one pop of the worklist.                                     *)
(*                                                                         *)
(* An accepted program is then run on concrete registers (concrete.rs), for *)
(* every content of the context: what acceptance promises.                  *)
(***************************************************************************)
EXTENDS MiniInsn, FiniteSets, SequencesExt

CONSTANTS
    Programs,       \* [insns, loop_heads, limits]: what the structural pass
                    \* lets by, and the limits it is explored under
    CtxBytes        \* the context bytes that concrete runs see

\* The thresholds of the code and the budgets of its caller.
LimitNames == {
    "MinInsns", "MinJumps",    \* add_new_state: 8 instructions, 2 jumps
    "BusyInsns", "BusyJumps",  \* the in-progress throttle: 100 and 20
    "ForceHistory",            \* force_new_state: 64
    "max_states", "max_steps", "max_loop_iterations",
    "MaxRun"}                  \* bound: steps of a concrete run; 0 for none

ASSUME LimitsAssumption ==
    \A p \in Programs : p.limits \in [LimitNames -> Nat]

Insns ==
    [op : {"mov", "add", "addr", "ldb", "ldx", "ldmap", "second", "ja", "jgt", "jeq", "call", "exit"},
     dst : Regs, src : Regs, imm : Nat, off : Int]

\* What the structural pass has checked (cfg.rs): no jump, call or fall
\* through leaves the program.
ASSUME ProgramsAssumption ==
    \A p \in Programs :
        /\ p.insns \in Seq(Insns) /\ p.insns # <<>> /\ p.loop_heads \subseteq Pcs(p.insns)
        /\ \A q \in Pcs(p.insns) :
              LET i == At(p.insns, q) IN
              /\ i.op \in {"ja", "jgt", "jeq", "call"} => Target(q, i) \in Pcs(p.insns)
              /\ i.op \notin {"ja", "exit"} => q + 1 \in Pcs(p.insns)

VARIABLES
    prog,      \* the program, its loop heads and limits
    live,      \* analyze(program)
    work,      \* the worklist; the last item is popped next
    cps,       \* the checkpoints
    visited,   \* the checkpoints compared at each pc, in order
    iters,     \* analyses of each loop head
    steps,     \* pops so far, also insn_processed
    jmps, prevInsn, prevJmps,
    verdict,   \* "run", "accept" or the reason for a rejection
    mach       \* the concrete run of an accepted program

counters == <<iters, steps, jmps, prevInsn, prevJmps>>
vars == <<prog, live, work, cps, visited, counters, verdict, mach>>

P == prog.insns
limits == prog.limits

Item(p, st, last, hist) ==
    [pc |-> p, state |-> st, last_cp |-> last, history |-> hist]

Value(t, v) == [t |-> t, v |-> v]
Machine(at, p, regs, ret, saved, n) ==
    [at |-> at, pc |-> p, regs |-> regs, ret |-> ret, saved |-> saved,
     n |-> n]
Start(at) ==
    Machine(at, 0, [r \in Regs |-> IF r = 1 THEN Value("ctx", 0)
                                            ELSE Value("uninit", 0)],
            0, <<>>, 0)

Init ==
    /\ prog \in Programs
    /\ live = analyze(prog.insns)
    /\ work = <<Item(0, initial, 0, <<>>)>>
    /\ cps = <<>> /\ visited = [p \in Pcs(prog.insns) |-> <<>>]
    /\ iters = [p \in prog.loop_heads |-> 0]
    /\ steps = 0 /\ jmps = 0 /\ prevInsn = 0 /\ prevJmps = 0
    /\ verdict = "run" /\ mach = Start("idle")

-----------------------------------------------------------------------------
(* State equality (state_eq.rs)                                             *)

scalar_range_within(old, new) == old.lo <= new.lo /\ new.hi <= old.hi

\* Mutant of regsafe: the ranges of precise scalars are not compared either.
regsafe_imprecise(old, new, precise) ==
    \/ old.t = "uninit"
    \/ IsScalar(old) /\ IsScalar(new)
    \/ old.t = "ctx" /\ new.t = "ctx" /\ old.lo = new.lo
    \/ old.t = "map" /\ new.t = "map" /\ scalar_range_within(old, new)
       /\ old.al \in {new.al, ALIGN_UNKNOWN}

\* The explored register being safe implies that the new one is: a scalar
\* is compared only when it was marked precise.
regsafe(old, new, precise) ==
    \/ old.t = "uninit"
    \/ IsScalar(old) /\ IsScalar(new)
       /\ (precise => scalar_range_within(old, new))
    \/ old.t = "ctx" /\ new.t = "ctx" /\ old.lo = new.lo
    \/ old.t = "map" /\ new.t = "map" /\ scalar_range_within(old, new)
       /\ old.al \in {new.al, ALIGN_UNKNOWN}

\* NOT_EXACT: live registers, and every register of the callers' frames,
\* whose scalars are never marked precise.  Return addresses do not count.
states_equal(cp, new, regs) ==
    LET old == cp.state IN
    /\ Len(old.saved) = Len(new.saved)
    /\ \A r \in regs : regsafe(old.regs[r], new.regs[r], r \in cp.precise)
    /\ \A f \in DOMAIN old.saved, r \in Regs :
          regsafe(old.saved[f].regs[r], new.saved[f].regs[r], FALSE)

\* states_maybe_looping and EXACT: the precision marks do not count.
states_identical(cp, new) ==
    /\ cp.state.regs = new.regs /\ Len(cp.state.saved) = Len(new.saved)
    /\ \A f \in DOMAIN new.saved :
          cp.state.saved[f].regs = new.saved[f].regs

-----------------------------------------------------------------------------
(* Checkpoints                                                              *)

\* The checkpoint and its ancestors; 0 is no checkpoint.
Chain(cs, last) ==
    LET up[c \in 0..Len(cs)] ==
          IF c = 0 THEN {} ELSE {c} \cup up[cs[c].parent]
    IN  up[last]

bump_branches(cs, last, delta) ==
    LET chain == Chain(cs, last) IN
    [c \in DOMAIN cs |-> IF c \in chain
                         THEN [cs[c] EXCEPT !.branches = @ + delta]
                         ELSE cs[c]]

MarkPrecise(cp, need) ==
    [cp EXCEPT !.precise = @ \cup {r \in Regs : r \in need /\ IsScalar(cp.state.regs[r])}]

\* mark_checkpoint drops every requirement, met or not, so the walk ends at
\* the nearest checkpoint; a requirement that cannot be resolved before it
\* marks every scalar of the whole chain.
mark_chain_precision(cs, last, segment, need) ==
    LET left  == BacktrackSegment(P, segment, need)
        chain == IF left = Fallback THEN Chain(cs, last) ELSE {last}
        regs  == IF left = Fallback THEN Regs ELSE left
    IN  [c \in DOMAIN cs |-> IF c \in chain THEN MarkPrecise(cs[c], regs)
                                            ELSE cs[c]]

-----------------------------------------------------------------------------
(* is_state_visited: the arrival of the popped item                         *)

\* Mutant of TopIndex: the worklist is a queue.
OldestIndex == 1

\* The worklist is a stack.
TopIndex == Len(work)

Top  == work[TopIndex]
Rest == RemoveAt(work, TopIndex)
pc   == Top.pc
insn == At(P, pc)
cleaned == clean_state(Top.state, live[pc])

compute_prune_points ==
    {p \in Pcs(P) : is_conditional_branch(At(P, p))} \cup
    {Target(p, At(P, p)) : p \in {q \in Pcs(P) : At(P, q).op = "ja"}}

List == IF pc \in compute_prune_points THEN visited[pc] ELSE <<>>

\* Mutant of InProgress: every checkpoint is taken for a finished one.
NeverInProgress(k) == FALSE

InProgress(k) == cps[List[k]].branches > 0

\* The comparisons that end the scan: a loop, or a finished equivalent state.
Stops == {k \in DOMAIN List :
            IF InProgress(k) THEN states_identical(cps[List[k]], cleaned)
            ELSE states_equal(cps[List[k]], cleaned, live[pc])}
FirstStop == CHOOSE k \in Stops : \A j \in Stops : k <= j

\* add_new_state after the first k comparisons: an unfinished checkpoint
\* turns it off while little has been processed since the last store.
AddNewState(k) ==
    /\ \/ Len(Top.history) >= limits.ForceHistory
       \/ /\ steps + 1 - prevInsn >= limits.MinInsns
          /\ jmps - prevJmps >= limits.MinJumps
    /\ ~ /\ steps + 1 - prevInsn < limits.BusyInsns
         /\ jmps - prevJmps < limits.BusyJumps
         /\ \E j \in 1..k : InProgress(j)

\* The checkpoints after n failed comparisons, and the ones to be evicted.
Missed(n) ==
    [c \in DOMAIN cps |->
       IF \E k \in 1..n : List[k] = c /\ AddNewState(k)
       THEN [cps[c] EXCEPT !.miss_cnt = @ + 1] ELSE cps[c]]
Kept ==
    LET missed == Missed(Len(List))
        keep[k \in 0..Len(List)] ==
          IF k = 0 THEN <<>>
          ELSE IF missed[List[k]].miss_cnt <= cps[List[k]].hit_cnt * 3 + 3
          THEN Append(keep[k - 1], List[k]) ELSE keep[k - 1]
    IN  keep[Len(List)]

Store == pc \in compute_prune_points /\ AddNewState(Len(List))

NewCheckpoint ==
    [state |-> cleaned, parent |-> Top.last_cp, branches |-> 0,
     hit_cnt |-> 0, miss_cnt |-> 0, segment |-> Top.history, precise |-> {}]

\* The checkpoints and the deepest one of the path once the item is let in.
Checkpoints == IF Store THEN Append(Missed(Len(List)), NewCheckpoint)
                        ELSE Missed(Len(List))
LastCp == IF Store THEN Len(cps) + 1 ELSE Top.last_cp

-----------------------------------------------------------------------------
(* Pops that end the exploration or the path before the instruction         *)

Arrives == verdict = "run" /\ work # <<>> /\ steps < limits.max_steps
Proceeds == Arrives /\ Stops = {}

Reject(why) ==
    verdict' = why
    /\ UNCHANGED <<prog, live, work, cps, visited, counters, mach>>

TooManySteps ==
    verdict = "run" /\ work # <<>> /\ steps >= limits.max_steps /\ Reject("max_steps")

InfiniteLoop ==
    /\ Arrives /\ Stops # {} /\ InProgress(FirstStop)
    /\ Reject("infinite loop")

\* Mutant of Prune: the finished checkpoint's chain loses the branch.
PruneMatched ==
    /\ Arrives /\ Stops # {} /\ ~InProgress(FirstStop)
    /\ work' = Rest /\ steps' = steps + 1
    /\ cps' = bump_branches(
                [Missed(FirstStop - 1) EXCEPT ![List[FirstStop]].hit_cnt = @ + 1],
                List[FirstStop], -1)
    /\ UNCHANGED <<prog, live, visited, iters, jmps, prevInsn, prevJmps,
                   verdict, mach>>

Prune ==
    /\ Arrives /\ Stops # {} /\ ~InProgress(FirstStop)
    /\ work' = Rest /\ steps' = steps + 1
    /\ cps' = bump_branches(
                [Missed(FirstStop - 1) EXCEPT ![List[FirstStop]].hit_cnt = @ + 1],
                Top.last_cp, -1)
    /\ UNCHANGED <<prog, live, visited, iters, jmps, prevInsn, prevJmps,
                   verdict, mach>>

\* Mutant of LoopBudgetSpent: loop heads are not counted.
NoLoopBudget == FALSE

LoopBudgetSpent ==
    pc \in prog.loop_heads /\ iters[pc] + 1 > limits.max_loop_iterations

TooManyLoops == Proceeds /\ LoopBudgetSpent /\ Reject("max loops")
TooManyStates ==
    /\ Proceeds /\ ~LoopBudgetSpent /\ Len(Checkpoints) > limits.max_states
    /\ Reject("max_states")

\* The item is within all budgets: its instruction is analyzed.
Admitted ==
    /\ Proceeds /\ ~LoopBudgetSpent /\ Len(Checkpoints) <= limits.max_states
    /\ steps' = steps + 1
    /\ visited' = [visited EXCEPT ![pc] =
                     IF pc \notin compute_prune_points THEN @
                     ELSE Kept \o IF Store THEN <<LastCp>> ELSE <<>>]
    /\ prevInsn' = IF Store THEN steps + 1 ELSE prevInsn
    /\ prevJmps' = IF Store THEN jmps ELSE prevJmps
    /\ iters' = IF pc \in prog.loop_heads THEN [iters EXCEPT ![pc] = @ + 1]
                                          ELSE iters
    /\ jmps' = IF is_control_flow(insn) THEN jmps + 1 ELSE jmps
    /\ UNCHANGED <<prog, live, mach>>

-----------------------------------------------------------------------------
(* The instruction of the popped item                                       *)

Nested == Top.state.saved # <<>>

\* The continuation after a nested exit.
Continuation ==
    Item(Top.state.ret, return_from_subprog(Top.state), Top.last_cp, <<>>)

\* Mutant of Return: the continuation is pushed but not counted.
ReturnUncounted ==
    /\ Admitted /\ insn.op = "exit" /\ Nested
    /\ work' = Append(Rest, Continuation)
    /\ cps' = bump_branches(Checkpoints, Top.last_cp, -1)
    /\ UNCHANGED verdict

\* A nested exit continues after the call, under the item's own checkpoint.
Return ==
    /\ Admitted /\ insn.op = "exit" /\ Nested
    /\ work' = Append(Rest, Continuation)
    /\ cps' = bump_branches(bump_branches(Checkpoints, Top.last_cp, 1),
                            Top.last_cp, -1)
    /\ UNCHANGED verdict

\* The program's exit: R0 must be a scalar.
ExitMain ==
    /\ Admitted /\ insn.op = "exit" /\ ~Nested /\ IsScalar(Top.state.regs[0])
    /\ work' = Rest /\ cps' = bump_branches(Checkpoints, Top.last_cp, -1)
    /\ UNCHANGED verdict

\* An exit without a return value, or an instruction that step refuses.
Refuse ==
    /\ Proceeds /\ ~LoopBudgetSpent /\ Len(Checkpoints) <= limits.max_states
    /\ IF insn.op = "exit" THEN ~Nested /\ ~IsScalar(Top.state.regs[0])
       ELSE successors(pc, insn, Top.state) = <<>>
    /\ Reject("unsafe")

\* Any other instruction: mark what it depended on, then push its successors
\* so that the taken side is popped first.
Step ==
    LET nexts  == successors(pc, insn, Top.state)
        need   == precision_regs(insn, Top.state, Len(nexts))
        marked == mark_chain_precision(Checkpoints, LastCp,
                     IF Store THEN <<>> ELSE Top.history, need)
        hist   == IF Store THEN <<pc>> ELSE Append(Top.history, pc)
    IN  /\ insn.op # "exit" /\ nexts # <<>>
        /\ work' = Rest \o Reverse([k \in DOMAIN nexts |->
                      Item(nexts[k].pc, nexts[k].state, LastCp, hist)])
        /\ cps' = bump_branches(bump_branches(marked, LastCp, Len(nexts)),
                                Top.last_cp, -1)
        /\ UNCHANGED verdict

Analyze == Admitted /\ Step

Accept ==
    /\ verdict = "run" /\ work = <<>>
    /\ verdict' = "accept" /\ mach' = Start("run")
    /\ UNCHANGED <<prog, live, work, cps, visited, counters>>

-----------------------------------------------------------------------------
(* The accepted program on concrete registers (concrete.rs).  The           *)
(* interpreter there reads 0 from the context, as one representative; here  *)
(* the context holds any byte of CtxBytes.  Map values are all zero, as     *)
(* nothing is stored into them.                                             *)

Fault(m, why) == [m EXCEPT !.at = why]
Goto(m, p)    == [m EXCEPT !.pc = p, !.n = @ + 1]
Put(m, r, v)  == [Goto(m, m.pc + 1) EXCEPT !.regs[r] = v]

\* A scalar moves a pointer; no other sum of two values exists.
concrete_alu(m, r, a, b) ==
    CASE a.t = "scalar" -> {Put(m, r, Value(b.t, a.v + b.v))}
      [] b.t = "scalar" -> {Put(m, r, Value(a.t, a.v + b.v))}
      [] OTHER          -> {Fault(m, "type")}

concrete_map_access(m, i, off) ==
    CASE off < 0 \/ off + 8 > ValueSize -> {Fault(m, "oob")}
      [] off % 8 # 0                    -> {Fault(m, "misaligned")}
      [] OTHER -> {Put(m, i.dst, Value("scalar", 0))}

concrete_load(m, i, base) ==
    CASE base.t = "map" -> concrete_map_access(m, i, base.v + i.off)
      [] base.t = "ctx" /\ i.op = "ldb" /\ base.v + i.off \in CtxFields ->
           {Put(m, i.dst, Value("scalar", x)) : x \in CtxBytes}
      [] OTHER -> {Fault(m, "type")}

\* The sides that a compare may take: a value's address is not modelled.
concrete_cond_imm(d, i) ==
    CASE d.t = "scalar" -> {IF i.op = "jgt" THEN d.v > i.imm ELSE d.v = i.imm}
      [] d.t = "map" /\ i.op = "jeq" /\ i.imm = 0 -> {FALSE}
      [] OTHER -> BOOLEAN

concrete_call(m, i) ==
    Machine("run", Target(m.pc, i),
            [r \in Regs |-> IF r \in 1..5 THEN m.regs[r] ELSE Value("uninit", 0)],
            m.pc + 1, Append(m.saved, [regs |-> m.regs, ret |-> m.ret]), m.n + 1)

concrete_return(m) ==
    LET caller == m.saved[Len(m.saved)] IN
    Machine("run", m.ret,
            [r \in Regs |-> CASE r = 0 -> m.regs[0]
                              [] r \in 1..5 -> Value("uninit", 0)
                              [] OTHER -> caller.regs[r]],
            caller.ret, SubSeq(m.saved, 1, Len(m.saved) - 1), m.n + 1)

concrete_exit(m) ==
    CASE m.saved # <<>>              -> {concrete_return(m)}
      [] m.regs[0].t = "uninit"      -> {Fault(m, "uninit")}
      [] OTHER                       -> {Fault(m, "done")}

concrete_successors(m, i) ==
    CASE i.op = "exit"  -> concrete_exit(m)
      [] i.op = "ja"    -> {Goto(m, Target(m.pc, i))}
      [] i.op = "call"  -> {concrete_call(m, i)}
      [] \E r \in use_regs(i) : m.regs[r].t = "uninit" -> {Fault(m, "uninit")}
      [] is_conditional_branch(i) ->
           {Goto(m, IF taken THEN Target(m.pc, i) ELSE m.pc + 1)
              : taken \in concrete_cond_imm(m.regs[i.dst], i)}
      [] i.op = "mov"   -> {Put(m, i.dst, Value("scalar", i.imm))}
      [] i.op = "ldmap" -> {Put(m, i.dst, Value("map", i.imm))}
      [] i.op = "second" -> {Goto(m, m.pc + 1)}
      [] i.op = "add"   -> concrete_alu(m, i.dst, m.regs[i.dst],
                                        Value("scalar", i.imm))
      [] i.op = "addr"  -> concrete_alu(m, i.dst, m.regs[i.dst], m.regs[i.src])
      [] OTHER          -> concrete_load(m, i, m.regs[i.src])

Execute ==
    /\ mach.at = "run" /\ mach.n < limits.MaxRun
    /\ mach' \in concrete_successors(mach, At(P, mach.pc))
    /\ UNCHANGED <<prog, live, work, cps, visited, counters, verdict>>

-----------------------------------------------------------------------------
Verify ==
    \/ TooManySteps \/ InfiniteLoop \/ Prune \/ TooManyLoops \/ TooManyStates
    \/ Return \/ ExitMain \/ Refuse \/ Analyze \/ Accept

Next == Verify \/ Execute

Spec == Init /\ [][Next]_vars

\* The pass is one loop of one thread.
FairSpec == Spec /\ WF_vars(Verify)

-----------------------------------------------------------------------------
(* Correctness                                                              *)

Verdicts == {"run", "accept", "max_steps", "infinite loop", "max loops",
             "max_states", "unsafe"}

\* The types.  Parents are older than their children, so that walks up the
\* parent chain end; a branch count is an unsigned number that must not pass
\* below zero (bump_branches).
TypeOK ==
    /\ verdict \in Verdicts
    /\ {steps, jmps, prevInsn, prevJmps} \subseteq Nat
    /\ \A k \in DOMAIN work :
          work[k].pc \in Pcs(P) /\ work[k].last_cp \in 0..Len(cps)
    /\ \A c \in DOMAIN cps :
          cps[c].parent \in 0..(c - 1) /\ cps[c].branches \in Nat
    /\ \A p \in Pcs(P) : visited[p] \in Seq(DOMAIN cps)

\* bump_branches: the count of a checkpoint is the number of worklist items
\* whose parent chain leads to it, through forks, prunes, calls and returns.
BranchCounts ==
    \A c \in DOMAIN cps :
        cps[c].branches =
            Cardinality({k \in DOMAIN work : c \in Chain(cps, work[k].last_cp)})

\* is_state_visited takes an identical unfinished checkpoint for an infinite
\* loop.  It is one: at every pop, the unfinished checkpoints are ancestors
\* of the item that is popped, never of a sibling path.
InProgressIsAncestor ==
    verdict = "run" /\ work # <<>> =>
        \A c \in DOMAIN cps :
            cps[c].branches > 0 => c \in Chain(cps, Top.last_cp)

\* Acceptance is sound: the abstract steps and branch refinements cover every
\* concrete run, and states_equal cuts a path only if the finished path speaks
\* for it.  A run so reads no register before it is written, leaves no map
\* value and adds or loads no wrong kind of value.
AcceptSafe == mach.at \notin {"oob", "uninit", "type"}

\* map_value_access_check lets by aligned accesses only.
AcceptAligned == mach.at # "misaligned"

\* An accepted program ends: a path that comes back to a state it has been in
\* meets an unfinished checkpoint or exhausts a loop budget, and is never
\* pruned against itself (Checkpoint.branches).
AcceptEnds ==
    mach.at = "run" /\ limits.MaxRun > 0 => mach.n < limits.MaxRun

\* Every exploration ends, and does so by a verdict about the program: the
\* loop budgets make a step limit that allows for every instruction twice a
\* mere backstop.
Decided ==
    <>(/\ verdict # "run"
       /\ verdict = "max_steps" => limits.max_steps <= 2 * Len(P))
=============================================================================
