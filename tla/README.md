# A TLA+ development for rand-verifier

rand-verifier is a differential fuzzer for the Linux eBPF verifier. It
generates programs, asks several *columns* for a verdict (its own mini
verifier with a concrete interpreter, a second specification runner, a real
kernel in a qemu guest), and reports programs on which the columns disagree.
This directory models the way of a program through it: how it is made, decoded
and checked, what the mini verifier knows of its registers, memory and
references, in which order paths are explored and dropped, how the kernel is
asked, how the verdicts are classified and recorded, and how a finding is
reduced.

## Inventory

| part | source (under `src/src/`) | state | operations | hard behaviour | what makes it correct |
|---|---|---|---|---|---|
| kernel column | `fuzz/qemu.rs`, `bin/agent.rs`, `src/tools/qemu*` | files on a share, pending queries, guest script position | `ask`, `flush`, `Drop`; write, wait, retry, read; poll, run, report | two machines on one directory, deadlines, retries, killed processes | a query gets the verdict on its own bytes in its own mode, and gets one |
| mini verifier | `mini.rs`, `state_eq.rs`, `liveness.rs` | worklist, checkpoints, branch counts, precision marks, budgets | pop, compare, prune, store, evict, analyze | order of exploration, what counts as finished, what a comparison may ignore | accepted programs are safe; every exploration ends |
| scalars | `tnum.rs`, `state.rs`, `exec.rs` | ranges, known bits and link ids of registers | ALU, loads, copies, compares | ends of ranges, both widths, linked registers | every concrete word is covered, no taken side is skipped |
| memory | `exec.rs`, `state.rs` | bytes, spills and frames | stores, loads, atomics, helper buffers, calls | variable offsets, partial writes, frames that end | bytes and registers stand for the run's |
| references | `exec.rs`, `helper.rs` | references held, aliases in all frames | reserve, submit, lookup, NULL check, exit | reused ids, aliases that are forgotten | no use after release, no leak |
| concrete interpreter | `concrete.rs` | concrete registers and memory | `run_concrete`, coverage check | seeds, budgets | executes what the verifier accepts |
| front end | `insn.rs`, `cfg.rs`, `env.rs`, `fuzz/generator.rs`, `fuzz/idiom.rs`, `fuzz/mutator.rs`, `fuzz/insn_lib.rs` | slots, instructions, subprograms, colours of the search | generate, mutate, encode, decode, structural checks | jumps between halves, call chains, cycles | executions stay inside; loop heads cut every cycle |
| oracle | `fuzz/oracle.rs`, `diff.rs` | none | classify a tuple of verdicts | precedence, inconclusive columns, whitelists | blame rests on evidence |
| campaign | `bin/fuzz.rs`, `fuzz/triage.rs`, `fuzz/novelty.rs` | pool, counters, novelty map, artifacts | pick, mutate, run, save, group, summarise | kills between files, restarts, caps | counters agree, artifacts are complete |
| reducer | `fuzz/reduce/`, `bin/reduce.rs` | reproducer, cache, budget | replay, passes, ddmin, operands, re-check | stale cache, budget in mid-pass, jumps over deletions | the finding is kept; the result is minimal; it ends |
| specification runner, SMT, kernel runner, tools | `spec/`, `smt/`, `krun.rs`, `klog.rs`, `bin/` | - | - | - | not modelled, see below |

The campaign makes a program, gives it to the mini verifier, the concrete
interpreter, the specification runner and (through `QemuBatch`) the kernel,
classifies the verdicts, saves a disagreement and groups it; the reducer asks
the columns again. The mini verifier's verdict is what the kernel's is compared
with, so an unsound step or prune shows up as a false disagreement or hides a
true one. The columns share no state besides the share directory.

## Modules

| module | models | uses |
|---|---|---|
| `QemuShare` | the kernel column: host caller and worker, share, guest init, script, agent | - |
| `QemuShareProofs` | its inductive invariant; types, verdicts of one's own bytes | `QemuShare` |
| `QemuOwnerProofs` | one host process on the share: mode of the verdicts, no stranded query | `QemuShareProofs` |
| `MiniInsn`, `Mini` | one instruction for the exploration; the worklist, and accepted programs on concrete registers | - |
| `MiniProofs` | types, branch counts, ancestors of the exploration | `Mini` |
| `Scalars`, `ScalarOps`, `ScalarRun` | tnums and ranges; operations, compares and links on them; runs of both sides | one on the other |
| `Memory` | stack bytes, spills, map values and frames on both sides | - |
| `MemoryProofs` | types, no pointer into a frame that has ended | `Memory` |
| `Refs` | references and nullable pointers on both sides | - |
| `RefsProofs` | types, coverage, no fault | `Refs` |
| `Frontend` | from generator, mutator or file to the checked program | - |
| `FrontendProofs` | types, decoding and encoding, loop heads, executions of accepted programs, generated programs and mutants | `Frontend` |
| `Oracle` | the verdicts of the columns and their classification | - |
| `Campaign` | the fuzzing process and its files | `Oracle` |
| `CampaignProofs` | types, evidence, pool, artifacts and counters | `Campaign` |
| `Reduce` | the reducer | `Oracle`, refines `Shrink` |
| `ReduceProofs` | types, minimality, the refinement of `Shrink` | `Reduce` |
| `Shrink` | what a reduction promises | - |
| `MC*` | instances | their module |

`Campaign` and `Reduce` compose with `Oracle` by using the same `classify`.
`QemuShare` shows what they take for granted of the kernel column: an answer is
about the program asked, or it is no verdict. `Frontend` shows what `Mini` takes
for granted of its input: pcs inside the program, loop heads that cut every
cycle. `ScalarRun`, `Memory` and `Refs` each run one domain of `exec.rs` in lock
step with `concrete.rs`; `Mini` explores with a small slice of all of them.

A definition that begins with a comment "Mutant of" or "(bug)" is a plausible
mistake in the definition after it; no specification uses it. Each property is
violated when the mistake named for it in `PROJECT.json` is put in.

## The kernel column: `QemuShare`

### The system

`src/src/fuzz/qemu.rs` answers `ask(name, bytes)` by handing the program to a
qemu guest through a 9p share, and reading the guest kernel's verdict back.
Four actors touch the share:

| actor | code | in the model |
|---|---|---|
| caller | `QemuBatch::{ask, flush}`, `Drop` | `client`, `prog`, `resp`, `mode`, `connected`; actions `Ask`, `AskReturns`, `CallFlush`, `Drop` |
| worker thread | `qemu_worker`, `flush_batch`, `write_batch`, `wait_for_results` | `hpc`, `chan`, `pending`, `batch`, `todo`, `wname`, `round`, `parsed`; one action per file operation |
| guest init | `tools/qemu/initramfs/init` | `gpc`; `TestRunsh`, `TestReady`, `TestDone`, `StartScript`, `Reboot` |
| guest script and agent | `QEMU_RUN_SCRIPT`, `src/bin/agent.rs` | `gtodo`, `gname`, `glive`, `gtext`, `gstrict`; `ReadStrict` ... `TouchDone` |

The share is `job` and `out` (a content for every name), `manifest`, and
`files` (which of `run.sh`, `batch-ready`, `batch-done`, `strict` exist). A
verdict is a record of the program it is about and the privilege mode it was
taken in; whether the kernel accepts is never looked at by this code, so it is
left out. Everything else an agent may print is `Infra`, and
`parse_agent_verdict` (`Parse`) turns it into `Skipped`.

Steps are as small as the file system makes them. A job file is created empty
and filled later; the shell truncates the result file before the agent reads
the job; a result file that was unlinked while the guest holds it open swallows
what the guest prints (`glive`); the guest's three marker tests are three steps.
The host process can be killed between any two steps and started again on the
same share with the same names (`HostRestart`: `qemu-campaign.sh --keep-guest`
without a share reset), and the guest can be rebooted at any time.

Abstractions: `clear_dir` is one step although it unlinks one file after the
other; the deadline test of `wait_for_results` and the computation of the
missing names are one step; `ask` takes `&mut self` and blocks, so at most one
query is in flight and the batch never fills up in one process, as in the code.
Operations whose result the code ignores (`let _ = fs::remove_file(..)`, the
`strict` marker) are assumed to succeed; the ones it checks may fail
(`CannotCreateDirs`, `WriteFailsFirst`, `WriteFailsRetry`).

### Runs

| run | instance | result |
|---|---|---|
| `qemu_safe` | 2 names, 2 programs, both modes, one restart of the host process on the same share; every deadline, failing write and reboot | `TypeOK`, `VerdictMode`, `ConsumedHasResult`, `VerdictIntegrity` hold |
| `qemu_live` | 1 process, one name | `AskAnswered`, `DropJoins` hold |

`VerdictIntegrity` says that a verdict returned by `ask` is one about the bytes
of that very query. `ConsumedHasResult` says that a job the guest has consumed
has left a result. A query is still `Skipped` after a deadline, after a failing
write (`FailAll`), and by a result that is no verdict (`Infra`: an agent that fails
or was stopped by its timeout), but never because a job went without being run.
`VerdictMode` says that the verdict was taken in the mode of this process. It
needs `strict` to be written by this process before the guest reads it, and is
asked of a process that was not preceded by another one.

Two names and two programs are enough for a result of one query to be taken for
another's; one restart is enough for files to be left over, and the proof covers
any number. Two rounds are what the code does (one retry). `qemu_live` has one
name and so one query: every wait of one flush is in it, but not a second flush
that a late `touch batch-done` holds up (`QemuNextFlushPasses.cfg` shows that
wait).

*Fairness.* `AskAnswered` and `DropJoins` assume weak fairness of the worker
thread's steps and of the reply's delivery: the operating system schedules host
threads, and every wait of the worker has a deadline. Nothing is assumed of the
guest, which may hang, reboot for ever or never start.

### Proofs

`QemuShareProofs` proves, for all sets of names and programs, and any number of
restarts:

* `TypeCorrect`: `Spec => []TypeOK`;
* `VerdictsAreTheQuerys`: `Spec => []VerdictIntegrity`.

`VerdictIntegrity` is not inductive: a stale result on the share would be read
next. `IInv` is `TypeOK /\ Control /\ Fresh`. `Control` relates the worker's
program counter to the batch, the query and the client. `Fresh` follows a
program's bytes around the circle: a job file holds the current query's bytes
once the host has rewritten the share in this flush (`JobsFresh`), a result
file speaks of them (`OutFresh`), and so does whatever the agent has read and
not yet printed into a file that is still linked (`AgentFresh`), and what the
worker has parsed (`ReplyFresh`). The order of `write_batch` (manifest emptied,
then `out/` cleared, then jobs written) is what makes these hold across a
restart: a script of the previous process that still runs either holds an
unlinked result file or finds no job. Typing and freshness are proved action by
action (`TypingStep`, `FreshStep`). The assumptions are the ones named in
`QemuShare`.

`QemuOwnerProofs` adds, under the same assumptions,

* `VerdictsOfTheMode`: `Spec => []VerdictMode`;
* `NoQueryStranded`: `Spec => []ConsumedHasResult`.

Both properties speak of a process that was not preceded by another one, so the
invariant is `OwnerInv == restarts = 0 => Owner`, and `Owner` has four parts.
`ModeKept` follows the mode from the `strict` marker through the guest's shell
variable, the agent's text and the result file to the reply; it starts because
the marker is set before `run.sh` exists for the first time. `NotStranded` says
that a pending name which is not waiting to be written has its job file or its
result, because the guest opens the result file before it removes the job. It
would break if the host emptied `out/` under a script that is still at one of
the names; `NamesFresh` rules that out (a process uses a name once, so no
manifest lists a name before its own flush) and `Rounds` says which names the
worker still has to write in each round.

Only model-checked: the two liveness properties, out of the prover's reach.

## The mini verifier: `MiniInsn` and `Mini`

`verify_mini_core` pops arrivals from a stack. At a prune point (a conditional
jump or the target of an unconditional one) it compares the arrival, cleaned of
dead registers, with the checkpoints stored there. An identical unfinished one
is an infinite loop. A finished one that is at least as general prunes the path.
Otherwise the arrival may be stored, and its instruction is analyzed. Whether a
checkpoint is finished is counted in `branches` along the parent chain; which
scalars matter in a comparison is marked by `mark_chain_precision`, backward
from the instructions whose outcome depended on them.

One action is one pop: `TooManySteps`, `InfiniteLoop`, `Prune`, `TooManyLoops`,
`TooManyStates`, `Return` (nested exit), `ExitMain`, `Refuse`, `Analyze` (all
other instructions), and `Accept` when the stack is empty. A comparison with the
whole list is one expression: `Stops` are the comparisons that end the scan,
`Missed` the miss counts after it, `Kept` what eviction leaves, and
`AddNewState(k)` the storing heuristic after `k` comparisons, which an unfinished
checkpoint may turn off. After `Accept` the program runs on concrete registers
(`Execute`).

| code | model |
|---|---|
| `worklist: Vec<WorkItem>` | `work`; the last item is popped |
| `checkpoints`, `visited` | `cps`, `visited`; index 0 stands for `None` |
| `Checkpoint.state` with `precise` flags | `state` and the set `precise` |
| `steps`, `insn_processed` | `steps` (they are always equal) |
| `jmps_processed`, `prev_*` | `jmps`, `prevInsn`, `prevJmps` |
| `loop_iters` | `iters` |
| `VerifierState` | `regs`, `ret`, `saved` |
| storing thresholds 8, 2, 100, 20, 64 and `VerifierLimits` | `prog.limits` |

Abstractions. A scalar is one interval of naturals; for the modelled
instructions all values are small and non-negative, where the ranges of
`ScalarBounds` agree (the full domain is in `Scalars`). Left out: stack slots,
linked scalars and references in the comparison of states, and the recording of
analyzed states. A map load is always eight bytes wide, as in
`map_value_access_check`. `concrete.rs` reads 0 from the context as a
representative; here a run reads any byte of `CtxBytes`.

*Runs.* Programs are not enumerated blindly: most would be refused at once. A
family is a skeleton that the structural pass accepts, with several instructions
open (`MCMini`): `LoopPrograms`, `FencePrograms` (compares that fence in an
offset), `CallPrograms` and `TwoCallPrograms` (subprograms, nested and in loops),
`LadderPrograms` (a checkpoint on every rung), `PrunePrograms` (two paths that
meet at a checkpoint with different values). `mini_sound` explores 178 of them
under `TightLimits` or `FewSteps` (low storing thresholds and small budgets, so
that short programs store, evict and run into limits) and 266 under `CodeLimits`,
the code's thresholds, and executes the accepted ones of these.

| property | says |
|---|---|
| `BranchCounts` | a checkpoint's count is the number of worklist items below it |
| `InProgressIsAncestor` | what is reported as an infinite loop is one |
| `Decided` | every exploration ends, and not by the step limit if that allows for every instruction twice |
| `AcceptSafe` | an accepted program leaves no map value, reads no register before it is written, mixes no kinds of values |
| `AcceptEnds` | it ends within `MaxRun` steps |

`mini_chain` shows `AcceptSafe` violated for one program: a precision mark stops
at the nearest checkpoint. What `mini_sound` says of accepted programs is so
limited to families in which a path passes one checkpoint before a scalar
decides something, no checkpoint inside a callee stands for a caller's scalar, a
subprogram has one call site, and no loop without progress goes through a nested
exit that stores. Each of these restrictions is needed: see "Configurations
outside the run list".

*Proofs.* `MiniProofs` proves, for every set of programs that the structural
pass lets by and all limits:

* `TypeCorrect`: `Spec => []TypeOK`;
* `CountsExact`: `Spec => []BranchCounts`;
* `UnfinishedAreAncestors`: `Spec => []InProgressIsAncestor`.

The assumption on the programs is what `cfg.rs` has checked and `Frontend`
shows: no jump, call or fall through leaves the program
(`ProgramsAssumption`). The invariant `Explored` adds to the types that a
checkpoint's parent is older than it (`Linked`), that its count is the number of
worklist items whose parent chain leads to it (`Counted`), and that the chains of
the worklist are nested: the ancestors of an item are ancestors of every item
above it (`Stacked`, which holds because the worklist is a stack). An unfinished
checkpoint has some item below it by `Counted`, and so is an ancestor of the last
item by `Stacked`: what is taken for an infinite loop at a pop is one. `Chain` is a recursive function on the checkpoints: `ChainDef` shows by
minimal counterexample that it is well defined, `ChainSame` that storing,
marking and counting leave the chains alone. `CountsKept` and `StackKept` then
cover all ways in which a pop replaces an item by its successors. `AcceptSafe`
and `AcceptEnds` are not proved: they are false in general (`mini_chain`), and
hold on the families of `mini_sound` only.

*Bounds.* `MaxRun` exceeds the length of every accepted program's runs;
`CtxBytes` holds the values on both sides of every compare and the largest byte;
`ValueSize` is two words, so an offset can be inside, across the end and beyond.
*Fairness.* `Decided` assumes weak fairness of the pass, a loop of one thread.
The system stops after a verdict and at the end of a run, so deadlock is not
checked, here and in all other runs.

## Scalars: `Scalars`, `ScalarOps`, `ScalarRun`

`ScalarBounds` keeps signed and unsigned ranges of the word and of its low half,
a tnum and a link id with a distance. `Scalars` has the tnum algebra of
`tnum.rs`, the constructors and `sync`; `ScalarOps` the transfer functions
(`apply_alu` with its range arms for both widths, `mul_high`, `coerce_scalar`),
`refine_cmp`, `is_branch_taken` and `sync_linked_scalars`. The widths are the
constants `W` and `H` instead of 64 and 32. `ScalarRun` executes instructions on
three registers that hold an abstract scalar and the word of a run: loads of
anything, constants, two copies that link, all ALU operations with registers and
immediates, spills with narrow loads, all compares.

`scalar_sound` checks, from every pair of loaded words: `Covered` (the word is
in all ranges and in the tnum), `SidesExplored` (no side that a run takes is
ruled out), `LinksHold` (linked registers are at their distance), `TypeOK`
(ranges of a path that is taken are not empty). `W = 3`, `H = 2` is the
smallest width with a sign bit in either half, bits above the low half and
products that overflow both; every word is tried. Three instructions suffice for
link, change, refine.

`scalar_unsound` runs the operations and compares that are left out of it, and
copies in loops; `Covered` is violated. These are left out: 64-bit `mod` (a
negative constant divisor, the finding), 32-bit `rsh` and `arsh` (the tnum is
computed on the whole word and cut afterwards, exec.rs:2623), 64-bit `arsh` by
a register (`(dmin >> 63, dmax)` leaves out results above `dmax` for negative
`dmax`, exec.rs:3093), `>=` between ranges (exec.rs:3171), and a copy executed
twice (its link id is `pc + 1` both times, exec.rs:236).

## Memory: `Memory`

Frames of bytes (`StackByte`) with spilled registers, map value pointers with
offset ranges and alignment, on the verifier's side; slots with values on the
interpreter's side. Actions: constants, additions to pointers, stores and loads
of a byte and of a slot at fixed and variable offsets, `ST` with an immediate,
atomics, map value accesses, a helper with a key buffer, calls and returns. A
slot has `Slot = 2` bytes instead of 8, a byte `Base = 4` values, a frame two
slots.

`memory_sound`: `Covered` (in every frame the verifier's registers and bytes
stand for the run's), `NoFailure` (the interpreter refuses nothing the verifier
took), `FramesActive` (no stack pointer, spilled or not, names a frame that has
ended; `frame_stack` would panic). Four instructions are enough for write,
overwrite in part, move the pointer, read back, and for call, store through the
caller's pointer, return, load.

`Programs` turns on features in which the two sides part; `memory_sound` has
none of them. With each of them alone TLC finds `Covered` or `NoFailure`
violated: `align` (an addition to a pointer of unknown alignment makes it known,
exec.rs:774), `var_fresh` (a store at a variable offset marks bytes as written
that the run did not write), `narrow_range`, `atomic_spill`, `atomic_half`,
`map_imm` (`ST` through a map value, which the interpreter refuses),
`foreign_key` (`check_map_buffer` looks at the running frame's bytes for a key
in a caller's frame); `var_zero` and `var_pointer` (a store of 0 or of a pointer
at a variable offset) do together with `var_fresh`.

*Proofs.* `MemoryProofs` proves, for every slot size, frame size, number of
frames and all `Programs`, also the odd ones:

* `TypeCorrect`: `Spec => []TypeOK`;
* `NoStalePointer`: `Spec => []FramesActive`.

The invariant `Typed` gives each register and slot of the n-th frame a value of
`Val(_, n)`, in which a stack pointer names one of the frames `1..n`. It is kept
because a stack pointer is spilled into the running frame only (`WriteTyped`,
from `MaySpill`), because what a load finds in a frame below belongs to the
running one too (`ReadTyped`, `ValGrows`), and because a return hands back no
stack pointer (`ReturnTyped`, from `MayReturn`); without either guard
the invariant fails. `TypeOK` asks for equally many frames on both sides only
until the interpreter refuses an instruction: a refused return leaves its frames
as they are. `PowerAssumption` states two facts on powers of the byte's base that
the provers do not know; TLC evaluates it. `Covered` and `NoFailure`, which are
about bytes of words, are model-checked.

## References: `Refs`

Registers and one spilled slot per frame hold a kind with an id; `refs` is the
list of references. `Reserve`, `Release`, `Lookup`, the two NULL checks of
`cond_branch_impl`, accesses, copies, calls, returns and `Exit` each run on both
sides; the run gets NULL or a record from every call.

`refs_sound`: `Covered` (each cell of every frame holds what the verifier knows
of it, and one id is one record), `NoFault` (no access to a record that is not
held or behind its end, no second release, no leak at exit), `TypeOK` (ids of
held references are distinct). Two records, two frames and two held references
are enough to confuse two ids across a call; eight instructions reach reserve,
copy, call, check, return, reserve, check and use. Left out of it are
`callee_check`, the finding of `refs_reuse` (a NULL check in a callee forgets
only its own frame's aliases, and the id is reused), `loop_lookup` (a lookup that
is executed again gives its result the same id, `RefsLoopLookup.cfg`, `Covered`
violated) and `small_buffer` (a record of fewer than eight bytes may be accessed
with eight, `RefsSmallBuffer.cfg`, `NoFault` violated).

*Proofs.* `RefsProofs` proves, for any number of references, records, frames,
cells and instructions:

* `TypeCorrect`: `Spec => []TypeOK`, for all programs;
* `CellsCovered`: `Expected => (Spec => []Covered)`, where `Expected` leaves out
  `callee_check` and `loop_lookup`;
* `NoRunFaults`: `Programs = {} => (Spec => []NoFault)`.

The hypotheses leave out exactly the oddities that violate the property, which
`refs_reuse`, `RefsLoopLookup.cfg` and `RefsSmallBuffer.cfg` show; they are met
by the instance of `refs_sound`. `Covered` is not inductive: when the last alias
of a reference is overwritten, nothing says any more that its id stands for a
record. `Sound` says that there is an assignment of records (or NULL) to the ids
held, and of results to the lookup sites executed, which all cells of all frames
follow and which leaves no live record without an id. A NULL check, a release
and a reservation each change the assignment at one id; that ids are distinct
(`RefsTyped`) keeps the others. `BigEnough` (no record below eight bytes) is what
`NoFault` needs beyond that.

## Front end: `Frontend`

A program comes from a file, the generator, an idiom or the mutator, is encoded
to slots and decoded one slot per step; its map descriptors are resolved; then
`add_subprog`, the stack depth over call chains, the fall-through checks and the
depth-first search of `check_cfg` run, one visit per step. A mutant goes through
the mutator's own check first (`mode = "nano"`) and is dropped if that fails.
Opcodes that all code treats alike are one class.

`frontend`: `SlotsKept` (decoder and encoder agree on every class and field),
`LoopHeadsExact` (the heads cut every cycle and lie on one), `AcceptedStaysInside`
(executions of an accepted program, computed independently as configurations with
return addresses, stay in the program, in their subprogram, in the call and stack
budgets), `DeadCodeRejected`, `GeneratedPasses`, `MutantPasses`, `Settles` (every
program gets an answer; weak fairness of the one thread). Files of four slots hold
a call into a subprogram with a loop; one-slot files try every field of every
class; two frames and forty bytes put both budgets within reach (211,217 states).

*Proofs.* `FrontendProofs` proves, for every alphabet of slots, length of files
and bodies, set of seeds, pool of values, frame limit and stack size:

* `TypeCorrect`: `Spec => []TypeOK`;
* `RoundTrip`: `Spec => []SlotsKept`;
* `LoopHeads`: `Spec => []LoopHeadsExact`;
* `StaysInside`: `Spec => []AcceptedStaysInside`;
* `DeadCode`: `Spec => []DeadCodeRejected`;
* `GeneratedPass`: `Spec => []GeneratedPasses`;
* `MutantPass`: `Spec => []MutantPasses`.

`BoundsAssumption` and `FilesAssumption` give the constants their types;
`SeedsAssumption` says that `decode_program` takes the seeds, as
`load_corpus_seeds` keeps no others. The invariant grows in four stages.

1. `Base` (`Typed`, `Placed`): which phase has which results, and that the search
   holds pcs of the program. That mutants have instructions of the right fields
   is a lemma about each mutation (`MutantsIn`).
2. `DecodeInv`: every decoded instruction is what its slot or its pair of slots
   says (`DecodedAt`). `RoundTrip` follows class by class.
3. `SearchInv`, the depth-first search: the gray nodes are the stack, and each
   entry is the child its parent looked at last (`OnPath`); the children before
   that are not white (`LookedAt`), an explored node has no white successor and
   no gray one that is not a head (`Finished`), the explored nodes without the
   heads have no cycle (`Acyclic`), heads lie on one (`HeadsLoop`), and all that
   has a colour is reached from 0 (`SeenReached`). A push, an advance and a pop
   are a lemma each. `Reachable` is shown to be the closure it stands for.
4. Executions: an accepted program is `Valid`, and `Runs` holds of each of its
   configurations: the entries are one of the chains `check_stack_call_chains`
   has walked, the return addresses lie behind calls in the subprogram below, and
   the pc is in the innermost one. What a frame touches is at most what
   `direct_stack_depths` charges for it (`DepthCovered`), so the chain's sum
   bounds the stack.

`DeadCode` needs one thing more of the configurations: each return address lies
behind the call that entered the frame above it (`Called`). One call site for
each subprogram makes the calls' targets different (`CallsOnce`), so the return
edge of the graph is the return of that execution and every edge is a step
(`EdgeIsStep`; the second half of an `ldimm64` goes with the first). Then what
the rounds of `Configs` cover grows until it is closed, in at most as many rounds
as the program has instructions (`GrowsToAll`), and by `SeenReached` what is
closed and holds 0 is all that the search explored, the whole program.

For the last two theorems `Good` says of a program that it decodes from its own
encoding, passes every visit, and that whatever holds 0 and is closed is all of
it. Generated programs are good at every length, with a subprogram (`GenCall`) or
without (`StraightGood`), and so are the templates (`TemplatesFramed`). `PassInv`
carries that through decoding and the search; a mutant becomes good when the
mutator's own search ends.

Where the code is more lenient than its comments: code behind a dead call site
counts as reached if the subprogram is called elsewhere, too; `direct_stack_depths`
also counts accesses that are dead; a mutant of a seed with an `ldimm64` may not
decode (`FrontendMutants.cfg`, against "so the output always decodes",
`fuzz/mutator.rs:8`).

## Oracle and campaign: `Oracle`, `Campaign`

`Oracle` has the verdicts (mini's with its kind of message, the concrete run's
end, the specification's, the kernel's with its category) and `classify` with
the whitelist, the fingerprints, the stack leniency and the surface gaps.
`Campaign` is the process: load the corpus, then per iteration pick or mutate,
run, save a flip, push to the pool, count, promote, save a finding file by file;
at the end groups, summary and exit code. It can fail or be killed between any
two steps and be started again over the same directories.

`fs::write` and `fs::copy` are two steps each: `CreateFile` creates or truncates
the file, which is then `Torn`, and `FillFile` puts its content there. So are the
promotion of a program (`CreateSeed`, `FillSeed`; `NotPromoted` where it is over
4096 bytes or a write fails, which is no error) and `summary.json`. A group is
copied file by file (`copy_dir`, in its order, what exists of the
representative), and `group.json` comes last; `Dir`, `NextFile` and `todo` say
where the process is. What a file holds is the program it is about, so
`group.json` holds its representative's. A campaign registers no maps, so
`save_finding` writes no `prog.maps`.

`campaign`: `Accounted` (every iteration is in one counter; findings, candidates,
groups, clusters and the novelty map agree), `PoolKept` (the corpus stays in the
pool, within its cap), `FindingsJustified` (the classification blames a side only
on its evidence and hides no unsafe witness), and `ArtifactsComplete`:

* beside a `meta.json`, whole or torn, the reproducer, the dump and mini's verdict
  exist, after any kill, failure and restart; in a new output directory a whole
  `meta.json` means that they are whole and of its program;
* in generation mode the whole files of a finding directory are of one program,
  whichever campaign wrote them;
* what the process lists as a finding is completely on disk;
* at the end so is the copy of each group's representative, with its `group.json`.

It does not say more, because the code does not do more: a second campaign over
the same directory truncates `prog.bin` while the `meta.json` of the first still
stands, and a kill there leaves it beside a torn, even empty, reproducer; and in
mutation mode a grown corpus leads to other programs under the same names.

Every combination of verdicts is one iteration; two iterations, two starts and up
to three programs are used for the files, as names repeat from the second start
on, and a kill falls between any two of the steps above (2,730,101 states). A
drained pool needs `POOL_CAP` below the number of iterations; two iterations with
new features fill a novelty corpus of `NovelCap = 2`. The corpus may hold torn
programs at the next start: `LoadSeeds` passes them over or takes them for what
their first instructions make, or the load fails (`CampaignError`).

*Proofs.* `CampaignProofs` proves, for all corpora, caps, numbers of iterations
and starts, and all programs and verdicts:

* `TypeCorrect`: `Spec => []TypeOK`;
* `Justified`: `Spec => []FindingsJustified`;
* `CorpusKept`: `Spec => []PoolKept`;
* `Artifacts`: `Spec => []ArtifactsComplete`;
* `Counters`: `Spec => []Accounted`.

`SetupsAssumption` is what `parse_args` and the two verdict types allow;
`PoolAssumption` says that the cap is not zero, and `FeaturesAssumption` that the
two signatures of novelty.rs never coincide, as one ends in a hash and the other
in a length bucket. `Justified` rests on `Evidence`,
a statement about `classify` for any verdicts, and on `Judged` (the outcome at
hand is the classification of the program at hand). `CorpusKept` rests on
`Pooled`; `Drains` shows that what `drain` cuts out of the pool is behind the
corpus. `ArtifactsComplete` needs ten parts (`Archive`), as a kill can fall
between creating and filling any file and a restart may come back to a name:
directories have the shape of their kind (`Shaped`); the one being written has
whole files wherever nothing is left to write, and none of the four required
files is listed behind `meta.json` (`HalfWay`, `Tidy`); a `meta.json`, even a torn
one, is never without the others (`Present`); in generation mode a name stands
for one program in every campaign of the seed, so writing over an old directory
mixes no programs (`Reproducible`); in the first campaign a name and a group
number are used once (`FirstUse`, `FirstCopy`), so a directory that is not
finished has no whole `meta.json` yet (`Unfinished`) and a whole one vouches for
the others (`Vouched`); what is listed is on disk (`Listed`); and groups are
copied in order, each completely (`Copying`). `SaveOrder` and `CopyOrder` show
what the lists of `save_finding` and `copy_dir` hold, and in which order;
`WriteElsewhere` and `CandidateUntouched` that creating a file truncates nothing
that is listed or copied. `group` sorts by priority; any order among equal ones is
allowed, as nothing depends on it.

`Accounted` needs `Tally` and `Explored`. While a program is being promoted or a
finding saved, its counter is ahead of the loop counter by one, and for a finding
of the list of findings; a kill or an error there leaves it so for good.
`Tallied` carries these differences (`Open`, `OpenFinding`) and holds in every
other phase. `Explored` says that a promotion starts only while the corpus
directory has room, and that the picks of `note_pick`, which share the novelty
map with the observed features, never touch a feature: the seeds of the pool have
keys of their own, and `Drains` keeps it so.
The sums are folds over sets; `TotalsExist` and `TotalsUnique` show, by the least
counterexample on the size of a subset, that the recursion inside `FoldSet` has
exactly one solution, from which `SumBump` (a counter goes up by one) and
`GroupSum` (the groups of `triage::group` are disjoint and cover the candidates)
follow.

Seen on the way, outside these properties: in strict mode the leniency for
privileged loads is still applied (`CampaignStrict.cfg`, against diff.rs:299-306);
a model bug whose concrete run does not end has no `concrete.txt`
(`CampaignReport.cfg`, against env.rs:407-411); a second campaign with fewer
groups leaves directories of the first in `groups/`; a `kernel.log` of an earlier
campaign stays when the new one has no kernel message for the same name; a
promotion that is killed after its file was created leaves an empty `.bin` in the
novelty corpus, on which `load_corpus_seeds` fails (`setup_prog`, fuzz.rs:519), so
mutation campaigns over that directory end with an error until it is deleted.

## Reducer: `Reduce` and `Shrink`

For each finding: replay and compare with the record, then cycles of CFG passes
(dead code, slice, branch simplification), ddmin and operand minimisation, each
candidate through the memoised oracle with its budget, then the final re-check
and the artifacts; several findings in a row, errors, panics and the exit code.
The oracle's answer to a program is any of the given ones, chosen at its first
evaluation; an evaluation may fail. The final re-check evaluates the reproducer
again, past the cache and the budget (`Recheck`): mini and the interpreter run on
the host and say the same again, the kernel's answer is any (`Reevaluations`), so
a finding may be lost there, and nothing is written.

`Shrink` is the abstract reducer: the reproducer is replaced only by a strictly
smaller program that was seen to preserve the finding, and is handed out only if
it was evaluated again after its last replacement and still preserved the finding.
`reduce` checks the refinement `Shrinks` (`prog <- current`, `known <-` the cached
positive answers, `checked <-` whether the re-check's own evaluation, `final`,
preserves the finding, `handed <-` what is on disk, `status <- result`,
`Smaller <- Lighter`:
fewer instructions, or as many where each one that differs has a lower `Burden`,
in the order branch, register operand, register numbers, immediate, offset),
`OneMinimal` (with budget left,
every single deletion was tried and refused), `Terminates` (weak fairness of the
one thread; the weight is also why it ends), and `TypeOK` (the budget is never
overrun, ddmin's best program is what `keep` says). A candidate that is no program
or the current one is passed over without a question (`SkipCandidate`).

Six programs with a branch, a store, constants, dead code, a `jset` and a loop,
with and without budget, are shrunk under every oracle with two answers; two
findings in a row with and without the kernel exercise replay and errors
(354,749 states).

*Proofs.* `ReduceProofs` proves, for all programs, sides, budgets and numbers of
findings:

* `TypeCorrect`: `Spec => []TypeOK`;
* `Minimal`: `Spec => []OneMinimal`;
* `Refinement`: `Spec => Shrinks`.

`ImmAssumption` and `SetupsAssumption` give the constants their types. `Inv` has
seven parts. `Typed` ties the phase to the result. `Remembered`: the cache holds
yes and no only, and as many answers as were paid for. `Queued`: each candidate of
a pass is no program, the current one or a lighter one; this needs a lemma for
every pass (`CfgLighter` with dead code, slices and dead sides, `OperandLighter`
with immediates, constant operands, renamed registers and offsets).
`Minimising`: ddmin's best program is what `keep` leaves of the reproducer, and is
known to preserve the finding unless it is the reproducer itself. `Tried`: at the
finest granularity the chunks behind are single instructions and were refused, and
a cycle that changed nothing tried them all; `OneMinimal` is this at the last
phase. `Rechecked`: what is about to be written had its re-check evaluation, which
preserves the finding; `Sided`: no evaluation is the placeholder for none. The
refinement maps each action to one step of `Shrink` or none
(`StepShrinks`). Termination needs a bound on how often the weight can fall, and
is model-checked.

Seen on the way: `branch_offset` lacks `jset`, the 32-bit jumps and subprogram
calls, so deletions change their targets (`ReduceJset.cfg`, against the fix-up's
own description); an `rv-soundness` finding recorded with a kernel rejection and
reduced without the kernel fails its own re-check (`ReduceUnprivileged.cfg`); a
reduced program may have drifted to a surface gap, as `preserves` passes
`surface_gap: None` (`ReduceGap.cfg`).

## Runs

| run | expected | properties |
|---|---|---|
| `qemu_safe` | pass | `TypeOK`, `VerdictMode`, `ConsumedHasResult`, `VerdictIntegrity` |
| `qemu_live` | pass | `AskAnswered`, `DropJoins` |
| `mini_sound` | pass | `TypeOK`, `BranchCounts`, `InProgressIsAncestor`, `AcceptSafe`, `AcceptEnds`, `Decided` |
| `mini_chain` | violation | `AcceptSafe` |
| `scalar_sound` | pass | `TypeOK`, `Covered`, `SidesExplored`, `LinksHold` |
| `scalar_unsound` | violation | `Covered` |
| `memory_sound` | pass | `TypeOK`, `Covered`, `NoFailure`, `FramesActive` |
| `refs_sound` | pass | `TypeOK`, `Covered`, `NoFault` |
| `refs_reuse` | violation | `NoFault` |
| `frontend` | pass | `TypeOK`, `SlotsKept`, `LoopHeadsExact`, `AcceptedStaysInside`, `DeadCodeRejected`, `GeneratedPasses`, `MutantPasses`, `Settles` |
| `reduce` | pass | `TypeOK`, `OneMinimal`, `Shrinks`, `Terminates` |
| `campaign` | pass | `TypeOK`, `Accounted`, `ArtifactsComplete`, `PoolKept`, `FindingsJustified` |

## Configurations outside the run list

Each shows one disagreement between code and comment, with
`tlc -config <cfg> <module>`. The passing runs leave these cases out: a passing
`mini_sound`, `memory_sound`, `refs_sound`, `frontend_sound` or `reduce_sound`
says nothing about them, and the hazards that only these cases exercise stand in
`PROJECT.json` without a property or with a note that names what is left out. The
same holds for two copies made by one instruction in a loop: only the programs of
`ScalarUnsound.cfg` contain them, and that run meets another violation first.

| configuration | module | property violated | what it shows |
|---|---|---|---|
| `QemuRunShOnce.cfg` | `MCQemuShare` | `RunShOnce` | without any fault the guest may run one batch's script twice |
| `QemuNextFlushPasses.cfg` | `MCQemuShare` | `NextFlushPasses` | a late `touch batch-done` makes the next flush wait for its deadline |
| `MiniPruned.cfg` | `MCMini` | `AcceptSafe` | a pruned path does not pass the matched checkpoint's marks to its own checkpoints, which then prune a path with another value |
| `MiniFrames.cfg` | `MCMini` | `AcceptSafe` | a caller's scalar is never marked at a checkpoint inside its callee |
| `MiniCallSites.cfg` | `MCMini` | `AcceptSafe` | states with different return addresses are taken for equal |
| `MiniAlign.cfg` | `MCMini` | `AcceptAligned` | an addition to a pointer of unknown alignment makes it known |
| `MiniNestedExit.cfg` | `MCMini` | `AcceptEnds` | a checkpoint stored at a nested exit is finished at once, and a loop is pruned against itself |
| `MemoryKey.cfg` | `MCMemory` | `NoFailure` | a key in a caller's frame is checked in the running frame |
| `RefsLoopLookup.cfg` | `MCRefs` | `Covered` | a NULL check of one lookup's result speaks for an earlier execution's |
| `RefsSmallBuffer.cfg` | `MCRefs` | `NoFault` | eight bytes of a four-byte record are accessible |
| `FrontendMutants.cfg` | `MCFrontend` | `MutantDecodes` | mutation splits an `ldimm64` |
| `CampaignReport.cfg` | `MCCampaign` | `ReportTold` | a model bug without a concrete report |
| `CampaignStrict.cfg` | `MCCampaign` | `StrictNotLenient` | the privileged leniency in strict mode |
| `ReduceJset.cfg` | `MCReduce` | `TargetsKept` | a deletion moves a `jset`'s target |
| `ReduceUnprivileged.cfg` | `MCReduce` | `ReducesUnprivileged` | a finding that replays and then fails its re-check |
| `ReduceGap.cfg` | `MCReduce` | `StaysFinding` | a reduced program that the campaign would call a surface gap |

## What is proved and what is only checked

Proved, for every value of the constants that the named assumptions allow:

| module | theorem | property | beyond the instance of the run |
|---|---|---|---|
| `QemuShareProofs` | `TypeCorrect`, `VerdictsAreTheQuerys` | `TypeOK`, `VerdictIntegrity` | any names, programs, restarts |
| `QemuOwnerProofs` | `VerdictsOfTheMode`, `NoQueryStranded` | `VerdictMode`, `ConsumedHasResult` | any names and programs |
| `MiniProofs` | `TypeCorrect`, `CountsExact`, `UnfinishedAreAncestors` | `TypeOK`, `BranchCounts`, `InProgressIsAncestor` | every structurally valid program, all limits |
| `MemoryProofs` | `TypeCorrect`, `NoStalePointer` | `TypeOK`, `FramesActive` | all sizes, depths and programs, the odd ones too |
| `RefsProofs` | `TypeCorrect`, `CellsCovered`, `NoRunFaults` | `TypeOK`, `Covered`, `NoFault` | any number of records, references, frames |
| `FrontendProofs` | `TypeCorrect`, `RoundTrip`, `LoopHeads`, `StaysInside`, `DeadCode`, `GeneratedPass`, `MutantPass` | `TypeOK`, `SlotsKept`, `LoopHeadsExact`, `AcceptedStaysInside`, `DeadCodeRejected`, `GeneratedPasses`, `MutantPasses` | programs of any length, all seeds, all budgets |
| `CampaignProofs` | `TypeCorrect`, `Justified`, `CorpusKept`, `Artifacts`, `Counters` | `TypeOK`, `FindingsJustified`, `PoolKept`, `ArtifactsComplete`, `Accounted` | all corpora, caps, verdicts, restarts |
| `ReduceProofs` | `TypeCorrect`, `Minimal`, `Refinement` | `TypeOK`, `OneMinimal`, `Shrinks` | all programs, oracles, budgets |

Only model-checked, on the instances above:

- liveness (`AskAnswered`, `DropJoins`, `Decided`, `Settles`, `Terminates`), which
  is outside the prover's reach;
- the scalars (`Covered`, `SidesExplored`, `LinksHold`): their tnums are bitwise
  operations, which the provers do not have;
- `Covered` and `NoFailure` of `Memory`: division and powers of variable exponent;
- `AcceptSafe` and `AcceptEnds` of `Mini`, which are false in general.

## Not modelled

- *Specification runner* (`spec/`): a second abstract interpreter over the same
  instructions. The oracle takes its verdict as any of accept, reject and
  inconclusive, so nothing that is checked depends on its rules.
- *SMT checks, witness synthesis*: formulas handed to an external solver.
- *Kernel runner, log parsing*: `bpf(2)` calls and text; only the categories of
  messages that the oracle tells apart appear.
- *Dynptrs and kfuncs*: no program can obtain a first `PtrToBtfId`, so the kfunc
  arms are not reached; the dynptr helpers follow the reference rules of `Refs`
  with slots of their own.
- *Packet pointers, context tables, prototypes, regression list, command line,
  reports*: tables, text and argument handling.
- *Stack liveness and slots in the comparison of states*, and the id maps of
  `states_equal`.

## Plan

1. Stack slots and link ids in `Mini`'s comparison of states, with the id maps.
2. The campaign composed with an abstract kernel column that `QemuShare` refines.
