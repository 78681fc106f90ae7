------------------------------ MODULE Campaign ------------------------------
(***************************************************************************)
(* The fuzzing campaign (bin/fuzz.rs) with its triage (fuzz/triage.rs) and  *)
(* novelty map (fuzz/novelty.rs): the process picks or mutates a program,   *)
(* runs it through both verifiers, classifies it, saves findings file by    *)
(* file, and ends with groups, a summary and an exit code.  It may be killed*)
(* at any step and started again over the same output directory.            *)
(*                                                                          *)
(* fs::write and fs::copy create or truncate the file, then fill it: in     *)
(* between, after a kill and after a failing write the file is Torn.        *)
(***************************************************************************)
EXTENDS Oracle, Integers, FiniteSets, SequencesExt

CONSTANTS
    Setups,      \* command lines (with --novelty): [mode, programs, kernels, iters, strict, tolerate, runs]
    Fixtures,    \* the corpus, a sequence of programs with known verdicts
    POOL_CAP,    \* campaign programs kept in the pool
    NovelCap     \* files in the novelty corpus

\* parse_args, and the outcomes that verify and kernel_side_of produce.
ASSUME SetupsAssumption ==
    \A s \in Setups :
        /\ s.mode \in {"generation", "mutation"} /\ s.iters \in Nat /\ s.runs \in Nat \ {0}
        /\ \A p \in s.programs :
              /\ p.mini \in {"Accept", "Reject", "Panic"}
              /\ p.mini = "Reject" => p.reason \in DOMAIN categorize_mini_reason
        /\ \A k \in s.kernels : k.side \in {"Accept", "Reject", "Skipped"}
ASSUME PoolAssumption == Fixtures \in Seq(Range(Fixtures)) /\ POOL_CAP \in Nat \ {0}
\* The last field of a signature, a hash, is never that of a feature signature,
\* which ends in its length bucket.
ASSUME FeaturesAssumption ==
    NovelCap \in Nat /\ \A s \in Setups : \A p, q \in s.programs : p.shape # q.family

VARIABLES
    setup,       \* the command line
    gen,         \* the programs the seed stands for, by iteration
    run,         \* which start of the process this is
    phase,       \* what the process does next
    iter,        \* the loop counter
    pool, corpusLen,          \* the mutation pool; its first corpusLen entries are the corpus
    prog, before,             \* the program of this iteration, its seed's verdict
    out,                      \* its Outcome
    todo,                     \* the artifact files still to be written
    counts, invalid, suppressed, gaps,
    uses, novel, promoted, clusters,
    findings, candidates, flips,
    groups,                   \* the groups still to be copied
    disk,                     \* files under findings/ and groups/: <<dir, file>> -> program or Torn
    corpusDir,                \* the novelty corpus: signature -> program or Torn
    summary, exit             \* summary.json (<<>>: none) and the exit status (-1: none)

campaign == <<setup, gen, run>>
stats  == <<counts, invalid, suppressed, gaps, uses, novel, promoted, clusters, findings, candidates, flips>>
vars == <<setup, gen, run, phase, iter, pool, corpusLen, prog, before, out, todo, stats, groups,
          disk, corpusDir, summary, exit>>

None == "none"
NoProg == [mini |-> None]
Torn == [mini |-> "torn"]     \* what is in a file that is not completely written
NoOutcome == [finding |-> None]
With(f, k, v) == [x \in DOMAIN f \cup {k} |-> IF x = k THEN v ELSE f[x]]
Uses(k) == IF k \in DOMAIN uses THEN uses[k] ELSE 0
Ended == {"done", "error", "killed"}

Seed(p) == [prog |-> p, verdict |-> MiniSide(p), signature |-> <<"seed", MiniSide(p), p.shape>>]

Fresh ==
    /\ iter = 0 /\ pool = <<>> /\ corpusLen = 0 /\ prog = NoProg /\ before = None /\ out = NoOutcome
    /\ todo = <<>> /\ counts = [c \in Classes |-> 0] /\ invalid = 0 /\ suppressed = 0 /\ gaps = 0
    /\ uses = <<>> /\ novel = 0 /\ promoted = 0 /\ clusters = {}
    /\ findings = <<>> /\ candidates = <<>> /\ flips = <<>> /\ groups = <<>>
    /\ exit = -1

Init ==
    /\ setup \in Setups
    /\ gen \in [0 .. setup.iters - 1 -> setup.programs]
    /\ run = 1 /\ phase = "load" /\ Fresh
    /\ disk = <<>> /\ corpusDir = <<>> /\ summary = <<>>

\* load_corpus_seeds: the fixtures, then the programs promoted earlier,
\* without the ones mini panics on.  A torn file is passed over where it does
\* not decode, or is taken for the program its first instructions make; an
\* empty one ends the campaign (CampaignError), now and at every later start.
LoadSeeds ==
    /\ phase = "load"
    /\ \E taken \in [{s \in DOMAIN corpusDir : corpusDir[s] = Torn} -> setup.programs \cup {Torn}] :
        LET read(s) == IF s \in DOMAIN taken THEN taken[s] ELSE corpusDir[s]
            seeds == Fixtures \o SetToSeq({p \in {read(s) : s \in DOMAIN corpusDir} : p.mini \notin {"Panic", "torn"}})
        IN  IF setup.mode = "mutation"
            THEN /\ pool' = [n \in DOMAIN seeds |-> Seed(seeds[n])]
                 /\ corpusLen' = Len(seeds)
            ELSE UNCHANGED <<pool, corpusLen>>
    /\ phase' = "pick"
    /\ UNCHANGED <<campaign, iter, prog, before, out, todo, stats, groups, disk, corpusDir, summary, exit>>

Idle == UNCHANGED <<campaign, pool, corpusLen, out, todo, groups, disk, corpusDir, summary, exit>>

\* A generated program: the seed and the iteration determine it.
Generate ==
    /\ phase = "pick" /\ iter < setup.iters
    /\ prog' = gen[iter] /\ before' = None /\ phase' = "run"
    /\ Idle /\ UNCHANGED <<iter, stats>>

\* An unseen key of the novelty map.
\* (bug) one use does not count yet.
IsNewTwice(k) == Uses(k) <= 1
IsNew(k) == Uses(k) = 0

\* A mutant of a seed of the pool; its energy decays with every pick.
note_pick(s) == uses' = With(uses, s.signature, Uses(s.signature) + 1)

MutateSeed ==
    /\ phase = "pick" /\ iter < setup.iters /\ setup.mode = "mutation"
    /\ \E n \in DOMAIN pool, p \in setup.programs :
        /\ note_pick(pool[n])
        /\ prog' = p /\ before' = pool[n].verdict
    /\ phase' = "run"
    /\ Idle
    /\ UNCHANGED <<iter, counts, invalid, suppressed, gaps, novel, promoted, clusters, findings, candidates, flips>>

\* try_mutate returned None: the iteration ends here.
InvalidMutant ==
    /\ phase = "pick" /\ iter < setup.iters /\ setup.mode = "mutation"
    /\ \E n \in DOMAIN pool : note_pick(pool[n])
    /\ invalid' = invalid + 1 /\ iter' = iter + 1
    /\ Idle
    /\ UNCHANGED <<phase, prog, before, counts, suppressed, gaps, novel, promoted, clusters, findings, candidates, flips>>

\* run_program: both verifiers and the classification.
Outcome(p, k) ==
    [name |-> iter, prog |-> p, kernel |-> k, finding |-> Classified(p, k, setup.strict)]
signature(o) == <<o.finding, o.prog.reason, o.kernel.message, o.prog.shape>>
feature_signature(o) == <<o.finding, o.prog.reason, o.kernel.message, o.prog.family>>

\* A verdict that differs from the seed's is saved as a flip before anything
\* else is recorded.
IsFlip(o) == before # None /\ before # MiniSide(o.prog)

\* (bug) the metadata is written first.
MetaFirst(o) == <<"meta.json", "prog.bin", "prog.dump", "mini.txt">>
\* save_finding: the files of a finding, in the order they are written.  prog.maps
\* is written for registered maps only, and a campaign registers none.
save_finding(o) ==
    <<"prog.bin", "prog.dump", "mini.txt">>
        \o (IF o.prog.mini # "Panic" /\ HasReportText(o.prog) THEN <<"concrete.txt">> ELSE <<>>)
        \o (IF o.kernel.message # "none" THEN <<"kernel.log">> ELSE <<>>)
        \o <<"meta.json">>

run_program ==
    /\ phase = "run"
    /\ \E k \in setup.kernels :
        /\ out' = Outcome(prog, k)
        /\ phase' = IF IsFlip(Outcome(prog, k)) THEN "flip" ELSE "pool"
        /\ todo' = IF IsFlip(Outcome(prog, k)) THEN save_finding(Outcome(prog, k)) ELSE <<>>
    /\ UNCHANGED <<campaign, iter, pool, corpusLen, prog, before, stats, groups, disk, corpusDir, summary, exit>>

\* Reading the corpus, qemu.ask() or a write fails: main returns the error.
\* (A promotion that fails is no error.)
CampaignError ==
    /\ phase \in {"load", "run", "flip", "save", "group"}
    /\ phase' = "error" /\ exit' = 1
    /\ UNCHANGED <<campaign, iter, pool, corpusLen, prog, before, out, todo, stats, groups, disk, corpusDir, summary>>

\* triage::group: one group per key, its first name the representative.
priority_of ==
    [c \in Findings |->
        CASE c = "RvSoundnessBug" -> 4 [] c = "KernelUnsoundCandidate" -> 3
          [] c \in {"SoundnessCandidate", "KernelOverstrictCandidate"} -> 2
          [] c = "PrecisionCandidate" -> 1 [] OTHER -> 0]
GroupKey(c) == <<c.finding, MiniCategory(c.prog), KernelCategory(c.kernel), c.prog.at>>
Members(key) == {n \in DOMAIN candidates : GroupKey(candidates[n]) = key}
GroupOf(key) ==
    [key |-> key, count |-> Cardinality(Members(key)), priority |-> priority_of[key[1]],
     representative |-> Min({candidates[n].name : n \in Members(key)})]
Groups == {GroupOf(GroupKey(candidates[n])) : n \in DOMAIN candidates}
Ordered(s) == \A i, j \in DOMAIN s : i < j => s[i].priority >= s[j].priority
group == CHOOSE s \in SetToSeqs(Groups) : Ordered(s)

\* The directory of the representative, and that of the group.
Copied == Len(group) - Len(groups)
Source(g) == <<g.key[1], g.representative>>
Target(g) == <<"group", g.priority, Copied>>

\* copy_dir: the files of the representative that exist, in this order; then
\* the group's own file.
Existing(g, f) == IF <<Source(g), f>> \in DOMAIN disk THEN <<f>> ELSE <<>>
copy_dir(g) ==
    Existing(g, "prog.bin") \o Existing(g, "prog.dump") \o Existing(g, "mini.txt")
        \o Existing(g, "concrete.txt") \o Existing(g, "kernel.log") \o Existing(g, "meta.json")
        \o <<"group.json">>

\* The directory being written, and what belongs into its files: the program
\* at hand, or what the copied file holds (group.json names the
\* representative, as its reproducer does).
Dir ==
    CASE phase = "flip" -> <<"verdict-flip", out.name>>
      [] phase = "save" -> <<out.finding, out.name>>
      [] OTHER          -> Target(Head(groups))
Content(f) ==
    IF phase = "group"
    THEN disk[<<Source(Head(groups)), IF f = "group.json" THEN "prog.bin" ELSE f>>]
    ELSE out.prog

\* fs::write or fs::copy of the next file: it is created or truncated ...
Writing == phase \in {"flip", "save", "group"} /\ todo # <<>>
NextFile == <<Dir, Head(todo)>>
Created == NextFile \in DOMAIN disk /\ disk[NextFile] = Torn
CreateFile ==
    /\ Writing /\ ~Created
    /\ disk' = With(disk, NextFile, Torn)
    /\ UNCHANGED <<campaign, phase, iter, pool, corpusLen, prog, before, out, todo, stats, groups, corpusDir, summary, exit>>

\* ... and then filled.
FillFile ==
    /\ Writing /\ Created
    /\ disk' = With(disk, NextFile, Content(Head(todo)))
    /\ todo' = Tail(todo)
    /\ UNCHANGED <<campaign, phase, iter, pool, corpusLen, prog, before, out, stats, groups, corpusDir, summary, exit>>

FlipSaved ==
    /\ phase = "flip" /\ todo = <<>>
    /\ flips' = Append(flips, out.name) /\ phase' = "pool"
    /\ UNCHANGED <<campaign, iter, pool, corpusLen, prog, before, out, todo, counts, invalid, suppressed, gaps,
                   uses, novel, promoted, clusters, findings, candidates, groups, disk, corpusDir, summary, exit>>

\* The pool grows; only its campaign tail is drained.
\* (bug) the drain starts at the front of the pool.
DrainedFront(p) == IF Len(p) > corpusLen + POOL_CAP THEN Tail(p) ELSE p
Drained(p) ==
    IF Len(p) > corpusLen + POOL_CAP
    THEN SubSeq(p, 1, corpusLen) \o SubSeq(p, Len(p) - POOL_CAP + 1, Len(p))
    ELSE p

\* (bug) the outcome of the last iteration is kept.
PushPoolStale ==
    /\ phase = "pool" /\ phase' = "handle"
    /\ pool' = pool /\ iter' = iter + 1
    /\ UNCHANGED <<campaign, corpusLen, prog, before, out, todo, stats, groups, disk, corpusDir, summary, exit>>
PushPool ==
    /\ phase = "pool"
    /\ pool' = IF setup.mode = "mutation"
               THEN Drained(Append(pool, [prog |-> out.prog, verdict |-> MiniSide(out.prog), signature |-> signature(out)]))
               ELSE pool
    /\ phase' = "handle"
    /\ UNCHANGED <<campaign, iter, corpusLen, prog, before, out, todo, stats, groups, disk, corpusDir, summary, exit>>

\* Kpi::observe: one cluster per finding signature.
Observe(o) == IF o.finding \in Findings THEN clusters \cup {signature(o)} ELSE clusters
\* NoveltyMap::observe: a new feature is a novel event.
NovelEvent(o) == IsNew(feature_signature(o))

\* The rest of handle_outcome: the artifact of a finding, or the next iteration.
Persist ==
    IF out.finding \in Findings
    THEN phase' = "save" /\ todo' = save_finding(out) /\ UNCHANGED iter
    ELSE phase' = "pick" /\ iter' = iter + 1 /\ UNCHANGED todo

\* handle_outcome: the counters and the novelty map; a novel program is
\* promoted while the corpus directory has room.
handle_outcome ==
    /\ phase = "handle"
    /\ LET isNew == NovelEvent(out)
       IN  /\ uses' = With(uses, feature_signature(out), Uses(feature_signature(out)) + 1)
           /\ novel' = IF isNew THEN novel + 1 ELSE novel
           /\ IF isNew /\ Cardinality(DOMAIN corpusDir) < NovelCap
              THEN phase' = "promote" /\ UNCHANGED <<iter, todo>>
              ELSE Persist
    /\ counts' = [counts EXCEPT ![out.finding] = @ + 1]
    /\ clusters' = Observe(out)
    /\ suppressed' = IF out.finding = "Whitelisted" /\ whitelisted(out.prog, out.kernel)
                     THEN suppressed + 1 ELSE suppressed
    /\ gaps' = IF out.finding = "SurfaceGap" THEN gaps + 1 ELSE gaps
    /\ UNCHANGED <<campaign, pool, corpusLen, prog, before, out, invalid, promoted, findings, candidates, flips,
                   groups, disk, corpusDir, summary, exit>>

\* The promoted program's file is created, then filled; a program over 4096
\* bytes is not promoted, and neither is one whose write fails.
Seeded == signature(out) \in DOMAIN corpusDir /\ corpusDir[signature(out)] = Torn
CreateSeed ==
    /\ phase = "promote" /\ ~Seeded
    /\ corpusDir' = With(corpusDir, signature(out), Torn)
    /\ UNCHANGED <<campaign, phase, iter, pool, corpusLen, prog, before, out, todo, stats, groups, disk, summary, exit>>

FillSeed ==
    /\ phase = "promote" /\ Seeded /\ Persist
    /\ corpusDir' = With(corpusDir, signature(out), out.prog)
    /\ promoted' = promoted + 1
    /\ UNCHANGED <<campaign, pool, corpusLen, prog, before, out, counts, invalid, suppressed, gaps, uses, novel,
                   clusters, findings, candidates, flips, groups, disk, summary, exit>>

NotPromoted ==
    /\ phase = "promote" /\ Persist
    /\ UNCHANGED <<campaign, pool, corpusLen, prog, before, out, stats, groups, disk, corpusDir, summary, exit>>

\* The finding is on disk: it is listed and becomes a triage candidate.
FindingSaved ==
    /\ phase = "save" /\ todo = <<>>
    /\ findings' = Append(findings, out.name)
    /\ candidates' = Append(candidates, out)
    /\ phase' = "pick" /\ iter' = iter + 1
    /\ UNCHANGED <<campaign, pool, corpusLen, prog, before, out, todo, counts, invalid, suppressed, gaps,
                   uses, novel, promoted, clusters, flips, groups, disk, corpusDir, summary, exit>>

\* The groups are copied one after the other.
FirstFiles(gs) == IF gs = <<>> THEN <<>> ELSE copy_dir(Head(gs))
StartGroups ==
    /\ phase = "pick" /\ iter = setup.iters
    /\ groups' = group /\ todo' = FirstFiles(group) /\ phase' = "group"
    /\ UNCHANGED <<campaign, iter, pool, corpusLen, prog, before, out, stats, disk, corpusDir, summary, exit>>

GroupCopied ==
    /\ phase = "group" /\ groups # <<>> /\ todo = <<>>
    /\ groups' = Tail(groups) /\ todo' = FirstFiles(Tail(groups))
    /\ UNCHANGED <<campaign, phase, iter, pool, corpusLen, prog, before, out, stats, disk, corpusDir, summary, exit>>

\* main: the exit status.
ExitCode == IF findings # <<>> /\ ~setup.tolerate THEN 1 ELSE 0
\* write_summary.
Summary ==
    [run |-> run, counts |-> counts, surface_gaps |-> gaps, suppressed |-> suppressed,
     unique_features |-> Cardinality(DOMAIN uses), novel_events |-> novel, promoted |-> promoted,
     clusters |-> Cardinality(clusters), findings |-> findings, groups |-> group,
     invalid |-> invalid, flips |-> flips]
\* The last flush, the summary and the exit status.
CreateSummary ==
    /\ phase = "group" /\ groups = <<>> /\ summary # Torn
    /\ summary' = Torn
    /\ UNCHANGED <<campaign, phase, iter, pool, corpusLen, prog, before, out, todo, stats, groups, disk, corpusDir, exit>>
WriteSummary ==
    /\ phase = "group" /\ groups = <<>> /\ summary = Torn
    /\ summary' = Summary
    /\ exit' = ExitCode
    /\ phase' = "done"
    /\ UNCHANGED <<campaign, iter, pool, corpusLen, prog, before, out, todo, stats, groups, disk, corpusDir>>

\* The process is killed between any two steps.
Killed ==
    /\ phase \notin Ended
    /\ phase' = "killed"
    /\ UNCHANGED <<campaign, iter, pool, corpusLen, prog, before, out, todo, stats, groups, disk, corpusDir, summary, exit>>

\* The same command again, over what is on disk.
Restart ==
    /\ phase \in Ended /\ run < setup.runs
    /\ run' = run + 1 /\ phase' = "load"
    /\ iter' = 0 /\ pool' = <<>> /\ corpusLen' = 0 /\ prog' = NoProg /\ before' = None /\ out' = NoOutcome
    /\ todo' = <<>> /\ counts' = [c \in Classes |-> 0] /\ invalid' = 0 /\ suppressed' = 0 /\ gaps' = 0
    /\ uses' = <<>> /\ novel' = 0 /\ promoted' = 0 /\ clusters' = {}
    /\ findings' = <<>> /\ candidates' = <<>> /\ flips' = <<>> /\ groups' = <<>> /\ exit' = -1
    /\ UNCHANGED <<setup, gen, disk, corpusDir, summary>>

Next ==
    \/ LoadSeeds \/ Generate \/ MutateSeed \/ InvalidMutant \/ run_program \/ CampaignError
    \/ CreateFile \/ FillFile \/ FlipSaved \/ PushPool
    \/ handle_outcome \/ CreateSeed \/ FillSeed \/ NotPromoted \/ FindingSaved
    \/ StartGroups \/ GroupCopied \/ CreateSummary \/ WriteSummary \/ Killed \/ Restart

Spec == Init /\ [][Next]_vars
-----------------------------------------------------------------------------
(* Properties.                                                              *)

Phases == Ended \cup {"load", "pick", "run", "flip", "pool", "handle", "promote", "save", "group"}

\* The process state keeps its types; a flip or finding being written has a
\* known outcome.
TypeOK ==
    /\ phase \in Phases /\ run \in 1 .. setup.runs /\ iter \in 0 .. setup.iters
    /\ counts \in [Classes -> Nat]
    /\ phase \in {"flip", "pool", "handle", "promote", "save"} =>
          out.finding \in Classes /\ out.name = iter /\ out.prog = prog
    /\ todo # <<>> => phase \in Ended \cup {"flip", "save", "group"}
    /\ exit \in {-1, 0, 1}

SumOf(f, S) == FoldSet(LAMBDA c, sum : f[c] + sum, 0, S)
Features == {k \in DOMAIN uses : k[1] \in Classes /\ k[4] \in {p.family : p \in setup.programs}}

\* Every iteration is in exactly one counter of summary.json; findings,
\* candidates, finding counters and group sizes agree, and novel_events is
\* the number of distinct features the campaign met.
Accounted ==
    phase \in {"load", "pick", "group", "done"} =>
        /\ iter = SumOf(counts, Classes) + invalid
        /\ Len(findings) = SumOf(counts, Findings)
        /\ Len(candidates) = Len(findings)
        /\ phase \in {"group", "done"} =>
              FoldSeq(LAMBDA g, sum : g.count + sum, 0, group) = Len(findings)
        /\ Cardinality(clusters) <= Len(findings)
        /\ gaps = counts["SurfaceGap"] /\ suppressed <= counts["Whitelisted"]
        /\ novel = Cardinality(Features) /\ promoted <= novel
        /\ Cardinality(DOMAIN corpusDir) <= NovelCap

Required == {"prog.bin", "prog.dump", "mini.txt"}
Has(dir, f, p) == <<dir, f>> \in DOMAIN disk /\ disk[<<dir, f>>] = p
Saved(dir, p) == \A f \in Required \cup {"meta.json"} : Has(dir, f, p)

\* meta.json is written last.  Wherever the process was killed or failed, and
\* over whatever earlier campaigns left, the reproducer, the dump and mini's
\* verdict exist beside it; in a new output directory a whole meta.json
\* vouches for them: they are whole and of its program.  (A rewrite that is
\* cut short leaves them torn beside the meta.json of an earlier campaign.)
\* In generation mode the whole files of one finding are of one program,
\* whichever campaign wrote them.  (A later mutation campaign draws other
\* programs for the same names once its corpus has grown.)
\* What the process lists as a finding is completely on disk, and at the end
\* so is the copy of each group's representative, with its group.json.
ArtifactsComplete ==
    /\ \A e \in DOMAIN disk :
          e[2] = "meta.json" =>
              /\ \A f \in Required : <<e[1], f>> \in DOMAIN disk
              /\ run = 1 /\ disk[e] # Torn => Saved(e[1], disk[e])
    /\ setup.mode = "generation" =>
          \A d, e \in DOMAIN disk :
              d[1] = e[1] /\ d[1][1] # "group" /\ Torn \notin {disk[d], disk[e]} => disk[d] = disk[e]
    /\ \A n \in DOMAIN candidates :
          LET c == candidates[n] IN \A f \in Range(save_finding(c)) : Has(<<c.finding, c.name>>, f, c.prog)
    /\ phase = "done" =>
          \A n \in DOMAIN group, m \in DOMAIN candidates :
              <<candidates[m].finding, candidates[m].name>> = Source(group[n]) =>
                  LET dir == <<"group", group[n].priority, n - 1>>
                  IN  Saved(dir, candidates[m].prog) /\ Has(dir, "group.json", candidates[m].prog)

\* The corpus stays in the pool for the whole campaign, the pool stays within
\* its cap, and the newest program is in it.
PoolKept ==
    /\ Len(pool) <= corpusLen + POOL_CAP
    /\ phase \notin Ended \cup {"load"} /\ setup.mode = "mutation" =>
          \A n \in DOMAIN Fixtures : pool[n] = Seed(Fixtures[n])
    /\ phase = "handle" /\ setup.mode = "mutation" => Last(pool).prog = out.prog

Witness(o) == ConcreteVerdict(o.prog) = "Unsafe"
\* The oracle blames a side only on its evidence, never on a surface the
\* models do not cover, and never keeps an unsafe witness to itself: an
\* accepted program with one is a model bug, a program the kernel accepts
\* with one is a soundness candidate unless the whitelist names why.
FindingsJustified ==
    out # NoOutcome =>
        LET p == out.prog
            k == out.kernel
            f == out.finding
        IN  /\ f \in {"PrecisionCandidate", "KernelOverstrictCandidate"} =>
                  k.side = "Reject" /\ p.mini = "Accept" /\ ConcreteVerdict(p) = "Safe"
            /\ f = "KernelUnsoundCandidate" => k.side = "Accept" /\ spec_side(p) = "Reject" /\ ~Witness(out)
            /\ f = "RvPrecisionGap" => k.side = "Accept" /\ p.mini = "Reject" /\ ~Witness(out)
            /\ f = "SoundnessCandidate" => k.side = "Accept" /\ p.mini = "Reject" /\ Witness(out)
            /\ f \in Findings \ {"RvPanic"} => ~SurfaceGap(p)
            /\ p.mini = "Accept" /\ Witness(out) /\ ~SurfaceGap(p) => f = "RvSoundnessBug"
            /\ p.mini = "Reject" /\ Witness(out) /\ ~SurfaceGap(p) /\ k.side = "Accept" =>
                  \/ f = "SoundnessCandidate"
                  \/ f = "Whitelisted" /\ p.reason \in {"stack_slot", "indirect_read", "complexity", "at_exit"}

\* A load without privileges rejects what the leniency allows ("unprivileged
\* (--strict) loads reject the same programs", diff.rs), so in strict mode an
\* unsafe witness the kernel accepts is not put down to it.
StrictNotLenient ==
    out # NoOutcome /\ setup.strict /\ Witness(out) /\ ~SurfaceGap(out.prog) /\ out.kernel.side = "Accept"
        /\ out.prog.reason = "stack_slot" => out.finding = "SoundnessCandidate"

\* A report is missing "only for a clean accept" (concrete_report_text,
\* env.rs): the artifact of a model bug always says what the concrete run did.
ReportTold ==
    \A n \in DOMAIN candidates :
        candidates[n].finding = "RvSoundnessBug" =>
            <<<<"RvSoundnessBug", candidates[n].name>>, "concrete.txt">> \in DOMAIN disk

=============================================================================
