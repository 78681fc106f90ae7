--------------------------- MODULE CampaignProofs ---------------------------
(***************************************************************************)
(* Proofs about the fuzzing campaign, for every set of command lines, every *)
(* corpus, every cap, and any number of kills and restarts: its state keeps *)
(* its types, a classification blames a side only on its evidence, the      *)
(* corpus stays in the mutation pool, a meta.json is never without its      *)
(* reproducer, what is listed is completely on disk, and the counters of    *)
(* the summary add up.                                                      *)
(***************************************************************************)
EXTENDS Campaign, FiniteSetTheorems, SequenceTheorems, WellFoundedInduction, TLAPS

-----------------------------------------------------------------------------
(* Types and classifications.                                               *)

Known == {"flip", "pool", "handle", "promote", "save"}   \* an iteration's outcome is known
Working == Known \cup {"run"}                            \* an iteration is under way

\* The process state.  An iteration under way is within its budget.
Typed ==
    /\ setup \in Setups /\ gen \in [0 .. setup.iters - 1 -> setup.programs]
    /\ phase \in Phases /\ run \in 1 .. setup.runs /\ iter \in 0 .. setup.iters
    /\ counts \in [Classes -> Nat] /\ exit \in {-1, 0, 1}
    /\ phase \in Working => iter < setup.iters /\ prog \in setup.programs
    /\ phase \in Known => out # NoOutcome /\ out.name = iter /\ out.prog = prog
    /\ todo # <<>> => phase \in Ended \cup {"flip", "save", "group"}

\* The outcome is the classification of a program of the campaign and an
\* answer of its kernel.
Judged ==
    out # NoOutcome =>
        /\ out.prog \in setup.programs /\ out.kernel \in setup.kernels
        /\ out.finding = Classified(out.prog, out.kernel, setup.strict)

\* classify returns one of its classes.
LEMMA Classifies == \A p, k, s : Classified(p, k, s) \in Classes
  BY DEF Classified, classify, ClassifyCovered, ClassifyUnsafe, ClassifyKernelRejects,
         ClassifyKernelAccepts, Classes, Findings

\* An outcome is a record of its own.
LEMMA OutcomeKnown == \A p, k : Outcome(p, k) # NoOutcome
  <1> SUFFICES ASSUME NEW p, NEW k, Outcome(p, k) = NoOutcome PROVE FALSE
    OBVIOUS
  <1>1. Outcome(p, k).finding \in Classes
    BY Classifies DEF Outcome
  <1>2. NoOutcome.finding = "none"
    BY DEF NoOutcome, None
  <1> QED BY <1>1, <1>2 DEF Classes, Findings

LEMMA TypedInit == Init => Typed /\ Judged
  BY SetupsAssumption DEF Init, Fresh, Typed, Judged, Phases, Ended, Working, Known, Classes

\* The command line and the seed are the same in every step.
LEMMA SetupKept == [Next]_vars => setup' = setup /\ gen' = gen
  BY DEF Next, vars, campaign, stats, Idle, LoadSeeds, Generate, MutateSeed, InvalidMutant, run_program,
         CampaignError, CreateFile, FillFile, FlipSaved, PushPool, handle_outcome, CreateSeed, FillSeed,
         NotPromoted, FindingSaved, StartGroups, GroupCopied, CreateSummary, WriteSummary, Killed, Restart

\* What follows handle_outcome's counters: the artifact or the next iteration.
LEMMA Persists ==
    ASSUME Persist
    PROVE  \/ out.finding \in Findings /\ phase' = "save" /\ iter' = iter /\ todo' = save_finding(out)
           \/ out.finding \notin Findings /\ phase' = "pick" /\ iter' = iter + 1 /\ todo' = todo
  BY DEF Persist

LEMMA TypedStep == Typed /\ [Next]_vars => Typed'
  <1> SUFFICES ASSUME Typed, [Next]_vars PROVE Typed'
    OBVIOUS
  <1> USE SetupsAssumption DEF Typed, Phases, Ended, Working, Known
  <1>0. setup' = setup /\ gen' = gen
    BY SetupKept
  <1>1. CASE LoadSeeds
    BY <1>0, <1>1 DEF LoadSeeds, campaign, stats
  <1>2. CASE Generate
    BY <1>0, <1>2 DEF Generate, Idle, campaign, stats
  <1>3. CASE MutateSeed
    BY <1>0, <1>3 DEF MutateSeed, Idle, campaign
  <1>4. CASE InvalidMutant
    BY <1>0, <1>4 DEF InvalidMutant, Idle, campaign
  <1>5. CASE run_program
    <2>1. PICK k \in setup.kernels : out' = Outcome(prog, k)
      BY <1>5 DEF run_program
    <2>2. out' # NoOutcome
      BY <2>1, OutcomeKnown
    <2>3. out'.name = iter /\ out'.prog = prog
      BY <2>1 DEF Outcome
    <2>4. phase' \in {"flip", "pool"} /\ (todo' # <<>> => phase' = "flip")
      BY <1>5 DEF run_program
    <2> QED BY <1>0, <1>5, <2>2, <2>3, <2>4 DEF run_program, campaign, stats
  <1>6. CASE CampaignError
    BY <1>0, <1>6 DEF CampaignError, campaign, stats
  <1>7. CASE CreateFile \/ FillFile
    BY <1>0, <1>7 DEF CreateFile, FillFile, Writing, campaign, stats
  <1>8. CASE FlipSaved
    BY <1>0, <1>8 DEF FlipSaved, campaign
  <1>9. CASE PushPool
    BY <1>0, <1>9 DEF PushPool, campaign, stats
  <1>10. CASE handle_outcome
    <2>0. counts' = [counts EXCEPT ![out.finding] = @ + 1] /\ counts \in [Classes -> Nat]
      BY <1>10 DEF handle_outcome
    <2>1. counts' \in [Classes -> Nat]
      <3> DEFINE f == out.finding
      <3>1. \A c \in Classes : c = f => counts[f] + 1 \in Nat
        BY <2>0
      <3> HIDE DEF f
      <3> QED BY <2>0, <3>1 DEF f
    <2>2. \/ phase' = "save" /\ iter' = iter
          \/ phase' = "pick" /\ iter' = iter + 1 /\ todo' = todo
          \/ phase' = "promote" /\ iter' = iter /\ todo' = todo
      BY <1>10, Persists DEF handle_outcome
    <2>3. phase = "handle" /\ todo = <<>> /\ UNCHANGED <<run, prog, out, exit>>
      BY <1>10 DEF handle_outcome, campaign
    <2> QED BY <1>0, <2>1, <2>2, <2>3
  <1>11. CASE FindingSaved
    BY <1>0, <1>11 DEF FindingSaved, campaign
  <1>12. CASE StartGroups \/ GroupCopied
    BY <1>0, <1>12 DEF StartGroups, GroupCopied, campaign, stats
  <1>13. CASE CreateSeed
    BY <1>0, <1>13 DEF CreateSeed, campaign, stats
  <1>14. CASE CreateSummary \/ WriteSummary
    BY <1>0, <1>14 DEF CreateSummary, WriteSummary, ExitCode, campaign, stats
  <1>15. CASE Killed
    BY <1>0, <1>15 DEF Killed, campaign, stats
  <1>16. CASE Restart
    BY <1>0, <1>16 DEF Restart, Classes
  <1>17. CASE UNCHANGED vars
    BY <1>17 DEF vars, campaign, stats
  <1>18. CASE FillSeed \/ NotPromoted
    <2>1. phase = "promote" /\ todo = <<>> /\ UNCHANGED <<run, prog, out, counts, exit>>
      BY <1>18 DEF FillSeed, NotPromoted, campaign, stats
    <2>2. \/ phase' = "save" /\ iter' = iter
          \/ phase' = "pick" /\ iter' = iter + 1 /\ todo' = todo
      BY <1>18, Persists DEF FillSeed, NotPromoted
    <2> QED BY <1>0, <2>1, <2>2
  <1> QED
    BY <1>1, <1>2, <1>3, <1>4, <1>5, <1>6, <1>7, <1>8, <1>9, <1>10, <1>11, <1>12, <1>13, <1>14,
       <1>15, <1>16, <1>17, <1>18 DEF Next

\* Only run_program makes an outcome, only a restart drops it.
LEMMA OutStep ==
    [Next]_vars => \/ out' = out
                   \/ out' = NoOutcome
                   \/ run_program
  BY DEF Next, vars, stats, Idle, LoadSeeds, Generate, MutateSeed, InvalidMutant, CampaignError,
         CreateFile, FillFile, FlipSaved, PushPool, handle_outcome, CreateSeed, FillSeed, NotPromoted,
         FindingSaved, StartGroups, GroupCopied, CreateSummary, WriteSummary, Killed, Restart

LEMMA JudgedStep == Typed /\ Judged /\ [Next]_vars => Judged'
  <1> SUFFICES ASSUME Typed, Judged, [Next]_vars PROVE Judged'
    OBVIOUS
  <1>0. setup' = setup
    BY SetupKept
  <1>1. CASE out' = out \/ out' = NoOutcome
    BY <1>0, <1>1 DEF Judged
  <1>2. CASE run_program
    <2>1. PICK k \in setup.kernels : out' = Outcome(prog, k)
      BY <1>2 DEF run_program
    <2>2. prog \in setup.programs
      BY <1>2 DEF run_program, Typed, Working
    <2> QED BY <1>0, <2>1, <2>2 DEF Judged, Outcome
  <1> QED BY <1>1, <1>2, OutStep

\* The invariant of both.
LEMMA Outcomes == Spec => [](Typed /\ Judged)
  BY TypedInit, TypedStep, JudgedStep, PTL DEF Spec

LEMMA TypedTypeOK == Typed /\ Judged => TypeOK
  BY Classifies DEF Typed, Judged, TypeOK, Known, Working

\* The process state keeps its types through kills and restarts, and the loop
\* of main stays within --iters.
THEOREM TypeCorrect == Spec => []TypeOK
  BY Outcomes, TypedTypeOK, PTL

-----------------------------------------------------------------------------
(* The classification.                                                      *)

\* What verify and kernel_side_of can return.
Sides(p, k) ==
    /\ p.mini \in {"Accept", "Reject", "Panic"}
    /\ p.mini = "Reject" => p.reason \in DOMAIN categorize_mini_reason
    /\ k.side \in {"Accept", "Reject", "Skipped"}

\* The whitelist names only messages of the leniencies it is about.
LEMMA WhitelistReasons ==
    ASSUME NEW p, NEW k, Sides(p, k), p.mini = "Reject", whitelisted(p, k)
    PROVE  p.reason \in {"stack_slot", "indirect_read", "complexity", "at_exit"}
  <1>1. \/ MiniCategory(p) = "Complexity"
        \/ privileged_stack_leniency(p)
        \/ MiniCategory(p) = "ExitR0"
    BY DEF whitelisted, Fingerprints
  <1>2. MiniCategory(p) = categorize_mini_reason[p.reason]
    BY DEF MiniCategory
  <1>3. categorize_mini_reason[p.reason] = "Complexity" => p.reason = "complexity"
    BY DEF Sides, categorize_mini_reason
  <1>4. categorize_mini_reason[p.reason] = "ExitR0" => p.reason = "at_exit"
    BY DEF Sides, categorize_mini_reason
  <1>5. privileged_stack_leniency(p) => p.reason \in {"stack_slot", "indirect_read"}
    BY DEF privileged_stack_leniency
  <1> QED BY <1>1, <1>2, <1>3, <1>4, <1>5

\* What a finding says of the program and of the kernel's answer.
LEMMA Evidence ==
    ASSUME NEW p, NEW k, NEW s, Sides(p, k)
    PROVE  LET f == Classified(p, k, s) IN
           /\ f \in {"PrecisionCandidate", "KernelOverstrictCandidate"} =>
                 k.side = "Reject" /\ p.mini = "Accept" /\ ConcreteVerdict(p) = "Safe"
           /\ f = "KernelUnsoundCandidate" =>
                 k.side = "Accept" /\ spec_side(p) = "Reject" /\ ConcreteVerdict(p) # "Unsafe"
           /\ f = "RvPrecisionGap" =>
                 k.side = "Accept" /\ p.mini = "Reject" /\ ConcreteVerdict(p) # "Unsafe"
           /\ f = "SoundnessCandidate" =>
                 k.side = "Accept" /\ p.mini = "Reject" /\ ConcreteVerdict(p) = "Unsafe"
           /\ f \in Findings \ {"RvPanic"} => ~SurfaceGap(p)
  <1>1. ConcreteVerdict(p) \in {"Inconclusive", "Safe", "Unsafe"}
    BY DEF ConcreteVerdict
  <1>2. p.mini \in {"Accept", "Reject", "Panic"} /\ k.side \in {"Accept", "Reject", "Skipped"}
    BY DEF Sides
  <1> QED
    BY <1>1, <1>2 DEF Classified, classify, ClassifyCovered, ClassifyUnsafe, ClassifyKernelRejects,
                      ClassifyKernelAccepts, Findings

\* What becomes of an unsafe witness.
LEMMA Witnessed ==
    ASSUME NEW p, NEW k, NEW s, Sides(p, k), ConcreteVerdict(p) = "Unsafe", ~SurfaceGap(p)
    PROVE  LET f == Classified(p, k, s) IN
           /\ p.mini = "Accept" => f = "RvSoundnessBug"
           /\ p.mini = "Reject" /\ k.side = "Accept" =>
                 \/ f = "SoundnessCandidate"
                 \/ f = "Whitelisted" /\ p.reason \in {"stack_slot", "indirect_read", "complexity", "at_exit"}
  BY WhitelistReasons DEF Classified, classify, ClassifyCovered, ClassifyUnsafe

LEMMA JudgedJustified == Typed /\ Judged => FindingsJustified
  <1> SUFFICES ASSUME Typed, Judged, out # NoOutcome
               PROVE  FindingsJustified
    BY DEF FindingsJustified
  <1>1. Sides(out.prog, out.kernel)
    BY SetupsAssumption DEF Typed, Judged, Sides
  <1>2. out.finding = Classified(out.prog, out.kernel, setup.strict)
    BY DEF Judged
  <1> QED BY <1>1, <1>2, Evidence, Witnessed DEF FindingsJustified, Witness

\* The precedence of classify is right: every side is blamed on its evidence
\* alone, no finding rests on a surface the models do not cover, and no unsafe
\* witness is dropped, whatever the verifiers and the kernel say.
THEOREM Justified == Spec => []FindingsJustified
  BY Outcomes, JudgedJustified, PTL

-----------------------------------------------------------------------------
(* The mutation pool.                                                       *)

\* SetToSeq enumerates a finite set.
LEMMA Enumerated ==
    ASSUME NEW S, IsFiniteSet(S)
    PROVE  SetToSeq(S) \in Seq(S)
  <1>1. Cardinality(S) \in Nat /\ ExistsBijection(1 .. Cardinality(S), S)
    BY FS_CardinalityType
  <1>2. \E f \in [1 .. Cardinality(S) -> S] : IsInjective(f)
    BY <1>1 DEF ExistsBijection, Bijection, Injection, IsInjective
  <1>3. SetToSeq(S) \in [1 .. Cardinality(S) -> S]
    BY <1>2 DEF SetToSeq
  <1> QED BY <1>1, <1>3

\* The values of a function on a finite domain.
LEMMA FiniteValues ==
    ASSUME NEW f, IsFiniteSet(DOMAIN f)
    PROVE  IsFiniteSet({f[x] : x \in DOMAIN f})
  <1> DEFINE T == {f[x] : x \in DOMAIN f}
             g == [x \in DOMAIN f |-> f[x]]
  <1>1. g \in Surjection(DOMAIN f, T)
    BY DEF Surjection
  <1> HIDE DEF g, T
  <1>2. IsFiniteSet(T)
    BY <1>1, FS_Surjection
  <1> QED BY <1>2 DEF T

\* A sequence is one of its own elements.
Elements(s) == {s[n] : n \in DOMAIN s}
LEMMA SeqOfElements ==
    ASSUME NEW S, NEW s \in Seq(S)
    PROVE  s \in Seq(Elements(s))
  <1> DEFINE T == Elements(s)
  <1>1. \A i \in 1 .. Len(s) : s[i] \in T
    BY DEF Elements
  <1> HIDE DEF T
  <1>2. s \in Seq(T)
    BY <1>1
  <1> QED BY <1>2 DEF T

\* The pool is a sequence within its cap that starts with the corpus, and the
\* program that was run last is at its end.
Pooled ==
    /\ pool \in Seq(Elements(pool)) /\ corpusLen \in Nat /\ Len(pool) <= corpusLen + POOL_CAP
    /\ IsFiniteSet(DOMAIN corpusDir)
    /\ phase \notin Ended \cup {"load"} /\ setup.mode = "mutation" =>
          /\ Len(Fixtures) <= corpusLen /\ corpusLen <= Len(pool)
          /\ \A n \in DOMAIN Fixtures : pool[n] = Seed(Fixtures[n])
    /\ phase = "handle" /\ setup.mode = "mutation" =>
          Len(pool) > 0 /\ pool[Len(pool)].prog = out.prog

LEMMA PooledInit == Init => Pooled
  <1> SUFFICES ASSUME Init PROVE Pooled
    OBVIOUS
  <1>1. pool = <<>> /\ corpusLen = 0 /\ corpusDir = <<>> /\ phase = "load"
    BY DEF Init, Fresh
  <1>2. IsFiniteSet(DOMAIN corpusDir)
    BY <1>1, FS_EmptySet
  <1> QED BY <1>1, <1>2, PoolAssumption DEF Pooled, Ended

\* The programs read from the corpus directory, and the pool made of them.
Promoted(taken) ==
    {p \in {IF s \in DOMAIN taken THEN taken[s] ELSE corpusDir[s] : s \in DOMAIN corpusDir} :
        p.mini \notin {"Panic", "torn"}}
SeedsLoaded(taken) ==
    setup.mode = "mutation" =>
        LET seeds == Fixtures \o SetToSeq(Promoted(taken))
        IN  pool' = [n \in DOMAIN seeds |-> Seed(seeds[n])] /\ corpusLen' = Len(seeds)

\* load_corpus_seeds puts the fixtures first.
LEMMA PooledLoad == Pooled /\ LoadSeeds => Pooled'
  <1> SUFFICES ASSUME Pooled, LoadSeeds PROVE Pooled'
    OBVIOUS
  <1>0. PICK taken : SeedsLoaded(taken)
    BY DEF LoadSeeds, SeedsLoaded, Promoted
  <1> DEFINE T == Promoted(taken)
             X == SetToSeq(T)
             seeds == Fixtures \o X
  <1>1. IsFiniteSet(T)
    <2> DEFINE read == [s \in DOMAIN corpusDir |-> IF s \in DOMAIN taken THEN taken[s] ELSE corpusDir[s]]
    <2>1. IsFiniteSet({read[s] : s \in DOMAIN read})
      <3>1. IsFiniteSet(DOMAIN read)
        BY DEF Pooled
      <3> HIDE DEF read
      <3> QED BY <3>1, FiniteValues
    <2>2. T \subseteq {read[s] : s \in DOMAIN read}
      BY DEF Promoted
    <2> HIDE DEF T, read
    <2> QED BY <2>1, <2>2, FS_Subset
  <1>2. X \in Seq(T)
    BY <1>1, Enumerated
  <1> HIDE DEF T
  <1>3. corpusDir' = corpusDir /\ phase' = "pick" /\ setup' = setup
    BY DEF LoadSeeds, campaign
  <1>4. CASE setup.mode = "mutation"
    <2>1. pool' = [n \in DOMAIN seeds |-> Seed(seeds[n])] /\ corpusLen' = Len(seeds)
      BY <1>0, <1>4 DEF SeedsLoaded, T
    <2> HIDE DEF X
    <2>2. /\ seeds \in Seq(Range(Fixtures) \cup T) /\ Len(seeds) \in Nat
          /\ Len(seeds) = Len(Fixtures) + Len(X) /\ Len(X) \in Nat /\ Len(Fixtures) \in Nat
          /\ DOMAIN seeds = 1 .. Len(seeds)
      BY <1>2, PoolAssumption
    <2>3. \A n \in DOMAIN Fixtures : n \in DOMAIN seeds /\ seeds[n] = Fixtures[n]
      BY <1>2, PoolAssumption
    <2> HIDE DEF seeds
    <2>4. Len(pool') = Len(seeds) /\ DOMAIN pool' = 1 .. Len(seeds)
      BY <2>1, <2>2
    <2>5. pool' \in Seq(Elements(pool'))
      <3>1. pool' \in [1 .. Len(seeds) -> Elements(pool')]
        BY <2>1, <2>2 DEF Elements
      <3> QED BY <2>2, <3>1
    <2>6. \A n \in DOMAIN Fixtures : pool'[n] = Seed(Fixtures[n])
      BY <2>1, <2>3
    <2>7. (\A n \in DOMAIN Fixtures : pool[n] = Seed(Fixtures[n]))'
      BY <2>6 DEF Seed
    <2>8. Len(pool') <= corpusLen' + POOL_CAP /\ corpusLen' <= Len(pool') /\ corpusLen' \in Nat
      BY <2>1, <2>2, <2>4, PoolAssumption
    <2>9. Len(Fixtures) <= corpusLen'
      BY <2>1, <2>2
    <2>10. IsFiniteSet(DOMAIN corpusDir')
      BY <1>3 DEF Pooled
    <2> QED BY <1>3, <2>5, <2>7, <2>8, <2>9, <2>10 DEF Pooled
  <1>5. CASE setup.mode # "mutation"
    <2>1. pool' = pool /\ corpusLen' = corpusLen
      BY <1>5 DEF LoadSeeds
    <2> QED BY <1>3, <1>5, <2>1 DEF Pooled
  <1> QED BY <1>4, <1>5

\* The drain keeps the corpus and the newest program.
LEMMA Drains ==
    ASSUME NEW S, NEW p \in Seq(S), corpusLen \in Nat, Len(p) > corpusLen
    PROVE  /\ Drained(p) \in Seq(S) /\ Len(Drained(p)) \in corpusLen + 1 .. corpusLen + POOL_CAP
           /\ \A n \in 1 .. corpusLen : Drained(p)[n] = p[n]
           /\ Drained(p)[Len(Drained(p))] = p[Len(p)]
  <1>0. POOL_CAP \in Nat /\ POOL_CAP > 0 /\ Len(p) \in Nat
    BY PoolAssumption
  <1>1. CASE Len(p) > corpusLen + POOL_CAP
    <2> DEFINE a == SubSeq(p, 1, corpusLen)
               b == SubSeq(p, Len(p) - POOL_CAP + 1, Len(p))
    <2>1. a \in Seq(S) /\ Len(a) = corpusLen /\ \A n \in 1 .. corpusLen : a[n] = p[n]
      BY <1>0, <1>1
    <2>2. b \in Seq(S) /\ Len(b) = POOL_CAP /\ b[POOL_CAP] = p[Len(p)]
      <3> DEFINE m == Len(p) - POOL_CAP + 1
      <3>1. m \in 1 .. Len(p) /\ Len(p) - m + 1 = POOL_CAP /\ m + POOL_CAP - 1 = Len(p)
        BY <1>0, <1>1
      <3>2. b = SubSeq(p, m, Len(p))
        OBVIOUS
      <3> HIDE DEF m, b
      <3> QED BY <1>0, <3>1, <3>2
    <2>3. Drained(p) = a \o b
      BY <1>1 DEF Drained
    <2> HIDE DEF a, b
    <2> QED BY <1>0, <2>1, <2>2, <2>3
  <1>2. CASE Len(p) <= corpusLen + POOL_CAP
    <2>1. Drained(p) = p
      BY <1>0, <1>2 DEF Drained
    <2> QED BY <1>0, <1>2, <2>1
  <1> QED BY <1>0, <1>1, <1>2

LEMMA PooledPush == Pooled /\ PushPool => Pooled'
  <1> SUFFICES ASSUME Pooled, PushPool PROVE Pooled'
    OBVIOUS
  <1>1. /\ phase = "pool" /\ phase' = "handle" /\ setup' = setup /\ corpusLen' = corpusLen
        /\ out' = out /\ corpusDir' = corpusDir
    BY DEF PushPool, campaign
  <1>2. CASE setup.mode # "mutation"
    <2>1. pool' = pool
      BY <1>2 DEF PushPool
    <2> QED BY <1>1, <1>2, <2>1 DEF Pooled
  <1>3. CASE setup.mode = "mutation"
    <2> DEFINE e == [prog |-> out.prog, verdict |-> MiniSide(out.prog), signature |-> signature(out)]
               p == Append(pool, e)
               S == Elements(pool) \cup {e}
    <2>1. pool' = Drained(p)
      BY <1>3 DEF PushPool
    <2>2. e.prog = out.prog
      OBVIOUS
    <2> HIDE DEF e
    <2>3. pool \in Seq(S) /\ Len(pool) \in Nat /\ DOMAIN pool = 1 .. Len(pool)
      BY DEF Pooled
    <2>4. p \in Seq(S) /\ Len(p) = Len(pool) + 1 /\ p[Len(p)] = e /\ \A n \in DOMAIN pool : p[n] = pool[n]
      BY <2>3
    <2>5. /\ Len(Fixtures) <= corpusLen /\ corpusLen <= Len(pool) /\ corpusLen \in Nat
          /\ \A n \in DOMAIN Fixtures : pool[n] = Seed(Fixtures[n])
      BY <1>1, <1>3 DEF Pooled, Ended
    <2>6. Len(p) > corpusLen
      BY <2>3, <2>4, <2>5
    <2> HIDE DEF p, S
    <2>7. /\ pool' \in Seq(S) /\ Len(pool') \in corpusLen + 1 .. corpusLen + POOL_CAP
          /\ \A n \in 1 .. corpusLen : pool'[n] = p[n]
          /\ pool'[Len(pool')] = e
      BY <2>1, <2>4, <2>5, <2>6, Drains
    <2>8. DOMAIN Fixtures = 1 .. Len(Fixtures) /\ Len(Fixtures) \in Nat
      BY PoolAssumption
    <2>9. \A n \in DOMAIN Fixtures : pool'[n] = Seed(Fixtures[n])
      BY <2>3, <2>4, <2>5, <2>7, <2>8
    <2>10. (\A n \in DOMAIN Fixtures : pool[n] = Seed(Fixtures[n]))'
      BY <2>9 DEF Seed
    <2>11. pool' \in Seq(Elements(pool'))
      <3>1. \A s \in Seq(S) : s \in Seq(Elements(s))
        BY SeqOfElements
      <3> QED BY ONLY <2>7, <3>1
    <2>12. IsFiniteSet(DOMAIN corpusDir')
      BY <1>1 DEF Pooled
    <2> QED BY <1>1, <2>2, <2>5, <2>7, <2>10, <2>11, <2>12, PoolAssumption DEF Pooled
  <1> QED BY <1>2, <1>3

\* A step that leaves the pool and the novelty corpus alone.
LEMMA PooledSame ==
    ASSUME Pooled, UNCHANGED <<setup, pool, corpusLen, corpusDir>>,
           phase' \notin Ended \cup {"load"} => phase \notin Ended \cup {"load"},
           phase' # "handle"
    PROVE  Pooled'
  <1>1. IsFiniteSet(DOMAIN corpusDir')
    BY DEF Pooled
  <1> QED BY <1>1 DEF Pooled

LEMMA PooledStep == Pooled /\ [Next]_vars => Pooled'
  <1> SUFFICES ASSUME Pooled, [Next]_vars PROVE Pooled'
    OBVIOUS
  <1>0. setup' = setup
    BY SetupKept
  <1>1. CASE LoadSeeds
    BY <1>1, PooledLoad
  <1>2. CASE PushPool
    BY <1>2, PooledPush
  <1>3. CASE CreateSeed \/ FillSeed
    <2>1. /\ pool' = pool /\ corpusLen' = corpusLen /\ phase = "promote" /\ phase' \in {"promote", "save", "pick"}
          /\ DOMAIN corpusDir' = DOMAIN corpusDir \cup {signature(out)}
      BY <1>3, Persists DEF CreateSeed, FillSeed, With
    <2>2. IsFiniteSet(DOMAIN corpusDir')
      BY <2>1, FS_AddElement DEF Pooled
    <2> QED BY <1>0, <2>1, <2>2 DEF Pooled, Ended
  <1>4. CASE Restart
    <2>1. pool' = <<>> /\ corpusLen' = 0 /\ phase' = "load" /\ corpusDir' = corpusDir
      BY <1>4 DEF Restart
    <2>2. IsFiniteSet(DOMAIN corpusDir')
      BY <2>1 DEF Pooled
    <2> QED BY <1>0, <2>1, <2>2, PoolAssumption DEF Pooled
  <1>5. CASE Generate \/ MutateSeed \/ InvalidMutant
    <2>1. UNCHANGED <<pool, corpusLen, corpusDir>> /\ phase = "pick" /\ phase' \in {"run", "pick"}
      BY <1>5 DEF Generate, MutateSeed, InvalidMutant, Idle
    <2> QED BY <1>0, <2>1, PooledSame DEF Ended
  <1>6. CASE \/ run_program \/ CampaignError \/ FlipSaved \/ handle_outcome \/ NotPromoted \/ FindingSaved
             \/ StartGroups \/ WriteSummary \/ Killed
    <2>1. /\ UNCHANGED <<pool, corpusLen, corpusDir>> /\ phase' # "handle"
          /\ \/ phase' \in Ended
             \/ phase \in {"run", "flip", "handle", "promote", "save", "pick"}
      BY <1>6, Persists DEF run_program, CampaignError, FlipSaved, handle_outcome, NotPromoted, FindingSaved,
                            StartGroups, WriteSummary, Killed, Ended
    <2> QED BY <1>0, <2>1, PooledSame DEF Ended
  <1>7. CASE CreateFile \/ FillFile \/ GroupCopied \/ CreateSummary
    <2>1. UNCHANGED <<pool, corpusLen, corpusDir, phase>> /\ phase # "handle"
      BY <1>7 DEF CreateFile, FillFile, Writing, GroupCopied, CreateSummary
    <2> QED BY <1>0, <2>1, PooledSame
  <1>8. CASE UNCHANGED vars
    <2>1. UNCHANGED <<pool, corpusLen, corpusDir, phase, out>>
      BY <1>8 DEF vars
    <2>2. IsFiniteSet(DOMAIN corpusDir')
      BY <2>1 DEF Pooled
    <2> QED BY <1>0, <2>1, <2>2 DEF Pooled
  <1> QED
    BY <1>1, <1>2, <1>3, <1>4, <1>5, <1>6, <1>7, <1>8 DEF Next

LEMMA PooledKept == Pooled => PoolKept
  BY DEF Pooled, PoolKept, Last

\* run_mutation_campaign drains its pool without losing a fixture: the corpus
\* stays at the front, the pool stays within its cap and the program that was
\* run last is in it, for every corpus, every cap above zero and every number
\* of programs promoted by earlier campaigns.
THEOREM CorpusKept == Spec => []PoolKept
  BY PooledInit, PooledStep, PooledKept, PTL DEF Spec

-----------------------------------------------------------------------------
(* The artifacts.                                                           *)

Files == {"prog.bin", "prog.dump", "mini.txt", "concrete.txt", "kernel.log", "meta.json", "group.json"}
Four == Required \cup {"meta.json"}        \* the files every directory gets
Kinds == Classes \cup {"verdict-flip"}     \* of the directories under findings/
InGroup(e) == e[1][1] = "group"            \* a file under groups/
Write == CreateFile \/ FillFile

\* Where files are: in the directory of a finding or a flip, or of a group.
Shaped ==
    \A e \in DOMAIN disk :
        /\ e = <<e[1], e[2]>>
        /\ \/ InGroup(e) /\ e[1][3] \in Nat
           \/ e[1][1] \in Kinds /\ e[1][2] \in Nat

\* A directory is being written; the files it must end up with.
Active == phase \in {"flip", "save"} \/ (phase = "group" /\ groups # <<>>)
Plan == IF phase = "group" THEN Four \cup {"group.json"} ELSE Range(save_finding(out))

\* None of the four files comes after meta.json.
Tidy(s) == \A i, j \in DOMAIN s : s[i] = "meta.json" /\ s[j] \in Four => j <= i

\* A directory half way: what is not still to be written is there.
HalfWay ==
    /\ Active => /\ todo \in Seq(Files) /\ Tidy(todo)
                 /\ \A f \in Plan \ Range(todo) : Has(Dir, f, Content(f))
    /\ phase = "group" /\ groups = <<>> => todo = <<>>

\* meta.json is the last of the four to exist, in any campaign.
Present == \A e \in DOMAIN disk : e[2] = "meta.json" => \A f \in Required : <<e[1], f>> \in DOMAIN disk

\* Generation: a name stands for one program in every campaign of the seed.
Reproducible ==
    setup.mode = "generation" =>
        /\ before = None /\ (phase \in Working => prog = gen[iter])
        /\ \A e \in DOMAIN disk : ~InGroup(e) => disk[e] \in {Torn, gen[e[1][2]]}

\* The first campaign: a name is used once, and not before its iteration; the
\* groups are copied once, in their order.
FirstUse ==
    run = 1 =>
        \A e \in DOMAIN disk :
            ~InGroup(e) =>
                /\ e[1][2] <= iter
                /\ phase \notin Ended /\ e[1][2] = iter =>
                      phase \in Known /\ (e[1][1] = "verdict-flip" \/ phase = "save")
FirstCopy ==
    run = 1 =>
        \A e \in DOMAIN disk :
            InGroup(e) => phase \in Ended \/ (phase = "group" /\ e[1][3] <= Copied)

\* The first campaign: the directory being written has no whole meta.json
\* before it has the other three, and then meta.json vouches for them.
Whole(dir, f) == <<dir, f>> \in DOMAIN disk /\ disk[<<dir, f>>] # Torn
Unfinished == run = 1 /\ Active /\ Range(todo) \cap Four # {} => ~Whole(Dir, "meta.json")
Vouched == run = 1 => \A e \in DOMAIN disk : e[2] = "meta.json" /\ disk[e] # Torn => Saved(e[1], disk[e])

\* The candidates: findings of earlier iterations, with all their files.  A
\* finding is being saved under its own class.
Complete(c) == \A f \in Range(save_finding(c)) : Has(<<c.finding, c.name>>, f, c.prog)
Listed ==
    /\ candidates \in Seq(Elements(candidates))
    /\ phase = "save" => out.finding \in Findings
    /\ \A n \in DOMAIN candidates :
          /\ candidates[n].finding \in Findings
          /\ candidates[n].name \in Nat /\ candidates[n].name < iter
          /\ Complete(candidates[n])

\* The groups are copied in their order, completely.
GroupDir(n) == <<"group", group[n].priority, n - 1>>
GroupProg(n) == disk[<<Source(group[n]), "prog.bin">>]
GroupSaved(n) == \A f \in Four \cup {"group.json"} : Has(GroupDir(n), f, GroupProg(n))
Copying ==
    phase \in {"group", "done"} =>
        /\ \E n \in 0 .. Len(group) : groups = SubSeq(group, n + 1, Len(group)) /\ \A i \in 1 .. n : GroupSaved(i)
        /\ phase = "done" => groups = <<>>

Archive ==
    /\ Shaped /\ HalfWay /\ Present /\ Reproducible /\ FirstUse /\ FirstCopy
    /\ Unfinished /\ Vouched /\ Listed /\ Copying

\* A nonempty set of numbers has a least one.
LEMMA LeastNat ==
    ASSUME NEW S \in SUBSET Nat, S # {}
    PROVE  \E m \in S : \A n \in S : m <= n
  <1>1. PICK m \in S : \A n \in S : ~(<<n, m>> \in OpToRel(<, Nat))
    BY NatLessThanWellFounded, WFMin
  <1>2. \A n \in S : ~(n < m)
    BY <1>1 DEF OpToRel
  <1> QED BY <1>2

LEMMA MinOfNats ==
    ASSUME NEW S \in SUBSET Nat, S # {}
    PROVE  Min(S) \in S
  BY LeastNat DEF Min

\* Adding the last of an order to an ordered enumeration of the others.
LEMMA AddLast ==
    ASSUME NEW T, IsFiniteSet(T), NEW x \in T, \A t \in T : t.priority \in Nat /\ x.priority <= t.priority,
           NEW s \in SetToSeqs(T \ {x}), Ordered(s)
    PROVE  \E r \in SetToSeqs(T) : Ordered(r)
  <1> DEFINE n == Cardinality(T)
             r == [i \in 1 .. n |-> IF i = n THEN x ELSE s[i]]
  <1>1. n \in Nat /\ n > 0 /\ Cardinality(T \ {x}) = n - 1
    <2>1. n \in Nat /\ Cardinality(T \ {x}) = n - 1
      BY FS_CardinalityType, FS_RemoveElement
    <2>2. IsFiniteSet(T \ {x}) /\ Cardinality(T \ {x}) \in Nat
      BY FS_RemoveElement, FS_CardinalityType
    <2> QED BY <2>1, <2>2
  <1> HIDE DEF n
  <1>2. s \in [1 .. n - 1 -> T \ {x}] /\ \A i, j \in 1 .. n - 1 : i # j => s[i] # s[j]
    BY <1>1 DEF SetToSeqs
  <1>3. r \in [1 .. n -> T]
    BY <1>1, <1>2
  <1>4. \A i, j \in 1 .. n : i # j => r[i] # r[j]
    BY <1>1, <1>2
  <1>5. r \in SetToSeqs(T)
    BY <1>3, <1>4 DEF SetToSeqs, n
  <1>6. Ordered(r)
    <2> SUFFICES ASSUME NEW i \in 1 .. n, NEW j \in 1 .. n, i < j PROVE r[i].priority >= r[j].priority
      BY DEF Ordered
    <2>1. i \in 1 .. n - 1 /\ s[i] \in T
      BY <1>1, <1>2
    <2>2. CASE j = n
      BY <1>1, <2>1, <2>2
    <2>3. CASE j # n
      <3>1. j \in 1 .. n - 1
        BY <1>1, <2>3
      <3>2. s[i].priority >= s[j].priority
        BY <1>2, <2>1, <3>1 DEF Ordered
      <3> QED BY <1>1, <2>1, <2>3, <3>1, <3>2
    <2> QED BY <2>2, <2>3
  <1> QED BY <1>5, <1>6

\* A finite set can be put in the order of its priorities.
LEMMA Orderable ==
    ASSUME NEW S, IsFiniteSet(S), \A t \in S : t.priority \in Nat
    PROVE  \E s \in SetToSeqs(S) : Ordered(s)
  <1> DEFINE Good(T) == \E s \in SetToSeqs(T) : Ordered(s)
             Bad == {n \in Nat : \E T \in SUBSET S : Cardinality(T) = n /\ ~Good(T)}
  <1>1. SUFFICES Bad = {}
    <2>1. Cardinality(S) \in Nat
      BY FS_CardinalityType
    <2> HIDE DEF Good
    <2>2. Good(S)
      BY <1>1, <2>1
    <2> QED BY <2>2 DEF Good
  <1>2. SUFFICES ASSUME Bad # {} PROVE FALSE
    OBVIOUS
  <1>3. PICK n \in Bad : \A m \in Bad : n <= m
    <2>1. Bad \in SUBSET Nat
      OBVIOUS
    <2> HIDE DEF Bad
    <2> QED BY <1>2, <2>1, LeastNat
  <1> HIDE DEF Good
  <1>4. PICK T \in SUBSET S : Cardinality(T) = n /\ ~Good(T)
    BY <1>3
  <1>5. IsFiniteSet(T)
    BY FS_Subset
  <1>6. CASE T = {}
    <2> DEFINE e == [i \in 1 .. 0 |-> 0]
    <2>1. e \in SetToSeqs(T) /\ Ordered(e)
      <3>1. Cardinality(T) = 0
        BY <1>6, FS_EmptySet
      <3> QED BY <1>6, <3>1 DEF SetToSeqs, Ordered
    <2> QED BY <1>4, <2>1 DEF Good
  <1>7. CASE T # {}
    <2> DEFINE Ps == {t.priority : t \in T}
    <2>1. PICK p \in Ps : \A q \in Ps : p <= q
      <3>1. Ps \in SUBSET Nat /\ Ps # {}
        BY <1>7
      <3> HIDE DEF Ps
      <3> QED BY <3>1, LeastNat
    <2>2. PICK x \in T : p = x.priority
      BY <2>1
    <2>3. \A t \in T : t.priority \in Nat /\ x.priority <= t.priority
      BY <2>1, <2>2
    <2>4. n \in Nat /\ Cardinality(T \ {x}) = n - 1 /\ n - 1 \in Nat
      <3>1. Cardinality(T \ {x}) = n - 1 /\ IsFiniteSet(T \ {x})
        BY <1>4, <1>5, FS_RemoveElement
      <3>2. Cardinality(T \ {x}) \in Nat
        BY <3>1, FS_CardinalityType
      <3> QED BY <1>3, <3>1, <3>2
    <2>5. Good(T \ {x})
      <3>1. n - 1 \notin Bad
        BY <1>3, <2>4
      <3> QED BY <2>4, <3>1
    <2>6. PICK s \in SetToSeqs(T \ {x}) : Ordered(s)
      BY <2>5 DEF Good
    <2>7. Good(T)
      BY <1>5, <2>3, <2>6, AddLast DEF Good
    <2> QED BY <1>4, <2>7
  <1> QED BY <1>6, <1>7

-----------------------------------------------------------------------------
(* The lists of files.                                                      *)

LEMMA Joined ==
    ASSUME NEW a \in Seq(Files), NEW b \in Seq(Files)
    PROVE  /\ a \o b \in Seq(Files) /\ Range(a \o b) = Range(a) \cup Range(b)
           /\ (Tidy(a) /\ Tidy(b) /\ ("meta.json" \notin Range(a) \/ Range(b) \cap Four = {})) => Tidy(a \o b)
  <1> DEFINE s == a \o b
  <1>1. /\ s \in Seq(Files) /\ Len(s) = Len(a) + Len(b) /\ DOMAIN s = 1 .. Len(s)
        /\ \A i \in 1 .. Len(a) + Len(b) : s[i] = IF i <= Len(a) THEN a[i] ELSE b[i - Len(a)]
    BY ConcatProperties
  <1>2. /\ Len(a) \in Nat /\ DOMAIN a = 1 .. Len(a)
        /\ Len(b) \in Nat /\ DOMAIN b = 1 .. Len(b)
    OBVIOUS
  <1> HIDE DEF s
  <1>3. \A i \in DOMAIN s : \/ i \in DOMAIN a /\ s[i] = a[i]
                            \/ i - Len(a) \in DOMAIN b /\ i > Len(a) /\ s[i] = b[i - Len(a)]
    BY <1>1, <1>2
  <1>4. Range(s) = Range(a) \cup Range(b)
    <2>1. Range(s) \subseteq Range(a) \cup Range(b)
      BY <1>3 DEF Range
    <2>2. \A i \in DOMAIN a : i \in DOMAIN s /\ s[i] = a[i]
      BY <1>1, <1>2
    <2>3. \A i \in DOMAIN b : i + Len(a) \in DOMAIN s /\ s[i + Len(a)] = b[i]
      <3> SUFFICES ASSUME NEW i \in DOMAIN b PROVE i + Len(a) \in DOMAIN s /\ s[i + Len(a)] = b[i]
        OBVIOUS
      <3>1. i + Len(a) \in 1 .. Len(a) + Len(b) /\ ~(i + Len(a) <= Len(a)) /\ (i + Len(a)) - Len(a) = i
        BY <1>2
      <3> QED BY <1>1, <3>1
    <2>4. Range(a) \subseteq Range(s)
      BY <2>2 DEF Range
    <2>5. Range(b) \subseteq Range(s)
      BY <2>3 DEF Range
    <2> QED BY <2>1, <2>4, <2>5
  <1>5. ASSUME Tidy(a), Tidy(b), "meta.json" \notin Range(a) \/ Range(b) \cap Four = {}
        PROVE  Tidy(s)
    <2> SUFFICES ASSUME NEW i \in DOMAIN s, NEW j \in DOMAIN s, s[i] = "meta.json", s[j] \in Four PROVE j <= i
      BY DEF Tidy
    <2>0. i \in Nat /\ j \in Nat
      BY <1>1
    <2>1. CASE i \in DOMAIN a /\ s[i] = a[i]
      <3>1. "meta.json" \in Range(a)
        BY <2>1 DEF Range
      <3>2. j \in DOMAIN a /\ s[j] = a[j]
        <4>1. \A n \in DOMAIN b : b[n] \notin Four
          BY <1>5, <3>1 DEF Range
        <4> QED BY <1>3, <4>1
      <3> QED BY <1>5, <2>1, <3>2 DEF Tidy
    <2>2. CASE i - Len(a) \in DOMAIN b /\ i > Len(a) /\ s[i] = b[i - Len(a)]
      <3>1. CASE j \in DOMAIN a
        BY <1>2, <2>0, <2>2, <3>1
      <3>2. CASE j - Len(a) \in DOMAIN b /\ s[j] = b[j - Len(a)]
        <4>1. j - Len(a) <= i - Len(a)
          BY <1>5, <2>2, <3>2 DEF Tidy
        <4> QED BY <1>2, <2>0, <4>1
      <3> QED BY <1>3, <3>1, <3>2
    <2> QED BY <1>3, <2>1, <2>2
  <1> QED BY <1>1, <1>4, <1>5 DEF s

\* The beginning of a list has no meta.json yet.
Early(s, R) == s \in Seq(Files) /\ R \subseteq Range(s) /\ "meta.json" \notin Range(s)

LEMMA OneFile ==
    ASSUME NEW f \in Files
    PROVE  <<f>> \in Seq(Files) /\ Range(<<f>>) = {f} /\ Tidy(<<f>>)
  <1> DEFINE s == <<f>>
  <1>1. s \in Seq(Files) /\ DOMAIN s = {1} /\ s[1] = f
    OBVIOUS
  <1> HIDE DEF s
  <1>2. Range(s) = {f} /\ Tidy(s)
    BY <1>1 DEF Range, Tidy
  <1> QED BY <1>1, <1>2 DEF s

LEMMA NoFile == <<>> \in Seq(Files) /\ Range(<<>>) = {} /\ Tidy(<<>>)
  <1>1. <<>> \in Seq(Files) /\ DOMAIN <<>> = {}
    BY EmptySeq
  <1> QED BY <1>1 DEF Range, Tidy

LEMMA EarlyFile ==
    ASSUME NEW f \in Files, f # "meta.json"
    PROVE  Early(<<f>>, {f}) /\ Early(<<f>>, {}) /\ Early(<<>>, {})
  BY OneFile, NoFile DEF Early

LEMMA EarlyJoin ==
    ASSUME NEW a, NEW R, Early(a, R), NEW b, NEW Q, Early(b, Q)
    PROVE  Early(a \o b, R \cup Q)
  BY Joined DEF Early

\* A list with its meta.json.
Full(s, R) == s \in Seq(Files) /\ R \subseteq Range(s) /\ Tidy(s)

LEMMA EarlyTidy ==
    ASSUME NEW a, NEW R, Early(a, R)
    PROVE  Full(a \o <<"meta.json">>, R \cup {"meta.json"})
  <1>1. "meta.json" \in Files
    BY DEF Files
  <1>2. Tidy(a)
    BY DEF Early, Tidy, Range
  <1> QED BY <1>1, <1>2, OneFile, Joined DEF Early, Full

LEMMA ThreeFiles == Early(<<"prog.bin", "prog.dump", "mini.txt">>, Required)
  <1> DEFINE s == <<"prog.bin", "prog.dump", "mini.txt">>
  <1>1. /\ s \in Seq(Files) /\ DOMAIN s = 1 .. 3
        /\ s[1] = "prog.bin" /\ s[2] = "prog.dump" /\ s[3] = "mini.txt"
    BY DEF Files
  <1> HIDE DEF s
  <1>2. Range(s) = Required
    <2>1. 1 .. 3 = {1, 2, 3}
      OBVIOUS
    <2> QED BY <1>1, <2>1 DEF Range, Required
  <1>3. "meta.json" \notin Required
    BY DEF Required
  <1> QED BY <1>1, <1>2, <1>3 DEF Early, s

\* save_finding: the four files, meta.json last.
LEMMA SaveOrder ==
    ASSUME NEW o
    PROVE  Full(save_finding(o), Four)
  <1> DEFINE a == <<"prog.bin", "prog.dump", "mini.txt">>
             b == IF o.prog.mini # "Panic" /\ HasReportText(o.prog) THEN <<"concrete.txt">> ELSE <<>>
             c == IF o.kernel.message # "none" THEN <<"kernel.log">> ELSE <<>>
  <1>1. save_finding(o) = ((a \o b) \o c) \o <<"meta.json">>
    BY DEF save_finding
  <1>2. Early(a, Required)
    BY ThreeFiles
  <1>3. Early(b, {}) /\ Early(c, {})
    <2>1. "concrete.txt" \in Files /\ "kernel.log" \in Files
      BY DEF Files
    <2>2. Early(<<"concrete.txt">>, {}) /\ Early(<<"kernel.log">>, {}) /\ Early(<<>>, {})
      BY <2>1, EarlyFile
    <2> QED BY <2>2
  <1> HIDE DEF a, b, c
  <1>4. Early((a \o b) \o c, (Required \cup {}) \cup {})
    BY <1>2, <1>3, EarlyJoin
  <1>5. Full(((a \o b) \o c) \o <<"meta.json">>, ((Required \cup {}) \cup {}) \cup {"meta.json"})
    BY <1>4, EarlyTidy
  <1>6. ((Required \cup {}) \cup {}) \cup {"meta.json"} = Four
    BY DEF Four
  <1> QED BY <1>1, <1>5, <1>6

\* copy_dir of a directory that has the four: meta.json is the last of them.
LEMMA CopyOrder ==
    ASSUME NEW g, \A f \in Four : <<Source(g), f>> \in DOMAIN disk
    PROVE  Full(copy_dir(g), Four \cup {"group.json"})
  <1> DEFINE a == <<"prog.bin">>
             b == <<"prog.dump">>
             c == <<"mini.txt">>
             d == Existing(g, "concrete.txt")
             e == Existing(g, "kernel.log")
             j == <<"group.json">>
  <1>1. copy_dir(g) = ((((((a \o b) \o c) \o d) \o e) \o <<"meta.json">>) \o j)
    <2>1. {"prog.bin", "prog.dump", "mini.txt", "meta.json"} \subseteq Four
      BY DEF Four, Required
    <2>2. /\ Existing(g, "prog.bin") = <<"prog.bin">> /\ Existing(g, "prog.dump") = <<"prog.dump">>
          /\ Existing(g, "mini.txt") = <<"mini.txt">> /\ Existing(g, "meta.json") = <<"meta.json">>
      BY <2>1 DEF Existing
    <2> QED BY <2>2 DEF copy_dir
  <1>2. Early(a, {"prog.bin"}) /\ Early(b, {"prog.dump"}) /\ Early(c, {"mini.txt"})
    <2>1. "prog.bin" \in Files /\ "prog.dump" \in Files /\ "mini.txt" \in Files
      BY DEF Files
    <2> QED BY <2>1, EarlyFile
  <1>3. Early(d, {}) /\ Early(e, {})
    <2>1. "concrete.txt" \in Files /\ "kernel.log" \in Files
      BY DEF Files
    <2>2. Early(<<"concrete.txt">>, {}) /\ Early(<<"kernel.log">>, {}) /\ Early(<<>>, {})
      BY <2>1, EarlyFile
    <2> QED BY <2>2 DEF Existing
  <1>4. j \in Seq(Files) /\ Range(j) = {"group.json"} /\ Tidy(j)
    BY OneFile DEF Files
  <1> HIDE DEF a, b, c, d, e, j
  <1> DEFINE R == (({"prog.bin"} \cup {"prog.dump"}) \cup {"mini.txt"}) \cup {} \cup {}
             s == (((a \o b) \o c) \o d) \o e
  <1>5. Early(s, R)
    <2>1. Early((a \o b) \o c, ({"prog.bin"} \cup {"prog.dump"}) \cup {"mini.txt"})
      BY <1>2, EarlyJoin
    <2> QED BY <1>3, <2>1, EarlyJoin
  <1> HIDE DEF s, R
  <1>6. Full(s \o <<"meta.json">>, R \cup {"meta.json"})
    BY <1>5, EarlyTidy
  <1>7. R \cup {"meta.json"} = Four
    BY DEF R, Four, Required
  <1>8. "group.json" \notin Four
    BY DEF Four, Required
  <1> DEFINE t == s \o <<"meta.json">>
  <1>9. copy_dir(g) = t \o j
    BY <1>1 DEF s
  <1>10. t \in Seq(Files) /\ Four \subseteq Range(t) /\ Tidy(t)
    BY <1>6, <1>7 DEF Full
  <1> HIDE DEF t
  <1>11. t \o j \in Seq(Files) /\ Range(t \o j) = Range(t) \cup Range(j) /\ Tidy(t \o j)
    <2>1. Range(j) \cap Four = {}
      BY <1>4, <1>8
    <2> QED BY <1>4, <1>10, <2>1, Joined
  <1> QED BY <1>4, <1>9, <1>10, <1>11 DEF Full

\* The first file of a list and the rest.
LEMMA Rest ==
    ASSUME NEW s \in Seq(Files), s # <<>>, Tidy(s)
    PROVE  /\ Tail(s) \in Seq(Files) /\ Tidy(Tail(s)) /\ Range(s) = {Head(s)} \cup Range(Tail(s))
           /\ Head(s) = "meta.json" => Range(Tail(s)) \cap Four = {}
  <1> DEFINE t == Tail(s)
  <1>1. /\ t \in Seq(Files) /\ Len(t) = Len(s) - 1 /\ \A i \in 1 .. Len(t) : t[i] = s[i + 1]
        /\ Head(s) = s[1]
    BY HeadTailProperties
  <1>2. Len(s) \in Nat /\ Len(s) > 0 /\ DOMAIN s = 1 .. Len(s)
    BY EmptySeq
  <1> HIDE DEF t
  <1>3. \A i \in DOMAIN t : i \in Nat /\ i + 1 \in DOMAIN s /\ t[i] = s[i + 1]
    BY <1>1, <1>2
  <1>4. Range(s) = {s[1]} \cup Range(t)
    <2>1. \A i \in DOMAIN s : i # 1 => i - 1 \in DOMAIN t /\ s[i] = t[i - 1]
      <3> SUFFICES ASSUME NEW i \in DOMAIN s, i # 1 PROVE i - 1 \in DOMAIN t /\ s[i] = t[i - 1]
        OBVIOUS
      <3>1. i - 1 \in 1 .. Len(t) /\ (i - 1) + 1 = i
        BY <1>1, <1>2
      <3> QED BY <1>1, <3>1
    <2>2. 1 \in DOMAIN s
      BY <1>2
    <2> QED BY <1>3, <2>1, <2>2 DEF Range
  <1>5. Tidy(t)
    <2> SUFFICES ASSUME NEW i \in DOMAIN t, NEW j \in DOMAIN t, t[i] = "meta.json", t[j] \in Four PROVE j <= i
      BY DEF Tidy
    <2>1. j + 1 <= i + 1
      BY <1>3 DEF Tidy
    <2> QED BY <1>3, <2>1
  <1>6. s[1] = "meta.json" => Range(t) \cap Four = {}
    <2> SUFFICES ASSUME s[1] = "meta.json", NEW i \in DOMAIN t, t[i] \in Four PROVE FALSE
      BY DEF Range
    <2>1. 1 \in DOMAIN s /\ i + 1 \in DOMAIN s /\ s[i + 1] \in Four /\ i \in Nat /\ i >= 1
      BY <1>1, <1>2, <1>3
    <2>2. i + 1 <= 1
      BY <2>1 DEF Tidy
    <2> QED BY <2>1, <2>2
  <1> QED BY <1>1, <1>4, <1>5, <1>6 DEF t

-----------------------------------------------------------------------------
(* The groups.                                                              *)

\* triage::group: its groups come from candidates, and each one's
\* representative is one of them.
LEMMA GroupFacts ==
    ASSUME Listed
    PROVE  /\ group \in Seq(Groups) /\ group \in SetToSeqs(Groups) /\ IsFiniteSet(Groups)
           /\ \A g \in Groups : \E c \in DOMAIN candidates :
                  Source(g) = <<candidates[c].finding, candidates[c].name>>
  <1>1. \A g \in Groups : /\ g.priority \in Nat
                          /\ \E c \in DOMAIN candidates : Source(g) = <<candidates[c].finding, candidates[c].name>>
    <2> SUFFICES ASSUME NEW n \in DOMAIN candidates
                 PROVE  LET g == GroupOf(GroupKey(candidates[n])) IN
                        /\ g.priority \in Nat
                        /\ \E c \in DOMAIN candidates : Source(g) = <<candidates[c].finding, candidates[c].name>>
      BY DEF Groups
    <2> DEFINE key == GroupKey(candidates[n])
               g == GroupOf(key)
               names == {candidates[m].name : m \in Members(key)}
    <2>1. key[1] = candidates[n].finding /\ candidates[n].finding \in Findings
      BY DEF GroupKey, Listed
    <2>2. g.priority \in Nat
      <3>1. \A c \in Findings : priority_of[c] \in Nat
        BY DEF priority_of
      <3>2. g.priority = priority_of[key[1]]
        BY DEF GroupOf
      <3> QED BY <2>1, <3>1, <3>2
    <2>3. names \in SUBSET Nat /\ names # {}
      BY DEF Members, Listed
    <2>4. g.representative \in names
      <3>1. g.representative = Min(names)
        BY DEF GroupOf
      <3> HIDE DEF names
      <3> QED BY <2>3, <3>1, MinOfNats
    <2>5. PICK m \in Members(key) : g.representative = candidates[m].name
      BY <2>4
    <2>6. m \in DOMAIN candidates /\ candidates[m].finding = key[1]
      BY <2>5 DEF Members, GroupKey
    <2>7. Source(g) = <<candidates[m].finding, candidates[m].name>>
      BY <2>5, <2>6 DEF Source, GroupOf
    <2> QED BY <2>2, <2>6, <2>7
  <1>2. IsFiniteSet(Groups)
    <2> DEFINE f == [n \in DOMAIN candidates |-> GroupOf(GroupKey(candidates[n]))]
    <2>1. IsFiniteSet(DOMAIN f)
      <3>1. DOMAIN f = 1 .. Len(candidates) /\ Len(candidates) \in Nat
        BY DEF Listed
      <3> QED BY <3>1, FS_Interval
    <2>2. Groups = {f[n] : n \in DOMAIN f}
      BY DEF Groups
    <2> HIDE DEF f
    <2> QED BY <2>1, <2>2, FiniteValues
  <1>3. \E s \in SetToSeqs(Groups) : Ordered(s)
    BY <1>1, <1>2, Orderable
  <1>4. group \in SetToSeqs(Groups)
    BY <1>3 DEF group
  <1>5. Cardinality(Groups) \in Nat
    BY <1>2, FS_CardinalityType
  <1>6. group \in [1 .. Cardinality(Groups) -> Groups]
    BY <1>4 DEF SetToSeqs
  <1>7. group \in Seq(Groups)
    BY <1>5, <1>6
  <1> QED BY <1>1, <1>2, <1>4, <1>7

LEMMA GroupsOf ==
    ASSUME Listed
    PROVE  /\ group \in Seq(Groups)
           /\ \A g \in Groups : \E c \in DOMAIN candidates :
                  Source(g) = <<candidates[c].finding, candidates[c].name>>
  BY GroupFacts

LEMMA GroupKept == candidates' = candidates => group' = group /\ Groups' = Groups
  BY DEF group, Groups, GroupOf, Members

LEMMA CompleteSaved ==
    ASSUME NEW c, Complete(c)
    PROVE  \A f \in Four : Has(<<c.finding, c.name>>, f, c.prog)
  BY SaveOrder DEF Full, Complete

\* The representative of a group is a saved finding.
LEMMA SourceSaved ==
    ASSUME Listed, NEW g \in Groups
    PROVE  \E c \in DOMAIN candidates :
               /\ Source(g) = <<candidates[c].finding, candidates[c].name>> /\ Source(g)[1] \in Findings
               /\ \A f \in Four : Has(Source(g), f, candidates[c].prog)
  <1>1. PICK c \in DOMAIN candidates : Source(g) = <<candidates[c].finding, candidates[c].name>>
    BY GroupsOf
  <1>2. candidates[c].finding \in Findings /\ Complete(candidates[c])
    BY DEF Listed
  <1>3. \A f \in Four : Has(Source(g), f, candidates[c].prog)
    BY <1>1, <1>2, CompleteSaved
  <1> QED BY <1>1, <1>2, <1>3

\* Its copy is complete, whatever else the list holds.
LEMMA CopyList ==
    ASSUME Listed, NEW g \in Groups
    PROVE  Full(copy_dir(g), Four \cup {"group.json"})
  BY SourceSaved, CopyOrder DEF Has

\* Where the copying stands.
LEMMA CopyPlace ==
    ASSUME Listed, Copying, phase = "group", groups # <<>>
    PROVE  \E n \in 0 .. Len(group) - 1 :
               /\ Head(groups) = group[n + 1] /\ Head(groups) \in Groups /\ Copied = n
               /\ groups \in Seq(Groups) /\ Tail(groups) = SubSeq(group, n + 2, Len(group))
               /\ \A i \in 1 .. n : GroupSaved(i)
  <1>2. PICK n \in 0 .. Len(group) :
            groups = SubSeq(group, n + 1, Len(group)) /\ \A i \in 1 .. n : GroupSaved(i)
    BY DEF Copying
  <1> DEFINE s == group
  <1>3. s \in Seq(Groups)
    BY GroupsOf
  <1>4. groups = SubSeq(s, n + 1, Len(s)) /\ n \in 0 .. Len(s) /\ Len(s) \in Nat
    BY <1>2, <1>3
  <1> HIDE DEF s
  <1>5. n < Len(s)
    BY <1>3, <1>4
  <1>6. /\ groups \in Seq(Groups) /\ Len(groups) = Len(s) - n
        /\ \A i \in 1 .. Len(s) - n : groups[i] = s[n + i]
    BY <1>3, <1>4, <1>5
  <1>7. Head(groups) = s[n + 1] /\ s[n + 1] \in Groups
    BY <1>3, <1>4, <1>5
  <1>8. Tail(groups) = SubSeq(s, n + 2, Len(s))
    <2> DEFINE t == Tail(groups)
               u == SubSeq(s, n + 2, Len(s))
    <2>0. t \in Seq(Groups) /\ Len(t) = Len(groups) - 1 /\ \A i \in 1 .. Len(t) : t[i] = groups[i + 1]
      BY <1>6, HeadTailProperties
    <2>1. u \in Seq(Groups) /\ Len(u) = Len(s) - n - 1 /\ \A i \in 1 .. Len(s) - n - 1 : u[i] = s[i + n + 1]
      BY <1>3, <1>4, <1>5
    <2> HIDE DEF t, u
    <2>2. Len(t) = Len(s) - n - 1
      BY <1>4, <1>6, <2>0
    <2>3. \A i \in 1 .. Len(t) : t[i] = u[i]
      <3> TAKE i \in 1 .. Len(t)
      <3>1. i + 1 \in 1 .. Len(s) - n /\ n + (i + 1) = i + n + 1 /\ i \in 1 .. Len(s) - n - 1
        BY <1>4, <1>5, <2>2
      <3> QED BY <1>6, <2>0, <2>1, <3>1
    <2>4. t = u
      BY <2>0, <2>1, <2>2, <2>3, SeqEqual
    <2> QED BY <2>4 DEF t, u
  <1>9. Copied = n
    BY <1>4, <1>6 DEF Copied, s
  <1>10. n \in 0 .. Len(s) - 1
    BY <1>4, <1>5
  <1> QED BY <1>2, <1>6, <1>7, <1>8, <1>9, <1>10 DEF s

-----------------------------------------------------------------------------
(* One file is created or filled.                                           *)

\* What a write changes.
LEMMA WriteFrame ==
    ASSUME Write
    PROVE  /\ Writing
           /\ DOMAIN disk' = DOMAIN disk \cup {NextFile} /\ \A e \in DOMAIN disk : e # NextFile => disk'[e] = disk[e]
           /\ \/ disk'[NextFile] = Torn /\ todo' = todo
              \/ disk'[NextFile] = Content(Head(todo)) /\ todo' = Tail(todo)
           /\ UNCHANGED <<setup, gen, run, phase, iter, prog, before, out, candidates, groups>>
  <1>1. /\ Writing
        /\ \/ disk' = With(disk, NextFile, Torn) /\ todo' = todo
           \/ disk' = With(disk, NextFile, Content(Head(todo))) /\ todo' = Tail(todo)
        /\ UNCHANGED <<setup, gen, run, phase, iter, prog, before, out, candidates, groups>>
    BY DEF Write, CreateFile, FillFile, campaign, stats
  <1> QED BY <1>1 DEF With

\* Where it writes.
LEMMA WriteDir ==
    ASSUME Typed, Judged, Listed, Copying, HalfWay, Writing
    PROVE  /\ Active /\ Four \subseteq Plan
           /\ \/ /\ phase \in {"flip", "save"} /\ phase \in Known
                 /\ Dir = <<IF phase = "flip" THEN "verdict-flip" ELSE out.finding, iter>>
                 /\ Dir[1] \in Kinds /\ Dir[2] = iter /\ iter \in Nat /\ Dir[1] # "group"
                 /\ \A f : Content(f) = out.prog
              \/ /\ phase = "group" /\ Head(groups) \in Groups
                 /\ Dir = Target(Head(groups)) /\ Dir[1] = "group" /\ Dir[3] = Copied /\ Copied \in Nat
                 /\ \A f : Content(f) = disk[<<Source(Head(groups)), IF f = "group.json" THEN "prog.bin" ELSE f>>]
  <1>1. Active
    BY DEF Writing, HalfWay, Active
  <1>2. Four \subseteq Plan
    BY SaveOrder DEF Plan, Full
  <1>3. CASE phase \in {"flip", "save"}
    <2>1. phase \in Known /\ out.finding \in Classes /\ out.name = iter
      BY <1>3, Classifies DEF Known, Typed, Judged
    <2>2. iter \in Nat
      BY SetupsAssumption DEF Typed
    <2>3. Dir = <<IF phase = "flip" THEN "verdict-flip" ELSE out.finding, iter>>
      BY <1>3, <2>1 DEF Dir
    <2>4. Dir[1] \in Kinds /\ Dir[2] = iter
      BY <2>1, <2>3 DEF Kinds
    <2>5. "group" \notin Kinds
      BY DEF Kinds, Classes, Findings
    <2>6. \A f : Content(f) = out.prog
      BY <1>3 DEF Content
    <2> QED BY <1>1, <1>2, <1>3, <2>1, <2>2, <2>3, <2>4, <2>5, <2>6
  <1>4. CASE phase = "group"
    <2>1. PICK n \in 0 .. Len(group) - 1 : Head(groups) \in Groups /\ Copied = n
      BY <1>1, <1>4, CopyPlace DEF Active
    <2>2. Dir = Target(Head(groups)) /\ Dir[1] = "group" /\ Dir[3] = Copied
      BY <1>4 DEF Dir, Target
    <2>3. \A f : Content(f) = disk[<<Source(Head(groups)), IF f = "group.json" THEN "prog.bin" ELSE f>>]
      BY <1>4 DEF Content
    <2> QED BY <1>1, <1>2, <1>4, <2>1, <2>2, <2>3
  <1> QED BY <1>3, <1>4 DEF Writing

\* The four files of a directory are of one program, which is not written to.
LEMMA OneContent ==
    ASSUME Typed, Judged, Listed, Copying, HalfWay, Writing
    PROVE  \A f \in Four : Content(f) = Content("prog.bin")
  <1>1. CASE phase \in {"flip", "save"}
    BY <1>1 DEF Content
  <1>2. CASE phase = "group"
    <2> DEFINE g == Head(groups)
    <2>1. g \in Groups /\ \A f : Content(f) = disk[<<Source(g), IF f = "group.json" THEN "prog.bin" ELSE f>>]
      BY <1>2, WriteDir
    <2> HIDE DEF g
    <2>2. PICK c \in DOMAIN candidates : \A f \in Four : Has(Source(g), f, candidates[c].prog)
      BY <2>1, SourceSaved
    <2>3. "prog.bin" \in Four /\ "group.json" \notin Four
      BY DEF Four, Required
    <2> QED BY <2>1, <2>2, <2>3 DEF Has
  <1> QED BY <1>1, <1>2 DEF Writing

LEMMA WriteKeeps ==
    ASSUME Typed, Judged, Listed, Copying, HalfWay, Write
    PROVE  /\ Active' /\ Plan' = Plan /\ Dir' = Dir /\ Copied' = Copied
           /\ \A f \in Plan : Content(f)' = Content(f)
  <1>1. UNCHANGED <<setup, phase, out, candidates, groups>> /\ Writing
    BY WriteFrame
  <1>2. group' = group /\ Copied' = Copied
    BY <1>1, GroupKept DEF Copied
  <1>3. Dir' = Dir
    BY <1>1, <1>2 DEF Dir, Target
  <1>4. Active' /\ Plan' = Plan
    BY <1>1, WriteDir DEF Active, Plan, save_finding
  <1>5. \A f \in Plan : Content(f)' = Content(f)
    <2>1. CASE phase \in {"flip", "save"}
      BY <1>1, <2>1 DEF Content
    <2>2. CASE phase = "group"
      <3> DEFINE g == Head(groups)
                 x(f) == <<Source(g), IF f = "group.json" THEN "prog.bin" ELSE f>>
      <3>1. g \in Groups /\ NextFile[1] = Target(g) /\ Target(g)[1] = "group"
        BY <1>1, <2>2, WriteDir DEF NextFile
      <3>2. PICK c \in DOMAIN candidates :
                Source(g)[1] \in Findings /\ \A f \in Four : Has(Source(g), f, candidates[c].prog)
        BY <3>1, SourceSaved
      <3>3. "prog.bin" \in Four
        BY DEF Four, Required
      <3>4. \A f \in Plan : x(f) \in DOMAIN disk
        BY <2>2, <3>2, <3>3 DEF Has, Plan
      <3>5. \A f : x(f) # NextFile
        <4>1. "group" \notin Findings
          BY DEF Findings
        <4>2. \A f : x(f)[1] = Source(g)
          OBVIOUS
        <4> HIDE DEF x
        <4> QED BY <3>1, <3>2, <4>1, <4>2
      <3>6. \A f \in Plan : disk'[x(f)] = disk[x(f)]
        BY <3>4, <3>5, WriteFrame
      <3>7. \A f : Content(f) = disk[x(f)]
        BY <2>2 DEF Content
      <3>8. \A f : Content(f)' = disk'[x(f)]
        BY <1>1, <2>2 DEF Content, Source
      <3> HIDE DEF x
      <3> QED BY <3>6, <3>7, <3>8
    <2> QED BY <1>1, <2>1, <2>2 DEF Writing
  <1> QED BY <1>2, <1>3, <1>4, <1>5

\* Of meta.json, the reproducer, the dump and mini's verdict, meta.json is
\* written when the others are there.
LEMMA MetaLast ==
    ASSUME Typed, Judged, Listed, Copying, HalfWay, Writing, Head(todo) = "meta.json"
    PROVE  /\ Range(Tail(todo)) \cap Four = {}
           /\ \A f \in Required : f # Head(todo) /\ Has(Dir, f, Content("prog.bin"))
  <1>1. Active /\ Four \subseteq Plan
    BY WriteDir
  <1>2. todo \in Seq(Files) /\ Tidy(todo) /\ todo # <<>> /\ \A f \in Plan \ Range(todo) : Has(Dir, f, Content(f))
    BY <1>1 DEF HalfWay, Writing
  <1>3. Range(todo) = {"meta.json"} \cup Range(Tail(todo)) /\ Range(Tail(todo)) \cap Four = {}
    BY <1>2, Rest
  <1>4. \A f \in Required : f \in Four /\ f # "meta.json"
    BY DEF Four, Required
  <1>5. \A f \in Required : f \in Plan \ Range(todo)
    BY <1>1, <1>3, <1>4
  <1>6. \A f \in Required : Content(f) = Content("prog.bin")
    BY <1>4, OneContent
  <1> QED BY <1>2, <1>3, <1>4, <1>5, <1>6

-----------------------------------------------------------------------------
(* The steps.                                                               *)

\* Only save_finding and copy_dir write files.
LEMMA DiskStep == [Next]_vars => disk' = disk \/ Write
  BY DEF Next, vars, stats, Idle, LoadSeeds, Generate, MutateSeed, InvalidMutant, run_program, CampaignError,
         Write, FlipSaved, PushPool, handle_outcome, CreateSeed, FillSeed, NotPromoted, FindingSaved, StartGroups,
         GroupCopied, CreateSummary, WriteSummary, Killed, Restart

\* The first campaign is over with a restart.
LEMMA FirstRun == Typed /\ [Next]_vars /\ run' = 1 => run = 1 /\ ~Restart
  <1> SUFFICES ASSUME Typed, [Next]_vars, run' = 1 PROVE run = 1 /\ ~Restart
    OBVIOUS
  <1>1. run \in Nat /\ run >= 1
    BY SetupsAssumption DEF Typed
  <1>2. ~Restart
    BY <1>1 DEF Restart
  <1>3. run' = run
    BY <1>2 DEF Next, vars, campaign, Idle, LoadSeeds, Generate, MutateSeed, InvalidMutant, run_program, CampaignError,
         CreateFile, FillFile, FlipSaved, PushPool, handle_outcome, CreateSeed, FillSeed, NotPromoted, FindingSaved,
         StartGroups, GroupCopied, CreateSummary, WriteSummary, Killed
  <1> QED BY <1>2, <1>3

\* A step that writes nothing starts a directory, or goes on as before, or
\* has none to write.
FlipStarts == phase = "run" /\ phase' = "flip" /\ todo' = save_finding(out') /\ out'.name = iter
SaveStarts == /\ phase \in {"handle", "promote"} /\ phase' = "save" /\ todo' = save_finding(out')
              /\ out' = out /\ out.finding \in Findings
CopyStarts == /\ phase' = "group" /\ todo' = FirstFiles(groups') /\ candidates' = candidates
              /\ \/ phase = "pick" /\ groups' = group
                 \/ phase = "group" /\ groups # <<>> /\ todo = <<>> /\ groups' = Tail(groups)
Starts == FlipStarts \/ SaveStarts \/ CopyStarts
Stays == phase' = phase /\ UNCHANGED <<todo, out, groups, candidates>>

LEMMA StartStep ==
    ASSUME [Next]_vars, ~Write
    PROVE  disk' = disk /\ (Starts \/ Stays \/ phase' \notin {"flip", "save", "group"})
  <1>0. disk' = disk
    BY DiskStep
  <1>1. CASE run_program
    BY <1>1 DEF run_program, Outcome, Starts, FlipStarts
  <1>2. CASE handle_outcome \/ FillSeed \/ NotPromoted
    <2>1. phase \in {"handle", "promote"} /\ out' = out
      BY <1>2 DEF handle_outcome, FillSeed, NotPromoted
    <2>2. phase' \in {"promote", "pick"} \/ (out.finding \in Findings /\ phase' = "save" /\ todo' = save_finding(out))
      BY <1>2, Persists DEF handle_outcome, FillSeed, NotPromoted
    <2> QED BY <1>0, <2>1, <2>2 DEF Starts, SaveStarts
  <1>3. CASE StartGroups \/ GroupCopied
    BY <1>0, <1>3 DEF StartGroups, GroupCopied, stats, Starts, CopyStarts
  <1>4. CASE CreateSeed \/ CreateSummary \/ UNCHANGED vars
    BY <1>0, <1>4 DEF CreateSeed, CreateSummary, vars, stats, Stays
  <1>5. CASE \/ LoadSeeds \/ Generate \/ MutateSeed \/ InvalidMutant \/ CampaignError \/ FlipSaved \/ PushPool
             \/ FindingSaved \/ WriteSummary \/ Killed \/ Restart
    BY <1>0, <1>5 DEF LoadSeeds, Generate, MutateSeed, InvalidMutant, CampaignError, FlipSaved, PushPool,
                      FindingSaved, WriteSummary, Killed, Restart, Ended
  <1> QED BY <1>1, <1>2, <1>3, <1>4, <1>5 DEF Next, Write

LEMMA ShapedStep ==
    Typed /\ Judged /\ Listed /\ Copying /\ HalfWay /\ Shaped /\ [Next]_vars => Shaped'
  <1> SUFFICES ASSUME Typed, Judged, Listed, Copying, HalfWay, Shaped, [Next]_vars PROVE Shaped'
    OBVIOUS
  <1>1. CASE disk' = disk
    BY <1>1 DEF Shaped, InGroup
  <1>2. CASE Write
    <2>1. NextFile = <<NextFile[1], NextFile[2]>> /\ NextFile[1] = Dir
      BY DEF NextFile
    <2>2. \/ Dir[1] = "group" /\ Dir[3] \in Nat
          \/ Dir[1] \in Kinds /\ Dir[2] \in Nat
      BY <1>2, WriteFrame, WriteDir
    <2>3. DOMAIN disk' = DOMAIN disk \cup {NextFile}
      BY <1>2, WriteFrame
    <2> HIDE DEF NextFile
    <2> QED BY <2>1, <2>2, <2>3 DEF Shaped, InGroup
  <1> QED BY <1>1, <1>2, DiskStep

\* The groups that are started are groups of the candidates.
LEMMA StartsGroups ==
    ASSUME Listed, Copying, CopyStarts, groups' # <<>>
    PROVE  Head(groups') \in Groups /\ todo' = copy_dir(Head(groups'))
  <1>1. group \in Seq(Groups)
    BY GroupsOf
  <1>2. groups' \in Seq(Groups)
    <2>1. CASE phase = "group"
      <3>1. groups \in Seq(Groups)
        BY <2>1, CopyPlace DEF CopyStarts
      <3> QED BY <1>1, <2>1, <3>1 DEF CopyStarts
    <2>2. CASE phase = "pick"
      BY <1>1, <2>2 DEF CopyStarts
    <2> QED BY <2>1, <2>2 DEF CopyStarts
  <1>3. Head(groups') \in Groups
    BY <1>2
  <1> QED BY <1>3 DEF CopyStarts, FirstFiles

LEMMA HalfWayStep ==
    Typed /\ Judged /\ Listed /\ Copying /\ HalfWay /\ [Next]_vars => HalfWay'
  <1> SUFFICES ASSUME Typed, Judged, Listed, Copying, HalfWay, [Next]_vars PROVE HalfWay'
    OBVIOUS
  <1>1. CASE Write
    <2> DEFINE h == Head(todo)
               r == Tail(todo)
    <2>1. Active' /\ Plan' = Plan /\ Dir' = Dir /\ \A f \in Plan : Content(f)' = Content(f)
      BY <1>1, WriteKeeps
    <2>2. /\ Writing /\ phase' = phase /\ groups' = groups /\ NextFile = <<Dir, h>>
          /\ DOMAIN disk' = DOMAIN disk \cup {NextFile} /\ \A e \in DOMAIN disk : e # NextFile => disk'[e] = disk[e]
          /\ \/ todo' = todo
             \/ disk'[NextFile] = Content(h) /\ todo' = r
      BY <1>1, WriteFrame DEF NextFile
    <2>3. /\ todo \in Seq(Files) /\ Tidy(todo) /\ todo # <<>> /\ \A f \in Plan \ Range(todo) : Has(Dir, f, Content(f))
      BY <2>2, WriteDir DEF HalfWay, Writing
    <2>4. r \in Seq(Files) /\ Tidy(r) /\ Range(todo) = {h} \cup Range(r)
      BY <2>3, Rest
    <2> HIDE DEF h, r
    <2>5. \A f \in Plan \ Range(todo') :
              <<Dir, f>> \in DOMAIN disk' /\ disk'[<<Dir, f>>] = Content(f)
      <3> SUFFICES ASSUME NEW f \in Plan, f \notin Range(todo')
                   PROVE  <<Dir, f>> \in DOMAIN disk' /\ disk'[<<Dir, f>>] = Content(f)
        OBVIOUS
      <3>1. CASE f = h
        BY <2>2, <2>4, <3>1
      <3>2. CASE f # h
        <4>1. f \notin Range(todo) /\ <<Dir, f>> # NextFile
          BY <2>2, <2>4, <3>2
        <4>2. <<Dir, f>> \in DOMAIN disk /\ disk[<<Dir, f>>] = Content(f)
          BY <2>3, <4>1 DEF Has
        <4> QED BY <2>2, <4>1, <4>2
      <3> QED BY <3>1, <3>2
    <2>6. todo' \in Seq(Files) /\ Tidy(todo')
      BY <2>2, <2>3, <2>4
    <2>7. Tidy(todo)'
      BY <2>6 DEF Tidy
    <2>8. \A f \in Plan' \ Range(todo') : Has(Dir, f, Content(f))'
      BY <2>1, <2>5 DEF Has
    <2>9. ~(phase' = "group" /\ groups' = <<>>)
      BY <2>1, <2>2, WriteDir DEF Active
    <2> QED BY <2>1, <2>6, <2>7, <2>8, <2>9 DEF HalfWay
  <1>2. ASSUME FlipStarts \/ SaveStarts PROVE HalfWay'
    <2>1. Full(todo', Four) /\ phase' \in {"flip", "save"} /\ todo' = save_finding(out')
      BY <1>2, SaveOrder DEF FlipStarts, SaveStarts
    <2>2. todo' \in Seq(Files) /\ Tidy(todo')
      BY <2>1 DEF Full
    <2>3. Tidy(todo)'
      BY <2>2 DEF Tidy
    <2>4. Plan' = Range(todo')
      BY <2>1 DEF Plan, save_finding
    <2> QED BY <2>1, <2>2, <2>3, <2>4 DEF HalfWay
  <1>3. ASSUME CopyStarts PROVE HalfWay'
    <2>1. phase' = "group" /\ Plan' = Four \cup {"group.json"}
      <3>1. phase' = "group"
        BY <1>3 DEF CopyStarts
      <3> QED BY <3>1 DEF Plan, Four, Required
    <2>2. CASE groups' = <<>>
      <3>1. todo' = <<>>
        BY <1>3, <2>2 DEF CopyStarts, FirstFiles
      <3> QED BY <2>1, <2>2, <3>1 DEF HalfWay, Active
    <2>3. CASE groups' # <<>>
      <3>1. Full(todo', Four \cup {"group.json"})
        BY <1>3, <2>3, StartsGroups, CopyList
      <3>2. todo' \in Seq(Files) /\ Tidy(todo') /\ Four \cup {"group.json"} \subseteq Range(todo')
        BY <3>1 DEF Full
      <3>3. Tidy(todo)'
        BY <3>2 DEF Tidy
      <3> QED BY <2>1, <2>3, <3>2, <3>3 DEF HalfWay
    <2> QED BY <2>2, <2>3
  <1>4. ASSUME Stays, disk' = disk PROVE HalfWay'
    <2>1. UNCHANGED <<phase, todo, out, groups, candidates, disk>>
      BY <1>4 DEF Stays
    <2>2. group' = group
      BY <2>1, GroupKept
    <2>3. Active' = Active /\ Plan' = Plan /\ Dir' = Dir
      BY <2>1, <2>2 DEF Active, Plan, Dir, Target, Copied, save_finding
    <2>4. \A f : Content(f)' = Content(f)
      BY <2>1 DEF Content, Source
    <2>5. Tidy(todo)' <=> Tidy(todo)
      BY <2>1 DEF Tidy
    <2>6. \A f : Has(Dir, f, Content(f))' <=> Has(Dir, f, Content(f))
      BY <2>1, <2>3, <2>4 DEF Has
    <2> QED BY <2>1, <2>3, <2>5, <2>6 DEF HalfWay
  <1>5. ASSUME phase' \notin {"flip", "save", "group"} PROVE HalfWay'
    BY <1>5 DEF HalfWay, Active
  <1> QED BY <1>1, <1>2, <1>3, <1>4, <1>5, StartStep DEF Starts

LEMMA PresentStep ==
    Typed /\ Judged /\ Listed /\ Copying /\ HalfWay /\ Present /\ [Next]_vars => Present'
  <1> SUFFICES ASSUME Typed, Judged, Listed, Copying, HalfWay, Present, [Next]_vars PROVE Present'
    OBVIOUS
  <1>1. CASE disk' = disk
    BY <1>1 DEF Present
  <1>2. CASE Write
    <2> SUFFICES ASSUME NEW e \in DOMAIN disk', e[2] = "meta.json", NEW f \in Required
                 PROVE  <<e[1], f>> \in DOMAIN disk'
      BY DEF Present
    <2>1. Writing /\ DOMAIN disk' = DOMAIN disk \cup {NextFile}
      BY <1>2, WriteFrame
    <2>2. CASE e \in DOMAIN disk
      BY <2>1, <2>2 DEF Present
    <2>3. CASE e = NextFile
      <3>1. e[1] = Dir /\ Head(todo) = "meta.json"
        BY <2>3 DEF NextFile
      <3>2. <<Dir, f>> \in DOMAIN disk
        BY <2>1, <3>1, MetaLast DEF Has
      <3> QED BY <2>1, <3>1, <3>2
    <2> QED BY <2>1, <2>2, <2>3
  <1> QED BY <1>1, <1>2, DiskStep

LEMMA ReproducibleStep ==
    Typed /\ Judged /\ Listed /\ Copying /\ HalfWay /\ Reproducible /\ [Next]_vars => Reproducible'
  <1> SUFFICES ASSUME Typed, Judged, Listed, Copying, HalfWay, Reproducible, [Next]_vars, setup.mode = "generation"
               PROVE  Reproducible'
    BY SetupKept DEF Reproducible
  <1>0. setup' = setup /\ gen' = gen
    BY SetupKept
  <1>1. before' = None /\ (phase' \in Working => prog' = gen[iter'])
    <2>0. before = None /\ (phase \in Working => prog = gen[iter])
      BY DEF Reproducible
    <2>1. CASE Generate
      BY <2>1 DEF Generate
    <2>2. CASE MutateSeed \/ InvalidMutant
      BY <2>2 DEF MutateSeed, InvalidMutant
    <2>3. CASE Restart
      BY <2>3 DEF Restart, Working, Known
    <2>4. CASE handle_outcome \/ FillSeed \/ NotPromoted
      <3>1. phase \in Working /\ UNCHANGED <<prog, before>> /\ (iter' = iter \/ phase' = "pick")
        BY <2>4, Persists DEF handle_outcome, FillSeed, NotPromoted, Working, Known
      <3> QED BY <2>0, <3>1 DEF Working, Known
    <2>5. CASE FindingSaved
      BY <2>0, <2>5 DEF FindingSaved, Working, Known
    <2>6. CASE LoadSeeds \/ run_program \/ CampaignError \/ FlipSaved \/ PushPool \/ CreateSeed
      BY <2>0, <2>6 DEF LoadSeeds, run_program, CampaignError, FlipSaved, PushPool, CreateSeed, Working, Known
    <2>7. CASE StartGroups \/ GroupCopied \/ CreateSummary \/ WriteSummary \/ Killed
      BY <2>0, <2>7 DEF StartGroups, GroupCopied, CreateSummary, WriteSummary, Killed, Working, Known
    <2>8. CASE UNCHANGED vars \/ CreateFile \/ FillFile
      BY <2>0, <2>8 DEF CreateFile, FillFile, vars
    <2> QED BY <2>1, <2>2, <2>3, <2>4, <2>5, <2>6, <2>7, <2>8 DEF Next
  <1>2. \A e \in DOMAIN disk' : e[1][1] # "group" => disk'[e] \in {Torn, gen[e[1][2]]}
    <2>0. \A e \in DOMAIN disk : e[1][1] # "group" => disk[e] \in {Torn, gen[e[1][2]]}
      BY DEF Reproducible, InGroup
    <2>1. CASE disk' = disk
      BY <2>0, <2>1
    <2>2. CASE Write
      <3>1. /\ Writing /\ NextFile[1] = Dir
            /\ DOMAIN disk' = DOMAIN disk \cup {NextFile} /\ \A e \in DOMAIN disk : e # NextFile => disk'[e] = disk[e]
            /\ disk'[NextFile] \in {Torn, Content(Head(todo))}
        BY <2>2, WriteFrame DEF NextFile
      <3>2. CASE phase \in {"flip", "save"}
        <4>1. Content(Head(todo)) = out.prog /\ Dir[2] = iter
          BY <3>1, <3>2, WriteDir
        <4>2. out.prog = gen[iter]
          BY <3>2 DEF Typed, Reproducible, Known, Working
        <4> QED BY <2>0, <3>1, <4>1, <4>2
      <3>3. CASE phase = "group"
        <4>1. Dir[1] = "group"
          BY <3>1, <3>3, WriteDir
        <4> QED BY <2>0, <3>1, <4>1
      <3> QED BY <3>1, <3>2, <3>3 DEF Writing
    <2> QED BY <2>1, <2>2, DiskStep
  <1> QED BY <1>0, <1>1, <1>2 DEF Reproducible, InGroup

\* The loop counter moves on only when an iteration is over.
LEMMA FirstUseStep ==
    Typed /\ Judged /\ Listed /\ Copying /\ HalfWay /\ Shaped /\ FirstUse /\ [Next]_vars => FirstUse'
  <1> SUFFICES ASSUME Typed, Judged, Listed, Copying, HalfWay, Shaped, FirstUse, [Next]_vars, run' = 1,
                      NEW e \in DOMAIN disk', e[1][1] # "group"
               PROVE  /\ e[1][2] <= iter'
                      /\ phase' \notin Ended /\ e[1][2] = iter' =>
                            phase' \in Known /\ (e[1][1] = "verdict-flip" \/ phase' = "save")
    BY DEF FirstUse, InGroup
  <1>0. iter \in Nat /\ run = 1 /\ ~Restart
    BY SetupsAssumption, FirstRun DEF Typed
  <1> DEFINE m == e[1][2]
             new(p) == p \in Known /\ (e[1][1] = "verdict-flip" \/ p = "save")
  <1>1. ASSUME e \in DOMAIN disk
        PROVE  m \in Nat /\ m <= iter /\ (phase \notin Ended /\ m = iter => new(phase))
    BY <1>0, <1>1 DEF FirstUse, Shaped, InGroup
  <1>2. CASE Write
    <2>1. Writing /\ DOMAIN disk' = DOMAIN disk \cup {NextFile} /\ UNCHANGED <<iter, phase, out>>
      BY <1>2, WriteFrame
    <2>2. CASE e \in DOMAIN disk
      BY <1>1, <2>1, <2>2
    <2>3. CASE e = NextFile
      <3>1. e[1] = Dir
        BY <2>3 DEF NextFile
      <3>2. phase \in {"flip", "save"} /\ phase \in Known
            /\ Dir = <<IF phase = "flip" THEN "verdict-flip" ELSE out.finding, iter>>
        BY <2>1, <3>1, WriteDir
      <3> QED BY <1>0, <2>1, <3>1, <3>2
    <2> QED BY <2>1, <2>2, <2>3
  <1>3. CASE disk' = disk
    <2>0. m \in Nat /\ m <= iter /\ (phase \notin Ended /\ m = iter => new(phase))
      BY <1>1, <1>3
    <2>1. CASE LoadSeeds \/ Generate \/ MutateSeed \/ InvalidMutant \/ StartGroups
      <3>1. phase \in {"load", "pick"} /\ (iter' = iter \/ iter' = iter + 1)
        BY <2>1 DEF LoadSeeds, Generate, MutateSeed, InvalidMutant, StartGroups, Idle
      <3>2. m < iter
        BY <1>0, <2>0, <3>1 DEF Ended, Known
      <3> HIDE DEF m
      <3>3. m < iter'
        BY <1>0, <2>0, <3>1, <3>2
      <3> QED BY <1>0, <2>0, <3>1, <3>3 DEF m
    <2>2. CASE run_program
      <3>1. phase = "run" /\ iter' = iter
        BY <2>2 DEF run_program
      <3> QED BY <2>0, <3>1 DEF Ended, Known
    <2>3. CASE FlipSaved \/ PushPool \/ CreateSeed
      <3>1. phase' \in Known /\ phase \in {"flip", "pool", "promote"} /\ iter' = iter
        BY <2>3 DEF FlipSaved, PushPool, CreateSeed, Known
      <3> QED BY <2>0, <3>1 DEF Ended, Known
    <2>4. CASE handle_outcome \/ FillSeed \/ NotPromoted \/ FindingSaved
      <3>1. /\ phase \in {"handle", "promote", "save"}
            /\ \/ iter' = iter /\ phase' = "save"
               \/ iter' = iter /\ phase' = "promote" /\ phase = "handle"
               \/ iter' = iter + 1
        BY <2>4, Persists DEF handle_outcome, FillSeed, NotPromoted, FindingSaved
      <3> HIDE DEF m
      <3> QED BY <1>0, <2>0, <3>1 DEF Ended, Known, m
    <2>5. CASE CampaignError \/ WriteSummary \/ Killed
      <3>1. phase' \in Ended /\ iter' = iter
        BY <2>5 DEF CampaignError, WriteSummary, Killed, Ended
      <3> QED BY <2>0, <3>1
    <2>6. CASE GroupCopied \/ CreateSummary \/ CreateFile \/ FillFile \/ UNCHANGED vars
      <3>1. UNCHANGED <<phase, iter>>
        BY <2>6 DEF GroupCopied, CreateSummary, CreateFile, FillFile, vars
      <3> QED BY <2>0, <3>1
    <2> QED BY <1>0, <2>1, <2>2, <2>3, <2>4, <2>5, <2>6 DEF Next
  <1> QED BY <1>2, <1>3, DiskStep

\* A copied group leaves the next one a directory of its own.
LEMMA NextCopy ==
    ASSUME Listed, Copying, phase = "group", groups # <<>>, groups' = Tail(groups), candidates' = candidates
    PROVE  Copied \in Nat /\ Copied' = Copied + 1
  <1>1. PICK n \in 0 .. Len(group) - 1 : Copied = n /\ groups \in Seq(Groups)
    BY CopyPlace
  <1>2. Len(groups') = Len(groups) - 1 /\ Len(groups) \in Nat
    BY <1>1, HeadTailProperties
  <1>3. group' = group
    BY GroupKept
  <1>4. Len(group) \in Nat
    BY GroupsOf
  <1> QED BY <1>1, <1>2, <1>3, <1>4 DEF Copied

LEMMA FirstCopyStep ==
    Typed /\ Judged /\ Listed /\ Copying /\ HalfWay /\ Shaped /\ FirstCopy /\ [Next]_vars => FirstCopy'
  <1> SUFFICES ASSUME Typed, Judged, Listed, Copying, HalfWay, Shaped, FirstCopy, [Next]_vars, run' = 1,
                      NEW e \in DOMAIN disk', e[1][1] = "group"
               PROVE  phase' \in Ended \/ (phase' = "group" /\ e[1][3] <= Copied')
    BY DEF FirstCopy, InGroup
  <1>0. run = 1 /\ ~Restart
    BY FirstRun
  <1>1. ASSUME e \in DOMAIN disk
        PROVE  e[1][3] \in Nat /\ (phase \in Ended \/ (phase = "group" /\ e[1][3] <= Copied))
    <2>1. "group" \notin Kinds
      BY DEF Kinds, Classes, Findings
    <2> QED BY <1>0, <1>1, <2>1 DEF FirstCopy, Shaped, InGroup
  <1>2. CASE Write
    <2>1. Writing /\ DOMAIN disk' = DOMAIN disk \cup {NextFile} /\ phase' = phase
      BY <1>2, WriteFrame
    <2>2. Copied' = Copied
      BY <1>2, WriteKeeps
    <2>3. CASE e \in DOMAIN disk
      BY <1>1, <2>1, <2>2, <2>3
    <2>4. CASE e = NextFile
      <3>1. e[1] = Dir
        BY <2>4 DEF NextFile
      <3>2. phase = "group" /\ Dir[3] = Copied /\ Copied \in Nat
        BY <2>1, <3>1, WriteDir
      <3>3. e[1][3] <= Copied
        BY <3>1, <3>2
      <3> QED BY <2>1, <2>2, <3>2, <3>3
    <2> QED BY <2>1, <2>3, <2>4
  <1>3. CASE disk' = disk
    <2>0. e[1][3] \in Nat /\ (phase \in Ended \/ (phase = "group" /\ e[1][3] <= Copied))
      BY <1>1, <1>3
    <2>1. CASE GroupCopied
      <3>1. /\ phase = "group" /\ phase' = "group" /\ groups # <<>> /\ groups' = Tail(groups)
            /\ candidates' = candidates
        BY <2>1 DEF GroupCopied, stats
      <3>2. Copied \in Nat /\ Copied' = Copied + 1
        BY <3>1, NextCopy
      <3>3. e[1][3] <= Copied
        BY <2>0, <3>1 DEF Ended
      <3>4. e[1][3] <= Copied'
        BY <2>0, <3>2, <3>3
      <3> QED BY <3>1, <3>4
    <2>2. CASE CampaignError \/ WriteSummary \/ Killed
      BY <2>2 DEF CampaignError, WriteSummary, Killed, Ended
    <2>3. CASE CreateSummary \/ CreateFile \/ FillFile \/ UNCHANGED vars
      <3>1. UNCHANGED <<phase, groups, candidates>>
        BY <2>3 DEF CreateSummary, CreateFile, FillFile, vars, stats
      <3>2. Copied' = Copied
        BY <3>1, GroupKept DEF Copied
      <3> QED BY <2>0, <3>1, <3>2
    <2>4. CASE \/ LoadSeeds \/ Generate \/ MutateSeed \/ InvalidMutant \/ run_program \/ FlipSaved \/ PushPool
               \/ handle_outcome \/ CreateSeed \/ FillSeed \/ NotPromoted \/ FindingSaved \/ StartGroups
      <3>1. phase \notin Ended \cup {"group"}
        BY <2>4 DEF LoadSeeds, Generate, MutateSeed, InvalidMutant, run_program, FlipSaved, PushPool,
           handle_outcome, CreateSeed, FillSeed, NotPromoted, FindingSaved, StartGroups, Ended
      <3> QED BY <2>0, <3>1
    <2> QED BY <1>0, <2>1, <2>2, <2>3, <2>4 DEF Next
  <1> QED BY <1>2, <1>3, DiskStep

\* A directory of the first campaign is new when its first file is written.
LEMMA UnfinishedStep ==
    Typed /\ Judged /\ Listed /\ Copying /\ HalfWay /\ Shaped /\ FirstUse /\ FirstCopy /\ Unfinished /\ [Next]_vars
        => Unfinished'
  <1> SUFFICES ASSUME Typed, Judged, Listed, Copying, HalfWay, Shaped, FirstUse, FirstCopy, Unfinished, [Next]_vars
               PROVE  Unfinished'
    OBVIOUS
  <1> SUFFICES ASSUME run' = 1, Active', (Range(todo) \cap Four # {})'
               PROVE  ~Whole(Dir, "meta.json")'
    BY DEF Unfinished
  <1>a. Range(todo') \cap Four # {}
    BY DEF Four, Required
  <1> SUFFICES ASSUME <<Dir', "meta.json">> \in DOMAIN disk', disk'[<<Dir', "meta.json">>] # Torn
               PROVE  FALSE
    BY DEF Whole, Torn
  <1>0. run = 1 /\ ~Restart
    BY FirstRun
  <1>1. CASE Write
    <2> DEFINE h == Head(todo)
               r == Tail(todo)
               e == <<Dir, "meta.json">>
    <2>1. /\ Writing /\ NextFile = <<Dir, h>>
          /\ DOMAIN disk' = DOMAIN disk \cup {NextFile} /\ \A x \in DOMAIN disk : x # NextFile => disk'[x] = disk[x]
          /\ \/ disk'[NextFile] = Torn /\ todo' = todo
             \/ disk'[NextFile] = Content(h) /\ todo' = r
      BY <1>1, WriteFrame DEF NextFile
    <2>2. Dir' = Dir
      BY <1>1, WriteKeeps
    <2>3. Active /\ todo \in Seq(Files) /\ Tidy(todo) /\ todo # <<>>
      BY <2>1, WriteDir DEF HalfWay, Writing
    <2>4. Range(todo) = {h} \cup Range(r) /\ (h = "meta.json" => Range(r) \cap Four = {})
      BY <2>3, Rest
    <2> HIDE DEF h, r
    <2>5. ~(e \in DOMAIN disk /\ disk[e] # Torn)
      <3>1. Range(todo) \cap Four # {}
        BY <1>a, <2>1, <2>4
      <3> QED BY <1>0, <2>3, <3>1 DEF Unfinished, Whole
    <2>6. CASE h = "meta.json"
      <3>1. disk'[e] = Torn
        BY <1>a, <2>1, <2>4, <2>6
      <3> QED BY <2>2, <3>1
    <2>7. CASE h # "meta.json"
      <3>1. e # NextFile
        BY <2>1, <2>7
      <3> QED BY <2>1, <2>2, <2>5, <3>1
    <2> QED BY <2>6, <2>7
  <1>2. ASSUME ~Write, NEW e \in DOMAIN disk, e = <<Dir', "meta.json">>, disk' = disk, Starts PROVE FALSE
    <2>0. e[1] = Dir' /\ iter \in Nat
      BY <1>2, SetupsAssumption DEF Typed
    <2>1. CASE FlipStarts
      <3>1. Dir' = <<"verdict-flip", iter>>
        BY <2>1 DEF FlipStarts, Dir
      <3>2. e[1][1] = "verdict-flip" /\ e[1][2] = iter
        BY <2>0, <3>1
      <3> QED BY <1>0, <2>1, <3>2 DEF FirstUse, InGroup, FlipStarts, Ended, Known
    <2>2. CASE SaveStarts
      <3>1. Dir' = <<out.finding, out.name>> /\ out.name = iter /\ out.finding \in Findings
        BY <2>2 DEF SaveStarts, Dir, Typed, Known
      <3>2. e[1][2] = iter /\ e[1][1] \notin {"verdict-flip", "group"}
        BY <2>0, <3>1 DEF Findings
      <3>3. phase \notin Ended /\ phase # "save"
        BY <2>2 DEF SaveStarts, Ended
      <3> QED BY <1>0, <3>2, <3>3 DEF FirstUse, InGroup
    <2>3. CASE CopyStarts
      <3>1. Dir'[1] = "group" /\ Dir'[3] = Copied'
        BY <2>3 DEF CopyStarts, Dir, Target
      <3>2. e[1][3] <= Copied /\ phase = "group"
        <4>1. phase \notin Ended
          BY <2>3 DEF CopyStarts, Ended
        <4> QED BY <1>0, <2>0, <3>1, <4>1 DEF FirstCopy, InGroup
      <3>3. Copied \in Nat /\ Copied' = Copied + 1
        BY <2>3, <3>2, NextCopy DEF CopyStarts
      <3> QED BY <2>0, <3>1, <3>2, <3>3
    <2> QED BY <1>2, <2>1, <2>2, <2>3 DEF Starts
  <1>3. CASE ~Write
    <2>1. CASE Starts
      BY <1>2, <1>3, <2>1, StartStep
    <2>2. CASE Stays
      <3>1. UNCHANGED <<phase, todo, out, groups, candidates, disk>>
        BY <1>3, <2>2, StartStep DEF Stays
      <3>2. group' = group
        BY <3>1, GroupKept
      <3>3. Dir' = Dir /\ Active
        BY <3>1, <3>2 DEF Dir, Target, Copied, Active
      <3> QED BY <1>0, <1>a, <3>1, <3>3 DEF Unfinished, Whole
    <2>3. phase' \in {"flip", "save", "group"}
      BY DEF Active
    <2> QED BY <1>3, <2>1, <2>2, <2>3, StartStep
  <1> QED BY <1>1, <1>3

LEMMA VouchedStep ==
    Typed /\ Judged /\ Listed /\ Copying /\ HalfWay /\ Shaped /\ Unfinished /\ Vouched /\ [Next]_vars => Vouched'
  <1> SUFFICES ASSUME Typed, Judged, Listed, Copying, HalfWay, Shaped, Unfinished, Vouched, [Next]_vars,
                      run' = 1, NEW e \in DOMAIN disk', e[2] = "meta.json", disk'[e] # Torn, NEW f \in Four
               PROVE  <<e[1], f>> \in DOMAIN disk' /\ disk'[<<e[1], f>>] = disk'[e]
    BY DEF Vouched, Saved, Has, Four
  <1>0. run = 1
    BY FirstRun
  <1>1. ASSUME e \in DOMAIN disk, disk[e] # Torn
        PROVE  e = <<e[1], "meta.json">> /\ <<e[1], f>> \in DOMAIN disk /\ disk[<<e[1], f>>] = disk[e]
    BY <1>0, <1>1 DEF Vouched, Saved, Has, Four, Shaped
  <1>2. CASE disk' = disk
    BY <1>1, <1>2
  <1>3. CASE Write
    <2> DEFINE h == Head(todo)
    <2>1. /\ Writing /\ NextFile = <<Dir, h>>
          /\ DOMAIN disk' = DOMAIN disk \cup {NextFile} /\ \A x \in DOMAIN disk : x # NextFile => disk'[x] = disk[x]
          /\ \/ disk'[NextFile] = Torn
             \/ disk'[NextFile] = Content(h)
      BY <1>3, WriteFrame DEF NextFile
    <2>2. h \in Four => ~(<<Dir, "meta.json">> \in DOMAIN disk /\ disk[<<Dir, "meta.json">>] # Torn)
      <3>1. Active /\ todo \in Seq(Files) /\ Tidy(todo) /\ todo # <<>>
        BY <2>1, WriteDir DEF HalfWay, Writing
      <3>2. h \in Range(todo)
        BY <3>1, Rest
      <3> HIDE DEF h
      <3> QED BY <1>0, <3>1, <3>2 DEF Unfinished, Whole
    <2>3. h = "meta.json" => \A x \in Required : <<Dir, x>> \in DOMAIN disk /\ disk[<<Dir, x>>] = Content("prog.bin")
      BY <2>1, MetaLast DEF Has
    <2>4. \A x \in Four : Content(x) = Content("prog.bin")
      BY <2>1, OneContent
    <2> HIDE DEF h
    <2>5. CASE e # NextFile
      <3>1. e \in DOMAIN disk /\ disk'[e] = disk[e]
        BY <2>1, <2>5
      <3>2. e = <<e[1], "meta.json">> /\ <<e[1], f>> \in DOMAIN disk /\ disk[<<e[1], f>>] = disk[e]
        BY <1>1, <3>1
      <3>3. <<e[1], f>> # NextFile
        <4> SUFFICES ASSUME <<e[1], f>> = NextFile PROVE FALSE
          OBVIOUS
        <4>1. e[1] = Dir /\ f = h
          BY <2>1
        <4>2. e = <<Dir, "meta.json">>
          BY <3>2, <4>1
        <4> QED BY <2>2, <3>1, <4>1, <4>2
      <3> QED BY <2>1, <3>1, <3>2, <3>3
    <2>6. CASE e = NextFile
      <3>1. e[1] = Dir /\ h = "meta.json" /\ disk'[e] = Content(h)
        BY <2>1, <2>6
      <3>2. "meta.json" \in Four /\ (f = "meta.json" \/ (f \in Required /\ f # "meta.json"))
        BY DEF Four, Required
      <3>3. disk'[e] = Content("prog.bin")
        BY <2>4, <3>1, <3>2
      <3>4. CASE f = "meta.json"
        BY <2>1, <2>6, <3>1, <3>4
      <3>5. CASE f \in Required /\ f # "meta.json"
        <4>1. <<Dir, f>> \in DOMAIN disk /\ disk[<<Dir, f>>] = Content("prog.bin") /\ <<Dir, f>> # NextFile
          BY <2>1, <2>3, <3>1, <3>5
        <4> QED BY <2>1, <3>1, <3>3, <4>1
      <3> QED BY <3>2, <3>4, <3>5
    <2> QED BY <2>5, <2>6
  <1> QED BY <1>2, <1>3, DiskStep

\* A directory whose files are left alone.
Untouched(dir) == \A f : <<dir, f>> \in DOMAIN disk =>
                             <<dir, f>> \in DOMAIN disk' /\ disk'[<<dir, f>>] = disk[<<dir, f>>]

LEMMA WriteElsewhere ==
    ASSUME Write, NEW dir, dir # Dir
    PROVE  Untouched(dir)
  <1> SUFFICES ASSUME NEW f, <<dir, f>> \in DOMAIN disk
               PROVE  <<dir, f>> \in DOMAIN disk' /\ disk'[<<dir, f>>] = disk[<<dir, f>>]
    BY DEF Untouched
  <1>1. <<dir, f>> # NextFile
    BY DEF NextFile
  <1> QED BY <1>1, WriteFrame

\* The directories of the candidates are not written to again.
LEMMA CandidateUntouched ==
    ASSUME Typed, Judged, Listed, Copying, HalfWay, [Next]_vars, NEW n \in DOMAIN candidates
    PROVE  Untouched(<<candidates[n].finding, candidates[n].name>>)
  <1> DEFINE dir == <<candidates[n].finding, candidates[n].name>>
  <1>1. candidates[n].finding \in Findings /\ candidates[n].name \in Nat /\ candidates[n].name < iter
    BY DEF Listed
  <1>2. dir[1] # "group" /\ dir[2] # iter
    BY <1>1 DEF Findings
  <1> HIDE DEF dir
  <1>3. CASE disk' = disk
    BY <1>3 DEF Untouched
  <1>4. CASE Write
    <2>1. dir # Dir
      BY <1>2, <1>4, WriteFrame, WriteDir
    <2> QED BY <1>4, <2>1, WriteElsewhere DEF dir
  <1> QED BY <1>3, <1>4, DiskStep

LEMMA ListedStep == Typed /\ Judged /\ Copying /\ HalfWay /\ Listed /\ [Next]_vars => Listed'
  <1> SUFFICES ASSUME Typed, Judged, Copying, HalfWay, Listed, [Next]_vars PROVE Listed'
    OBVIOUS
  <1>0. iter \in Nat /\ (phase \in Known => out.name = iter)
    BY SetupsAssumption DEF Typed
  <1>1. phase' = "save" => out'.finding \in Findings
    <2>1. CASE Write
      BY <2>1, WriteFrame DEF Listed
    <2>2. CASE ~Write
      BY <2>2, StartStep DEF Listed, Starts, FlipStarts, SaveStarts, CopyStarts, Stays
    <2> QED BY <2>1, <2>2
  <1>2. ASSUME NEW n \in DOMAIN candidates
        PROVE  \A f \in Range(save_finding(candidates[n])) :
                   /\ <<<<candidates[n].finding, candidates[n].name>>, f>> \in DOMAIN disk'
                   /\ disk'[<<<<candidates[n].finding, candidates[n].name>>, f>>] = candidates[n].prog
    <2>1. Untouched(<<candidates[n].finding, candidates[n].name>>)
      BY CandidateUntouched
    <2>2. Complete(candidates[n])
      BY DEF Listed
    <2> HIDE DEF Listed
    <2> QED BY <2>1, <2>2 DEF Untouched, Complete, Has
  <1>3. CASE Restart
    <2>1. candidates' = <<>> /\ phase' = "load"
      BY <1>3 DEF Restart
    <2>2. candidates' \in Seq(Elements(candidates'))
      <3>1. <<>> \in Seq({}) /\ DOMAIN <<>> = {}
        BY EmptySeq
      <3> QED BY <2>1, <3>1, SeqOfElements
    <2>3. DOMAIN candidates' = {}
      BY <2>1
    <2>4. (candidates \in Seq(Elements(candidates)))'
      BY <2>2 DEF Elements
    <2> QED BY <2>1, <2>3, <2>4 DEF Listed
  <1>4. CASE FindingSaved
    <2>1. /\ candidates' = Append(candidates, out) /\ phase = "save" /\ todo = <<>> /\ phase' = "pick"
          /\ iter' = iter + 1 /\ disk' = disk
      BY <1>4 DEF FindingSaved
    <2>2. out.finding \in Findings /\ out.name = iter
      BY <1>0, <2>1 DEF Listed, Known
    <2>3. Complete(out)
      <3>1. Plan = Range(save_finding(out)) /\ Dir = <<out.finding, out.name>> /\ \A f : Content(f) = out.prog
        BY <2>1 DEF Plan, Dir, Content
      <3>2. \A f \in Plan : Has(Dir, f, Content(f))
        BY <2>1, NoFile DEF HalfWay, Active
      <3> QED BY <3>1, <3>2 DEF Complete
    <2> DEFINE S == Elements(candidates) \cup {out}
    <2>3a. candidates \in Seq(S)
      BY SeqMonotonic DEF Listed
    <2>4. /\ candidates' \in Seq(S) /\ DOMAIN candidates' = 1 .. Len(candidates) + 1
          /\ DOMAIN candidates = 1 .. Len(candidates) /\ Len(candidates) \in Nat
          /\ \A n \in DOMAIN candidates : candidates'[n] = candidates[n]
          /\ candidates'[Len(candidates) + 1] = out
      BY <2>1, <2>3a
    <2> HIDE DEF S
    <2>5. (candidates \in Seq(Elements(candidates)))'
      BY <2>4, SeqOfElements DEF Elements
    <2>6. ASSUME NEW n \in DOMAIN candidates'
          PROVE  /\ candidates'[n].finding \in Findings
                 /\ candidates'[n].name \in Nat /\ candidates'[n].name < iter'
                 /\ Complete(candidates[n])'
      <3>1. CASE n \in DOMAIN candidates
        <4>1. /\ candidates[n].finding \in Findings
              /\ candidates[n].name \in Nat /\ candidates[n].name < iter
              /\ Complete(candidates[n])
          BY <3>1 DEF Listed
        <4>2. candidates'[n] = candidates[n]
          BY <2>4, <3>1
        <4>3. Complete(candidates[n])'
          BY <2>1, <4>1, <4>2 DEF Complete, Has, save_finding
        <4> QED BY <1>0, <2>1, <4>1, <4>2, <4>3
      <3>2. CASE n \notin DOMAIN candidates
        <4>1. candidates'[n] = out
          BY <2>4, <3>2
        <4>2. Complete(candidates[n])'
          BY <2>1, <2>3, <4>1 DEF Complete, Has, save_finding
        <4> QED BY <1>0, <2>1, <2>2, <4>1, <4>2
      <3> QED BY <3>1, <3>2
    <2> QED BY <1>1, <2>5, <2>6 DEF Listed
  <1>5. CASE ~Restart /\ ~FindingSaved
    <2>1. candidates' = candidates /\ (iter' = iter \/ iter' = iter + 1)
      BY <1>5, Persists DEF Next, vars, stats, Idle, LoadSeeds, Generate, MutateSeed, InvalidMutant, run_program,
         CampaignError, CreateFile, FillFile, FlipSaved, PushPool, handle_outcome, CreateSeed, FillSeed, NotPromoted,
         StartGroups, GroupCopied, CreateSummary, WriteSummary, Killed
    <2>2. \A n \in DOMAIN candidates' : Complete(candidates[n])'
      BY <1>2, <2>1 DEF Complete, Has, save_finding
    <2>3. \A n \in DOMAIN candidates' :
              /\ candidates'[n].finding \in Findings
              /\ candidates'[n].name \in Nat /\ candidates'[n].name < iter'
      BY <1>0, <2>1 DEF Listed
    <2>4. (candidates \in Seq(Elements(candidates)))'
      BY <2>1 DEF Listed, Elements
    <2> QED BY <1>1, <2>2, <2>3, <2>4 DEF Listed
  <1> QED BY <1>3, <1>4, <1>5

\* The reproducer of a group's representative stays where it is.
LEMMA SourceKept ==
    ASSUME Typed, Judged, Listed, Copying, HalfWay, [Next]_vars, NEW g \in Groups
    PROVE  disk'[<<Source(g), "prog.bin">>] = disk[<<Source(g), "prog.bin">>]
  <1>1. PICK c \in DOMAIN candidates :
            /\ Source(g) = <<candidates[c].finding, candidates[c].name>>
            /\ \A f \in Four : Has(Source(g), f, candidates[c].prog)
    BY SourceSaved
  <1>2. Untouched(Source(g))
    BY <1>1, CandidateUntouched
  <1>3. "prog.bin" \in Four
    BY DEF Four, Required
  <1> QED BY <1>1, <1>2, <1>3 DEF Untouched, Has

\* A group that is copied stays copied while the next is written.
LEMMA CopiedKept ==
    ASSUME Typed, Judged, Listed, Copying, HalfWay, [Next]_vars, candidates' = candidates,
           NEW n \in 1 .. Len(group), GroupSaved(n), Untouched(GroupDir(n))
    PROVE  GroupSaved(n)'
  <1>1. group' = group /\ group[n] \in Groups
    BY GroupKept, GroupsOf
  <1>2. GroupDir(n)' = GroupDir(n) /\ GroupProg(n)' = GroupProg(n)
    BY <1>1, SourceKept DEF GroupDir, GroupProg, Source
  <1>3. \A f \in Four \cup {"group.json"} : Has(GroupDir(n), f, GroupProg(n))'
    BY <1>2 DEF GroupSaved, Untouched, Has
  <1> QED BY <1>3 DEF GroupSaved, Four, Required

\* A group whose files are all written is copied.
LEMMA CopyDone ==
    ASSUME Typed, Judged, Listed, Copying, HalfWay, phase = "group", groups # <<>>, todo = <<>>,
           NEW n \in 0 .. Len(group) - 1, Head(groups) = group[n + 1], Copied = n
    PROVE  GroupSaved(n + 1)
  <1> DEFINE g == Head(groups)
  <1>1. /\ g \in Groups /\ Dir = Target(g) /\ Plan = Four \cup {"group.json"}
        /\ \A f : Content(f) = disk[<<Source(g), IF f = "group.json" THEN "prog.bin" ELSE f>>]
    BY CopyPlace DEF Dir, Plan, Content
  <1>2. \A f \in Plan : Has(Dir, f, Content(f))
    BY NoFile DEF HalfWay, Active
  <1>3. Dir = GroupDir(n + 1) /\ g = group[n + 1]
    <2>1. n \in Nat
      BY GroupsOf
    <2>2. (n + 1) - 1 = n
      BY <2>1
    <2> QED BY <1>1, <2>2 DEF Target, GroupDir
  <1> HIDE DEF g
  <1>4. PICK c \in DOMAIN candidates : \A f \in Four : Has(Source(g), f, candidates[c].prog)
    BY <1>1, SourceSaved
  <1>5. "prog.bin" \in Four /\ "group.json" \notin Four
    BY DEF Four, Required
  <1>6. \A f \in Plan : Content(f) = GroupProg(n + 1)
    <2>1. GroupProg(n + 1) = candidates[c].prog
      BY <1>3, <1>4, <1>5 DEF GroupProg, Has
    <2> QED BY <1>1, <1>4, <1>5, <2>1 DEF Has
  <1> QED BY <1>1, <1>2, <1>3, <1>6 DEF GroupSaved

LEMMA CopyingStep == Typed /\ Judged /\ Listed /\ HalfWay /\ Copying /\ [Next]_vars => Copying'
  <1> SUFFICES ASSUME Typed, Judged, Listed, HalfWay, Copying, [Next]_vars, phase' \in {"group", "done"} PROVE Copying'
    BY DEF Copying
  <1>1. group \in Seq(Groups) /\ Len(group) \in Nat /\ DOMAIN group = 1 .. Len(group)
    BY GroupsOf
  <1>2. CASE StartGroups
    <2>1. groups' = group /\ candidates' = candidates /\ phase' = "group"
      BY <1>2 DEF StartGroups, stats
    <2>2. group' = group
      BY <2>1, GroupKept
    <2> DEFINE s == group
    <2>3. s \in Seq(Groups) /\ Len(s) \in Nat
      BY <1>1
    <2> HIDE DEF s
    <2>4. s = SubSeq(s, 0 + 1, Len(s)) /\ 0 \in 0 .. Len(s)
      BY <2>3
    <2> QED BY <2>1, <2>2, <2>4 DEF Copying, s
  <1>3. CASE GroupCopied
    <2>1. /\ phase = "group" /\ groups # <<>> /\ todo = <<>> /\ groups' = Tail(groups) /\ phase' = "group"
          /\ candidates' = candidates /\ disk' = disk
      BY <1>3 DEF GroupCopied, stats
    <2>2. PICK n \in 0 .. Len(group) - 1 :
              /\ Head(groups) = group[n + 1] /\ Copied = n /\ Tail(groups) = SubSeq(group, n + 2, Len(group))
              /\ \A i \in 1 .. n : GroupSaved(i)
      BY <2>1, CopyPlace
    <2>3. GroupSaved(n + 1)
      BY <2>1, <2>2, CopyDone
    <2>4. n \in Nat /\ n + 1 \in 0 .. Len(group) /\ (n + 1) + 1 = n + 2
      BY <1>1
    <2>5. \A i \in 1 .. n + 1 : GroupSaved(i)
      <3>1. \A i \in 1 .. n + 1 : i \in 1 .. n \/ i = n + 1
        BY <2>4
      <3> QED BY <2>2, <2>3, <3>1
    <2>6. group' = group
      BY <2>1, GroupKept
    <2>7. \A i \in 1 .. n + 1 : GroupSaved(i)'
      <3> SUFFICES ASSUME NEW i \in 1 .. n + 1 PROVE GroupSaved(i)'
        OBVIOUS
      <3>1. i \in 1 .. Len(group)
        BY <1>1, <2>4
      <3>2. Untouched(GroupDir(i))
        BY <2>1 DEF Untouched
      <3> QED BY <2>1, <2>5, <3>1, <3>2, CopiedKept
    <2>8. \E m \in 0 .. Len(group) : groups' = SubSeq(group, m + 1, Len(group)) /\ \A i \in 1 .. m : GroupSaved(i)'
      BY <2>1, <2>2, <2>4, <2>7
    <2> QED BY <2>1, <2>6, <2>8 DEF Copying
  <1>4. CASE Write
    <2>0. UNCHANGED <<phase, candidates, groups>> /\ Writing
      BY <1>4, WriteFrame
    <2>1. phase = "group" /\ groups # <<>> /\ Dir = Target(Head(groups)) /\ Dir[3] = Copied
      BY <2>0, WriteDir DEF Active, Writing, Known
    <2>2. PICK n \in 0 .. Len(group) :
              groups = SubSeq(group, n + 1, Len(group)) /\ \A i \in 1 .. n : GroupSaved(i)
      BY <2>1 DEF Copying
    <2>3. Copied = n
      <3> DEFINE s == group
      <3>1. groups = SubSeq(s, n + 1, Len(s)) /\ n \in 0 .. Len(s) /\ Len(s) \in Nat /\ s \in Seq(Groups)
        BY <1>1, <2>2
      <3> HIDE DEF s
      <3>2. Len(groups) = Len(s) - n
        BY <2>1, <3>1
      <3>3. Copied = Len(s) - Len(groups)
        BY DEF Copied, s
      <3> QED BY <3>1, <3>2, <3>3
    <2>4. group' = group
      BY <2>0, GroupKept
    <2>5. \A i \in 1 .. n : GroupSaved(i)'
      <3> SUFFICES ASSUME NEW i \in 1 .. n PROVE GroupSaved(i)'
        OBVIOUS
      <3>1. i \in 1 .. Len(group) /\ i - 1 # n
        BY <1>1
      <3>2. GroupDir(i) # Dir
        <4>1. GroupDir(i)[3] = i - 1
          BY DEF GroupDir
        <4> QED BY <2>1, <2>3, <3>1, <4>1
      <3>3. Untouched(GroupDir(i))
        BY <1>4, <3>2, WriteElsewhere
      <3> QED BY <2>0, <2>2, <3>1, <3>3, CopiedKept
    <2> QED BY <2>0, <2>1, <2>2, <2>4, <2>5 DEF Copying
  <1>5. CASE CreateSummary \/ WriteSummary \/ UNCHANGED vars
    <2>1. /\ UNCHANGED <<candidates, disk, groups>> /\ phase \in {"group", "done"} /\ (phase' = "done" => groups' = <<>>)
      BY <1>5 DEF CreateSummary, WriteSummary, vars, stats, Copying
    <2>2. group' = group
      BY <2>1, GroupKept
    <2>3. \A i : GroupSaved(i)' <=> GroupSaved(i)
      BY <2>1, <2>2 DEF GroupSaved, GroupDir, GroupProg, Has, Source, Four, Required
    <2> QED BY <2>1, <2>2, <2>3 DEF Copying
  <1> QED
    BY <1>2, <1>3, <1>4, <1>5 DEF Write, Next, LoadSeeds, Generate, MutateSeed, InvalidMutant, run_program, CampaignError,
       FlipSaved, PushPool, handle_outcome, Persist, CreateSeed, FillSeed, NotPromoted, FindingSaved, Killed, Restart

LEMMA ArchiveInit == Init => Archive
  <1> SUFFICES ASSUME Init PROVE Archive
    OBVIOUS
  <1>1. /\ DOMAIN disk = {} /\ phase = "load" /\ before = None /\ candidates = <<>>
    BY DEF Init, Fresh
  <1>2. candidates \in Seq(Elements(candidates)) /\ DOMAIN candidates = {}
    <2>1. <<>> \in Seq({}) /\ DOMAIN <<>> = {}
      BY EmptySeq
    <2> QED BY <1>1, <2>1, SeqOfElements
  <1> QED
    BY <1>1, <1>2 DEF Archive, Shaped, HalfWay, Active, Present, Reproducible, FirstUse, FirstCopy, Unfinished,
                      Vouched, Listed, Copying, Working, Known

LEMMA ArchiveStep == Typed /\ Judged /\ Archive /\ [Next]_vars => Archive'
  BY ShapedStep, HalfWayStep, PresentStep, ReproducibleStep, FirstUseStep, FirstCopyStep, UnfinishedStep,
     VouchedStep, ListedStep, CopyingStep DEF Archive

\* When the groups are done, each is copied.
LEMMA AllCopied ==
    ASSUME Archive, phase = "done", NEW i \in DOMAIN group
    PROVE  GroupSaved(i)
  <1> DEFINE s == group
  <1>1. s \in Seq(Groups) /\ Len(s) \in Nat /\ DOMAIN s = 1 .. Len(s)
    BY GroupsOf DEF Archive
  <1>2. PICK n \in 0 .. Len(s) : groups = SubSeq(s, n + 1, Len(s)) /\ \A j \in 1 .. n : GroupSaved(j)
    BY DEF Archive, Copying
  <1>3. groups = <<>>
    BY DEF Archive, Copying
  <1> HIDE DEF s
  <1>4. n = Len(s)
    <2> DEFINE L == Len(s)
    <2>0. L \in Nat /\ n \in 0 .. L
      BY <1>1
    <2>1. Len(SubSeq(s, n + 1, L)) = IF n + 1 <= L THEN L - (n + 1) + 1 ELSE 0
      <3>1. \A j \in n + 1 .. L : s[j] \in Groups
        BY <1>1, <2>0
      <3>2. n + 1 \in Int /\ L \in Int
        BY <2>0
      <3> QED BY <3>1, <3>2, SubSeqProperties
    <2>2. Len(SubSeq(s, n + 1, L)) = 0
      <3>1. SubSeq(s, n + 1, L) = <<>>
        BY <1>2, <1>3, Zenon
      <3>2. Len(<<>>) = 0
        BY EmptySeq
      <3> QED BY ONLY <3>1, <3>2
    <2>3. 0 = IF n + 1 <= L THEN L - (n + 1) + 1 ELSE 0
      BY <2>1, <2>2
    <2> HIDE DEF L
    <2>4. n = L
      BY ONLY <2>0, <2>3
    <2> QED BY <2>4 DEF L
  <1>5. i \in 1 .. n
    BY <1>1, <1>4 DEF s
  <1> QED BY <1>2, <1>5

LEMMA ArchiveComplete == Archive => ArtifactsComplete
  <1> SUFFICES ASSUME Archive PROVE ArtifactsComplete
    OBVIOUS
  <1>1. \A e \in DOMAIN disk :
            e[2] = "meta.json" =>
                /\ \A f \in Required : <<e[1], f>> \in DOMAIN disk
                /\ run = 1 /\ disk[e] # Torn => Saved(e[1], disk[e])
    BY DEF Archive, Present, Vouched
  <1>2. ASSUME setup.mode = "generation", NEW d \in DOMAIN disk, NEW e \in DOMAIN disk,
               d[1] = e[1], d[1][1] # "group", Torn \notin {disk[d], disk[e]}
        PROVE  disk[d] = disk[e]
    BY <1>2 DEF Archive, Reproducible, InGroup
  <1>3. \A n \in DOMAIN candidates :
            \A f \in Range(save_finding(candidates[n])) :
                Has(<<candidates[n].finding, candidates[n].name>>, f, candidates[n].prog)
    BY DEF Archive, Listed, Complete
  <1>4. ASSUME phase = "done", NEW n \in DOMAIN group, NEW m \in DOMAIN candidates,
               <<candidates[m].finding, candidates[m].name>> = Source(group[n])
        PROVE  /\ Saved(<<"group", group[n].priority, n - 1>>, candidates[m].prog)
               /\ Has(<<"group", group[n].priority, n - 1>>, "group.json", candidates[m].prog)
    <2>1. GroupSaved(n)
      BY <1>4, AllCopied
    <2>2. GroupProg(n) = candidates[m].prog
      <3>1. Complete(candidates[m])
        BY DEF Archive, Listed
      <3>2. "prog.bin" \in Four
        BY DEF Four, Required
      <3> QED BY <1>4, <3>1, <3>2, CompleteSaved DEF Has, GroupProg
    <2> QED BY <2>1, <2>2 DEF GroupSaved, GroupDir, Saved, Four
  <1> QED BY <1>1, <1>2, <1>3, <1>4 DEF ArtifactsComplete

\* save_finding and copy_dir create and fill their files one by one, and the
\* process may be killed in the middle of any of them and started again over
\* the same directory, any number of times.  A meta.json is never without the
\* reproducer, the dump and mini's verdict; in a new output directory a whole
\* one vouches for them; in generation mode the whole files of a finding are
\* of one program; what the process lists is completely on disk, and so is the
\* copy of every group's representative at the end.
THEOREM Artifacts == Spec => []ArtifactsComplete
  <1>1. Typed /\ Judged /\ Archive /\ [Next]_vars => (Typed /\ Judged /\ Archive)'
    BY TypedStep, JudgedStep, ArchiveStep
  <1>2. Init => Typed /\ Judged /\ Archive
    BY TypedInit, ArchiveInit
  <1> QED BY <1>1, <1>2, ArchiveComplete, PTL DEF Spec

-----------------------------------------------------------------------------
(* The counters.                                                            *)

\* The sums of a fold over the subsets of S, each element taken as FoldSet
\* chooses it.
Pick(s) == CHOOSE x \in s : TRUE
Totals(f, S, g) ==
    /\ g \in [SUBSET S -> Nat] /\ g[{}] = 0
    /\ \A s \in SUBSET S : s # {} => g[s] = f[Pick(s)] + g[s \ {Pick(s)}]

\* The chosen element is one of the set.
LEMMA Picked ==
    ASSUME NEW s, s # {}
    PROVE  Pick(s) \in s
  BY DEF Pick

\* A set without its chosen element has one element less.
LEMMA Removed ==
    ASSUME NEW S, IsFiniteSet(S), NEW s \in SUBSET S, s # {}
    PROVE  /\ Pick(s) \in S /\ s \ {Pick(s)} \in SUBSET S /\ Cardinality(s) \in Nat
           /\ Cardinality(s) > 0 /\ Cardinality(s \ {Pick(s)}) = Cardinality(s) - 1
  <1>1. IsFiniteSet(s) /\ Pick(s) \in s
    BY Picked, FS_Subset
  <1>2. /\ IsFiniteSet(s \ {Pick(s)}) /\ Cardinality(s \ {Pick(s)}) = Cardinality(s) - 1
    BY <1>1, FS_RemoveElement
  <1>3. Cardinality(s) \in Nat /\ Cardinality(s \ {Pick(s)}) \in Nat
    BY <1>1, <1>2, FS_CardinalityType
  <1> QED BY <1>1, <1>2, <1>3

\* The fold's recursion has a solution, level by level.
LEMMA TotalsExist ==
    ASSUME NEW S, IsFiniteSet(S), NEW f, \A x \in S : f[x] \in Nat
    PROVE  \E g : /\ g = [s \in SUBSET S |-> IF s = {} THEN 0 ELSE f[Pick(s)] + g[s \ {Pick(s)}]]
                  /\ Totals(f, S, g)
  <1> DEFINE Level(n) == {s \in SUBSET S : Cardinality(s) <= n}
             Solves(n, g) == /\ g \in [Level(n) -> Nat]
                             /\ \A s \in Level(n) : g[s] = IF s = {} THEN 0 ELSE f[Pick(s)] + g[s \ {Pick(s)}]
             Bad == {n \in Nat : ~ \E g : Solves(n, g)}
  <1>0. Cardinality(S) \in Nat /\ \A s \in SUBSET S : Cardinality(s) \in Nat /\ Cardinality(s) <= Cardinality(S)
    <2>1. \A s \in SUBSET S : IsFiniteSet(s) /\ Cardinality(s) <= Cardinality(S)
      BY FS_Subset
    <2> QED BY <2>1, FS_CardinalityType
  <1>1. Bad = {}
    <2> SUFFICES ASSUME Bad # {} PROVE FALSE
      OBVIOUS
    <2>1. PICK n \in Bad : \A m \in Bad : n <= m
      <3>1. Bad \in SUBSET Nat
        OBVIOUS
      <3> HIDE DEF Bad
      <3> QED BY <3>1, LeastNat
    <2>2. n \in Nat /\ ~ \E g : Solves(n, g)
      BY <2>1
    <2>3. CASE n = 0
      <3> DEFINE g == [s \in Level(n) |-> 0]
      <3>1. \A s \in Level(n) : s = {}
        <4> SUFFICES ASSUME NEW s \in SUBSET S, Cardinality(s) <= 0, s # {} PROVE FALSE
          BY <2>3
        <4>1. Cardinality(s) > 0 /\ Cardinality(s) \in Nat
          BY Removed
        <4> QED BY <4>1
      <3>2. Solves(n, g)
        BY <3>1
      <3> QED BY <2>2, <3>2
    <2>4. CASE n # 0
      <3> DEFINE m == n - 1
      <3>1. m \in Nat /\ m \notin Bad /\ n = m + 1
        <4>1. m \in Nat /\ m < n /\ n = m + 1
          BY <2>2, <2>4
        <4> HIDE DEF Bad, m
        <4> QED BY <2>1, <2>2, <4>1
      <3>2. PICK g : Solves(m, g)
        BY <3>1
      <3> HIDE DEF m
      <3> DEFINE h == [s \in Level(n) |-> IF s \in Level(m) THEN g[s] ELSE f[Pick(s)] + g[s \ {Pick(s)}]]
      <3>3. ASSUME NEW s \in Level(n), s # {}
            PROVE  s \ {Pick(s)} \in Level(m) /\ f[Pick(s)] \in Nat
        BY <3>1, <3>3, Removed
      <3>4. \A s \in Level(m) : s \in Level(n) /\ h[s] = g[s]
        BY <1>0, <3>1
      <3>5. {} \in Level(m)
        <4>1. Cardinality({}) = 0
          BY FS_EmptySet
        <4> QED BY <3>1, <4>1
      <3>6. ASSUME NEW s \in Level(n)
            PROVE  h[s] \in Nat /\ h[s] = IF s = {} THEN 0 ELSE f[Pick(s)] + h[s \ {Pick(s)}]
        <4>1. CASE s \in Level(m)
          <5>1. h[s] = g[s] /\ g[s] \in Nat /\ g[s] = IF s = {} THEN 0 ELSE f[Pick(s)] + g[s \ {Pick(s)}]
            BY <3>2, <3>4, <4>1
          <5>2. s # {} => h[s \ {Pick(s)}] = g[s \ {Pick(s)}]
            BY <3>3, <3>4
          <5> HIDE DEF h
          <5> QED BY <5>1, <5>2
        <4>2. CASE s \notin Level(m)
          <5>1. s # {}
            BY <3>5, <4>2
          <5> DEFINE t == s \ {Pick(s)}
          <5>2. h[s] = f[Pick(s)] + g[t]
            BY <4>2
          <5>3. t \in Level(m) /\ f[Pick(s)] \in Nat
            BY <3>3, <5>1
          <5>4. h[t] = g[t] /\ g[t] \in Nat
            BY <3>2, <3>4, <5>3
          <5> HIDE DEF h, t
          <5>5. h[s] \in Nat /\ h[s] = f[Pick(s)] + h[t]
            BY <5>2, <5>3, <5>4
          <5> QED BY <5>1, <5>5 DEF t
        <4> QED BY <4>1, <4>2
      <3>7. Solves(n, h)
        BY <3>6
      <3> QED BY <2>2, <3>7
    <2> QED BY <2>3, <2>4
  <1>2. PICK g : Solves(Cardinality(S), g)
    BY <1>0, <1>1
  <1>3. Level(Cardinality(S)) = SUBSET S
    BY <1>0
  <1> HIDE DEF Level
  <1>4. /\ g \in [SUBSET S -> Nat]
        /\ \A s \in SUBSET S : g[s] = IF s = {} THEN 0 ELSE f[Pick(s)] + g[s \ {Pick(s)}]
    BY <1>2, <1>3
  <1>5. g = [s \in SUBSET S |-> IF s = {} THEN 0 ELSE f[Pick(s)] + g[s \ {Pick(s)}]]
    BY <1>4
  <1>6. Totals(f, S, g)
    BY <1>4 DEF Totals
  <1> QED BY <1>5, <1>6

\* It has one solution only.
LEMMA TotalsUnique ==
    ASSUME NEW S, IsFiniteSet(S), NEW f, \A x \in S : f[x] \in Nat,
           NEW g, g = [s \in SUBSET S |-> IF s = {} THEN 0 ELSE f[Pick(s)] + g[s \ {Pick(s)}]]
    PROVE  Totals(f, S, g)
  <1>1. PICK h : /\ h = [s \in SUBSET S |-> IF s = {} THEN 0 ELSE f[Pick(s)] + h[s \ {Pick(s)}]]
                 /\ Totals(f, S, h)
    BY TotalsExist
  <1>2. \A s \in SUBSET S : /\ g[s] = IF s = {} THEN 0 ELSE f[Pick(s)] + g[s \ {Pick(s)}]
                            /\ h[s] = IF s = {} THEN 0 ELSE f[Pick(s)] + h[s \ {Pick(s)}]
    BY <1>1
  <1>3. ASSUME NEW t \in SUBSET S, g[t] # h[t] PROVE FALSE
    <2> DEFINE Bad == {Cardinality(s) : s \in {r \in SUBSET S : g[r] # h[r]}}
    <2>1. Bad \in SUBSET Nat /\ Bad # {}
      <3>1. \A s \in SUBSET S : Cardinality(s) \in Nat
        BY FS_Subset, FS_CardinalityType
      <3>2. Cardinality(t) \in Bad
        BY <1>3
      <3> QED BY <3>1, <3>2
    <2>2. PICK n \in Bad : \A m \in Bad : n <= m
      <3> HIDE DEF Bad
      <3> QED BY <2>1, LeastNat
    <2>3. PICK s \in SUBSET S : g[s] # h[s] /\ n = Cardinality(s)
      BY <2>2
    <2>4. s # {}
      BY <1>2, <2>3
    <2> DEFINE r == s \ {Pick(s)}
    <2>5. r \in SUBSET S /\ Cardinality(r) < n /\ n \in Nat /\ Cardinality(r) \in Nat
      BY <2>3, <2>4, Removed
    <2>6. g[s] = f[Pick(s)] + g[r] /\ h[s] = f[Pick(s)] + h[r]
      BY <1>2, <2>4
    <2> HIDE DEF r
    <2>7. g[r] # h[r]
      BY <2>3, <2>6
    <2>8. Cardinality(r) \in Bad
      BY <2>5, <2>7
    <2> HIDE DEF Bad
    <2> QED BY <2>2, <2>5, <2>8
  <1>4. g = h
    <2>1. g = [s \in SUBSET S |-> g[s]] /\ h = [s \in SUBSET S |-> h[s]]
      BY <1>1
    <2> QED BY <1>3, <2>1
  <1> QED BY <1>1, <1>4

\* SumOf is that solution.
LEMMA SumFacts ==
    ASSUME NEW S, IsFiniteSet(S), NEW f, \A x \in S : f[x] \in Nat
    PROVE  \E g : Totals(f, S, g) /\ SumOf(f, S) = g[S]
  <1> DEFINE Is(g) == g = [s \in SUBSET S |-> IF s = {} THEN 0 ELSE f[Pick(s)] + g[s \ {Pick(s)}]]
             G == CHOOSE g : Is(g)
  <1>1. SumOf(f, S) = G[S]
    BY DEF SumOf, FoldSet, MapThenFoldSet, Pick
  <1>2. \E g : Is(g)
    <2>1. PICK g : Is(g) /\ Totals(f, S, g)
      BY TotalsExist
    <2> QED BY <2>1
  <1>3. Is(G)
    BY <1>2
  <1> HIDE DEF G
  <1>4. Totals(f, S, G)
    BY <1>3, TotalsUnique
  <1> QED BY <1>1, <1>4

\* A counter that goes up by one adds one to the sums it is in.
LEMMA SumBump ==
    ASSUME NEW S, IsFiniteSet(S), NEW f, \A x \in S : f[x] \in Nat, NEW c,
           NEW f2, \A x \in S : f2[x] = IF x = c THEN f[x] + 1 ELSE f[x]
    PROVE  SumOf(f, S) \in Nat /\ SumOf(f2, S) = SumOf(f, S) + (IF c \in S THEN 1 ELSE 0)
  <1> DEFINE d(s) == IF c \in s THEN 1 ELSE 0
  <1>1. PICK g : Totals(f, S, g) /\ SumOf(f, S) = g[S]
    BY SumFacts
  <1>2. PICK h : Totals(f2, S, h) /\ SumOf(f2, S) = h[S]
    <2>1. \A x \in S : f2[x] \in Nat
      OBVIOUS
    <2> QED BY <2>1, SumFacts
  <1>3. ASSUME NEW t \in SUBSET S, h[t] # g[t] + d(t) PROVE FALSE
    <2> DEFINE Bad == {Cardinality(s) : s \in {r \in SUBSET S : h[r] # g[r] + d(r)}}
    <2>1. Bad \in SUBSET Nat /\ Bad # {}
      <3>1. \A s \in SUBSET S : Cardinality(s) \in Nat
        BY FS_Subset, FS_CardinalityType
      <3> HIDE DEF d
      <3> QED BY <1>3, <3>1
    <2>2. PICK n \in Bad : \A m \in Bad : n <= m
      <3> HIDE DEF Bad
      <3> QED BY <2>1, LeastNat
    <2>3. PICK s \in SUBSET S : h[s] # g[s] + d(s) /\ n = Cardinality(s)
      <3> HIDE DEF d
      <3> QED BY <2>2
    <2>4. s # {}
      <3>1. h[{}] = 0 /\ g[{}] = 0 /\ d({}) = 0
        BY <1>1, <1>2 DEF Totals
      <3> HIDE DEF d
      <3> QED BY <2>3, <3>1
    <2> DEFINE x == Pick(s)
               r == s \ {x}
    <2>5. r \in SUBSET S /\ Cardinality(r) < n /\ n \in Nat /\ Cardinality(r) \in Nat /\ x \in S /\ x \in s
      BY <2>3, <2>4, Removed, Picked
    <2>6. h[s] = f2[x] + h[r] /\ g[s] = f[x] + g[r] /\ g[r] \in Nat /\ h[r] \in Nat
      BY <1>1, <1>2, <2>4, <2>5 DEF Totals
    <2>7. d(s) = d(r) + (IF x = c THEN 1 ELSE 0)
      BY <2>5
    <2> HIDE DEF r, x
    <2>8. h[r] # g[r] + d(r)
      <3>1. f2[x] = IF x = c THEN f[x] + 1 ELSE f[x]
        BY <2>5
      <3>2. f[x] \in Nat /\ d(r) \in Nat
        BY <2>5
      <3> HIDE DEF d
      <3> QED BY <2>3, <2>6, <2>7, <3>1, <3>2
    <2>9. Cardinality(r) \in Bad
      BY <2>5, <2>8
    <2> HIDE DEF Bad
    <2> QED BY <2>2, <2>5, <2>9
  <1>4. S \in SUBSET S /\ g[S] \in Nat
    BY <1>1 DEF Totals
  <1> QED BY <1>1, <1>2, <1>3, <1>4

\* A restart starts the sums at zero.
LEMMA SumZero ==
    ASSUME NEW S, IsFiniteSet(S), NEW f, \A x \in S : f[x] = 0
    PROVE  SumOf(f, S) = 0
  <1>1. PICK g : Totals(f, S, g) /\ SumOf(f, S) = g[S]
    BY SumFacts
  <1>2. ASSUME NEW t \in SUBSET S, g[t] # 0 PROVE FALSE
    <2> DEFINE Bad == {Cardinality(s) : s \in {r \in SUBSET S : g[r] # 0}}
    <2>1. Bad \in SUBSET Nat /\ Bad # {}
      <3>1. \A s \in SUBSET S : Cardinality(s) \in Nat
        BY FS_Subset, FS_CardinalityType
      <3> QED BY <1>2, <3>1
    <2>2. PICK n \in Bad : \A m \in Bad : n <= m
      <3> HIDE DEF Bad
      <3> QED BY <2>1, LeastNat
    <2>3. PICK s \in SUBSET S : g[s] # 0 /\ n = Cardinality(s)
      BY <2>2
    <2>4. s # {}
      BY <1>1, <2>3 DEF Totals
    <2> DEFINE r == s \ {Pick(s)}
    <2>5. r \in SUBSET S /\ Cardinality(r) < n /\ n \in Nat /\ Cardinality(r) \in Nat /\ Pick(s) \in S
      BY <2>3, <2>4, Removed
    <2>6. g[s] = f[Pick(s)] + g[r] /\ g[r] \in Nat
      BY <1>1, <2>4, <2>5 DEF Totals
    <2> HIDE DEF r
    <2>7. g[r] # 0
      BY <2>3, <2>5, <2>6
    <2>8. Cardinality(r) \in Bad
      BY <2>5, <2>7
    <2> HIDE DEF Bad
    <2> QED BY <2>2, <2>5, <2>8
  <1> QED BY <1>1, <1>2

\* The groups share the candidates among them.
LEMMA GroupParts ==
    ASSUME Listed
    PROVE  /\ IsFiniteSet(DOMAIN group) /\ \A n \in DOMAIN group : group[n].count = Cardinality(Members(group[n].key))
           /\ \A m, n \in DOMAIN group : m # n => Members(group[m].key) \cap Members(group[n].key) = {}
           /\ UNION {Members(group[n].key) : n \in DOMAIN group} = DOMAIN candidates
  <1> DEFINE N == Cardinality(Groups)
  <1>1. group \in SetToSeqs(Groups) /\ IsFiniteSet(Groups)
    BY GroupFacts
  <1>2. N \in Nat
    BY <1>1, FS_CardinalityType
  <1>3. group \in [1 .. N -> Groups] /\ \A i, j \in 1 .. N : i # j => group[i] # group[j]
    BY <1>1 DEF SetToSeqs
  <1> HIDE DEF N
  <1>4. IsFiniteSet(1 .. N) /\ Cardinality(1 .. N) = N /\ DOMAIN group = 1 .. N
    <2>1. 1 \in Int /\ N \in Int
      BY <1>2
    <2>2. IsFiniteSet(1 .. N) /\ Cardinality(1 .. N) = IF 1 > N THEN 0 ELSE N - 1 + 1
      BY ONLY <2>1, FS_Interval
    <2> QED BY <1>2, <1>3, <2>2
  <1>5. group \in Surjection(1 .. N, Groups)
    <2>1. group \in Injection(1 .. N, Groups)
      BY <1>3 DEF Injection, IsInjective
    <2>2. Cardinality(1 .. N) = Cardinality(Groups)
      BY <1>4 DEF N
    <2> QED BY <1>1, <2>1, <2>2, FS_Injection
  <1>6. \A g \in Groups : g = GroupOf(g.key) /\ g.count = Cardinality(Members(g.key))
    <2>1. \A key : GroupOf(key).key = key /\ GroupOf(key).count = Cardinality(Members(key))
      BY DEF GroupOf
    <2> SUFFICES ASSUME NEW g \in Groups PROVE g = GroupOf(g.key) /\ g.count = Cardinality(Members(g.key))
      OBVIOUS
    <2>2. PICK c \in DOMAIN candidates : g = GroupOf(GroupKey(candidates[c]))
      BY DEF Groups
    <2>3. g.key = GroupKey(candidates[c]) /\ g.count = Cardinality(Members(GroupKey(candidates[c])))
      BY <2>1, <2>2
    <2> QED BY <2>2, <2>3
  <1>7. ASSUME NEW m \in 1 .. N, NEW n \in 1 .. N, m # n
        PROVE  Members(group[m].key) \cap Members(group[n].key) = {}
    <2>1. group[m] \in Groups /\ group[n] \in Groups /\ group[m] # group[n]
      BY <1>3, <1>7
    <2>2. group[m].key # group[n].key
      BY <1>6, <2>1
    <2> QED BY <2>2 DEF Members
  <1>8. ASSUME NEW c \in DOMAIN candidates PROVE \E n \in 1 .. N : c \in Members(group[n].key)
    <2> DEFINE key == GroupKey(candidates[c])
    <2>1. GroupOf(key) \in Groups /\ GroupOf(key).key = key
      BY DEF Groups, GroupOf
    <2>2. PICK n \in 1 .. N : group[n] = GroupOf(key)
      BY <1>5, <2>1 DEF Surjection
    <2>3. c \in Members(key)
      BY DEF Members
    <2> QED BY <2>1, <2>2, <2>3
  <1>9. \A key : Members(key) \subseteq DOMAIN candidates
    BY DEF Members
  <1>10. UNION {Members(group[n].key) : n \in DOMAIN group} = DOMAIN candidates
    BY <1>4, <1>8, <1>9
  <1>11. \A n \in DOMAIN group : group[n].count = Cardinality(Members(group[n].key))
    BY <1>3, <1>6
  <1>12. \A m, n \in DOMAIN group : m # n => Members(group[m].key) \cap Members(group[n].key) = {}
    BY <1>4, <1>7
  <1> QED BY <1>4, <1>10, <1>11, <1>12

\* So their counts add up to the number of candidates.
LEMMA GroupSum ==
    ASSUME Listed
    PROVE  FoldSeq(LAMBDA g, sum : g.count + sum, 0, group) = Len(candidates)
  <1> DEFINE D == DOMAIN group
             M(n) == Members(group[n].key)
             f == [n \in D |-> group[n].count]
             Is(g) == g = [s \in SUBSET D |-> IF s = {} THEN 0 ELSE group[Pick(s)].count + g[s \ {Pick(s)}]]
             In(g) == g = [s \in SUBSET D |-> IF s = {} THEN 0 ELSE f[Pick(s)] + g[s \ {Pick(s)}]]
             G == CHOOSE g : Is(g)
             K == 1 .. Len(candidates)
             U(s) == UNION {M(n) : n \in s}
  <1>1. FoldSeq(LAMBDA g, sum : g.count + sum, 0, group) = G[D]
    BY DEF FoldSeq, FoldFunction, FoldFunctionOnSet, MapThenFoldSet, Pick
  <1>2. IsFiniteSet(D) /\ \A n \in D : group[n].count = Cardinality(M(n))
    BY GroupParts
  <1>3. Len(candidates) \in Nat /\ DOMAIN candidates = K /\ IsFiniteSet(K) /\ Cardinality(K) = Len(candidates)
    <2>1. Len(candidates) \in Nat /\ DOMAIN candidates = K
      BY DEF Listed
    <2>2. 1 \in Int /\ Len(candidates) \in Int
      BY <2>1
    <2>3. IsFiniteSet(K) /\ Cardinality(K) = IF 1 > Len(candidates) THEN 0 ELSE Len(candidates) - 1 + 1
      BY ONLY <2>2, FS_Interval
    <2> QED BY <2>1, <2>3
  <1>4. \A n : M(n) \in SUBSET K
    BY <1>3 DEF Members
  <1>5. \A s : U(s) \in SUBSET K /\ IsFiniteSet(U(s)) /\ Cardinality(U(s)) \in Nat
    <2>1. \A s : U(s) \in SUBSET K
      <3> HIDE DEF M
      <3> QED BY <1>4
    <2> HIDE DEF U, K
    <2> QED BY <1>3, <2>1, FS_Subset, FS_CardinalityType
  <1>6. \A n : IsFiniteSet(M(n)) /\ Cardinality(M(n)) \in Nat
    <2> HIDE DEF M, K
    <2> QED BY <1>3, <1>4, FS_Subset, FS_CardinalityType
  <1>7. \A n \in D : f[n] = Cardinality(M(n)) /\ f[n] \in Nat
    BY <1>2, <1>6
  <1> HIDE DEF M
  <1>8. \A m, n \in D : m # n => M(m) \cap M(n) = {}
    BY GroupParts DEF M
  <1>9. U(D) = K
    BY <1>3, GroupParts DEF M
  <1>10. \A g : Is(g) <=> In(g)
    <2>1. \A s \in SUBSET D : s # {} => f[Pick(s)] = group[Pick(s)].count
      BY Picked
    <2> HIDE DEF f, D
    <2> QED BY <2>1
  <1> HIDE DEF Is
  <1>11. \E g : Is(g)
    <2>1. PICK g : In(g) /\ Totals(f, D, g)
      <3> HIDE DEF f, D
      <3> QED BY <1>2, <1>7, TotalsExist
    <2> QED BY <1>10, <2>1
  <1>12. Is(G)
    BY <1>11
  <1> HIDE DEF G
  <1>13. Totals(f, D, G)
    <2>1. In(G)
      BY <1>10, <1>12
    <2> HIDE DEF f, D
    <2> QED BY <1>2, <1>7, <2>1, TotalsUnique
  <1> HIDE DEF f, D
  <1>14. ASSUME NEW t \in SUBSET D, G[t] # Cardinality(U(t)) PROVE FALSE
    <2> DEFINE Bad == {Cardinality(s) : s \in {r \in SUBSET D : G[r] # Cardinality(U(r))}}
    <2>1. Bad \in SUBSET Nat /\ Bad # {}
      <3>1. \A s \in SUBSET D : Cardinality(s) \in Nat
        BY <1>2, FS_Subset, FS_CardinalityType
      <3>2. Cardinality(t) \in Bad
        BY <1>14
      <3> HIDE DEF U
      <3> QED BY <3>1, <3>2
    <2>2. PICK n \in Bad : \A m \in Bad : n <= m
      <3> HIDE DEF Bad
      <3> QED BY <2>1, LeastNat
    <2>3. PICK s \in SUBSET D : G[s] # Cardinality(U(s)) /\ n = Cardinality(s)
      <3> HIDE DEF U
      <3> QED BY <2>2
    <2>4. s # {}
      <3>1. U({}) = {}
        OBVIOUS
      <3>2. G[{}] = 0 /\ Cardinality(U({})) = 0
        BY <1>13, <3>1, FS_EmptySet DEF Totals
      <3> HIDE DEF U
      <3> QED BY <2>3, <3>2
    <2> DEFINE x == Pick(s)
               r == s \ {x}
    <2>5. r \in SUBSET D /\ Cardinality(r) < n /\ n \in Nat /\ Cardinality(r) \in Nat /\ x \in D /\ x \in s
      <3>1. /\ Pick(s) \in D /\ s \ {Pick(s)} \in SUBSET D /\ Cardinality(s) \in Nat
            /\ Cardinality(s) > 0 /\ Cardinality(s \ {Pick(s)}) = Cardinality(s) - 1
        BY <1>2, <2>4, Removed
      <3>2. Pick(s) \in s
        BY <2>4, Picked
      <3> QED BY <2>3, <3>1, <3>2
    <2>6. G[s] = f[x] + G[r]
      BY <1>13, <2>4 DEF Totals
    <2>7. U(s) = U(r) \cup M(x) /\ U(r) \cap M(x) = {}
      <3>1. s = r \cup {x} /\ x \notin r
        BY <2>5
      <3> HIDE DEF r, x
      <3>2. \A m \in r : M(m) \cap M(x) = {}
        BY <1>8, <2>5, <3>1
      <3> QED BY <3>1, <3>2
    <2> HIDE DEF r, x
    <2>8. Cardinality(U(s)) = Cardinality(U(r)) + Cardinality(M(x))
      <3> DEFINE a == U(r)
                 b == M(x)
      <3>1. IsFiniteSet(a) /\ IsFiniteSet(b) /\ a \cap b = {} /\ U(s) = a \cup b
            /\ Cardinality(a) \in Nat /\ Cardinality(b) \in Nat
        BY <1>5, <1>6, <2>7
      <3> HIDE DEF a, b
      <3>2. Cardinality(a \cup b) = Cardinality(a) + Cardinality(b) - Cardinality(a \cap b)
        BY <3>1, FS_Union
      <3>3. Cardinality(a \cap b) = 0
        BY <3>1, FS_EmptySet
      <3>4. Cardinality(U(s)) = Cardinality(a \cup b)
        BY <3>1
      <3> HIDE DEF U
      <3>5. Cardinality(U(s)) = Cardinality(a) + Cardinality(b)
        BY <3>1, <3>2, <3>3, <3>4
      <3> QED BY <3>5 DEF a, b
    <2>9. f[x] = Cardinality(M(x)) /\ f[x] \in Nat
      BY <1>7, <2>5
    <2>10. G[r] # Cardinality(U(r))
      <3>1. Cardinality(U(r)) \in Nat
        BY <1>5
      <3> HIDE DEF U
      <3> QED BY <2>3, <2>6, <2>8, <2>9, <3>1
    <2>11. Cardinality(r) \in Bad
      BY <2>5, <2>10
    <2> HIDE DEF Bad
    <2> QED BY <2>2, <2>5, <2>11
  <1>15. D \in SUBSET D
    OBVIOUS
  <1> HIDE DEF U
  <1> QED BY <1>1, <1>3, <1>9, <1>14, <1>15

\* While a program is being promoted or a finding saved, its counter is ahead
\* of the loop counter and of the list of findings.
Open == IF phase \in {"promote", "save"} THEN 1 ELSE 0
OpenFinding == IF phase \in {"promote", "save"} /\ out.finding \in Findings THEN 1 ELSE 0
Tallied ==
    /\ invalid \in Nat /\ suppressed \in Nat
    /\ iter + Open = SumOf(counts, Classes) + invalid
    /\ Len(findings) + OpenFinding = SumOf(counts, Findings)
    /\ IsFiniteSet(clusters) /\ Cardinality(clusters) <= SumOf(counts, Findings)
    /\ gaps = counts["SurfaceGap"] /\ suppressed <= counts["Whitelisted"]
Tally ==
    /\ findings \in Seq(Nat) /\ Len(candidates) = Len(findings)
    /\ phase \notin {"killed", "error"} => Tallied

\* The key of a seed in the pool, whose energy its picks count, is never a
\* feature: every feature in the novelty map was observed.  A program is only
\* promoted while the corpus directory has room for it, and its file may be
\* there already: created, or promoted by an earlier campaign.
Promoting == IF phase = "promote" THEN 1 ELSE 0
IsFeature(k) == k[1] \in Classes /\ k[4] \in {p.family : p \in setup.programs}
Explored ==
    /\ IsFiniteSet(DOMAIN uses) /\ \A k \in DOMAIN uses : uses[k] \in Nat \ {0}
    /\ novel = Cardinality(Features) /\ promoted \in Nat /\ promoted + Promoting <= novel
    /\ IsFiniteSet(DOMAIN corpusDir) /\ Cardinality(DOMAIN corpusDir) <= NovelCap
    /\ phase = "promote" => signature(out) \in DOMAIN corpusDir \/ Cardinality(DOMAIN corpusDir) < NovelCap
    /\ \A s \in Elements(pool) : ~IsFeature(s.signature)

\* The classes are finitely many.
LEMMA ClassSets ==
    /\ Findings \in SUBSET Classes /\ IsFiniteSet(Classes) /\ IsFiniteSet(Findings)
    /\ "SurfaceGap" \in Classes /\ "Whitelisted" \in Classes /\ "seed" \notin Classes
  <1>1. \A S, x : IsFiniteSet(S) => IsFiniteSet(S \cup {x})
    BY FS_AddElement
  <1> DEFINE a == {} \cup {"PrecisionCandidate"}
             b == a \cup {"KernelUnsoundCandidate"}
             c == b \cup {"KernelOverstrictCandidate"}
             d == c \cup {"SoundnessCandidate"}
             e == d \cup {"RvPrecisionGap"}
             f == e \cup {"RvSoundnessBug"}
             g == f \cup {"RvPanic"}
             h == g \cup {"Agree"}
             i == h \cup {"Whitelisted"}
             j == i \cup {"SurfaceGap"}
             k == j \cup {"Inconclusive"}
             l == k \cup {"Skipped"}
  <1>2. IsFiniteSet(g) /\ IsFiniteSet(l)
    <2>1. IsFiniteSet({})
      BY FS_EmptySet
    <2>2. IsFiniteSet(a)
      BY <1>1, <2>1
    <2> HIDE DEF a
    <2>3. IsFiniteSet(b)
      BY <1>1, <2>2
    <2> HIDE DEF b
    <2>4. IsFiniteSet(c)
      BY <1>1, <2>3
    <2> HIDE DEF c
    <2>5. IsFiniteSet(d)
      BY <1>1, <2>4
    <2> HIDE DEF d
    <2>6. IsFiniteSet(e)
      BY <1>1, <2>5
    <2> HIDE DEF e
    <2>7. IsFiniteSet(f)
      BY <1>1, <2>6
    <2> HIDE DEF f
    <2>8. IsFiniteSet(g)
      BY <1>1, <2>7
    <2> HIDE DEF g
    <2>9. IsFiniteSet(h)
      BY <1>1, <2>8
    <2> HIDE DEF h
    <2>10. IsFiniteSet(i)
      BY <1>1, <2>9
    <2> HIDE DEF i
    <2>11. IsFiniteSet(j)
      BY <1>1, <2>10
    <2> HIDE DEF j
    <2>12. IsFiniteSet(k)
      BY <1>1, <2>11
    <2> HIDE DEF k
    <2>13. IsFiniteSet(l)
      BY <1>1, <2>12
    <2> QED BY <2>8, <2>13
  <1>3. Findings = g /\ Classes = l
    BY DEF Findings, Classes
  <1>4. /\ Findings \in SUBSET Classes
        /\ "SurfaceGap" \in Classes /\ "Whitelisted" \in Classes /\ "seed" \notin Classes
    BY DEF Findings, Classes
  <1> QED BY <1>2, <1>3, <1>4

\* A campaign starts with nothing counted.
LEMMA TallyInit == Init => Tally /\ Explored
  <1> SUFFICES ASSUME Init PROVE Tally /\ Explored
    OBVIOUS
  <1>1. /\ iter = 0 /\ pool = <<>> /\ counts = [c \in Classes |-> 0] /\ invalid = 0 /\ suppressed = 0 /\ gaps = 0
        /\ uses = <<>> /\ novel = 0 /\ promoted = 0 /\ clusters = {} /\ findings = <<>> /\ candidates = <<>>
        /\ phase = "load" /\ corpusDir = <<>>
    BY DEF Init, Fresh
  <1>2. SumOf(counts, Classes) = 0 /\ SumOf(counts, Findings) = 0
    BY <1>1, ClassSets, SumZero
  <1>3. IsFiniteSet({}) /\ Cardinality({}) = 0
    BY FS_EmptySet
  <1>4. Tally
    BY <1>1, <1>2, <1>3, ClassSets DEF Tally, Tallied, Open, OpenFinding
  <1>5. DOMAIN uses = {} /\ DOMAIN corpusDir = {} /\ Features = {} /\ Elements(pool) = {}
    BY <1>1 DEF Features, Elements
  <1>6. Explored
    BY <1>1, <1>3, <1>5, FeaturesAssumption DEF Explored, Promoting
  <1> QED BY <1>4, <1>6

\* Nothing is counted between one outcome and the next.
LEMMA TallySame ==
    ASSUME Tally, UNCHANGED <<iter, counts, invalid, suppressed, gaps, clusters, findings, candidates>>,
           \/ phase' \in {"killed", "error"}
           \/ phase \notin {"killed", "error", "promote", "save"} /\ phase' \notin {"promote", "save"}
           \/ phase \in {"promote", "save"} /\ phase' \in {"promote", "save"} /\ out' = out
    PROVE  Tally'
  <1>1. findings' = findings /\ candidates' = candidates
    OBVIOUS
  <1>2. CASE phase' \in {"killed", "error"}
    BY <1>1, <1>2 DEF Tally
  <1>3. CASE phase' \notin {"killed", "error"}
    <2>1. Open' = Open /\ OpenFinding' = OpenFinding /\ Tallied
      BY <1>3 DEF Open, OpenFinding, Tally, Findings
    <2>2. IsFiniteSet(clusters') /\ Cardinality(clusters') = Cardinality(clusters)
      BY <2>1 DEF Tallied
    <2>3. SumOf(counts, Classes)' = SumOf(counts, Classes) /\ SumOf(counts, Findings)' = SumOf(counts, Findings)
      OBVIOUS
    <2>4. Tallied'
      <3> HIDE DEF Open, OpenFinding
      <3> QED BY <2>1, <2>2, <2>3 DEF Tallied
    <2> QED BY <1>1, <2>4 DEF Tally
  <1> QED BY <1>2, <1>3

\* After its promotion, an outcome that is no finding ends the iteration.
LEMMA TallyPersist ==
    ASSUME Typed, Tally, phase = "promote", Persist, out' = out,
           UNCHANGED <<counts, invalid, suppressed, gaps, clusters, findings, candidates>>
    PROVE  Tally'
  <1>1. CASE out.finding \in Findings
    <2>1. phase' = "save" /\ iter' = iter
      BY <1>1, Persists
    <2> QED BY <2>1, TallySame
  <1>2. CASE out.finding \notin Findings
    <2>1. phase' = "pick" /\ iter' = iter + 1
      BY <1>2, Persists
    <2>2. Tallied /\ Open = 1 /\ Open' = 0 /\ OpenFinding = 0 /\ OpenFinding' = 0
      BY <1>2, <2>1 DEF Tally, Open, OpenFinding
    <2>3. iter \in Nat
      BY SetupsAssumption DEF Typed
    <2>4. SumOf(counts, Classes)' = SumOf(counts, Classes) /\ SumOf(counts, Findings)' = SumOf(counts, Findings)
      OBVIOUS
    <2>5. iter' + Open' = SumOf(counts, Classes) + invalid
      <3>1. iter + 1 = SumOf(counts, Classes) + invalid
        BY <2>2 DEF Tallied
      <3> QED BY <2>1, <2>2, <2>3, <3>1
    <2>6. Tallied'
      BY <2>2, <2>4, <2>5 DEF Tallied
    <2> QED BY <2>6 DEF Tally
  <1> QED BY <1>1, <1>2

\* handle_outcome adds one to the counter of the outcome's class.
LEMMA TallyHandle == Typed /\ Judged /\ Tally /\ handle_outcome => Tally'
  <1> SUFFICES ASSUME Typed, Judged, Tally, handle_outcome PROVE Tally'
    OBVIOUS
  <1> DEFINE f == out.finding
  <1>1. /\ phase = "handle" /\ findings' = findings /\ candidates' = candidates /\ invalid' = invalid
        /\ counts' = [counts EXCEPT ![f] = @ + 1] /\ clusters' = Observe(out)
        /\ suppressed' = (IF f = "Whitelisted" /\ whitelisted(out.prog, out.kernel) THEN suppressed + 1 ELSE suppressed)
        /\ gaps' = IF f = "SurfaceGap" THEN gaps + 1 ELSE gaps
    BY DEF handle_outcome
  <1>2. /\ out' = out
        /\ \/ phase' = "promote" /\ iter' = iter
           \/ phase' = "save" /\ iter' = iter /\ f \in Findings
           \/ phase' = "pick" /\ iter' = iter + 1 /\ f \notin Findings
    BY Persists DEF handle_outcome
  <1>3. f \in Classes /\ counts \in [Classes -> Nat] /\ iter \in Nat
    <2>1. f \in Classes
      BY <1>1, Classifies DEF Typed, Judged, Known
    <2>2. setup \in Setups /\ iter \in 0 .. setup.iters
      BY DEF Typed
    <2>3. setup.iters \in Nat
      BY <2>2, SetupsAssumption
    <2> QED BY <2>1, <2>2, <2>3 DEF Typed
  <1>4. /\ Tallied /\ Open = 0 /\ OpenFinding = 0 /\ iter' + Open' = iter + 1
        /\ OpenFinding' = IF f \in Findings THEN 1 ELSE 0
    <2>1. Open' = IF phase' = "pick" THEN 0 ELSE 1
      BY <1>2 DEF Open
    <2> QED BY <1>1, <1>2, <1>3, <2>1 DEF Tally, Open, OpenFinding
  <1> HIDE DEF f
  <1>5. \A c \in Classes : counts[c] \in Nat /\ counts'[c] = IF c = f THEN counts[c] + 1 ELSE counts[c]
    BY <1>1, <1>3
  <1>6. SumOf(counts, Classes) \in Nat /\ SumOf(counts', Classes) = SumOf(counts, Classes) + 1
    BY <1>3, <1>5, ClassSets, SumBump
  <1>7. /\ SumOf(counts, Findings) \in Nat
        /\ SumOf(counts', Findings) = SumOf(counts, Findings) + (IF f \in Findings THEN 1 ELSE 0)
    <2>1. \A c \in Findings : counts[c] \in Nat /\ counts'[c] = IF c = f THEN counts[c] + 1 ELSE counts[c]
      BY <1>5, ClassSets
    <2> QED BY <2>1, ClassSets, SumBump
  <1>8. SumOf(counts, Classes)' = SumOf(counts', Classes) /\ SumOf(counts, Findings)' = SumOf(counts', Findings)
    OBVIOUS
  <1>9. IsFiniteSet(clusters') /\ Cardinality(clusters') <= SumOf(counts', Findings)
    <2>1. IsFiniteSet(clusters) /\ Cardinality(clusters) <= SumOf(counts, Findings) /\ Cardinality(clusters) \in Nat
      BY <1>4, FS_CardinalityType DEF Tallied
    <2>2. CASE f \in Findings
      <3>1. clusters' = clusters \cup {signature(out)}
        BY <1>1, <2>2 DEF Observe, f
      <3>2. /\ IsFiniteSet(clusters') /\ Cardinality(clusters') \in Nat
            /\ Cardinality(clusters') <= Cardinality(clusters) + 1
        <4> DEFINE x == signature(out)
        <4> HIDE DEF x
        <4>1. /\ IsFiniteSet(clusters \cup {x})
              /\ Cardinality(clusters \cup {x}) = IF x \in clusters THEN Cardinality(clusters) ELSE Cardinality(clusters) + 1
          BY <2>1, FS_AddElement
        <4>2. clusters' = clusters \cup {x}
          BY <3>1 DEF x
        <4> QED BY <2>1, <4>1, <4>2
      <3> QED BY <1>7, <2>1, <2>2, <3>2
    <2>3. CASE f \notin Findings
      <3>1. clusters' = clusters
        BY <1>1, <2>3 DEF Observe, f
      <3> QED BY <1>7, <2>1, <2>3, <3>1
    <2> QED BY <2>2, <2>3
  <1>10. /\ gaps' = counts'["SurfaceGap"] /\ suppressed' <= counts'["Whitelisted"]
         /\ suppressed' \in Nat
    <2>1. gaps = counts["SurfaceGap"] /\ suppressed <= counts["Whitelisted"] /\ suppressed \in Nat
      BY <1>4 DEF Tallied
    <2>2. /\ counts["SurfaceGap"] \in Nat /\ counts["Whitelisted"] \in Nat
          /\ counts'["SurfaceGap"] = IF "SurfaceGap" = f THEN counts["SurfaceGap"] + 1 ELSE counts["SurfaceGap"]
          /\ counts'["Whitelisted"] = IF "Whitelisted" = f THEN counts["Whitelisted"] + 1 ELSE counts["Whitelisted"]
      BY <1>5, ClassSets
    <2> QED BY <1>1, <2>1, <2>2
  <1>11. Len(findings) \in Nat
    BY DEF Tally
  <1>12. Tallied'
    <2>1. /\ invalid \in Nat /\ iter = SumOf(counts, Classes) + invalid /\ Len(findings) = SumOf(counts, Findings)
      BY <1>3, <1>4, <1>6, <1>11 DEF Tallied
    <2>2. iter' + Open' = SumOf(counts', Classes) + invalid'
      <3> HIDE DEF Open
      <3> QED BY <1>1, <1>3, <1>4, <1>6, <2>1
    <2>3. Len(findings') + OpenFinding' = SumOf(counts', Findings)
      <3> HIDE DEF OpenFinding
      <3> QED BY <1>1, <1>4, <1>7, <1>11, <2>1
    <2> QED BY <1>1, <1>8, <1>9, <1>10, <2>1, <2>2, <2>3 DEF Tallied
  <1> QED BY <1>1, <1>12 DEF Tally

\* Only an invalid mutant, an outcome, a saved finding and a restart count.
LEMMA TallyStep == Typed /\ Judged /\ Listed /\ Tally /\ [Next]_vars => Tally'
  <1> SUFFICES ASSUME Typed, Judged, Listed, Tally, [Next]_vars PROVE Tally'
    OBVIOUS
  <1>0. iter \in Nat /\ Len(findings) \in Nat
    <2>1. setup \in Setups /\ iter \in 0 .. setup.iters
      BY DEF Typed
    <2>2. setup.iters \in Nat
      BY <2>1, SetupsAssumption
    <2> QED BY <2>1, <2>2 DEF Tally
  <1>1. CASE LoadSeeds
    BY <1>1, TallySame DEF LoadSeeds, stats
  <1>2. CASE Generate
    BY <1>2, TallySame DEF Generate, stats
  <1>3. CASE MutateSeed
    BY <1>3, TallySame DEF MutateSeed
  <1>4. CASE InvalidMutant
    <2>1. /\ phase = "pick" /\ phase' = "pick" /\ iter' = iter + 1 /\ invalid' = invalid + 1
          /\ UNCHANGED <<counts, suppressed, gaps, clusters, findings, candidates>>
      BY <1>4 DEF InvalidMutant
    <2>2. Tallied /\ Open = 0 /\ Open' = 0 /\ OpenFinding = 0 /\ OpenFinding' = 0
      BY <2>1 DEF Tally, Open, OpenFinding
    <2>3. invalid' \in Nat /\ iter' + Open' = SumOf(counts', Classes) + invalid'
      <3>1. invalid \in Nat /\ iter = SumOf(counts, Classes) + invalid /\ SumOf(counts, Classes) \in Nat
        <4>1. PICK g : Totals(counts, Classes, g) /\ SumOf(counts, Classes) = g[Classes]
          BY ClassSets, SumFacts DEF Typed
        <4>2. SumOf(counts, Classes) \in Nat
          <5>1. Classes \in SUBSET Classes
            OBVIOUS
          <5> QED BY <4>1, <5>1 DEF Totals
        <4> QED BY <1>0, <2>2, <4>2 DEF Tallied
      <3> QED BY <1>0, <2>1, <2>2, <3>1
    <2>4. Tallied'
      BY <2>1, <2>2, <2>3 DEF Tallied
    <2> QED BY <2>1, <2>4 DEF Tally
  <1>5. CASE run_program
    BY <1>5, TallySame DEF run_program, stats
  <1>6. CASE CampaignError
    BY <1>6, TallySame DEF CampaignError, stats
  <1>7. CASE CreateFile \/ FillFile
    <2>1. phase \in {"flip", "save", "group"} /\ UNCHANGED <<phase, out>>
      BY <1>7 DEF CreateFile, FillFile, Writing
    <2> QED BY <1>7, <2>1, TallySame DEF CreateFile, FillFile, stats
  <1>8. CASE FlipSaved
    BY <1>8, TallySame DEF FlipSaved
  <1>9. CASE PushPool
    BY <1>9, TallySame DEF PushPool, stats
  <1>10. CASE handle_outcome
    BY <1>10, TallyHandle
  <1>11. CASE FindingSaved
    <2>1. /\ phase = "save" /\ phase' = "pick" /\ iter' = iter + 1
          /\ findings' = Append(findings, out.name) /\ candidates' = Append(candidates, out)
          /\ UNCHANGED <<counts, invalid, suppressed, gaps, clusters>>
      BY <1>11 DEF FindingSaved
    <2>2. Tallied /\ Open = 1 /\ Open' = 0 /\ OpenFinding = 1 /\ OpenFinding' = 0
      BY <2>1 DEF Tally, Open, OpenFinding, Listed
    <2>3. out.name \in Nat
      BY <1>0, <2>1 DEF Typed, Known
    <2>4. findings' \in Seq(Nat) /\ Len(findings') = Len(findings) + 1
      BY <2>1, <2>3 DEF Tally
    <2>5. Len(candidates') = Len(findings')
      <3>1. candidates \in Seq(Elements(candidates)) /\ out \in Elements(candidates) \cup {out}
        BY DEF Listed
      <3>2. candidates \in Seq(Elements(candidates) \cup {out})
        BY <3>1
      <3>3. Len(candidates') = Len(candidates) + 1
        BY <2>1, <3>1, <3>2
      <3> QED BY <2>4, <3>3 DEF Tally
    <2>6. Tallied'
      <3>1. iter' + Open' = SumOf(counts', Classes) + invalid' /\ Len(findings') + OpenFinding' = SumOf(counts', Findings)
        BY <1>0, <2>1, <2>2, <2>4 DEF Tallied
      <3> QED BY <2>1, <2>2, <3>1 DEF Tallied
    <2> QED BY <2>4, <2>5, <2>6 DEF Tally
  <1>12. CASE StartGroups
    BY <1>12, TallySame DEF StartGroups, stats
  <1>13. CASE GroupCopied
    BY <1>13, TallySame DEF GroupCopied, stats
  <1>14. CASE CreateSummary \/ WriteSummary
    BY <1>14, TallySame DEF CreateSummary, WriteSummary, stats
  <1>15. CASE Killed
    BY <1>15, TallySame DEF Killed, stats
  <1>16. CASE Restart
    <2>1. /\ iter' = 0 /\ counts' = [c \in Classes |-> 0] /\ invalid' = 0 /\ suppressed' = 0 /\ gaps' = 0
          /\ clusters' = {} /\ findings' = <<>> /\ candidates' = <<>> /\ phase' = "load"
      BY <1>16 DEF Restart
    <2>2. SumOf(counts', Classes) = 0 /\ SumOf(counts', Findings) = 0
      BY <2>1, ClassSets, SumZero
    <2>3. IsFiniteSet({}) /\ Cardinality({}) = 0
      BY FS_EmptySet
    <2> QED BY <2>1, <2>2, <2>3, ClassSets DEF Tally, Tallied, Open, OpenFinding
  <1>17. CASE UNCHANGED vars
    <2>1. UNCHANGED <<phase, iter, out, counts, invalid, suppressed, gaps, clusters, findings, candidates>>
      BY <1>17 DEF vars, stats
    <2> QED BY <2>1, TallySame
  <1>18. CASE CreateSeed
    BY <1>18, TallySame DEF CreateSeed, stats
  <1>19. CASE FillSeed
    BY <1>19, TallyPersist DEF FillSeed
  <1>20. CASE NotPromoted
    BY <1>20, TallyPersist DEF NotPromoted, stats
  <1> QED
    BY <1>1, <1>2, <1>3, <1>4, <1>5, <1>6, <1>7, <1>8, <1>9, <1>10, <1>11, <1>12, <1>13, <1>14,
       <1>15, <1>16, <1>17, <1>18, <1>19, <1>20 DEF Next

\* The features of the map are finitely many.
LEMMA Featured == Explored => IsFiniteSet(Features) /\ Cardinality(Features) \in Nat /\ novel \in Nat
  <1> SUFFICES ASSUME Explored PROVE IsFiniteSet(Features) /\ Cardinality(Features) \in Nat /\ novel \in Nat
    OBVIOUS
  <1>1. Features \in SUBSET (DOMAIN uses)
    BY DEF Features
  <1>2. IsFiniteSet(Features) /\ Cardinality(Features) \in Nat
    BY <1>1, FS_Subset, FS_CardinalityType DEF Explored
  <1> QED BY <1>2 DEF Explored

\* A key that is no feature leaves the features alone.
LEMMA FeaturesSame ==
    ASSUME NEW k, ~IsFeature(k), uses' = With(uses, k, Uses(k) + 1), setup' = setup, Explored
    PROVE  /\ Features' = Features /\ IsFiniteSet(DOMAIN uses')
           /\ \A x \in DOMAIN uses' : uses'[x] \in Nat \ {0}
  <1> DEFINE u == Uses(k) + 1
  <1>1. u \in Nat \ {0}
    BY DEF Uses, Explored
  <1> HIDE DEF u
  <1>2. /\ DOMAIN uses' = DOMAIN uses \cup {k}
        /\ \A x \in DOMAIN uses' : uses'[x] = IF x = k THEN u ELSE uses[x]
    BY DEF With, u
  <1>3. IsFiniteSet(DOMAIN uses \cup {k})
    BY FS_AddElement DEF Explored
  <1>4. IsFiniteSet(DOMAIN uses')
    BY <1>2, <1>3
  <1>5. \A x \in DOMAIN uses' : uses'[x] \in Nat \ {0}
    BY <1>1, <1>2 DEF Explored
  <1>6. Features = {x \in DOMAIN uses : IsFeature(x)}
    BY DEF Features, IsFeature
  <1>7. Features' = {x \in DOMAIN uses' : IsFeature(x)}
    BY DEF Features, IsFeature
  <1>8. Features' = Features
    <2> HIDE DEF IsFeature
    <2> QED BY <1>2, <1>6, <1>7
  <1> QED BY <1>4, <1>5, <1>8

\* A step that observes nothing, outside a promotion.
LEMMA ExploredSame ==
    ASSUME Explored, setup' = setup, UNCHANGED <<novel, promoted, corpusDir>>, phase' # "promote",
           Features' = Features, IsFiniteSet(DOMAIN uses'), \A x \in DOMAIN uses' : uses'[x] \in Nat \ {0},
           \A s \in Elements(pool') : ~IsFeature(s.signature)
    PROVE  Explored'
  <1>1. (\A s \in Elements(pool) : ~IsFeature(s.signature))'
    BY DEF IsFeature, Elements
  <1>2. IsFiniteSet(DOMAIN corpusDir') /\ Cardinality(DOMAIN corpusDir') <= NovelCap
    BY DEF Explored
  <1>3. novel' = Cardinality(Features') /\ promoted' \in Nat /\ (promoted + Promoting <= novel)'
    <2>1. promoted \in Nat /\ novel \in Nat /\ promoted + Promoting <= novel
      BY Featured DEF Explored
    <2> QED BY <2>1 DEF Explored, Promoting
  <1> QED BY <1>1, <1>2, <1>3 DEF Explored

\* A step that leaves the map and the pool alone.
LEMMA ExploredIdle ==
    ASSUME Explored, UNCHANGED <<setup, uses, novel, promoted, corpusDir, pool>>, phase' # "promote"
    PROVE  Explored'
  <1>1. Features' = Features
    BY DEF Features
  <1>2. IsFiniteSet(DOMAIN uses') /\ \A x \in DOMAIN uses' : uses'[x] \in Nat \ {0}
    BY DEF Explored
  <1>3. \A s \in Elements(pool') : ~IsFeature(s.signature)
    BY DEF Explored, Elements
  <1> QED BY <1>1, <1>2, <1>3, ExploredSame

\* A pick counts the energy of a seed of the pool.
LEMMA ExploredPick ==
    ASSUME Explored, NEW n \in DOMAIN pool, note_pick(pool[n]), UNCHANGED <<setup, novel, promoted, corpusDir, pool>>,
           phase' # "promote"
    PROVE  Explored'
  <1> DEFINE k == pool[n].signature
  <1>1. ~IsFeature(k) /\ uses' = With(uses, k, Uses(k) + 1)
    BY DEF Explored, Elements, note_pick
  <1> HIDE DEF k
  <1>2. /\ Features' = Features /\ IsFiniteSet(DOMAIN uses')
        /\ \A x \in DOMAIN uses' : uses'[x] \in Nat \ {0}
    BY <1>1, FeaturesSame
  <1>3. \A s \in Elements(pool') : ~IsFeature(s.signature)
    BY DEF Explored, Elements
  <1> QED BY <1>2, <1>3, ExploredSame

\* The seeds of the corpus have keys of their own.
LEMMA ExploredLoad == Explored /\ LoadSeeds => Explored'
  <1> SUFFICES ASSUME Explored, LoadSeeds PROVE Explored'
    OBVIOUS
  <1>1. UNCHANGED <<setup, uses, novel, promoted, corpusDir>> /\ phase' # "promote"
    BY DEF LoadSeeds, campaign, stats
  <1>2. CASE setup.mode # "mutation"
    <2>1. pool' = pool
      BY <1>2 DEF LoadSeeds
    <2> QED BY <1>1, <2>1, ExploredIdle
  <1>3. CASE setup.mode = "mutation"
    <2>1. \A p : ~IsFeature(Seed(p).signature)
      BY ClassSets DEF Seed, IsFeature
    <2>2. \A s \in Elements(pool') : \E p : s = Seed(p)
      <3>1. PICK taken : SeedsLoaded(taken)
        BY DEF LoadSeeds, SeedsLoaded, Promoted
      <3> QED BY <1>3, <3>1 DEF SeedsLoaded, Elements
    <2>3. \A s \in Elements(pool') : ~IsFeature(s.signature)
      <3> HIDE DEF IsFeature, Seed
      <3> QED BY <2>1, <2>2
    <2>4. Features' = Features
      BY <1>1 DEF Features
    <2>5. IsFiniteSet(DOMAIN uses') /\ \A x \in DOMAIN uses' : uses'[x] \in Nat \ {0}
      BY <1>1 DEF Explored
    <2> QED BY <1>1, <2>3, <2>4, <2>5, ExploredSame
  <1> QED BY <1>2, <1>3

\* Neither is the key of the program that joins the pool a feature.
LEMMA ExploredPush == Typed /\ Judged /\ Pooled /\ Explored /\ PushPool => Explored'
  <1> SUFFICES ASSUME Typed, Judged, Pooled, Explored, PushPool PROVE Explored'
    OBVIOUS
  <1>1. phase = "pool" /\ phase' # "promote" /\ UNCHANGED <<setup, uses, novel, promoted, corpusDir, corpusLen>>
    BY DEF PushPool, campaign, stats
  <1>2. CASE setup.mode # "mutation"
    <2>1. pool' = pool
      BY <1>2 DEF PushPool
    <2> QED BY <1>1, <2>1, ExploredIdle
  <1>3. CASE setup.mode = "mutation"
    <2> DEFINE e == [prog |-> out.prog, verdict |-> MiniSide(out.prog), signature |-> signature(out)]
               p == Append(pool, e)
               S == Elements(pool) \cup {e}
    <2>1. pool' = Drained(p)
      BY <1>3 DEF PushPool
    <2>2. ~IsFeature(e.signature)
      <3>1. setup \in Setups /\ out.prog \in setup.programs
        BY <1>1 DEF Typed, Judged, Known
      <3>2. e.signature[4] = out.prog.shape
        BY DEF signature
      <3> QED BY <3>1, <3>2, FeaturesAssumption DEF IsFeature
    <2> HIDE DEF e
    <2>3. pool \in Seq(S) /\ Len(pool) \in Nat
      BY DEF Pooled
    <2>4. p \in Seq(S) /\ Len(p) = Len(pool) + 1
      BY <2>3
    <2>5. corpusLen \in Nat /\ Len(p) > corpusLen
      <3>1. corpusLen <= Len(pool) /\ corpusLen \in Nat
        BY <1>1, <1>3 DEF Pooled, Ended
      <3> QED BY <2>3, <2>4, <3>1
    <2>6. \A s \in S : ~IsFeature(s.signature)
      BY <2>2 DEF Explored
    <2> HIDE DEF p, S
    <2>7. pool' \in Seq(S)
      BY <2>1, <2>4, <2>5, Drains
    <2>8. \A s \in Elements(pool') : s \in S
      BY <2>7 DEF Elements
    <2>9. Features' = Features
      BY <1>1 DEF Features
    <2>10. IsFiniteSet(DOMAIN uses') /\ \A x \in DOMAIN uses' : uses'[x] \in Nat \ {0}
      BY <1>1 DEF Explored
    <2>11. \A s \in Elements(pool') : ~IsFeature(s.signature)
      <3> HIDE DEF IsFeature
      <3> QED BY <2>6, <2>8
    <2> QED BY <1>1, <2>9, <2>10, <2>11, ExploredSame
  <1> QED BY <1>2, <1>3

\* handle_outcome observes one feature; a new one is an event, and is promoted
\* only where the corpus directory has room.
LEMMA ExploredHandle == Typed /\ Judged /\ Explored /\ handle_outcome => Explored'
  <1> SUFFICES ASSUME Typed, Judged, Explored, handle_outcome PROVE Explored'
    OBVIOUS
  <1> DEFINE k == feature_signature(out)
             u == Uses(k) + 1
             isNew == IsNew(k)
  <1>1. /\ phase = "handle" /\ UNCHANGED <<pool, setup, promoted, corpusDir, out>>
        /\ uses' = With(uses, k, u)
        /\ novel' = IF isNew THEN novel + 1 ELSE novel
        /\ phase' = "promote" => isNew /\ Cardinality(DOMAIN corpusDir) < NovelCap
    BY Persists DEF handle_outcome, NovelEvent, campaign
  <1>2. IsFeature(k)
    <2>1. out.finding \in Classes /\ out.prog \in setup.programs
      BY <1>1, Classifies DEF Typed, Judged, Known
    <2>2. k[1] = out.finding /\ k[4] = out.prog.family
      BY DEF feature_signature
    <2> HIDE DEF k
    <2> QED BY <2>1, <2>2 DEF IsFeature
  <1> HIDE DEF k
  <1>3. u \in Nat \ {0} /\ (isNew <=> k \notin DOMAIN uses)
    BY DEF Uses, Explored, IsNew
  <1> HIDE DEF u, isNew
  <1>4. /\ DOMAIN uses' = DOMAIN uses \cup {k}
        /\ \A x \in DOMAIN uses' : uses'[x] = IF x = k THEN u ELSE uses[x]
    BY <1>1 DEF With
  <1>5. IsFiniteSet(DOMAIN uses') /\ \A x \in DOMAIN uses' : uses'[x] \in Nat \ {0}
    <2>1. IsFiniteSet(DOMAIN uses \cup {k})
      BY FS_AddElement DEF Explored
    <2>2. \A x \in DOMAIN uses' : uses'[x] \in Nat \ {0}
      BY <1>3, <1>4 DEF Explored
    <2> QED BY <1>4, <2>1, <2>2
  <1>6. Features = {x \in DOMAIN uses : IsFeature(x)} /\ Features' = {x \in DOMAIN uses' : IsFeature(x)}
    BY <1>1 DEF Features, IsFeature
  <1>7. Features' = Features \cup {k} /\ (k \in Features <=> ~isNew)
    <2> HIDE DEF IsFeature
    <2> QED BY <1>2, <1>3, <1>4, <1>6
  <1>8. novel' = Cardinality(Features') /\ novel' = IF isNew THEN novel + 1 ELSE novel
    <2> DEFINE F == Features
    <2>1. novel = Cardinality(F) /\ IsFiniteSet(F) /\ Cardinality(F) \in Nat
      BY Featured DEF Explored
    <2>2. Features' = F \cup {k} /\ (k \in F <=> ~isNew)
      BY <1>7
    <2> HIDE DEF F
    <2>3. Cardinality(F \cup {k}) = IF k \in F THEN Cardinality(F) ELSE Cardinality(F) + 1
      BY <2>1, FS_AddElement
    <2>4. Cardinality(Features') = Cardinality(F \cup {k})
      BY <2>2
    <2> QED BY <1>1, <2>1, <2>2, <2>3, <2>4
  <1>9. promoted' \in Nat /\ (promoted + Promoting <= novel)'
    <2>1. promoted \in Nat /\ novel \in Nat /\ promoted <= novel
      BY <1>1, Featured DEF Explored, Promoting
    <2> QED BY <1>1, <1>8, <2>1 DEF Promoting
  <1>10. /\ IsFiniteSet(DOMAIN corpusDir') /\ Cardinality(DOMAIN corpusDir') <= NovelCap
         /\ phase' = "promote" => Cardinality(DOMAIN corpusDir') < NovelCap
    BY <1>1 DEF Explored
  <1>11. (\A s \in Elements(pool) : ~IsFeature(s.signature))'
    BY <1>1 DEF Explored, IsFeature, Elements
  <1> QED BY <1>5, <1>8, <1>9, <1>10, <1>11 DEF Explored

\* A promotion puts at most one more file into the corpus directory.
LEMMA Promotes ==
    ASSUME Explored, phase = "promote", NEW v
    PROVE  LET d == DOMAIN With(corpusDir, signature(out), v)
           IN  signature(out) \in d /\ IsFiniteSet(d) /\ Cardinality(d) <= NovelCap
  <1> DEFINE c == signature(out)
             D == DOMAIN corpusDir
  <1>1. IsFiniteSet(D) /\ Cardinality(D) <= NovelCap /\ Cardinality(D) \in Nat
        /\ (c \in D \/ Cardinality(D) < NovelCap)
    BY FS_CardinalityType DEF Explored
  <1>2. DOMAIN With(corpusDir, c, v) = D \cup {c}
    BY DEF With
  <1> HIDE DEF c, D
  <1>3. /\ IsFiniteSet(D \cup {c})
        /\ Cardinality(D \cup {c}) = IF c \in D THEN Cardinality(D) ELSE Cardinality(D) + 1
    BY <1>1, FS_AddElement
  <1>4. Cardinality(D \cup {c}) <= NovelCap
    BY <1>1, <1>3, FeaturesAssumption
  <1> QED BY <1>2, <1>3, <1>4 DEF c

\* A promotion leaves the map alone.
LEMMA ExploredPromote ==
    ASSUME Explored, phase = "promote", UNCHANGED <<setup, uses, novel, pool, out>>,
           \/ phase' = "promote" /\ promoted' = promoted /\ (\E v : corpusDir' = With(corpusDir, signature(out), v))
           \/ phase' # "promote" /\ promoted' = promoted + 1 /\ (\E v : corpusDir' = With(corpusDir, signature(out), v))
           \/ phase' # "promote" /\ promoted' = promoted /\ corpusDir' = corpusDir
    PROVE  Explored'
  <1>1. /\ IsFiniteSet(DOMAIN corpusDir') /\ Cardinality(DOMAIN corpusDir') <= NovelCap
        /\ phase' = "promote" => signature(out) \in DOMAIN corpusDir'
    <2>1. CASE \E v : corpusDir' = With(corpusDir, signature(out), v)
      BY <2>1, Promotes
    <2>2. CASE corpusDir' = corpusDir /\ phase' # "promote"
      BY <2>2 DEF Explored
    <2> QED BY <2>1, <2>2
  <1>2. (phase = "promote" => signature(out) \in DOMAIN corpusDir \/ Cardinality(DOMAIN corpusDir) < NovelCap)'
    <2>1. signature(out)' = signature(out)
      BY DEF signature
    <2> QED BY <1>1, <2>1
  <1>3. promoted' \in Nat /\ (promoted + Promoting <= novel)'
    <2>1. promoted \in Nat /\ novel \in Nat /\ promoted + 1 <= novel
      BY Featured DEF Explored, Promoting
    <2> QED BY <2>1 DEF Promoting
  <1>4. Features' = Features
    BY DEF Features
  <1>5. IsFiniteSet(DOMAIN uses') /\ (\A x \in DOMAIN uses' : uses'[x] \in Nat \ {0}) /\ novel' = Cardinality(Features')
    BY <1>4 DEF Explored
  <1>6. (\A s \in Elements(pool) : ~IsFeature(s.signature))'
    BY DEF Explored, IsFeature, Elements
  <1> QED BY <1>1, <1>2, <1>3, <1>5, <1>6 DEF Explored

\* Every step keeps the novelty map right.
LEMMA ExploredStep == Typed /\ Judged /\ Pooled /\ Explored /\ [Next]_vars => Explored'
  <1> SUFFICES ASSUME Typed, Judged, Pooled, Explored, [Next]_vars PROVE Explored'
    OBVIOUS
  <1>0. setup' = setup
    BY SetupKept
  <1>1. CASE LoadSeeds
    BY <1>1, ExploredLoad
  <1>2. CASE MutateSeed
    <2>1. PICK n \in DOMAIN pool : note_pick(pool[n])
      BY <1>2 DEF MutateSeed
    <2>2. UNCHANGED <<novel, promoted, corpusDir, pool>> /\ phase' # "promote"
      BY <1>2 DEF MutateSeed, Idle
    <2> QED BY <1>0, <2>1, <2>2, ExploredPick
  <1>3. CASE InvalidMutant
    <2>1. PICK n \in DOMAIN pool : note_pick(pool[n])
      BY <1>3 DEF InvalidMutant
    <2>2. UNCHANGED <<novel, promoted, corpusDir, pool>> /\ phase' # "promote"
      BY <1>3 DEF InvalidMutant, Idle
    <2> QED BY <1>0, <2>1, <2>2, ExploredPick
  <1>4. CASE PushPool
    BY <1>4, ExploredPush
  <1>5. CASE handle_outcome
    BY <1>5, ExploredHandle
  <1>6. CASE Restart
    <2>1. /\ pool' = <<>> /\ uses' = <<>> /\ novel' = 0 /\ promoted' = 0 /\ corpusDir' = corpusDir
          /\ phase' = "load"
      BY <1>6 DEF Restart
    <2>2. IsFiniteSet({}) /\ Cardinality({}) = 0
      BY FS_EmptySet
    <2>3. DOMAIN uses' = {} /\ Features' = {} /\ Elements(pool') = {}
      BY <2>1 DEF Features, Elements
    <2>4. (\A s \in Elements(pool) : ~IsFeature(s.signature))'
      BY <2>3
    <2>5. IsFiniteSet(DOMAIN corpusDir') /\ Cardinality(DOMAIN corpusDir') <= NovelCap
      BY <2>1 DEF Explored
    <2> QED BY <2>1, <2>2, <2>3, <2>4, <2>5 DEF Explored, Promoting
  <1>7. CASE CreateSeed \/ FillSeed \/ NotPromoted
    <2>1. phase = "promote" /\ UNCHANGED <<setup, uses, novel, pool, out>>
      BY <1>0, <1>7 DEF CreateSeed, FillSeed, NotPromoted, stats
    <2>2. CASE CreateSeed
      <3>1. phase' = "promote" /\ promoted' = promoted /\ corpusDir' = With(corpusDir, signature(out), Torn)
        BY <2>1, <2>2 DEF CreateSeed, stats
      <3> QED BY <2>1, <3>1, ExploredPromote
    <2>3. CASE FillSeed
      <3>1. phase' # "promote" /\ promoted' = promoted + 1 /\ corpusDir' = With(corpusDir, signature(out), out.prog)
        BY <2>3, Persists DEF FillSeed
      <3> QED BY <2>1, <3>1, ExploredPromote
    <2>4. CASE NotPromoted
      <3>1. phase' # "promote" /\ promoted' = promoted /\ corpusDir' = corpusDir
        BY <2>4, Persists DEF NotPromoted, stats
      <3> QED BY <2>1, <3>1, ExploredPromote
    <2> QED BY <1>7, <2>2, <2>3, <2>4
  <1>8. CASE \/ Generate \/ run_program \/ CampaignError \/ CreateFile \/ FillFile \/ FlipSaved \/ FindingSaved
             \/ StartGroups \/ GroupCopied \/ CreateSummary \/ WriteSummary \/ Killed
    <2>1. UNCHANGED <<setup, uses, novel, promoted, corpusDir, pool>> /\ phase' # "promote"
      BY <1>0, <1>8 DEF Generate, Idle, run_program, CampaignError, CreateFile, FillFile, Writing, FlipSaved,
                        FindingSaved, StartGroups, GroupCopied, CreateSummary, WriteSummary, Killed, stats
    <2> QED BY <2>1, ExploredIdle
  <1>9. CASE UNCHANGED vars
    <2>1. UNCHANGED <<setup, uses, novel, promoted, corpusDir, pool, phase, out>>
      BY <1>9 DEF vars, stats
    <2>2. signature(out)' = signature(out) /\ Features' = Features /\ Promoting' = Promoting
      BY <2>1 DEF signature, Features, Promoting
    <2>3. (\A s \in Elements(pool) : ~IsFeature(s.signature))'
      BY <2>1 DEF Explored, IsFeature, Elements
    <2> QED BY <2>1, <2>2, <2>3 DEF Explored
  <1> QED BY <1>1, <1>2, <1>3, <1>4, <1>5, <1>6, <1>7, <1>8, <1>9 DEF Next

\* At the points where the summary could be taken, nothing is open.
LEMMA TallyAccounted == Typed /\ Listed /\ Tally /\ Explored => Accounted
  <1> SUFFICES ASSUME Typed, Listed, Tally, Explored, phase \in {"load", "pick", "group", "done"} PROVE Accounted
    BY DEF Accounted
  <1>1. Tallied /\ Open = 0 /\ OpenFinding = 0
    BY DEF Tally, Open, OpenFinding
  <1>2. FoldSeq(LAMBDA g, sum : g.count + sum, 0, group) = Len(candidates)
    BY GroupSum
  <1>3. iter \in Nat /\ Len(findings) \in Nat /\ Len(candidates) = Len(findings)
    <2>1. setup \in Setups /\ iter \in 0 .. setup.iters
      BY DEF Typed
    <2>2. setup.iters \in Nat
      BY <2>1, SetupsAssumption
    <2> QED BY <2>1, <2>2 DEF Tally
  <1>4. /\ iter = SumOf(counts, Classes) + invalid /\ Len(findings) = SumOf(counts, Findings)
        /\ Cardinality(clusters) <= SumOf(counts, Findings)
        /\ gaps = counts["SurfaceGap"] /\ suppressed <= counts["Whitelisted"]
    BY <1>1, <1>3 DEF Tallied
  <1>5. /\ novel = Cardinality(Features) /\ promoted <= novel
        /\ Cardinality(DOMAIN corpusDir) <= NovelCap
    BY DEF Explored, Promoting
  <1>6. FoldSeq(LAMBDA g, sum : g.count + sum, 0, group) = Len(findings)
    BY <1>2, <1>3
  <1> QED BY <1>3, <1>4, <1>5, <1>6 DEF Accounted

\* The counters of summary.json are right whatever the seed, the corpus, the
\* kernel and the kills: every iteration of main is in exactly one of them,
\* triage::group shares the findings out among its groups, and the novelty
\* map counts a feature once.
THEOREM Counters == Spec => []Accounted
  <1>1. Spec => [](Typed /\ Judged /\ Pooled /\ Archive)
    BY TypedInit, PooledInit, ArchiveInit, TypedStep, JudgedStep, PooledStep, ArchiveStep, PTL DEF Spec
  <1>2. Archive => Listed
    BY DEF Archive
  <1> QED
    BY <1>1, <1>2, TallyInit, TallyStep, ExploredStep, TallyAccounted, PTL DEF Spec
=============================================================================
