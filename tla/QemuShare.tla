------------------------------ MODULE QemuShare ------------------------------
(***************************************************************************)
(* The kernel column of a campaign: a host process (src/fuzz/qemu.rs) and   *)
(* a qemu guest (tools/qemu/initramfs/init, QEMU_RUN_SCRIPT, bin/agent.rs)  *)
(* that exchange programs and verdicts through files of a 9p share.         *)
(*                                                                         *)
(* The host side is the caller of ask() and the worker thread it talks to;  *)
(* the guest side is the init loop, the batch script and the agent.  Every  *)
(* file operation is a step of its own, so all interleavings of host and    *)
(* guest on the share are explored.  The host process may be killed and     *)
(* started again on the same share (qemu-campaign.sh --keep-guest           *)
(* --no-share-reset); the guest may be rebooted at any time.                *)
(***************************************************************************)
EXTENDS Naturals, FiniteSets

CONSTANTS
    Names,         \* job names; one process asks for a name at most once
    Programs,      \* program bytes, up to identity
    Modes,         \* the values of --strict a host process is started with
    QEMU_BATCH,    \* jobs that force a flush without waiting for the 30ms tick
    MaxRestarts,   \* bound: how often the host process is killed and restarted
    DeadlinesFire, \* whether the deadlines of host and guest may expire
    FaultsHappen,  \* whether the host's writes may fail and the guest reboot
    NoFile,        \* the file does not exist
    Blank,         \* the file exists and is empty
    Infra,         \* agent output that is no kernel verdict
    Skipped,       \* reply Err(_), which ask() turns into SideVerdict::Skipped
    NoMsg, Flush   \* the worker's channel: empty, or a "__flush__" message

Verdicts == [prog : Programs, strict : BOOLEAN]
Texts    == {NoFile, Blank, Infra} \cup Verdicts
Files    == {NoFile, Blank} \cup Programs

ASSUME BatchAssumption == QEMU_BATCH \in Nat \ {0}
ASSUME RestartAssumption == MaxRestarts \in Nat
ASSUME ModesAssumption == Modes \subseteq BOOLEAN /\ Modes # {}
ASSUME ProgramsAssumption == Programs # {}
ASSUME TokenAssumption ==
    /\ NoFile # Blank /\ NoFile # Infra /\ Blank # Infra
    /\ {NoFile, Blank, Infra, Skipped, NoMsg} \cap Verdicts = {}
    /\ {NoFile, Blank, NoMsg} \cap Programs = {}
    /\ {NoMsg, Flush} \cap Names = {}
    /\ NoMsg # Flush /\ Skipped # NoMsg

VARIABLES
    \* the share
    job,       \* job/<name>.bin
    out,       \* out/<name>.out
    manifest,  \* the names it lists; {} also when the file is absent
    files,     \* which of run.sh and the marker files exist
    \* the caller of QemuBatch in the host process
    client, prog, mode, resp, connected, restarts,
    \* the worker thread
    chan, hpc, pending, batch, todo, wname, round, parsed,
    \* the guest
    gpc, gtodo, gname, glive, gtext, gstrict,
    \* history: starts of the batch script since the host last wrote it
    runs

share  == <<job, out, manifest, files>>
caller == <<client, prog, mode, resp, connected, restarts>>
worker == <<chan, hpc, pending, batch, todo, wname, round, parsed>>
guest  == <<gpc, gtodo, gname, glive, gtext, gstrict>>
vars   == <<share, caller, worker, guest, runs>>

\* the variables of worker and guest besides their program counters
wdata == <<chan, pending, batch, todo, wname, round, parsed>>
gdata == <<gtodo, gname, glive, gtext, gstrict>>

HostPC == {"recv", "enter", "waitPrev", "rmStaleDone", "strict", "rmReady",
           "rmRunsh", "rmManifest", "clearOut", "jobs", "fill", "manifest",
           "runsh", "ready", "waitResults", "clearRetry", "rmRetryDone",
           "parse", "reply", "cleanRunsh", "cleanReady",
           "cleanManifest", "exited"}
GuestPC == {"loop", "testReady", "testDone", "sh", "strict", "manifest",
            "next", "open", "read", "print", "exit", "timeout", "rm", "touch"}
ClientPC == {"run", "wait", "flush", "dropped"}

TypeOK ==
    /\ job \in [Names -> Files] /\ out \in [Names -> Texts]
    /\ manifest \subseteq Names
    /\ files \subseteq {"run.sh", "batch-ready", "batch-done", "strict"}
    /\ client \in ClientPC /\ prog \in [Names -> Programs \cup {NoMsg}]
    /\ mode \in Modes
    /\ resp \in [Names -> {NoMsg, Skipped} \cup Verdicts]
    /\ connected \in BOOLEAN /\ restarts \in 0..MaxRestarts
    /\ chan \in {NoMsg, Flush} \cup Names /\ hpc \in HostPC
    /\ pending \subseteq Names /\ batch \subseteq pending
    /\ todo \subseteq pending /\ wname \in Names \cup {NoMsg}
    /\ round \in {0, 1} /\ parsed \in {Skipped} \cup Verdicts
    /\ gpc \in GuestPC /\ gtodo \subseteq Names
    /\ gname \in Names \cup {NoMsg} /\ glive \in BOOLEAN
    /\ gtext \in {Infra} \cup Verdicts /\ gstrict \in BOOLEAN
    /\ runs \in 0..2

\* A fresh share (tools/qemu-share.sh --fresh), a booted guest in its loop,
\* and a host process that has just created its QemuBatch.
Init ==
    /\ job = [n \in Names |-> NoFile] /\ out = [n \in Names |-> NoFile]
    /\ manifest = {} /\ files \in SUBSET {"strict"}
    /\ client = "run" /\ prog = [n \in Names |-> NoMsg]
    /\ mode \in Modes /\ resp = [n \in Names |-> NoMsg]
    /\ connected = TRUE /\ restarts = 0
    /\ chan = NoMsg /\ hpc = "recv" /\ pending = {} /\ batch = {}
    /\ todo = {} /\ wname = NoMsg /\ round = 0 /\ parsed = Skipped
    /\ gpc = "loop" /\ gtodo = {} /\ gname = NoMsg /\ glive = FALSE
    /\ gtext = Infra /\ gstrict = FALSE
    /\ runs = 0

-----------------------------------------------------------------------------
(* The caller.  ask() takes &mut self and blocks on the reply channel, so   *)
(* it has one query in flight.                                              *)

\* ask(name, bytes): send the query; names are fresh within a process.
Ask(n, p) ==
    /\ client = "run" /\ prog[n] = NoMsg
    /\ client' = "wait" /\ chan' = n
    /\ prog' = [prog EXCEPT ![n] = p]
    /\ UNCHANGED <<mode, resp, connected, restarts, share, guest, runs, hpc,
                   pending, batch, todo, wname, round, parsed>>

\* rrx.recv() returns the reply to the query in flight.
AskReturns ==
    /\ client = "wait" /\ \A n \in Names : prog[n] # NoMsg => resp[n] # NoMsg
    /\ client' = "run"
    /\ UNCHANGED <<prog, mode, resp, connected, restarts, share,
                   worker, guest, runs>>

\* flush() at the end of a campaign: "__flush__", then wait for the answer.
CallFlush ==
    /\ client = "run"
    /\ client' = "flush" /\ chan' = Flush
    /\ UNCHANGED <<prog, mode, resp, connected, restarts, share, guest,
                   runs, hpc, pending, batch, todo, wname, round, parsed>>

\* Mutant of Drop: the sender outlives the join.
DropKeepsSender ==
    /\ client = "run"
    /\ client' = "dropped" /\ chan' = Flush
    /\ UNCHANGED <<connected, prog, mode, resp, restarts, share, guest,
                   runs, hpc, pending, batch, todo, wname, round, parsed>>

\* Drop: "__flush__", disconnect the sender, join the worker.
Drop ==
    /\ client = "run"
    /\ client' = "dropped" /\ chan' = Flush /\ connected' = FALSE
    /\ UNCHANGED <<prog, mode, resp, restarts, share, guest,
                   runs, hpc, pending, batch, todo, wname, round, parsed>>

\* The host process is killed; another one starts on the share as it is.  It
\* may use the same names for other programs (rv-<n> restarts at 0).
HostRestart ==
    /\ restarts < MaxRestarts /\ restarts' = restarts + 1
    /\ client' = "run" /\ prog' = [n \in Names |-> NoMsg] /\ mode' \in Modes
    /\ resp' = [n \in Names |-> NoMsg] /\ connected' = TRUE
    /\ chan' = NoMsg /\ hpc' = "recv" /\ pending' = {} /\ batch' = {}
    /\ todo' = {} /\ wname' = NoMsg /\ round' = 0 /\ parsed' = Skipped
    /\ UNCHANGED <<share, guest, runs>>

-----------------------------------------------------------------------------
(* The worker: qemu_worker and flush_batch.                                 *)

Goto(l) == hpc' = l

\* A query arrives; QEMU_BATCH of them are flushed at once.
RecvJob ==
    /\ hpc = "recv" /\ chan \in Names
    /\ pending' = pending \cup {chan} /\ chan' = NoMsg
    /\ Goto(IF Cardinality(pending') >= QEMU_BATCH THEN "enter" ELSE "recv")
    /\ UNCHANGED <<batch, todo, wname, round, parsed, share, caller, guest,
                   runs>>

\* "__flush__": nothing is pending, since every ask() waits for its reply.
RecvFlush ==
    /\ hpc = "recv" /\ chan = Flush
    /\ IF pending # {} THEN Goto("enter") /\ UNCHANGED <<chan, client>>
       ELSE /\ Goto("recv") /\ chan' = NoMsg
            /\ client' = IF client = "flush" THEN "run" ELSE client
    /\ UNCHANGED <<pending, batch, todo, wname, round, parsed, share, prog,
                   mode, resp, connected, restarts, guest, runs>>

\* recv_timeout: the 30ms tick flushes what is pending.
Tick ==
    /\ hpc = "recv" /\ chan = NoMsg /\ connected /\ pending # {}
    /\ Goto("enter")
    /\ UNCHANGED <<wdata, share, caller, guest, runs>>

\* The sender is gone: flush the tail and leave the loop.
Disconnected ==
    /\ hpc = "recv" /\ chan = NoMsg /\ ~connected
    /\ Goto(IF pending # {} THEN "enter" ELSE "exited")
    /\ UNCHANGED <<wdata, share, caller, guest, runs>>

\* flush_batch finds (or makes) the share's directories.
Enter ==
    /\ hpc = "enter" /\ Goto("waitPrev")
    /\ UNCHANGED <<wdata, share, caller, guest, runs>>

\* fail_all: every pending query gets an error.
FailAll ==
    /\ resp' = [n \in Names |-> IF n \in pending THEN Skipped ELSE resp[n]]
    /\ pending' = {} /\ batch' = {} /\ todo' = {} /\ round' = 0
    /\ wname' = NoMsg /\ Goto("recv")
    /\ UNCHANGED <<chan, parsed, client, prog, mode, connected,
                   restarts, share, guest, runs>>

CannotCreateDirs == FaultsHappen /\ hpc = "enter" /\ FailAll

\* The guest has consumed the previous batch.
PreviousConsumed ==
    (\A n \in Names : job[n] = NoFile) /\ "batch-done" \notin files

\* write_batch is called with `names`.
StartWrite(names) ==
    /\ batch' = names /\ todo' = names /\ Goto("strict")

WaitPrevious ==
    /\ hpc = "waitPrev" /\ PreviousConsumed
    /\ StartWrite(pending)
    /\ UNCHANGED <<chan, pending, wname, round, parsed, share, caller, guest,
                   runs>>

\* 60s passed: drop the job files, then the marker.
PreviousDeadline ==
    /\ hpc = "waitPrev" /\ ~PreviousConsumed /\ DeadlinesFire
    /\ job' = [n \in Names |-> NoFile]
    /\ Goto("rmStaleDone")
    /\ UNCHANGED <<wdata, out, manifest, files, caller, guest, runs>>

RemoveStaleDone ==
    /\ hpc = "rmStaleDone" /\ files' = files \ {"batch-done"}
    /\ StartWrite(pending)
    /\ UNCHANGED <<chan, pending, wname, round, parsed, job, out, manifest,
                   caller, guest, runs>>

-----------------------------------------------------------------------------
(* The worker: write_batch.                                                 *)

\* The worker removes or writes one of run.sh and the markers, and goes on.
RemoveFile(at, f, to) ==
    /\ hpc = at /\ files' = files \ {f} /\ Goto(to)
    /\ UNCHANGED <<wdata, job, out, manifest, caller, guest, runs>>

WriteFile(at, f, to) ==
    /\ hpc = at /\ files' = files \cup {f} /\ Goto(to)
    /\ UNCHANGED <<wdata, job, out, manifest, caller, guest>>

\* Mutant of WriteStrict: a marker left by an earlier process stays.
KeepStrict ==
    /\ hpc = "strict" /\ Goto("rmReady")
    /\ files' = IF mode THEN files \cup {"strict"} ELSE files
    /\ UNCHANGED <<wdata, job, out, manifest, caller, guest, runs>>

WriteStrict ==
    /\ hpc = "strict" /\ Goto("rmReady")
    /\ files' = IF mode THEN files \cup {"strict"} ELSE files \ {"strict"}
    /\ UNCHANGED <<wdata, job, out, manifest, caller, guest, runs>>

RemoveReady == RemoveFile("rmReady", "batch-ready", "rmRunsh")
RemoveRunsh == RemoveFile("rmRunsh", "run.sh", "rmManifest")

\* Mutant of RemoveManifest: stale results are never cleared.
KeepOut ==
    /\ hpc = "rmManifest" /\ manifest' = {} /\ Goto("jobs")
    /\ UNCHANGED <<wdata, job, out, files, caller, guest, runs>>

\* Mutant of RemoveManifest: the retry clears the results too.
ClearAlways ==
    /\ hpc = "rmManifest" /\ manifest' = {} /\ Goto("clearOut")
    /\ UNCHANGED <<wdata, job, out, files, caller, guest, runs>>

\* Round 0 clears the stale results next; a retry keeps them.
RemoveManifest ==
    /\ hpc = "rmManifest" /\ manifest' = {}
    /\ Goto(IF round = 0 THEN "clearOut" ELSE "jobs")
    /\ UNCHANGED <<wdata, job, out, files, caller, guest, runs>>

\* clear_dir(out) unlinks; a guest that has a file open keeps a dead inode.
ClearOut ==
    /\ hpc = "clearOut" /\ out' = [n \in Names |-> NoFile]
    /\ glive' = FALSE /\ Goto("jobs")
    /\ UNCHANGED <<wdata, job, manifest, files, caller, gpc, gtodo, gname,
                   gtext, gstrict, runs>>

\* fs::write creates the job file empty, ...
CreateJob(n) ==
    /\ hpc = "jobs" /\ n \in todo
    /\ job' = [job EXCEPT ![n] = Blank]
    /\ todo' = todo \ {n} /\ wname' = n /\ Goto("fill")
    /\ UNCHANGED <<chan, pending, batch, round, parsed, out, manifest, files,
                   caller, guest, runs>>

\* ... then writes the bytes into it, unlinked or not.
FillJob ==
    /\ hpc = "fill"
    /\ job' = [job EXCEPT ![wname] = IF @ = NoFile THEN NoFile
                                                   ELSE prog[wname]]
    /\ Goto("jobs")
    /\ UNCHANGED <<wdata, out, manifest, files, caller, guest, runs>>

JobsWritten ==
    /\ hpc = "jobs" /\ todo = {} /\ Goto("manifest")
    /\ UNCHANGED <<wdata, share, caller, guest, runs>>

WriteManifest ==
    /\ hpc = "manifest" /\ manifest' = batch /\ Goto("runsh")
    /\ UNCHANGED <<wdata, job, out, files, caller, guest, runs>>

WriteRunsh == WriteFile("runsh", "run.sh", "ready") /\ runs' = 0
WriteReady ==
    WriteFile("ready", "batch-ready", "waitResults") /\ UNCHANGED runs

\* the places where write_batch may fail: its directories and its writes
Writing == {"strict", "jobs", "fill", "manifest", "runsh", "ready"}

\* A write fails: round 0 gives the batch up, the retry goes on to parsing.
WriteFailsFirst == FaultsHappen /\ hpc \in Writing /\ round = 0 /\ FailAll
WriteFailsRetry ==
    /\ FaultsHappen /\ hpc \in Writing /\ round = 1 /\ Goto("parse")
    /\ UNCHANGED <<wdata, share, caller, guest, runs>>

-----------------------------------------------------------------------------
(* The worker: results, the one retry, replies and cleaning up.             *)

\* wait_for_results: every job file is gone and every result is there.
Complete == \A n \in pending : job[n] = NoFile /\ out[n] # NoFile
Missing == {n \in pending : out[n] = NoFile}

ResultsComplete ==
    /\ hpc = "waitResults" /\ Complete /\ Goto("parse")
    /\ UNCHANGED <<wdata, share, caller, guest, runs>>

\* Mutant of ResultsDeadline: retries are not counted.
RetryForever ==
    /\ hpc = "waitResults" /\ ~Complete /\ DeadlinesFire
    /\ Goto("clearRetry") /\ batch' = Missing
    /\ UNCHANGED <<chan, pending, todo, wname, round, parsed, share, caller,
                   guest, runs>>

\* 300s (round 0) or 120s (round 1) passed.
ResultsDeadline ==
    /\ hpc = "waitResults" /\ ~Complete /\ DeadlinesFire
    /\ IF round = 1 \/ Missing = {}
       THEN Goto("parse") /\ UNCHANGED <<batch, round>>
       ELSE Goto("clearRetry") /\ batch' = Missing /\ round' = 1
    /\ UNCHANGED <<chan, pending, todo, wname, parsed, share, caller, guest,
                   runs>>

ClearForRetry ==
    /\ hpc = "clearRetry" /\ job' = [n \in Names |-> NoFile]
    /\ Goto("rmRetryDone")
    /\ UNCHANGED <<wdata, out, manifest, files, caller, guest, runs>>

RemoveRetryDone ==
    /\ hpc = "rmRetryDone" /\ files' = files \ {"batch-done"}
    /\ StartWrite(batch)
    /\ UNCHANGED <<chan, pending, wname, round, parsed, job, out, manifest,
                   caller, guest, runs>>

\* Mutant of Parse: the agent's own failures are taken for verdicts.
ParseAny(text) == IF text \in {NoFile, Blank} THEN Skipped ELSE text

\* parse_agent_verdict: only a kernel verdict is a verdict.
Parse(text) == IF text \in Verdicts THEN text ELSE Skipped

\* Read out/<name>.out; an empty or absent file is retried ten times, after
\* which the query has no verdict.
ReadResult(n) ==
    /\ hpc = "parse" /\ n \in pending
    /\ out[n] \in {NoFile, Blank} => DeadlinesFire
    /\ wname' = n /\ parsed' = Parse(out[n]) /\ Goto("reply")
    /\ UNCHANGED <<chan, pending, batch, todo, round, share, caller, guest,
                   runs>>

\* Remove the result file and send the reply.
Reply ==
    /\ hpc = "reply"
    /\ out' = [out EXCEPT ![wname] = NoFile]
    /\ glive' = (glive /\ gname # wname)
    /\ resp' = [resp EXCEPT ![wname] = parsed]
    /\ pending' = pending \ {wname} /\ batch' = batch \ {wname}
    /\ todo' = todo \ {wname} /\ wname' = NoMsg /\ Goto("parse")
    /\ UNCHANGED <<chan, round, parsed, job, manifest, files, client, prog,
                   mode, connected, restarts,
                   gpc, gtodo, gname, gtext, gstrict, runs>>

\* All replied: take the markers away, batch-done first.
CleanDone ==
    /\ hpc = "parse" /\ pending = {}
    /\ files' = files \ {"batch-done"} /\ round' = 0 /\ Goto("cleanRunsh")
    /\ UNCHANGED <<chan, pending, batch, todo, wname, parsed, job, out,
                   manifest, caller, guest, runs>>
CleanRunsh == RemoveFile("cleanRunsh", "run.sh", "cleanReady")
CleanReady == RemoveFile("cleanReady", "batch-ready", "cleanManifest")
CleanManifest ==
    /\ hpc = "cleanManifest" /\ manifest' = {} /\ Goto("recv")
    /\ UNCHANGED <<wdata, job, out, files, caller, guest, runs>>

-----------------------------------------------------------------------------
(* The guest: init's loop.                                                  *)

GGoto(l) == gpc' = l

\* [ -f run.sh ] && [ -f batch-ready ] && [ ! -f batch-done ]: three tests,
\* one after the other.
TestRunsh ==
    /\ gpc = "loop" /\ "run.sh" \in files /\ GGoto("testReady")
    /\ UNCHANGED <<gdata, share, caller, worker, runs>>

TestReady ==
    /\ gpc = "testReady"
    /\ GGoto(IF "batch-ready" \in files THEN "testDone" ELSE "loop")
    /\ UNCHANGED <<gdata, share, caller, worker, runs>>

TestDone ==
    /\ gpc = "testDone"
    /\ GGoto(IF "batch-done" \in files THEN "loop" ELSE "sh")
    /\ UNCHANGED <<gdata, share, caller, worker, runs>>

\* /bin/sh run.sh, which may be gone by now.
StartScript ==
    /\ gpc = "sh"
    /\ IF "run.sh" \in files
       THEN GGoto("strict") /\ runs' = IF runs < 2 THEN runs + 1 ELSE 2
       ELSE GGoto("loop") /\ UNCHANGED runs
    /\ UNCHANGED <<gdata, share, caller, worker>>

\* The guest is stopped and booted again, and finds itself in the loop.
Reboot ==
    /\ FaultsHappen /\ gpc # "loop" /\ GGoto("loop") /\ glive' = FALSE
    /\ gtodo' = {} /\ gname' = NoMsg /\ gtext' = Infra /\ gstrict' = FALSE
    /\ UNCHANGED <<share, caller, worker, runs>>

-----------------------------------------------------------------------------
(* The guest: QEMU_RUN_SCRIPT and the agent.                                *)

ReadStrict ==
    /\ gpc = "strict" /\ gstrict' = ("strict" \in files) /\ GGoto("manifest")
    /\ UNCHANGED <<gtodo, gname, glive, gtext, share, caller, worker, runs>>

\* The loop reads the manifest it opens here, even if it is unlinked later.
OpenManifest ==
    /\ gpc = "manifest" /\ GGoto("next")
    /\ gtodo' = manifest
    /\ UNCHANGED <<gname, glive, gtext, gstrict, share, caller, worker, runs>>

\* The next name of the manifest; a job file that is not there is passed over.
NextName(n) ==
    /\ gpc = "next" /\ n \in gtodo /\ gtodo' = gtodo \ {n}
    /\ IF job[n] = NoFile THEN GGoto("next") /\ UNCHANGED gname
       ELSE GGoto("open") /\ gname' = n
    /\ UNCHANGED <<glive, gtext, gstrict, share, caller, worker, runs>>

\* The shell opens (creates or truncates) the result file ...
OpenOut ==
    /\ gpc = "open" /\ out' = [out EXCEPT ![gname] = Blank]
    /\ glive' = TRUE /\ GGoto("read")
    /\ UNCHANGED <<gtodo, gname, gtext, gstrict, job, manifest, files, caller,
                   worker, runs>>

\* ... before the agent reads the job file and loads the program.  A missing
\* or empty file, or a load that fails outside the verifier, is no verdict.
AgentReads ==
    /\ gpc = "read" /\ GGoto("print")
    /\ gtext' \in {Infra} \cup {[prog |-> p, strict |-> gstrict] :
                                 p \in Programs \cap {job[gname]}}
    /\ UNCHANGED <<gtodo, gname, glive, gstrict, share, caller, worker, runs>>

\* The verdict line goes to the file the shell opened.
AgentPrints ==
    /\ gpc = "print" /\ GGoto("exit")
    /\ out' = IF glive THEN [out EXCEPT ![gname] = gtext] ELSE out
    /\ UNCHANGED <<gdata, job, manifest, files, caller, worker, runs>>

\* `timeout 30` kills the agent: before, or even after its verdict line.
AgentTimeout ==
    /\ DeadlinesFire /\ gpc \in {"read", "print", "exit"} /\ GGoto("timeout")
    /\ UNCHANGED <<gdata, share, caller, worker, runs>>

\* echo AGENT-TIMEOUT > out/<name>.out
EchoTimeout ==
    /\ gpc = "timeout" /\ GGoto("rm")
    /\ out' = [out EXCEPT ![gname] = Infra] /\ glive' = TRUE
    /\ UNCHANGED <<gtodo, gname, gtext, gstrict, job, manifest, files, caller,
                   worker, runs>>

\* rm -f job/<name>.bin, by name.
RemoveJob ==
    /\ gpc \in {"exit", "rm"} /\ GGoto("next")
    /\ job' = [job EXCEPT ![gname] = NoFile]
    /\ gname' = NoMsg /\ glive' = FALSE /\ gtext' = Infra
    /\ UNCHANGED <<gtodo, gstrict, out, manifest, files, caller, worker, runs>>

ManifestRead ==
    /\ gpc = "next" /\ gtodo = {} /\ GGoto("touch")
    /\ UNCHANGED <<gdata, share, caller, worker, runs>>

TouchDone ==
    /\ gpc = "touch" /\ files' = files \cup {"batch-done"}
    /\ GGoto("loop") /\ gstrict' = FALSE
    /\ UNCHANGED <<gtodo, gname, glive, gtext, job, out, manifest, caller,
                   worker, runs>>

-----------------------------------------------------------------------------
Client == (\E n \in Names, p \in Programs : Ask(n, p)) \/ CallFlush \/ Drop

Worker ==
    \/ RecvJob \/ RecvFlush \/ Tick \/ Disconnected
    \/ Enter \/ CannotCreateDirs
    \/ WaitPrevious \/ PreviousDeadline \/ RemoveStaleDone
    \/ WriteStrict \/ RemoveReady \/ RemoveRunsh \/ RemoveManifest
    \/ ClearOut \/ (\E n \in Names : CreateJob(n)) \/ FillJob \/ JobsWritten
    \/ WriteManifest \/ WriteRunsh \/ WriteReady
    \/ WriteFailsFirst \/ WriteFailsRetry
    \/ ResultsComplete \/ ResultsDeadline \/ ClearForRetry \/ RemoveRetryDone
    \/ (\E n \in Names : ReadResult(n)) \/ Reply
    \/ CleanDone \/ CleanRunsh \/ CleanReady \/ CleanManifest

Guest ==
    \/ TestRunsh \/ TestReady \/ TestDone \/ StartScript \/ Reboot
    \/ ReadStrict \/ OpenManifest \/ (\E n \in Names : NextName(n))
    \/ OpenOut \/ AgentReads \/ AgentPrints \/ AgentTimeout \/ EchoTimeout
    \/ RemoveJob \/ ManifestRead \/ TouchDone

Next == Client \/ AskReturns \/ HostRestart \/ Worker \/ Guest

Spec == Init /\ [][Next]_vars

\* The operating system schedules the host process: its two threads make
\* progress.  Nothing is assumed of the guest.
FairSpec == Spec /\ WF_vars(Worker) /\ WF_vars(AskReturns)

-----------------------------------------------------------------------------
(* Properties                                                               *)

\* A verdict that ask() returns is the guest kernel's verdict on the bytes of
\* that very query, never a leftover of an earlier batch, of a killed host
\* process that used the same name, or of a guest that runs late
\* (flush_batch, write_batch, QEMU_RUN_SCRIPT).
VerdictIntegrity ==
    \A n \in Names : resp[n] \in Verdicts => resp[n].prog = prog[n]

\* As long as no other process takes over the share, a verdict is also one of
\* the privilege mode this process was started with (the strict marker).
VerdictMode ==
    restarts = 0 =>
        \A n \in Names : resp[n] \in Verdicts => resp[n].strict = mode

\* While one process owns the share, a job file it waits for disappears only
\* once its result file is there: the by-name rm of the guest script never
\* strands a query (wait_for_results).
ConsumedHasResult ==
    restarts = 0 /\ hpc = "waitResults" =>
        \A n \in pending : job[n] = NoFile => out[n] # NoFile

\* Every ask() returns, whatever the guest does or fails to do: each wait of
\* flush_batch has a deadline and each outcome sends a reply.
AskAnswered == client = "wait" ~> client # "wait"

\* Dropping the QemuBatch ends the worker, so the join in Drop returns.
DropJoins == client = "dropped" ~> (hpc = "exited" \/ client # "dropped")

\* "run.sh: host writes last; the guest runs it exactly once" (init): the
\* guest starts the script at most once per write.
RunShOnce == runs <= 1

\* "remove the batch-done marker so the next flush_batch's wait loop passes
\* immediately" (flush_batch): a flush never finds the share unconsumed.
NextFlushPasses == hpc = "waitPrev" => PreviousConsumed
=============================================================================
