--------------------------- MODULE QemuOwnerProofs ---------------------------
(***************************************************************************)
(* Proofs about QemuShare while one host process owns the share: the        *)
(* verdicts are of the mode it was started with, and no query that it waits *)
(* for is stranded, for any names, programs, batch size, lost writes,       *)
(* expired deadlines and reboots of the guest.                              *)
(*                                                                         *)
(* The mode travels from the strict marker through the guest's shell        *)
(* variable, the agent's text and the result file to the reply; the marker  *)
(* is set before run.sh exists for the first time.  A job file that is gone *)
(* has a result because the guest opens the result file before it removes   *)
(* the job file, and no name that a round still has to write is one that a  *)
(* guest is at, which holds because a process uses a name once.             *)
(***************************************************************************)
EXTENDS QemuShareProofs

\* After the marker was written in this flush, before the flush ends.
Marked == {"rmReady", "rmRunsh", "rmManifest", "clearOut", "jobs", "fill",
           "manifest", "runsh", "ready"}

OfMode(text) == text \in Verdicts => text.strict = mode

\* The mode on its way from the marker to the reply.
ModeKept ==
    /\ (hpc \in Marked \/ "run.sh" \in files \/ gpc # "loop")
         => (("strict" \in files) <=> (mode = TRUE))
    /\ gpc \in {"manifest", "next", "open", "read", "print", "exit",
                "timeout", "rm", "touch"} => gstrict = mode
    /\ OfMode(gtext) /\ OfMode(parsed)
    /\ \A n \in Names : OfMode(out[n]) /\ OfMode(resp[n])

\* No manifest that exists or that the guest has open lists n.
Unlisted(n) == n \notin manifest /\ n \notin gtodo /\ gname # n

\* The first round has not written its manifest.
BeforeManifest ==
    round = 0 /\ hpc \in Rewrite \cup {"recv", "enter", "waitPrev",
                     "rmStaleDone", "clearOut", "jobs", "fill", "manifest"}

\* A name is listed only from the manifest of its own flush on.
NamesFresh ==
    /\ \A n \in Names : prog[n] = NoMsg => Unlisted(n)
    /\ chan \in Names => Unlisted(chan) /\ chan \notin pending
    /\ BeforeManifest => \A n \in pending : Unlisted(n)

\* Where the worker is with the names it has to write.
Rounds ==
    /\ hpc = "clearOut" => round = 0
    /\ hpc \in {"clearRetry", "rmRetryDone"} => round = 1
    /\ round = 0 /\ hpc \in Rewrite \cup {"clearOut"} => todo = pending
    /\ hpc \in {"manifest", "runsh", "ready", "waitResults"} => todo = {}
    /\ hpc \in {"cleanRunsh", "cleanReady", "cleanManifest"} => pending = {}

\* A job that is not waiting to be written has its file or its result.
NotStranded ==
    /\ hpc \in {"clearRetry", "rmRetryDone"} =>
         \A n \in pending : n \notin batch => out[n] # NoFile
    /\ hpc \in Rewrite \cup {"clearOut", "jobs", "fill", "manifest", "runsh",
                             "ready", "waitResults"} =>
         \A n \in pending : n \notin todo => job[n] # NoFile \/ out[n] # NoFile
    /\ gpc \in {"read", "print", "exit", "timeout", "rm"} /\ gname \in pending
         => out[gname] # NoFile

Owner == ModeKept /\ NamesFresh /\ Rounds /\ NotStranded
OwnerInv == restarts = 0 => Owner

\* Every step of one process, its guest included, keeps the four facts.
LEMMA OwnerStep ==
    TypeOK /\ Control /\ OwnerInv /\ [Next]_vars => OwnerInv'
<1> SUFFICES ASSUME TypeOK, Control, OwnerInv, [Next]_vars PROVE OwnerInv'
  OBVIOUS
<1> USE TokenAssumption
      DEF TypeOK, Control, OwnerInv, Owner, ModeKept, OfMode, Marked, NamesFresh,
          Unlisted, BeforeManifest, Rounds, NotStranded, Rewrite, Goto, GGoto,
          wdata, gdata, share, caller, worker, guest, Files, Texts, Verdicts
<1>1. ASSUME NEW n \in Names, NEW p \in Programs, Ask(n, p)
      PROVE  OwnerInv'
  BY <1>1 DEF Ask
<1>2. ASSUME NEW n \in Names, CreateJob(n)
      PROVE  OwnerInv'
  BY <1>2 DEF CreateJob
<1>3. ASSUME NEW n \in Names, ReadResult(n)
      PROVE  OwnerInv'
  BY <1>3 DEF ReadResult, Parse
<1>4. ASSUME NEW n \in Names, NextName(n)
      PROVE  OwnerInv'
  BY <1>4 DEF NextName
<1>5. CASE AskReturns
  BY <1>5 DEF AskReturns
<1>6. CASE HostRestart
  BY <1>6, RestartAssumption DEF HostRestart
<1>7. CASE CallFlush
  BY <1>7 DEF CallFlush
<1>8. CASE Drop
  BY <1>8 DEF Drop
<1>9. CASE RecvJob
  BY <1>9 DEF RecvJob
<1>10. CASE RecvFlush
  BY <1>10 DEF RecvFlush
<1>11. CASE Tick
  BY <1>11 DEF Tick
<1>12. CASE Disconnected
  BY <1>12 DEF Disconnected
<1>13. CASE Enter
  BY <1>13 DEF Enter
<1>14. CASE CannotCreateDirs
  BY <1>14 DEF CannotCreateDirs, FailAll
<1>15. CASE WaitPrevious
  BY <1>15 DEF WaitPrevious, StartWrite, PreviousConsumed
<1>16. CASE PreviousDeadline
  BY <1>16 DEF PreviousDeadline
<1>17. CASE RemoveStaleDone
  BY <1>17 DEF RemoveStaleDone, StartWrite
<1>18. CASE WriteStrict
  BY <1>18 DEF WriteStrict
<1>19. CASE RemoveReady
  BY <1>19 DEF RemoveReady, RemoveFile
<1>20. CASE RemoveRunsh
  BY <1>20 DEF RemoveRunsh, RemoveFile
<1>21. CASE RemoveManifest
  BY <1>21 DEF RemoveManifest
<1>22. CASE ClearOut
  BY <1>22 DEF ClearOut
<1>23. CASE FillJob
  BY <1>23 DEF FillJob
<1>24. CASE JobsWritten
  BY <1>24 DEF JobsWritten
<1>25. CASE WriteManifest
  BY <1>25 DEF WriteManifest
<1>26. CASE WriteRunsh
  BY <1>26 DEF WriteRunsh, WriteFile
<1>27. CASE WriteReady
  BY <1>27 DEF WriteReady, WriteFile
<1>28. CASE WriteFailsFirst
  BY <1>28 DEF WriteFailsFirst, FailAll, Writing
<1>29. CASE WriteFailsRetry
  BY <1>29 DEF WriteFailsRetry, Writing
<1>30. CASE ResultsComplete
  BY <1>30 DEF ResultsComplete
<1>31. CASE ResultsDeadline
  BY <1>31 DEF ResultsDeadline, Missing
<1>32. CASE ClearForRetry
  BY <1>32 DEF ClearForRetry
<1>33. CASE RemoveRetryDone
  BY <1>33 DEF RemoveRetryDone, StartWrite
<1>34. CASE Reply
  BY <1>34 DEF Reply
<1>35. CASE CleanDone
  BY <1>35 DEF CleanDone
<1>36. CASE CleanRunsh
  BY <1>36 DEF CleanRunsh, RemoveFile
<1>37. CASE CleanReady
  BY <1>37 DEF CleanReady, RemoveFile
<1>38. CASE CleanManifest
  BY <1>38 DEF CleanManifest
<1>39. CASE TestRunsh
  BY <1>39 DEF TestRunsh
<1>40. CASE TestReady
  BY <1>40 DEF TestReady
<1>41. CASE TestDone
  BY <1>41 DEF TestDone
<1>42. CASE StartScript
  BY <1>42 DEF StartScript
<1>43. CASE Reboot
  BY <1>43 DEF Reboot
<1>44. CASE ReadStrict
  <2>1. restarts' = 0 => gstrict' = mode
    <3>1. restarts = 0 => (("strict" \in files) <=> (mode = TRUE))
      BY <1>44 DEF ReadStrict
    <3>2. mode \in BOOLEAN
      BY ModesAssumption
    <3>3. restarts' = restarts /\ gstrict' = ("strict" \in files)
      BY <1>44 DEF ReadStrict
    <3> HIDE DEF TypeOK, Control, OwnerInv
    <3>4. QED
      BY <3>1, <3>2, <3>3
  <2>2. QED
    BY <1>44, <2>1 DEF ReadStrict
<1>45. CASE OpenManifest
  BY <1>45 DEF OpenManifest
<1>46. CASE OpenOut
  BY <1>46 DEF OpenOut
<1>47. CASE AgentReads
  BY <1>47 DEF AgentReads
<1>48. CASE AgentPrints
  BY <1>48 DEF AgentPrints
<1>49. CASE AgentTimeout
  BY <1>49 DEF AgentTimeout
<1>50. CASE EchoTimeout
  BY <1>50 DEF EchoTimeout
<1>51. CASE RemoveJob
  BY <1>51 DEF RemoveJob
<1>52. CASE ManifestRead
  BY <1>52 DEF ManifestRead
<1>53. CASE TouchDone
  BY <1>53 DEF TouchDone
<1>54. CASE UNCHANGED vars
  BY <1>54 DEF vars
<1>55. QED
    BY <1>1, <1>2, <1>3, <1>4, <1>5, <1>6, <1>7, <1>8, <1>9, <1>10, <1>11,
     <1>12, <1>13, <1>14, <1>15, <1>16, <1>17, <1>18, <1>19, <1>20, <1>21,
     <1>22, <1>23, <1>24, <1>25, <1>26, <1>27, <1>28, <1>29, <1>30, <1>31,
     <1>32, <1>33, <1>34, <1>35, <1>36, <1>37, <1>38, <1>39, <1>40, <1>41,
     <1>42, <1>43, <1>44, <1>45, <1>46, <1>47, <1>48, <1>49, <1>50, <1>51,
     <1>52, <1>53, <1>54 DEF Next, Client, Worker, Guest

\* The facts hold from the fresh share on.
LEMMA OwnerInit == Init => Owner
  BY TokenAssumption
  DEF Init, Owner, ModeKept, OfMode, Marked, NamesFresh, Unlisted,
      BeforeManifest, Rounds, NotStranded, Rewrite, Verdicts

\* They hold as long as no other process takes over the share.
LEMMA OwnerInvariance == Spec => []OwnerInv
<1>1. Init => OwnerInv
  BY OwnerInit DEF OwnerInv
<1>2. IInv /\ OwnerInv /\ [Next]_vars => OwnerInv'
  BY OwnerStep DEF IInv
<1>3. QED
  BY <1>1, <1>2, Invariance, PTL DEF Spec

\* As long as one process owns the share, whatever fails and whoever is late,
\* a verdict that ask() returns is one of the mode that the process was
\* started with: the strict marker is never read before it is set.
THEOREM VerdictsOfTheMode == Spec => []VerdictMode
<1>1. OwnerInv => VerdictMode
  BY DEF OwnerInv, Owner, ModeKept, OfMode, VerdictMode
<1>2. QED
  BY OwnerInvariance, <1>1, PTL

\* While the owner waits, a job file is gone only if its result is there: the
\* guest's rm, by name and possibly a whole round late, strands no query.
THEOREM NoQueryStranded == Spec => []ConsumedHasResult
<1>1. OwnerInv => ConsumedHasResult
  BY DEF OwnerInv, Owner, Rounds, NotStranded, ConsumedHasResult
<1>2. QED
  BY OwnerInvariance, <1>1, PTL

=============================================================================
