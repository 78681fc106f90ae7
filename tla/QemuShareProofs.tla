--------------------------- MODULE QemuShareProofs ---------------------------
(***************************************************************************)
(* Proofs about QemuShare, for any sets of names and programs, any number   *)
(* of host restarts and any batch size.                                     *)
(*                                                                         *)
(* VerdictIntegrity is not inductive: a reply is right because the result   *)
(* file it was read from is, and that file is right because write_batch     *)
(* emptied job/ before out/ and the guest script opens the result file      *)
(* before the agent reads the job file.  The invariant below follows the    *)
(* bytes along that way.                                                    *)
(***************************************************************************)
EXTENDS QemuShare, TLAPS

Rewrite == {"strict", "rmReady", "rmRunsh", "rmManifest"}

\* flush_batch has seen job/ empty, or emptied it.
Emptied == hpc \in Rewrite \cup {"rmStaleDone", "clearOut", "jobs", "fill",
                     "manifest", "runsh", "ready", "waitResults",
                     "clearRetry", "rmRetryDone", "parse", "reply"}

\* ... and out/ has been cleared since.
Cleared ==
    \/ hpc \in {"jobs", "fill", "manifest", "runsh", "ready", "waitResults",
                "clearRetry", "rmRetryDone", "parse", "reply"}
    \/ round = 1 /\ hpc \in Rewrite

Of(text, n) == text \in Verdicts => text.prog = prog[n]

\* Which names the program counters stand for, that they are names of queries
\* already asked, and where the retry round is.
Control ==
    /\ hpc \in {"fill", "reply"} => wname \in pending
    /\ chan \in Names => prog[chan] # NoMsg
    /\ \A n \in pending : prog[n] # NoMsg
    /\ gpc \in {"open", "read", "print", "exit", "timeout", "rm"}
         => gname \in Names
    /\ round = 1 => hpc \in Rewrite \cup {"clearRetry", "rmRetryDone", "jobs",
                       "fill", "manifest", "runsh", "ready", "waitResults",
                       "parse", "reply"}

JobsFresh == Emptied => \A n \in Names : job[n] \in {NoFile, Blank, prog[n]}

OutFresh == Cleared => \A n \in pending : Of(out[n], n)

AgentFresh ==
    Cleared /\ glive /\ gpc = "print" /\ gname \in pending => Of(gtext, gname)

ReplyFresh == hpc = "reply" => Of(parsed, wname)

Fresh == JobsFresh /\ OutFresh /\ AgentFresh /\ ReplyFresh /\ VerdictIntegrity

IInv == TypeOK /\ Control /\ Fresh

\* Every step keeps the types and the control facts.
LEMMA TypingStep == TypeOK /\ Control /\ [Next]_vars => TypeOK' /\ Control'
<1> SUFFICES ASSUME TypeOK, Control, [Next]_vars PROVE TypeOK' /\ Control'
  OBVIOUS
<1> USE RestartAssumption, ModesAssumption, TokenAssumption
      DEF TypeOK, Control, Rewrite, Goto, GGoto, wdata, gdata,
          share, caller, worker, guest, HostPC, GuestPC, ClientPC, Files,
          Texts, Verdicts
<1>1. ASSUME NEW n \in Names, NEW p \in Programs, Ask(n, p)
      PROVE  TypeOK' /\ Control'
  BY <1>1 DEF Ask
<1>2. ASSUME NEW n \in Names, CreateJob(n)
      PROVE  TypeOK' /\ Control'
  BY <1>2 DEF CreateJob
<1>3. ASSUME NEW n \in Names, ReadResult(n)
      PROVE  TypeOK' /\ Control'
  BY <1>3 DEF ReadResult, Parse
<1>4. ASSUME NEW n \in Names, NextName(n)
      PROVE  TypeOK' /\ Control'
  BY <1>4 DEF NextName
<1>5. CASE AskReturns
  BY <1>5 DEF AskReturns
<1>6. CASE HostRestart
  BY <1>6 DEF HostRestart
<1>7. CASE CallFlush
  BY <1>7 DEF CallFlush
<1>8. CASE Drop
  <2>1. connected' \in BOOLEAN
    BY <1>8 DEF Drop
  <2>2. QED
    BY <1>8, <2>1 DEF Drop
<1>9. CASE RecvJob
  BY <1>9 DEF RecvJob
<1>10. CASE RecvFlush
  BY <1>10 DEF RecvFlush
<1>11. CASE Tick
  BY <1>11 DEF Tick
<1>12. CASE Disconnected
  BY <1>12 DEF Disconnected
<1>13. CASE Enter
  BY <1>13 DEF Enter
<1>14. CASE CannotCreateDirs
  BY <1>14 DEF CannotCreateDirs, FailAll
<1>15. CASE WaitPrevious
  BY <1>15 DEF WaitPrevious, StartWrite, PreviousConsumed
<1>16. CASE PreviousDeadline
  BY <1>16 DEF PreviousDeadline
<1>17. CASE RemoveStaleDone
  BY <1>17 DEF RemoveStaleDone, StartWrite
<1>18. CASE WriteStrict
  BY <1>18 DEF WriteStrict
<1>19. CASE RemoveReady
  BY <1>19 DEF RemoveReady, RemoveFile
<1>20. CASE RemoveRunsh
  BY <1>20 DEF RemoveRunsh, RemoveFile
<1>21. CASE RemoveManifest
  BY <1>21 DEF RemoveManifest
<1>22. CASE ClearOut
  <2>1. glive' \in BOOLEAN
    BY <1>22 DEF ClearOut
  <2>2. QED
    BY <1>22, <2>1 DEF ClearOut
<1>23. CASE FillJob
  BY <1>23 DEF FillJob
<1>24. CASE JobsWritten
  BY <1>24 DEF JobsWritten
<1>25. CASE WriteManifest
  BY <1>25 DEF WriteManifest
<1>26. CASE WriteRunsh
  BY <1>26 DEF WriteRunsh, WriteFile
<1>27. CASE WriteReady
  BY <1>27 DEF WriteReady, WriteFile
<1>28. CASE WriteFailsFirst
  BY <1>28 DEF WriteFailsFirst, FailAll, Writing
<1>29. CASE WriteFailsRetry
  BY <1>29 DEF WriteFailsRetry, Writing
<1>30. CASE ResultsComplete
  BY <1>30 DEF ResultsComplete
<1>31. CASE ResultsDeadline
  BY <1>31 DEF ResultsDeadline, Missing
<1>32. CASE ClearForRetry
  BY <1>32 DEF ClearForRetry
<1>33. CASE RemoveRetryDone
  BY <1>33 DEF RemoveRetryDone, StartWrite
<1>34. CASE Reply
  BY <1>34 DEF Reply
<1>35. CASE CleanDone
  BY <1>35 DEF CleanDone
<1>36. CASE CleanRunsh
  BY <1>36 DEF CleanRunsh, RemoveFile
<1>37. CASE CleanReady
  BY <1>37 DEF CleanReady, RemoveFile
<1>38. CASE CleanManifest
  BY <1>38 DEF CleanManifest
<1>39. CASE TestRunsh
  BY <1>39 DEF TestRunsh
<1>40. CASE TestReady
  BY <1>40 DEF TestReady
<1>41. CASE TestDone
  BY <1>41 DEF TestDone
<1>42. CASE StartScript
  BY <1>42 DEF StartScript
<1>43. CASE Reboot
  <2>1. glive' \in BOOLEAN /\ gstrict' \in BOOLEAN
    BY <1>43 DEF Reboot
  <2>2. QED
    BY <1>43, <2>1 DEF Reboot
<1>44. CASE ReadStrict
  BY <1>44 DEF ReadStrict
<1>45. CASE OpenManifest
  BY <1>45 DEF OpenManifest
<1>46. CASE OpenOut
  BY <1>46 DEF OpenOut
<1>47. CASE AgentReads
  BY <1>47 DEF AgentReads
<1>48. CASE AgentPrints
  BY <1>48 DEF AgentPrints
<1>49. CASE AgentTimeout
  BY <1>49 DEF AgentTimeout
<1>50. CASE EchoTimeout
  BY <1>50 DEF EchoTimeout
<1>51. CASE RemoveJob
  <2>1. glive' \in BOOLEAN
    BY <1>51 DEF RemoveJob
  <2>2. QED
    BY <1>51, <2>1 DEF RemoveJob
<1>52. CASE ManifestRead
  BY <1>52 DEF ManifestRead
<1>53. CASE TouchDone
  <2>1. gstrict' \in BOOLEAN
    BY <1>53 DEF TouchDone
  <2>2. QED
    BY <1>53, <2>1 DEF TouchDone
<1>54. CASE UNCHANGED vars
  BY <1>54 DEF vars
<1>55. QED
    BY <1>1, <1>2, <1>3, <1>4, <1>5, <1>6, <1>7, <1>8, <1>9, <1>10, <1>11,
     <1>12, <1>13, <1>14, <1>15, <1>16, <1>17, <1>18, <1>19, <1>20, <1>21,
     <1>22, <1>23, <1>24, <1>25, <1>26, <1>27, <1>28, <1>29, <1>30, <1>31,
     <1>32, <1>33, <1>34, <1>35, <1>36, <1>37, <1>38, <1>39, <1>40, <1>41,
     <1>42, <1>43, <1>44, <1>45, <1>46, <1>47, <1>48, <1>49, <1>50, <1>51,
     <1>52, <1>53, <1>54 DEF Next, Client, Worker, Guest

\* Every step keeps the bytes and the results of the pending queries apart
\* from everybody else's.
LEMMA FreshStep ==
    TypeOK /\ Control /\ Fresh /\ [Next]_vars => Fresh'
<1> SUFFICES ASSUME TypeOK, Control, Fresh, [Next]_vars PROVE Fresh'
  OBVIOUS
<1> USE TokenAssumption
      DEF TypeOK, Control, Fresh, JobsFresh, OutFresh, AgentFresh, ReplyFresh,
          VerdictIntegrity, Emptied, Cleared, Of, Rewrite, Goto, GGoto,
          wdata, gdata, share, caller, worker, guest, Files,
          Texts, Verdicts
<1>1. ASSUME NEW n \in Names, NEW p \in Programs, Ask(n, p)
      PROVE  Fresh'
  BY <1>1 DEF Ask
<1>2. ASSUME NEW n \in Names, CreateJob(n)
      PROVE  Fresh'
  BY <1>2 DEF CreateJob
<1>3. ASSUME NEW n \in Names, ReadResult(n)
      PROVE  Fresh'
  BY <1>3 DEF ReadResult, Parse
<1>4. ASSUME NEW n \in Names, NextName(n)
      PROVE  Fresh'
  BY <1>4 DEF NextName
<1>5. CASE AskReturns
  BY <1>5 DEF AskReturns
<1>6. CASE HostRestart
  BY <1>6 DEF HostRestart
<1>7. CASE CallFlush
  BY <1>7 DEF CallFlush
<1>8. CASE Drop
  BY <1>8 DEF Drop
<1>9. CASE RecvJob
  BY <1>9 DEF RecvJob
<1>10. CASE RecvFlush
  BY <1>10 DEF RecvFlush
<1>11. CASE Tick
  BY <1>11 DEF Tick
<1>12. CASE Disconnected
  BY <1>12 DEF Disconnected
<1>13. CASE Enter
  BY <1>13 DEF Enter
<1>14. CASE CannotCreateDirs
  BY <1>14 DEF CannotCreateDirs, FailAll
<1>15. CASE WaitPrevious
  BY <1>15 DEF WaitPrevious, StartWrite, PreviousConsumed
<1>16. CASE PreviousDeadline
  BY <1>16 DEF PreviousDeadline
<1>17. CASE RemoveStaleDone
  BY <1>17 DEF RemoveStaleDone, StartWrite
<1>18. CASE WriteStrict
  BY <1>18 DEF WriteStrict
<1>19. CASE RemoveReady
  BY <1>19 DEF RemoveReady, RemoveFile
<1>20. CASE RemoveRunsh
  BY <1>20 DEF RemoveRunsh, RemoveFile
<1>21. CASE RemoveManifest
  BY <1>21 DEF RemoveManifest
<1>22. CASE ClearOut
  BY <1>22 DEF ClearOut
<1>23. CASE FillJob
  BY <1>23 DEF FillJob
<1>24. CASE JobsWritten
  BY <1>24 DEF JobsWritten
<1>25. CASE WriteManifest
  BY <1>25 DEF WriteManifest
<1>26. CASE WriteRunsh
  BY <1>26 DEF WriteRunsh, WriteFile
<1>27. CASE WriteReady
  BY <1>27 DEF WriteReady, WriteFile
<1>28. CASE WriteFailsFirst
  BY <1>28 DEF WriteFailsFirst, FailAll, Writing
<1>29. CASE WriteFailsRetry
  BY <1>29 DEF WriteFailsRetry, Writing
<1>30. CASE ResultsComplete
  BY <1>30 DEF ResultsComplete
<1>31. CASE ResultsDeadline
  BY <1>31 DEF ResultsDeadline, Missing
<1>32. CASE ClearForRetry
  BY <1>32 DEF ClearForRetry
<1>33. CASE RemoveRetryDone
  BY <1>33 DEF RemoveRetryDone, StartWrite
<1>34. CASE Reply
  BY <1>34 DEF Reply
<1>35. CASE CleanDone
  BY <1>35 DEF CleanDone
<1>36. CASE CleanRunsh
  BY <1>36 DEF CleanRunsh, RemoveFile
<1>37. CASE CleanReady
  BY <1>37 DEF CleanReady, RemoveFile
<1>38. CASE CleanManifest
  BY <1>38 DEF CleanManifest
<1>39. CASE TestRunsh
  BY <1>39 DEF TestRunsh
<1>40. CASE TestReady
  BY <1>40 DEF TestReady
<1>41. CASE TestDone
  BY <1>41 DEF TestDone
<1>42. CASE StartScript
  BY <1>42 DEF StartScript
<1>43. CASE Reboot
  BY <1>43 DEF Reboot
<1>44. CASE ReadStrict
  BY <1>44 DEF ReadStrict
<1>45. CASE OpenManifest
  BY <1>45 DEF OpenManifest
<1>46. CASE OpenOut
  BY <1>46 DEF OpenOut
<1>47. CASE AgentReads
  BY <1>47 DEF AgentReads
<1>48. CASE AgentPrints
  BY <1>48 DEF AgentPrints
<1>49. CASE AgentTimeout
  BY <1>49 DEF AgentTimeout
<1>50. CASE EchoTimeout
  BY <1>50 DEF EchoTimeout
<1>51. CASE RemoveJob
  BY <1>51 DEF RemoveJob
<1>52. CASE ManifestRead
  BY <1>52 DEF ManifestRead
<1>53. CASE TouchDone
  BY <1>53 DEF TouchDone
<1>54. CASE UNCHANGED vars
  BY <1>54 DEF vars
<1>55. QED
    BY <1>1, <1>2, <1>3, <1>4, <1>5, <1>6, <1>7, <1>8, <1>9, <1>10, <1>11,
     <1>12, <1>13, <1>14, <1>15, <1>16, <1>17, <1>18, <1>19, <1>20, <1>21,
     <1>22, <1>23, <1>24, <1>25, <1>26, <1>27, <1>28, <1>29, <1>30, <1>31,
     <1>32, <1>33, <1>34, <1>35, <1>36, <1>37, <1>38, <1>39, <1>40, <1>41,
     <1>42, <1>43, <1>44, <1>45, <1>46, <1>47, <1>48, <1>49, <1>50, <1>51,
     <1>52, <1>53, <1>54 DEF Next, Client, Worker, Guest

\* The initial share satisfies the invariant.
LEMMA InvInit == Init => IInv
<1> SUFFICES ASSUME Init PROVE IInv
  OBVIOUS
<1>1. connected \in BOOLEAN /\ glive \in BOOLEAN /\ gstrict \in BOOLEAN
  BY DEF Init
<1>2. TypeOK
  BY <1>1, RestartAssumption
  DEF Init, TypeOK, HostPC, GuestPC, ClientPC, Files, Texts
<1>3. Control
  BY TokenAssumption DEF Init, Control, Rewrite
<1>4. Fresh
  BY TokenAssumption
  DEF Init, Fresh, JobsFresh, OutFresh, AgentFresh, ReplyFresh,
      VerdictIntegrity, Emptied, Cleared, Rewrite
<1>5. QED
  BY <1>2, <1>3, <1>4 DEF IInv

\* The inductive invariant holds throughout: no step of host, guest or share
\* breaks it, restarts and reboots included.
LEMMA Invariance == Spec => []IInv
<1>1. IInv /\ [Next]_vars => IInv'
  BY TypingStep, FreshStep DEF IInv
<1>2. QED
  BY InvInit, <1>1, PTL DEF Spec

\* The variables of host, guest and share keep their types.
THEOREM TypeCorrect == Spec => []TypeOK
<1>1. IInv => TypeOK
  BY DEF IInv
<1>2. QED
  BY Invariance, <1>1, PTL

\* A verdict that ask() returns is the guest kernel's verdict on the bytes of
\* that query, for any number of names, programs and host restarts, and
\* whichever deadlines expire.
THEOREM VerdictsAreTheQuerys == Spec => []VerdictIntegrity
<1>1. IInv => VerdictIntegrity
  BY DEF IInv, Fresh
<1>2. QED
  BY Invariance, <1>1, PTL
=============================================================================
