------------------------------- MODULE Shrink -------------------------------
(***************************************************************************)
(* What a reduction promises: the reproducer is only ever replaced by a     *)
(* strictly smaller program that was seen to preserve the finding, and it   *)
(* is handed out only if it was evaluated again after its last replacement  *)
(* and still preserved the finding.                                         *)
(***************************************************************************)
CONSTANTS Originals, Smaller(_, _)

VARIABLES
    prog,      \* the reproducer
    known,     \* programs seen to preserve the finding
    checked,   \* whether the reproducer passed its last evaluation
    handed,    \* the programs handed out
    status     \* "idle", "reducing", "confirmed" or "failed"

vars == <<prog, known, checked, handed, status>>

Init == prog = <<>> /\ known = {} /\ checked = FALSE /\ handed = {} /\ status = "idle"

\* The next finding.
Start ==
    /\ status # "reducing"
    /\ prog' \in Originals /\ known' = {} /\ checked' = FALSE /\ status' = "reducing"
    /\ UNCHANGED handed

Learn ==
    /\ status = "reducing"
    /\ \E p \in known' : known' = known \cup {p}
    /\ UNCHANGED <<prog, checked, handed, status>>

\* A pass puts something smaller, and known, in the reproducer's place; an
\* earlier evaluation says nothing of it.
Replace ==
    /\ status = "reducing"
    /\ Smaller(prog', prog)
    /\ prog' \in known' /\ known' \in {known, known \cup {prog'}}
    /\ checked' = FALSE
    /\ UNCHANGED <<handed, status>>

\* The reproducer is evaluated again.
Check ==
    /\ status = "reducing" /\ checked' \in BOOLEAN
    /\ UNCHANGED <<prog, known, handed, status>>

Confirm ==
    /\ status = "reducing" /\ checked
    /\ status' = "confirmed" /\ handed' = handed \cup {prog}
    /\ checked' = FALSE /\ known' = known \cup {prog}
    /\ UNCHANGED prog

Fail ==
    /\ status = "reducing" /\ status' = "failed" /\ checked' = FALSE
    /\ UNCHANGED <<prog, known, handed>>

\* A finding that does not replay is never reduced.
Refuse ==
    /\ status # "reducing" /\ status' = "failed" /\ known' \subseteq known
    /\ UNCHANGED <<prog, checked, handed>>

Next == Start \/ Learn \/ Replace \/ Check \/ Confirm \/ Fail \/ Refuse

Spec == Init /\ [][Next]_vars
=============================================================================
