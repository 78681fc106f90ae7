-------------------------------- MODULE Refs --------------------------------
(***************************************************************************)
(* Nullable and referenced pointers of the mini verifier (exec.rs step and  *)
(* cond_branch_impl, state.rs): ring-buffer records that a helper acquires, *)
(* that a NULL check proves, that another helper releases, and whose        *)
(* aliases live in registers and spilled slots of several frames; map       *)
(* values that a lookup may not find.  The verifier's state is stepped      *)
(* along with a run of the program, in which a record is acquired or not.   *)
(*                                                                          *)
(* A step exists where the verifier takes the instruction; a program it     *)
(* rejects has no run.  Registers r0 (results), r1 (an argument) and r6     *)
(* (saved over calls) and one stack slot stand for the others.              *)
(***************************************************************************)
EXTENDS Integers, Sequences, FiniteSets, SequencesExt

CONSTANTS
    MAX_REFS,        \* references held at a time, 8 in the code
    MaxCallFrames,   \* MAX_CALL_FRAMES, 16 in the code
    MaxRecords,      \* bound: records that a run acquires
    Sites,           \* the instructions that call bpf_map_lookup_elem
    Sizes,           \* sizes of reservations, in bytes
    ValueSize,       \* size of a map value, in bytes
    Programs,        \* which of the program features below are exercised
    MaxSteps         \* bound: instructions of a run

\* Programs in which what the verifier knows and what the run has may part.
Oddities == {
    "callee_check",   \* a NULL check below the frame that keeps an alias
    "loop_lookup",    \* a lookup that is executed again
    "small_buffer"}   \* a reservation of fewer than 8 bytes

ASSUME RefsAssumption ==
    /\ MAX_REFS \in Nat \ {0} /\ MaxCallFrames \in Nat \ {0}
    /\ MaxRecords \in Nat /\ MaxSteps \in Nat
    /\ Sites \subseteq Nat /\ ValueSize \in Nat /\ Sizes \subseteq Nat \ {0}
    /\ Programs \subseteq Oddities

VARIABLES
    abs,    \* the verifier's frames, the running one last
    refs,   \* refs[..refs_cnt]: the ids of the references held
    con,    \* the run's frames
    live,   \* records acquired and not released, with their sizes
    made,   \* how many records the run has acquired
    seen,   \* the lookups that were executed
    fault,  \* what the run did that no accepted program may
    over,   \* whether the run has left the program
    steps

vars == <<abs, refs, con, live, made, seen, fault, over, steps>>

Regs == {0, 1, 6}
SpillSlot == -1   \* a full 8-byte slot that a register was spilled to
Cells == Regs \cup {SpillSlot}

\* RegState, for the kinds that matter here: `id` is the reference or lookup
\* identity, `max` the size (nullable) or the max_offset (PtrToMem).
V(k, i, n) == [kind |-> k, id |-> i, max |-> n]
Uninit     == V("uninit", 0, 0)
Scalar     == V("scalar", 0, 0)
Zero       == V("zero", 0, 0)
Kinds      == {"uninit", "scalar", "zero", "PtrToMemOrNull", "PtrToMem",
               "PtrToMapValueOrNull", "PtrToMapValue"}

\* What a cell of the run holds: NULL, some other number, a pointer to a map
\* value, or (a positive number) a pointer to that record.
Null     == 0
Word     == -1
MapValue == -2

A == Last(abs)
C == Last(con)
Empty(v) == [c \in Cells |-> v]

Init ==
    /\ abs = <<Empty(Uninit)>> /\ refs = <<>>
    /\ con = <<Empty(Word)>> /\ live = {} /\ made = 0
    /\ seen = {} /\ fault = {} /\ over = FALSE /\ steps = 0

\* One more instruction of a program that is still running.
Runs == ~over /\ steps < MaxSteps /\ steps' = steps + 1

\* The running frames become a and c.
Frames(a, c) ==
    /\ abs' = Append(Front(abs), a)
    /\ con' = Append(Front(con), c)

--------------------------------------------------------------------------------
\* Reference ids

\* (bug) The id counts the references.
fresh_reference_id_by_count == Len(refs) + 1

\* The smallest id that no reference has now.
fresh_reference_id ==
    CHOOSE i \in 1..(Len(refs) + 1) :
        /\ i \notin ToSet(refs)
        /\ \A j \in 1..(i - 1) : j \in ToSet(refs)

\* The last reference takes the released one's place.
Dropped(id) ==
    IF id \notin ToSet(refs) THEN refs
    ELSE LET i == CHOOSE j \in 1..Len(refs) : refs[j] = id
         IN  Front([refs EXCEPT ![i] = Last(refs)])

\* Registers and spilled slots with the id, of the kinds ks, become v.
Alias(c, id, ks) == c.kind \in ks /\ c.id = id
Replaced(frame, id, ks, v) ==
    [c \in Cells |-> IF Alias(frame[c], id, ks) THEN v ELSE frame[c]]

\* (bug) Only the running frame forgets the record.
invalidate_current_frame(frames, id) ==
    [frames EXCEPT ![Len(frames)] =
        Replaced(@, id, {"PtrToMem", "PtrToMemOrNull"}, Scalar)]

\* Release makes every alias, in every frame, a plain number.
invalidate_reference_aliases(frames, id) ==
    [f \in 1..Len(frames) |->
        Replaced(frames[f], id, {"PtrToMem", "PtrToMemOrNull"}, Scalar)]

--------------------------------------------------------------------------------
\* Helper calls: r0 is the result, r1..r5 are clobbered.

Returns(frame, r0, r1) == [frame EXCEPT ![0] = r0, ![1] = r1]

\* bpf_ringbuf_reserve: the verifier knows the size or, of a size that is no
\* constant, nothing; the run gets a record or NULL.
Reserve(n, known) ==
    /\ Runs /\ Len(refs) < MAX_REFS
    /\ "small_buffer" \notin Programs => n >= 8
    /\ LET id == fresh_reference_id
           r0 == V("PtrToMemOrNull", id, IF known THEN n ELSE 0)
       IN  /\ refs' = Append(refs, id)
           /\ \E got \in {Null} \cup (IF made < MaxRecords THEN {made + 1} ELSE {}) :
                /\ Frames(Returns(A, r0, Uninit), Returns(C, got, Word))
                /\ made' = IF got = Null THEN made ELSE got
                /\ live' = live \cup {[rec |-> r, size |-> n] : r \in {got} \ {Null}}
    /\ UNCHANGED <<seen, fault, over>>

\* bpf_ringbuf_submit and bpf_ringbuf_discard.
Release ==
    /\ Runs /\ A[1].kind = "PtrToMem" /\ A[1].id \in ToSet(refs)
    /\ refs' = Dropped(A[1].id)
    /\ LET frames == invalidate_reference_aliases(abs, A[1].id)
       IN  /\ abs' = Append(Front(frames), Returns(Last(frames), Zero, Uninit))
           /\ con' = Append(Front(con), Returns(C, Null, Word))
    /\ live' = {r \in live : r.rec # C[1]}
    /\ fault' = fault \cup
           (IF \E r \in live : r.rec = C[1] THEN {} ELSE {"release"})
    /\ UNCHANGED <<made, seen, over>>

\* bpf_map_lookup_elem: the identity of its result comes from its pc.
Lookup(pc) ==
    /\ Runs
    /\ "loop_lookup" \notin Programs => pc \notin seen
    /\ seen' = seen \cup {pc}
    /\ \E found \in {Null, MapValue} :
         Frames(Returns(A, V("PtrToMapValueOrNull", pc + 1, ValueSize), Uninit),
                Returns(C, found, Word))
    /\ UNCHANGED <<refs, live, made, fault, over>>

--------------------------------------------------------------------------------
\* NULL checks (cond_branch_impl): both sides are explored, the run takes one.

\* A map value: the aliases of the running frame follow the checked register.
CheckMapValue(r) ==
    /\ Runs /\ A[r].kind = "PtrToMapValueOrNull"
    /\ LET side == IF C[r] = Null THEN Zero
                   ELSE V("PtrToMapValue", A[r].id, A[r].max)
       IN  Frames(Replaced(A, A[r].id, {"PtrToMapValueOrNull"}, side), C)
    /\ UNCHANGED <<refs, live, made, seen, fault, over>>

\* The bytes that may be moved over within a checked buffer.
max_off(size) == IF size > 8 THEN size - 8 ELSE 0

\* A record: the NULL side releases the reference and the aliases of the
\* running frame are 0; on the other side they can be used.
CheckRecord(r) ==
    /\ Runs /\ A[r].kind = "PtrToMemOrNull"
    /\ "callee_check" \notin Programs =>
         \A f \in 1..(Len(abs) - 1) : \A c \in Cells :
           ~Alias(abs[f][c], A[r].id, {"PtrToMem", "PtrToMemOrNull"})
    /\ LET id == A[r].id
           checked == V("PtrToMem", id, max_off(A[r].max))
       IN  IF C[r] = Null
           THEN /\ refs' = Dropped(id)
                /\ Frames(Replaced(A, id, {"PtrToMem", "PtrToMemOrNull"}, Zero), C)
           ELSE /\ refs' = refs
                /\ Frames([Replaced(A, id, {"PtrToMemOrNull"}, checked)
                             EXCEPT ![r] = V("PtrToMem", id, 0)], C)
    /\ UNCHANGED <<live, made, seen, fault, over>>

--------------------------------------------------------------------------------
\* Other instructions

\* Aligned, and within the buffer from whichever offset the pointer has.
mem_access_check(v, off, w) ==
    /\ off % w = 0 /\ off >= 0
    /\ v.max + off + w <= v.max + 8

\* The whole slot, whatever the width of the access.
map_value_access_check(v, off) == off % 8 = 0 /\ off >= 0 /\ off + 8 <= v.max

\* A store of a number through r; a load also makes its register a number.
Access(r, off, w) ==
    /\ Runs
    /\ \/ A[r].kind = "PtrToMem" /\ mem_access_check(A[r], off, w)
       \/ A[r].kind = "PtrToMapValue" /\ map_value_access_check(A[r], off)
    /\ fault' = fault \cup
         (IF \/ C[r] = MapValue
             \/ \E rec \in live : rec.rec = C[r] /\ off + w <= rec.size
          THEN {} ELSE {"access"})
    /\ UNCHANGED <<abs, refs, con, live, made, seen, over>>

\* mov, and spilling to or filling from the slot.
Copy(d, s) ==
    /\ Runs /\ d # s /\ A[s].kind # "uninit"
    /\ Frames([A EXCEPT ![d] = A[s]], [C EXCEPT ![d] = C[s]])
    /\ UNCHANGED <<refs, live, made, seen, fault, over>>

\* r0 = 0
SetZero ==
    /\ Runs
    /\ Frames([A EXCEPT ![0] = Zero], [C EXCEPT ![0] = Null])
    /\ UNCHANGED <<refs, live, made, seen, fault, over>>

\* A subprogram gets the arguments; its other cells are unwritten.
call_subprog ==
    /\ Runs /\ Len(abs) < MaxCallFrames
    /\ abs' = Append(abs, [Empty(Uninit) EXCEPT ![1] = A[1]])
    /\ con' = Append(con, [Empty(Word) EXCEPT ![1] = C[1]])
    /\ UNCHANGED <<refs, live, made, seen, fault, over>>

\* The caller's frame comes back with the result in r0, written or not.
return_from_subprog ==
    /\ Runs /\ Len(abs) > 1
    /\ abs' = Append(Front(Front(abs)), Returns(Last(Front(abs)), A[0], Uninit))
    /\ con' = Append(Front(Front(con)), Returns(Last(Front(con)), C[0], Word))
    /\ UNCHANGED <<refs, live, made, seen, fault, over>>

\* (bug) One reference too many may be held.
ExitHoldingOne ==
    /\ Runs /\ Len(abs) = 1
    /\ A[0].kind \in {"scalar", "zero"} /\ Len(refs) <= 1
    /\ over' = TRUE
    /\ fault' = fault \cup (IF live = {} THEN {} ELSE {"leak"})
    /\ UNCHANGED <<abs, refs, con, live, made, seen>>

\* The exit of the program: r0 is a number and no reference is held.
Exit ==
    /\ Runs /\ Len(abs) = 1
    /\ A[0].kind \in {"scalar", "zero"} /\ refs = <<>>
    /\ over' = TRUE
    /\ fault' = fault \cup (IF live = {} THEN {} ELSE {"leak"})
    /\ UNCHANGED <<abs, refs, con, live, made, seen>>

Next ==
    \/ \E n \in Sizes, known \in BOOLEAN : Reserve(n, known)
    \/ Release
    \/ \E pc \in Sites : Lookup(pc)
    \/ \E r \in Regs : CheckMapValue(r)
    \/ \E r \in Regs : CheckRecord(r)
    \/ \E r \in Regs, off \in {0, 4, 8}, w \in {4, 8} : Access(r, off, w)
    \/ \E d, s \in Cells : Copy(d, s)
    \/ SetZero
    \/ call_subprog
    \/ return_from_subprog
    \/ Exit

Spec == Init /\ [][Next]_vars

--------------------------------------------------------------------------------
\* The types; and no two references share an id, nor do more than MAX_REFS
\* exist, through every acquire, release and NULL check.
TypeOK ==
    /\ Len(abs) \in 1..MaxCallFrames /\ Len(con) = Len(abs)
    /\ \A f \in 1..Len(abs) : \A c \in Cells :
         /\ abs[f][c].kind \in Kinds /\ abs[f][c].id \in Nat /\ abs[f][c].max \in Nat
         /\ con[f][c] \in {Null, Word, MapValue} \cup (1..MaxRecords)
    /\ Len(refs) <= MAX_REFS /\ Cardinality(ToSet(refs)) = Len(refs)
    /\ made \in 0..MaxRecords /\ over \in BOOLEAN

\* What a run may have in a cell of which the verifier knows v.
Holds(v, x) ==
    /\ v.kind = "zero" => x = Null
    /\ v.kind = "PtrToMem" => \E r \in live : r.rec = x
    /\ v.kind = "PtrToMemOrNull" => x = Null \/ \E r \in live : r.rec = x
    /\ v.kind = "PtrToMapValue" => x = MapValue
    /\ v.kind = "PtrToMapValueOrNull" => x \in {Null, MapValue}

\* Every cell of every frame holds what the verifier knows of it (the
\* coverage check of concrete.rs), in particular a record whose reference is
\* still held; and one id stands for one record, in whichever frames its
\* aliases are.
Covered ==
    \A f \in 1..Len(abs) : \A c \in Cells :
      /\ Holds(abs[f][c], con[f][c])
      /\ \A g \in 1..Len(abs) : \A d \in Cells :
           (/\ abs[f][c].kind \in {"PtrToMem", "PtrToMemOrNull"}
            /\ Alias(abs[g][d], abs[f][c].id, {"PtrToMem", "PtrToMemOrNull"}))
           => con[f][c] = con[g][d]

\* An accepted program touches no record it does not hold, nor bytes behind
\* its end, releases none twice and leaves none behind at its exit
\* ("every acquired reference must be released before the exit", mini.rs).
NoFault == fault = {}
=============================================================================
