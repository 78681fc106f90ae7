------------------------------- MODULE Memory -------------------------------
(***************************************************************************)
(* The stack of the mini verifier (exec.rs stack_read, stack_write) and of  *)
(* the concrete interpreter (concrete.rs), run in lockstep: what the        *)
(* verifier tracks byte by byte, with spilled registers, pointers with an   *)
(* offset range and frames of subprogram calls, against the values that a   *)
(* run really has in its slots.                                             *)
(*                                                                          *)
(* A byte is 0..3 and a word has Slot bytes; an abstract scalar is the set  *)
(* of its words.                                                            *)
(***************************************************************************)
EXTENDS Integers, Sequences, FiniteSets

CONSTANTS
    Slot,       \* bytes of a stack slot, 8 in the code
    Slots,      \* slots of a frame, 64 in the code
    MaxFrames,  \* MAX_CALL_FRAMES, 16 in the code
    KeySize,    \* bytes of a map key
    Programs,   \* which of the program features below are exercised
    MaxSteps    \* bound: instructions of a run

ASSUME MemoryAssumption ==
    /\ Slot \in Nat /\ Slot > 1 /\ Slots \in Nat \ {0} /\ MaxFrames \in Nat \ {0}
    /\ KeySize \in 1..Slot /\ MaxSteps \in Nat

\* Programs that the verifier and the interpreter do not treat alike.
Oddities == {
    "align",        \* an addition to a pointer of unknown alignment
    "var_fresh",    \* a store at a variable offset over unwritten bytes
    "var_zero",     \* a store of 0 at a variable offset
    "var_pointer",  \* a store of a pointer at a variable offset
    "narrow_range", \* a narrow store of a scalar that is no constant
    "atomic_spill", \* an atomic on a slot that holds a pointer
    "atomic_half",  \* an atomic on a part of a spilled slot
    "map_imm",      \* an immediate stored through a map value pointer
    "foreign_key"}  \* a map key in a caller's frame

VARIABLES
    abs,      \* the verifier's frames, the running one last
    con,      \* the interpreter's frames
    failed,   \* the interpreter refused an instruction that the verifier took
    steps

vars == <<abs, con, failed, steps>>

Size    == Slot * Slots
Offsets == (-Size)..(-1)
Cells   == 0..(Slots - 1)
Regs    == {0, 1, 6, 10}
Base    == 4                     \* values of a byte, 256 in the code
Words   == 0..(Base^Slot - 1)
Sizes   == {1, Slot}
ALIGN_UNKNOWN == 2 * Slot - 1    \* 0xFF in the code; -1 modulo a slot, too

\* Powers of the base grow.
ASSUME PowerAssumption ==
    /\ Slot < Base^Slot
    /\ \A n \in 1..Slot : Base^n \in Nat /\ Base <= Base^n /\ Base^n <= Base^Slot

MIN         == -(Base^Slot \div 2)
Signed(w)   == IF w >= -MIN THEN w + 2 * MIN ELSE w
Byte(w, k)  == (w \div Base^k) % Base
CellOf(o)   == (-o - 1) \div Slot
Lowest(c)   == -(c + 1) * Slot       \* the offset of a cell's first byte

\* RegState
Uninit      == [k |-> "uninit"]
Scalar(set) == [k |-> "scalar", set |-> set]
Const(w)    == Scalar({w})
Unknown     == Scalar(Words)
StackPtr(min, max, align, frame) ==
    [k |-> "stack", min |-> min, max |-> max, align |-> align, frame |-> frame]
MapPtr(min, max, align) == [k |-> "map", min |-> min, max |-> max, align |-> align]
IsScalar(a) == a.k = "scalar"
Is(a, w)    == a = Const(w)
smin(a) == CHOOSE s \in {Signed(w) : w \in a.set} : \A w \in a.set : s <= Signed(w)
smax(a) == CHOOSE s \in {Signed(w) : w \in a.set} : \A w \in a.set : s >= Signed(w)

\* ConcreteValue
None        == [k |-> "none"]
CScalar(w)  == [k |-> "scalar", v |-> w]
CStack(off, frame) == [k |-> "stack", off |-> off, frame |-> frame]
CMap(off)   == [k |-> "map", off |-> off]
\* A pointer's address has no zero byte.
bits(v)     == IF v.k = "scalar" THEN v.v ELSE Base^Slot - 1

ValueSize   == 2 * Slot              \* of the map
Seeds       == {0, 1, Base^Slot - 1} \* what the interpreter lets helpers return

cur        == Len(abs)
Feature(f) == f \in Programs
A(r)       == abs[cur].regs[r]
C(r)       == con[cur].regs[r]
SetA(r, a) == [abs EXCEPT ![cur].regs[r] = a]
SetC(r, c) == [con EXCEPT ![cur].regs[r] = c]

-----------------------------------------------------------------------------
(* Accesses of the verifier.                                                *)

Fixed(p) == p.min = p.max
CoveredBytes(p, off, size) == (p.min + off)..(p.max + off + size - 1)
CellsOf(bytes) == {CellOf(o) : o \in bytes}

\* Every offset that the pointer may have is aligned and inside the frame.
Accessible(p, off, size) ==
    /\ p.align # ALIGN_UNKNOWN
    /\ (p.align + off) % size = 0 /\ (p.min + off) % size = 0
    /\ p.min + off >= -Size /\ p.max + off + size <= 0

Extend(w, size, sign_extend) ==
    IF sign_extend /\ w >= Base^size \div 2 THEN w + Base^Slot - Base^size ELSE w
coerce_scalar(a, size, sign_extend) ==
    Scalar({Extend(w % Base^size, size, sign_extend) : w \in a.set})
scalar_for_width(size, sign_extend) == coerce_scalar(Unknown, size, sign_extend)

Reject == [k |-> "reject"]

\* A whole spilled register comes back; a narrow load at the first byte of a
\* spilled scalar truncates it; otherwise the bytes decide.
fixed_stack_read(f, lo, size, sign_extend) ==
    LET range    == lo..(lo + size - 1)
        v        == f.spilled[CellOf(lo)]
        All(k)   == \A o \in range : f.bytes[o] = k
        restores == All("spill") /\ v # Uninit
    IN  CASE restores /\ size = Slot -> v
          [] restores /\ size # Slot /\ ~IsScalar(v) -> Reject
          [] restores /\ size # Slot /\ IsScalar(v) /\ lo % Slot = 0 ->
               coerce_scalar(v, size, sign_extend)
          [] OTHER -> CASE \E o \in range : f.bytes[o] = "invalid" -> Reject
                        [] All("zero") \/ (All("spill") /\ Is(v, 0)) -> Const(0)
                        [] OTHER -> Unknown

\* Mutant of variable_stack_read: one written byte is enough.
variable_stack_read_any(f, bytes) ==
    IF \/ \A o \in bytes : f.bytes[o] = "invalid"
       \/ \E o \in bytes : f.bytes[o] = "spill" /\ ~IsScalar(f.spilled[CellOf(o)])
    THEN Reject ELSE Unknown

\* At a variable offset every byte that may be read holds a scalar.
variable_stack_read(f, bytes) ==
    IF \E o \in bytes : \/ f.bytes[o] = "invalid"
                        \/ f.bytes[o] = "spill" /\ ~IsScalar(f.spilled[CellOf(o)])
    THEN Reject ELSE Unknown

stack_read(p, off, size, sign_extend) ==
    CASE ~Accessible(p, off, size) -> Reject
      [] Fixed(p) /\ Accessible(p, off, size) ->
           fixed_stack_read(abs[p.frame], p.min + off, size, sign_extend)
      [] OTHER -> variable_stack_read(abs[p.frame], CoveredBytes(p, off, size))

\* A store at the first byte of a slot spills the register.
spill(f, lo, size, a) ==
    [f EXCEPT !.spilled[CellOf(lo)] = a,
              !.bytes = [o \in Offsets |->
                           IF CellOf(o) # CellOf(lo) THEN @[o]
                           ELSE IF o < lo + size THEN "spill" ELSE "misc"]]

\* Any other store makes the bytes unknown, or zero, and scrubs the slots.
scrub(f, bytes, a) ==
    [f EXCEPT !.spilled = [c \in Cells |-> IF c \in CellsOf(bytes) THEN Uninit ELSE @[c]],
              !.bytes = [o \in Offsets |->
                           CASE o \in bytes -> IF Is(a, 0) THEN "zero" ELSE "misc"
                             [] o \notin bytes /\ CellOf(o) \in CellsOf(bytes)
                                               /\ @[o] = "spill" -> "misc"
                             [] OTHER -> @[o]]]

AtSlot(p, off) == Fixed(p) /\ (p.min + off) % Slot = 0

\* Mutant of MaySpill: a stack pointer may go into a caller's frame.
MaySpillAnywhere(p, size, a) == IsScalar(a) \/ size = Slot
MaySpill(p, size, a) ==
    /\ IsScalar(a) \/ size = Slot
    /\ a.k = "stack" => p.frame = cur
MayScrub(f, bytes) ==
    \A c \in CellsOf(bytes) : f.spilled[c] = Uninit \/ IsScalar(f.spilled[c])

MayWrite(p, off, size, a) ==
    /\ Accessible(p, off, size) /\ a # Uninit
    /\ IF AtSlot(p, off) THEN MaySpill(p, size, a)
       ELSE MayScrub(abs[p.frame], CoveredBytes(p, off, size))
stack_write(p, off, size, a) ==
    [abs EXCEPT ![p.frame] = IF AtSlot(p, off) THEN spill(@, p.min + off, size, a)
                             ELSE scrub(@, CoveredBytes(p, off, size), a)]

map_value_access_check(p, off) ==
    /\ p.align # ALIGN_UNKNOWN /\ (p.align + off) % Slot = 0
    /\ p.min + off >= 0 /\ p.max + off + Slot <= ValueSize

-----------------------------------------------------------------------------
(* Accesses of the interpreter.                                             *)

concrete_stack_range(offset, size) ==
    offset < 0 /\ offset >= -Size /\ offset % size = 0 /\ offset + size <= 0
InSlot(offset) == offset - Lowest(CellOf(offset))

concrete_merge(slots, offset, size, v) ==
    LET c   == CellOf(offset)
        at  == Base^InSlot(offset)
        old == IF slots[c] = None THEN 0 ELSE bits(slots[c])
        cut == ((old \div at) % Base^size) * at
    IN  [slots EXCEPT ![c] = IF size = Slot THEN v
                             ELSE CScalar(old - cut + (bits(v) % Base^size) * at)]

concrete_extract(v, offset, size, sign_extend) ==
    IF size = Slot THEN v
    ELSE CScalar(Extend((bits(v) \div Base^InSlot(offset)) % Base^size, size, sign_extend))

concrete_map_access(c, off) ==
    /\ c.k = "map" /\ c.off + off >= 0 /\ c.off + off + Slot <= ValueSize
    /\ (c.off + off) % Slot = 0

-----------------------------------------------------------------------------
(* The coverage check.                                                      *)

PtrCovers(a, off) ==
    /\ a.min <= off /\ off <= a.max
    /\ a.align = ALIGN_UNKNOWN \/ off % Slot = a.align

abstract_covers(a, c) ==
    CASE a.k = "scalar" -> c.k = "scalar" /\ c.v \in a.set
      [] a.k = "stack"  -> c.k = "stack" /\ PtrCovers(a, c.off)
      [] a.k = "map"    -> c.k = "map" /\ PtrCovers(a, c.off)
      [] OTHER          -> FALSE

\* Registers that the verifier dropped are dead: both sides are cleaned of
\* them before they are compared.
RegsCovered(f, g) ==
    \A r \in Regs : f.regs[r] # Uninit => g.regs[r] # None /\ abstract_covers(f.regs[r], g.regs[r])

ByteCovered(f, o, v) ==
    LET a == f.spilled[CellOf(o)]
        b == Byte(bits(v), InSlot(o))
    IN  CASE f.bytes[o] = "misc" -> TRUE
          [] f.bytes[o] \in {"zero", "invalid"} -> b = 0
          [] f.bytes[o] = "spill" ->
               IF IsScalar(a) /\ Cardinality(a.set) = 1
               THEN \E w \in a.set : b = Byte(w, InSlot(o))
               ELSE a # Uninit /\ abstract_covers(a, v)

state_covers(f, g) ==
    /\ RegsCovered(f, g)
    /\ \A o \in Offsets :
          IF g.slots[CellOf(o)] = None THEN f.bytes[o] \in {"invalid", "misc"}
          ELSE ByteCovered(f, o, g.slots[CellOf(o)])

-----------------------------------------------------------------------------
(* Instructions.                                                            *)

NewFrame(n, arg) ==
    [regs    |-> [r \in Regs |-> CASE r = 10 -> StackPtr(0, 0, 0, n)
                                   [] r = 1 -> arg
                                   [] OTHER -> Uninit],
     bytes   |-> [o \in Offsets |-> "invalid"],
     spilled |-> [c \in Cells |-> Uninit]]
NewConcreteFrame(n, arg) ==
    [regs  |-> [r \in Regs |-> CASE r = 10 -> CStack(0, n)
                                 [] r = 1 -> arg
                                 [] OTHER -> None],
     slots |-> [c \in Cells |-> None]]

\* The program has copied r10 to r1 and called a helper for r0, whose result
\* it has masked, or it has set r0.
Init ==
    \E set \in {{0}, {0, 1}, {0, Slot}, Words} : \E w \in set \cap (Seeds \cup {Slot}) :
       /\ abs = <<[NewFrame(1, StackPtr(0, 0, 0, 1)) EXCEPT !.regs[0] = Scalar(set)]>>
       /\ con = <<[NewConcreteFrame(1, CStack(0, 1)) EXCEPT !.regs[0] = CScalar(w)]>>
       /\ failed = FALSE /\ steps = 0

\* One instruction that the verifier accepts: its next state, whether the
\* interpreter executes it, and the interpreter's next state.
Take(a, ok, c) ==
    /\ steps < MaxSteps /\ ~failed
    /\ steps' = steps + 1
    /\ abs' = a /\ failed' = ~ok
    /\ con' = IF ok THEN c ELSE con

MovImm(r, w) == Take(SetA(r, Const(w)), TRUE, SetC(r, CScalar(w)))

MovReg(d, s) ==
    /\ A(s) # Uninit
    /\ Take(SetA(d, A(s)), C(s) # None, SetC(d, C(s)))

\* A helper without arguments: the argument registers are gone after it.
Helper(w) ==
    Take([abs EXCEPT ![cur].regs[0] = Unknown, ![cur].regs[1] = Uninit], TRUE,
         [con EXCEPT ![cur].regs[0] = CScalar(w), ![cur].regs[1] = None])

\* LdMapValue
LdMapValue(r) == Take(SetA(r, MapPtr(0, 0, 0)), TRUE, SetC(r, CMap(0)))

Moved(c, by) == [c EXCEPT !.off = @ + by]
IsPtr(a) == a.k \in {"stack", "map"}

\* Mutant of alu_imm: the alignment stays.
alu_imm_keeps_align(p, imm) == [p EXCEPT !.min = @ + imm, !.max = @ + imm]
alu_imm(p, imm) == [p EXCEPT !.min = @ + imm, !.max = @ + imm, !.align = (@ + imm) % Slot]
AddImm(r, imm) ==
    /\ IsPtr(A(r)) /\ (A(r).align = ALIGN_UNKNOWN => Feature("align"))
    /\ Take(SetA(r, alu_imm(A(r), imm)), IsPtr(C(r)), SetC(r, Moved(C(r), imm)))

\* add_scalar_to_stack_ptr, add_scalar_to_map_value_ptr
add_scalar(p, s) ==
    [p EXCEPT !.min = @ + smin(s), !.max = @ + smax(s),
              !.align = IF \E b \in 0..(Slot - 1) : \A w \in s.set : w % Slot = b
                        THEN (@ + smin(s)) % Slot ELSE ALIGN_UNKNOWN]
\* Either operand may be the pointer; the destination inherits it.
AddReg(d, s) ==
    LET p   == IF IsPtr(A(d)) THEN d ELSE s
        add == IF p = d THEN s ELSE d
    IN  /\ IsPtr(A(p)) /\ IsScalar(A(add)) /\ smin(A(add)) # MIN
        /\ A(p).align = ALIGN_UNKNOWN => Feature("align")
        /\ Take(SetA(d, add_scalar(A(p), A(add))),
                IsPtr(C(p)) /\ C(add).k = "scalar",
                SetC(d, Moved(C(p), Signed(C(add).v))))

\* The stores that the verifier takes through a stack pointer, but for those
\* that the run leaves out.
Covers(p, off, size, a) ==
    LET bytes == CoveredBytes(p, off, size) IN
    /\ MayWrite(p, off, size, a)
    /\ ~Fixed(p) => /\ (\E o \in bytes : abs[p.frame].bytes[o] = "invalid") => Feature("var_fresh")
                    /\ Is(a, 0) => Feature("var_zero")
                    /\ ~IsScalar(a) => Feature("var_pointer")
    /\ (size # Slot /\ IsScalar(a)) => (Cardinality(a.set) = 1 \/ Feature("narrow_range"))

ConcreteStore(c, off, size, v) ==
    Take(stack_write(A(c), off, size, v[1]),
         /\ C(c).k = "stack" /\ v[2] # None
         /\ concrete_stack_range(C(c).off + off, size),
         [con EXCEPT ![C(c).frame].slots = concrete_merge(@, C(c).off + off, size, v[2])])

Store(base, off, size, src) ==
    /\ A(base).k = "stack" /\ Covers(A(base), off, size, A(src))
    /\ ConcreteStore(base, off, size, <<A(src), C(src)>>)

StoreImm(base, off, size, w) ==
    /\ A(base).k = "stack" /\ Covers(A(base), off, size, Const(w))
    /\ ConcreteStore(base, off, size, <<Const(w), CScalar(w)>>)

Load(dst, base, off, size, sign_extend) ==
    LET a == stack_read(A(base), off, size, sign_extend)
        o == C(base).off + off
        v == con[C(base).frame].slots[CellOf(o)]
    IN  /\ A(base).k = "stack" /\ a # Reject
        /\ Take(SetA(dst, a),
                C(base).k = "stack" /\ concrete_stack_range(o, size) /\ v # None,
                SetC(dst, concrete_extract(v, o, size, sign_extend)))

\* Through a map value pointer nothing is tracked; the bytes of the value are
\* whatever the run has put there.  The interpreter takes the register form
\* only: with an immediate it asks for a stack pointer.
MapStore(base, off, src, imm) ==
    /\ A(base).k = "map" /\ map_value_access_check(A(base), off)
    /\ IF imm THEN Feature("map_imm") ELSE A(src) # Uninit
    /\ Take(abs, IF imm THEN C(base).k = "stack"
                 ELSE concrete_map_access(C(base), off) /\ C(src) # None, con)
MapLoad(dst, base, off, w) ==
    /\ A(base).k = "map" /\ map_value_access_check(A(base), off)
    /\ Take(SetA(dst, Unknown), concrete_map_access(C(base), off), SetC(dst, CScalar(w)))

\* The old value goes to the source register, or to r0 for a cmpxchg.
Result(op, src) == IF op = "cmpxchg" THEN 0 ELSE src
NewBits(op, old, operand, r0) ==
    CASE op = "add" -> (old + operand) % Base^Slot
      [] op = "xchg" -> operand
      [] op = "cmpxchg" -> IF old = r0 THEN operand ELSE old

\* The covered bytes become unknown; the interpreter updates whole slots that
\* hold a scalar.
Atomic(base, off, size, src, op) ==
    LET p     == A(base)
        bytes == CoveredBytes(p, off, size)
        old   == stack_read(p, off, size, FALSE)
        seen  == IF size = Slot THEN old ELSE scalar_for_width(size, FALSE)
        o     == C(base).off + off
        v     == con[cur].slots[CellOf(o)]
        was   == IF size = Slot THEN v ELSE CScalar(0)
        f     == [abs[cur] EXCEPT
                    !.bytes = [x \in Offsets |-> IF x \in bytes THEN "misc" ELSE @[x]],
                    !.spilled = [c \in Cells |-> IF c \in CellsOf(bytes) THEN Uninit ELSE @[c]],
                    !.regs[Result(op, src)] = seen]
        g     == [con[cur] EXCEPT
                    !.slots[CellOf(o)] =
                       IF size = Slot /\ v.k = "scalar"
                       THEN CScalar(NewBits(op, v.v, C(src).v, bits(C(0)))) ELSE @,
                    !.regs[Result(op, src)] = was]
    IN  /\ p.k = "stack" /\ IsScalar(A(src)) /\ (op = "cmpxchg" => IsScalar(A(0)))
        /\ off % size = 0 /\ old # Reject /\ p.frame = cur
        /\ ~IsScalar(old) => Feature("atomic_spill")
        /\ (size # Slot /\ \E x \in Offsets :
                CellOf(x) \in CellsOf(bytes) /\ abs[cur].bytes[x] = "spill")
              => Feature("atomic_half")
        /\ Take([abs EXCEPT ![cur] = f],
                C(base).k = "stack" /\ concrete_stack_range(o, size) /\ v # None,
                [con EXCEPT ![cur] = g])

\* check_map_buffer: r1 holds the key of a map helper, on the stack.  The
\* verifier looks into the running frame.
MapHelper ==
    LET p     == A(1)
        bytes == CoveredBytes(p, 0, KeySize)
        f     == abs[cur]
        v     == con[C(1).frame].slots[CellOf(C(1).off)]
    IN  /\ p.k = "stack" /\ Fixed(p) /\ p.align # ALIGN_UNKNOWN
        /\ p.min >= -Size /\ p.min + KeySize <= 0
        /\ \A o \in bytes : \/ f.bytes[o] \in {"misc", "zero"}
                            \/ f.bytes[o] = "spill" /\ IsScalar(f.spilled[CellOf(o)])
        /\ p.frame # cur => Feature("foreign_key")
        /\ Take([abs EXCEPT ![cur].regs[0] = Const(0), ![cur].regs[1] = Uninit],
                concrete_stack_range(C(1).off, KeySize) /\ v # None,
                [con EXCEPT ![cur].regs[0] = CScalar(0), ![cur].regs[1] = None])

\* Mutant of call_subprog: the limit is off by one.
call_too_deep ==
    /\ cur <= MaxFrames
    /\ Take(Append(abs, NewFrame(cur + 1, A(1))), TRUE,
            Append(con, NewConcreteFrame(cur + 1, C(1))))
call_subprog ==
    /\ cur < MaxFrames
    /\ Take(Append(abs, NewFrame(cur + 1, A(1))), TRUE,
            Append(con, NewConcreteFrame(cur + 1, C(1))))

\* Returning a stack pointer is refused.
MayReturn(a) == a.k # "stack"
Returned(frames, none) ==
    [SubSeq(frames, 1, Len(frames) - 1) EXCEPT ![Len(frames) - 1].regs =
       [r \in Regs |-> CASE r = 0 -> frames[Len(frames)].regs[0]
                         [] r = 1 -> none
                         [] OTHER -> @[r]]]
return_from_subprog ==
    /\ cur > 1 /\ MayReturn(A(0))
    /\ Take(Returned(abs, Uninit), C(0).k # "stack", Returned(con, None))

Next ==
    \/ MovImm(0, Slot)
    \/ \E d \in {1, 6}, s \in Regs : d # s /\ MovReg(d, s)
    \/ MovReg(0, 6)
    \/ \E w \in Seeds : Helper(w)
    \/ LdMapValue(1)
    \/ \E imm \in {-1, -2 * Slot} : AddImm(1, imm)
    \/ AddReg(1, 0) \/ AddReg(0, 1)
    \/ \E off \in Offsets, size \in Sizes, src \in {0, 1} : Store(10, off, size, src)
    \/ \E off \in {-Slot, 0}, size \in Sizes, src \in {0, 10} : Store(1, off, size, src)
    \/ \E off \in Offsets, size \in Sizes : StoreImm(10, off, size, 0)
    \/ \E size \in Sizes, w \in {0, 1} : StoreImm(1, 0, size, w)
    \/ \E off \in Offsets, size \in Sizes, sign \in BOOLEAN : Load(6, 10, off, size, sign)
    \/ \E off \in {-Slot, 0}, size \in Sizes : Load(0, 1, off, size, FALSE)
    \/ \E off \in {0, Slot} : \/ \E imm \in BOOLEAN : MapStore(1, off, 0, imm)
                              \/ \E w \in Seeds : MapLoad(0, 1, off, w)
    \/ \E off \in {-Slot, 0}, size \in Sizes, op \in {"add", "xchg", "cmpxchg"}, base \in {1, 10} :
          Atomic(base, off, size, 0, op)
    \/ MapHelper
    \/ call_subprog \/ return_from_subprog

Spec == Init /\ [][Next]_vars

-----------------------------------------------------------------------------
TypeOK ==
    /\ Len(abs) \in 1..MaxFrames /\ (failed \/ Len(con) = Len(abs)) /\ steps \in 0..MaxSteps
    /\ failed \in BOOLEAN
    /\ \A i \in 1..Len(abs) : /\ abs[i].bytes \in [Offsets -> {"invalid", "misc", "zero", "spill"}]
                              /\ abs[i].regs[10] = StackPtr(0, 0, 0, i)

\* In every frame the verifier's registers and bytes stand for what the run
\* holds there (concrete.rs state_covers).
Covered == ~failed => \A i \in 1..Len(abs) : state_covers(abs[i], con[i])

\* The interpreter executes what the verifier accepts: no access outside the
\* frame or the map value, misaligned, or of a slot that was never written.
NoFailure == ~failed

\* A stack pointer, also a spilled one, points into a frame that is still
\* active (the expect of exec.rs frame_stack).
FramesActive ==
    \A i \in 1..Len(abs) :
       LET held == {abs[i].regs[r] : r \in Regs} \cup {abs[i].spilled[c] : c \in Cells}
       IN  \A a \in held : a.k = "stack" => a.frame <= i
=============================================================================
