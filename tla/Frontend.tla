------------------------------ MODULE Frontend -------------------------------
(***************************************************************************)
(* The way of a program to the verifier: it is generated, mutated or read   *)
(* from a file (fuzz/generator.rs, fuzz/idiom.rs, fuzz/mutator.rs), encoded *)
(* to eight-byte slots (fuzz/insn_lib.rs), decoded again (insn.rs), its map  *)
(* descriptors resolved (env.rs) and its structure checked: subprograms,     *)
(* call chains and the depth-first search that finds the loop heads the      *)
(* path exploration must bound (cfg.rs).                                     *)
(*                                                                          *)
(* A slot is the record of its opcode class and its four fields; one class  *)
(* stands for the opcodes the code treats alike (the twenty compares are    *)
(* "jx" and "jk").  Program counters count from 0 as in the code.           *)
(***************************************************************************)
EXTENDS Integers, FiniteSets, SequencesExt

CONSTANTS
    Alphabet,        \* the slots files are made of
    MaxFile,         \* longest file, in slots
    Singles,         \* one-slot files: every field combination of these
    Seeds,           \* the programs the mutator starts from
    Maps,            \* the map descriptors the loader knows
    MaxBody,         \* longest generated body
    Offsets, Imms,   \* the value pools of the mutator
    MaxMutations,    \* mutations of one program in a behaviour
    MaxCallFrames,   \* MAX_CALL_FRAMES
    StackSize        \* STACK_SIZE, in bytes

VARIABLES
    origin,      \* "file", "gen", "mutant" or "wide_mutant" (of a seed with an ldimm64)
    slots,       \* the encoded program
    insns,       \* the decoded prefix
    mode,        \* "env": BpfVerifierEnv::verify; "nano": the mutator's own check
    phase,       \* what runs next
    subprogs,    \* the entry points
    color,       \* VisitState of every instruction
    stack,       \* the (instruction, next child) pairs of the search
    heads,       \* loop_heads
    mutations    \* how often the program was mutated

vars == <<origin, slots, insns, mode, phase, subprogs, color, stack, heads, mutations>>

Final == {"accept", "reject_decode", "reject_subprog", "reject_stack", "reject_cfg", "dropped"}

At(p, pc) == p[pc + 1]
Pcs(p) == 0 .. Len(p) - 1

-----------------------------------------------------------------------------
(* Decoding and encoding.                                                   *)

\* The opcode classes: what parse_insn and the structural checks tell apart.
AluOps  == {"alux", "aluk", "neg", "divk", "mulx", "mulk"}
Conditional == {"jx", "jk", "jsetx", "jsetk", "j32x", "j32k"}
MemOps  == {"ldabs", "ldind", "ldx", "stx", "st", "atomic"}
FlowOps == {"ja", "call", "exit"}
Wide    == {"ldimm64", "ldmapfd", "ldmapvalue"}

\* A slot of a file, and an instruction as it is decoded.
Ops == AluOps \cup Conditional \cup MemOps \cup FlowOps \cup Wide
        \cup {"callsub", "kfunc", "ld64", "pad", "second", "other"}
Insns == [op : Ops, dst : 0 .. 15, src : 0 .. 15, off : Int, imm : Int]
Insn(op, dst, src, off, imm) == [op |-> op, dst |-> dst, src |-> src, off |-> off, imm |-> imm]

ASSUME BoundsAssumption ==
    /\ MaxFile \in Nat /\ MaxBody \in Nat /\ MaxMutations \in Nat
    /\ MaxCallFrames \in Nat \ {0} /\ StackSize \in Nat
    /\ Offsets \subseteq Int /\ Imms \subseteq Int
ASSUME FilesAssumption == Alphabet \subseteq Insns /\ Singles \subseteq Insns

\* The reserved fields of each class.
AluFieldsOk(s) ==
    /\ s.op \in AluOps
    /\ s.op \in {"mulx", "mulk"} => s.off \in 0 .. 2   \* MulHigh
    /\ s.op \notin {"mulx", "mulk"} => s.off = 0
    /\ s.op \in {"alux", "mulx"} => s.imm = 0
    /\ s.op \notin {"alux", "mulx"} => s.src = 0
    /\ s.op = "divk" => s.imm # 0
CompareFieldsOk(s) ==
    /\ s.op \in Conditional
    /\ s.op \in {"jx", "jsetx", "j32x"} => s.imm = 0
    /\ s.op \in {"jk", "jsetk", "j32k"} => s.src = 0
MemFieldsOk(s) ==
    /\ s.op \in MemOps
    /\ s.op \in {"ldabs", "ldind"} => s.dst = 0
    /\ s.op = "ldabs" => s.src = 0
    /\ s.op \in {"ldx", "stx"} => s.imm = 0
    /\ s.op = "atomic" => s.imm \in 0 .. 1             \* add, add | BPF_FETCH
FlowFieldsOk(s) ==
    /\ s.op \in FlowOps
    /\ s.dst = 0
    /\ s.op \in {"ja", "exit"} => s.src = 0 /\ s.imm = 0
    /\ s.op = "call" => s.off = 0 /\ s.src \in 0 .. 2

\* The checks of parse_insn: anything else is unknown, unsupported or half of
\* an ldimm64.
FieldsOk(s) ==
    /\ s.dst <= 10 /\ s.src <= 10
    /\ AluFieldsOk(s) \/ CompareFieldsOk(s) \/ MemFieldsOk(s) \/ FlowFieldsOk(s)

\* (bug) the call target is read from the offset field.
parse_insn_call_off(s) ==
    IF s.op = "call" /\ s.src = 1 THEN Insn("callsub", s.dst, 0, s.off, 0) ELSE s
\* What parse_insn keeps of a slot: the fields its BpfInsn variant has.
parse_insn(s) ==
    CASE s.op = "call" /\ s.src = 1 -> Insn("callsub", s.dst, 0, s.imm, 0)
      [] s.op = "call" /\ s.src = 2 -> Insn("kfunc", s.dst, 0, s.off, s.imm)
      [] s.op = "neg"               -> [s EXCEPT !.imm = 0]
      [] s.op \in {"exit", "ldabs", "ldind"} -> [s EXCEPT !.off = 0]
      [] s.op = "st"                -> [s EXCEPT !.src = 0]
      [] OTHER                      -> s

\* The two slots of an ldimm64; the pseudo class is in src_reg.
WideOk(first, second) ==
    /\ first.dst <= 10 /\ first.off = 0
    /\ second.op = "pad" /\ second.dst = 0 /\ second.src = 0 /\ second.off = 0
    /\ first.src \in 0 .. 2
    /\ first.src = 1 => second.imm = 0

parse_ldimm64(first) ==
    Insn(<<"ldimm64", "ldmapfd", "ldmapvalue">>[first.src + 1], first.dst, 0, first.off, first.imm)

HasWide(p) == \E n \in DOMAIN p : p[n].op = "ld64"
\* The seeds are programs that decode_program takes.
ASSUME SeedsAssumption ==
    \A q \in Seeds : q \in Seq(Insns) /\ \A n \in DOMAIN q :
        \/ FieldsOk(q[n])
        \/ q[n].op = "ld64" /\ n < Len(q) /\ WideOk(q[n], q[n + 1])
        \/ q[n].op = "pad" /\ n > 1 /\ q[n - 1].op = "ld64"

\* insn_lib::encode, one slot per instruction.
encode(i) ==
    CASE i.op = "callsub"    -> Insn("call", i.dst, 1, 0, i.off)
      [] i.op = "kfunc"      -> Insn("call", i.dst, 2, i.off, i.imm)
      [] i.op = "ldimm64"    -> [i EXCEPT !.op = "ld64"]
      [] i.op = "ldmapfd"    -> Insn("ld64", i.dst, 1, i.off, i.imm)
      [] i.op = "ldmapvalue" -> Insn("ld64", i.dst, 2, i.off, i.imm)
      [] i.op = "second"     -> [i EXCEPT !.op = "pad"]
      [] OTHER               -> i

EncodeAll(p) == [n \in DOMAIN p |-> encode(p[n])]

-----------------------------------------------------------------------------
(* Subprograms and call chains.                                             *)

Target(p, pc) == pc + 1 + At(p, pc).off

CallSites(p) == {pc \in Pcs(p) : At(p, pc).op = "callsub"}

\* add_subprog: entry 0 and every call target, in order.
Entries(p) == {0} \cup {Target(p, pc) : pc \in CallSites(p)}
\* (bug) the bound is off by one.
add_subprog_one_past(p) == Entries(p) \subseteq 0 .. Len(p)
add_subprog_ok(p) == Entries(p) \subseteq Pcs(p)

SubStart(e, pc) == CHOOSE s \in e : s <= pc /\ \A t \in e : t <= pc => t <= s
SubEnd(p, e, pc) ==
    IF \E s \in e : s > pc THEN CHOOSE s \in e : s > pc /\ \A t \in e : t > pc => s <= t
    ELSE Len(p)

RoundUp8(n) == ((n + 7) \div 8) * 8
Access8 == 8   \* the accesses of the model are eight bytes wide

\* direct_stack_depths: the bytes an entry's own r10 accesses are charged.
direct_stack_depth(p, e, s) ==
    LET uses == {RoundUp8(IF At(p, pc).off > Access8 THEN 0 ELSE Access8 - At(p, pc).off) :
                    pc \in {q \in s .. SubEnd(p, e, s) - 1 :
                              \/ At(p, q).op \in {"st", "stx"} /\ At(p, q).dst = 10
                              \/ At(p, q).op = "ldx" /\ At(p, q).src = 10}}
    IN  IF uses = {} THEN 0 ELSE CHOOSE m \in uses : \A u \in uses : u <= m

Callees(p, e, s) == {Target(p, pc) : pc \in CallSites(p) \cap (s .. SubEnd(p, e, s) - 1)}

\* The call chains visit walks: from the main program, one call further each.
Chains(p, e) ==
    LET longer[n \in 1 .. MaxCallFrames + 1] ==
            IF n = 1 THEN {<<0>>}
            ELSE UNION {{Append(c, t) : t \in Callees(p, e, Last(c))} :
                            c \in {d \in longer[n - 1] : IsInjective(d)}}
    IN  UNION {longer[n] : n \in 1 .. MaxCallFrames + 1}

ChainStack(p, e, c) ==
    LET total[n \in 0 .. Len(c)] ==
            IF n = 0 THEN 0 ELSE total[n - 1] + direct_stack_depth(p, e, c[n])
    IN  total[Len(c)]

\* check_stack_call_chains: no recursion, no chain too long or too deep.
check_stack_call_chains(p, e) ==
    \A c \in Chains(p, e) : Len(c) > 1 =>
        /\ IsInjective(c)
        /\ Len(c) <= MaxCallFrames
        /\ ChainStack(p, e, c) <= StackSize

-----------------------------------------------------------------------------
(* The control-flow graph.                                                  *)

\* The return sites of the subprogram whose entry is s, in order.
Returns(p, s) ==
    LET sites == {pc + 1 : pc \in {q \in CallSites(p) : Target(p, q) = s}}
    IN  [n \in 1 .. Cardinality(sites) |->
            CHOOSE r \in sites : Cardinality({q \in sites : q <= r}) = n]

\* (bug) a jump falls through as well.
NextsJumpFalls(p, e, pc) ==
    CASE At(p, pc).op = "exit" -> IF SubStart(e, pc) = 0 THEN <<>> ELSE Returns(p, SubStart(e, pc))
      [] At(p, pc).op \in Conditional \cup {"ja"} -> <<Target(p, pc), pc + 1>>
      [] At(p, pc).op = "callsub" -> <<Target(p, pc)>>
      [] OTHER -> <<pc + 1>>
\* The successors visit_insn lists, in its order.
Nexts(p, e, pc) ==
    LET i == At(p, pc) IN
    CASE i.op = "exit"         -> IF SubStart(e, pc) = 0 THEN <<>> ELSE Returns(p, SubStart(e, pc))
      [] i.op = "ja"           -> <<Target(p, pc)>>
      [] i.op \in Conditional  -> <<Target(p, pc), pc + 1>>
      [] i.op = "callsub"      -> <<Target(p, pc)>>
      [] OTHER                 -> <<pc + 1>>

\* (bug) without check_ldimm64_target.
visit_insn_any_target(p, e, pc) ==
    /\ At(p, pc).op \in Conditional \cup {"ja"} => Target(p, pc) \in SubStart(e, pc) .. SubEnd(p, e, pc) - 1
    /\ (pc + 1) \in Range(Nexts(p, e, pc)) => pc + 1 < SubEnd(p, e, pc)
\* The conditions under which visit_insn returns them.
visit_insn_ok(p, e, pc) ==
    /\ At(p, pc).op \in Conditional \cup {"ja"} =>
          /\ Target(p, pc) \in SubStart(e, pc) .. SubEnd(p, e, pc) - 1
          /\ At(p, Target(p, pc)).op # "second"
    /\ At(p, pc).op = "callsub" => Target(p, pc) \in e
    /\ (pc + 1) \in Range(Nexts(p, e, pc)) => pc + 1 < SubEnd(p, e, pc)

\* Every subprogram ends with exit or a jump.
EndsOk(p, e) == \A s \in e : At(p, SubEnd(p, e, s) - 1).op \in {"exit", "ja"}

-----------------------------------------------------------------------------
(* Where programs come from.                                                *)

MovImm(r)  == Insn("aluk", r, 0, 0, 0)
ExitInsn   == Insn("exit", 0, 0, 0, 0)
CallInsn   == Insn("call", 0, 0, 0, 1)
Compare(off) == Insn("jk", 1, 0, off, 0)

\* (bug) the forward targets reach one past the exit.
BranchOffsetsPastExit(pc, len) == {t - pc - 1 : t \in pc + 1 .. len + 2}
\* gen_branch_offset: a target in [0, len], backwards only into the body.
BranchOffsets(pc, len) == {t - pc - 1 : t \in (0 .. pc - 1) \cup (pc + 1 .. len)}

\* gen_body_insn: an ALU operation, a compare, a stack access or a helper call.
BodyInsns(pc, len) ==
    {MovImm(1), Insn("alux", 1, 1, 0, 0), Insn("stx", 10, 1, -StackSize, 0), CallInsn}
        \cup {Compare(off) : off \in BranchOffsets(pc, len)}

\* The choices for the last body instruction, and what follows the body.
Plain == [last |-> "body", tail |-> <<ExitInsn>>]
Tails(len) ==
    {Plain, [last |-> "jump", tail |-> <<ExitInsn>>]}
        \cup (IF len >= 3 THEN {[last |-> "call", tail |-> <<ExitInsn, MovImm(0), ExitInsn>>]} ELSE {})

\* gen_program: [r0 = 0, body, exit], with a subprogram behind it or without.
BodyAt(n, len, t) ==
    IF n < len \/ t.last = "body" THEN BodyInsns(n - 1, len)
    ELSE IF t.last = "jump" THEN {Insn("ja", 0, 0, 0, 0)}
    ELSE {Insn("callsub", 0, 0, 1, 0)}
GenPrograms ==
    UNION {UNION {
        {<<MovImm(0)>> \o body \o t.tail :
            body \in {b \in [1 .. len -> UNION {BodyAt(n, len, t) : n \in 1 .. len}] :
                        \A n \in 1 .. len : b[n] \in BodyAt(n, len, t)}} :
        t \in Tails(len)} : len \in 1 .. MaxBody}

\* The idiom templates: their control structure, chains at the shortest length.
overflow_chain  == <<CallInsn, MovImm(0), MovImm(0), ExitInsn>>
alu32_roundtrip == <<MovImm(1), MovImm(1), MovImm(1), Insn("alux", 0, 1, 0, 0), ExitInsn>>
dual_refine     == <<CallInsn, MovImm(1), Compare(2), Compare(1), MovImm(0), ExitInsn>>
narrowing_chain == <<CallInsn, MovImm(1), Compare(2), Compare(1), MovImm(0), ExitInsn>>
spill_fill ==
    <<MovImm(1), Insn("stx", 10, 1, -8, 0), MovImm(1), Insn("ldx", 1, 10, -8, 0),
      Insn("alux", 0, 1, 0, 0), ExitInsn>>
null_check      == <<CallInsn, MovImm(1), Compare(1), ExitInsn, MovImm(0), ExitInsn>>
bounded_loop ==
    <<MovImm(1), MovImm(2), MovImm(2), Compare(-2), Insn("alux", 0, 2, 0, 0), ExitInsn>>

\* gen_idiom_program puts r0 = 0 in front of one.
IdiomPrograms ==
    {<<MovImm(0)>> \o body : body \in {overflow_chain, alu32_roundtrip, dual_refine, narrowing_chain,
                                        spill_fill, null_check, bounded_loop}}

\* (bug) a divisor is replaced like any other immediate.
replace_imm_divisor(i, v) == IF i.op \in {"aluk", "divk", "jk", "call"} THEN [i EXCEPT !.imm = v] ELSE i
\* The fields the mutator's replace_imm, replace_off and replace_reg know.
replace_imm(i, v) == IF i.op \in {"aluk", "jk", "call"} THEN [i EXCEPT !.imm = v] ELSE i
replace_off(i, v) ==
    CASE i.op = "ldx" -> Insn("ldx", i.dst, 10, v, i.imm)
      [] i.op = "stx" -> Insn("stx", 10, i.src, v, i.imm)
      [] i.op \in {"jx", "jk", "ja"} -> [i EXCEPT !.off = v]
      [] OTHER -> i
replace_reg(i, r) ==
    CASE i.op \in {"aluk", "alux", "jx", "jk"} -> [i EXCEPT !.dst = r]
      [] i.op = "ldx" -> Insn("ldx", r, 10, i.off, i.imm)
      [] i.op = "stx" -> Insn("stx", 10, r, i.off, i.imm)
      [] OTHER -> i

\* field_replace, insert, delete and splice: every mutant of seed p (and the
\* second seed q).
field_replace(p) ==
    UNION {{ReplaceAt(p, pc + 1, i) : i \in {replace_imm(At(p, pc), v) : v \in Imms}
                                            \cup {replace_off(At(p, pc), v) : v \in Offsets}
                                            \cup {replace_reg(At(p, pc), 1)}} : pc \in 1 .. Len(p) - 2}
insert(p) ==
    UNION {{InsertAt(p, pc + 1, i) : i \in BodyInsns(pc, Len(p))} : pc \in 1 .. Len(p) - 1}
delete(p) == IF Len(p) > 3 THEN {RemoveAt(p, pc + 1) : pc \in 1 .. Len(p) - 2} ELSE {p}
splice(p, q) ==
    UNION {{SubSeq(p, 1, a) \o SubSeq(q, b + 1, Len(q)) : b \in 1 .. Len(q) - 1} : a \in 1 .. Len(p) - 1}
Mutants(p, q) ==
    field_replace(p) \cup insert(p) \cup delete(p) \cup (IF Len(q) >= 2 THEN splice(p, q) ELSE {})

-----------------------------------------------------------------------------
Files == (UNION {[1 .. n -> Alphabet] : n \in 1 .. MaxFile}) \cup {<<s>> : s \in Singles} \cup Seeds

Start(o, s) ==
    /\ origin = o /\ slots = s /\ insns = <<>>
    /\ mode = "env" /\ phase = "decode"
    /\ subprogs = {} /\ color = <<>> /\ stack = <<>> /\ heads = {} /\ mutations = 0

Init == \/ \E s \in Files : Start("file", s)
        \/ \E p \in GenPrograms \cup IdiomPrograms : Start("gen", EncodeAll(p))

Goto(ph) == phase' = ph
Kept == UNCHANGED <<origin, slots, mode, mutations>>
Nano == UNCHANGED <<subprogs, color, stack, heads>>

\* decode_program takes one slot.
DecodeSlot ==
    /\ phase = "decode" /\ Len(insns) < Len(slots)
    /\ LET s == slots[Len(insns) + 1] IN
        /\ s.op # "ld64"
        /\ IF FieldsOk(s)
           THEN insns' = Append(insns, parse_insn(s)) /\ UNCHANGED phase
           ELSE insns' = <<>> /\ Goto("reject_decode")
    /\ Kept /\ Nano

\* decode_program takes the two slots of an ldimm64.
DecodeWide ==
    /\ phase = "decode" /\ Len(insns) < Len(slots)
    /\ LET n == Len(insns) + 1 IN
        /\ slots[n].op = "ld64"
        /\ IF n < Len(slots) /\ WideOk(slots[n], slots[n + 1])
           THEN /\ insns' = insns \o <<parse_ldimm64(slots[n]), [slots[n + 1] EXCEPT !.op = "second"]>>
                /\ UNCHANGED phase
           ELSE insns' = <<>> /\ Goto("reject_decode")
    /\ Kept /\ Nano

\* load_raw resolves the map descriptors.
ResolveMaps ==
    /\ phase = "decode" /\ Len(insns) = Len(slots)
    /\ IF \A n \in DOMAIN insns : insns[n].op \in {"ldmapfd", "ldmapvalue"} => insns[n].imm \in Maps
       THEN Goto("subprog") /\ UNCHANGED insns
       ELSE Goto("reject_decode") /\ insns' = <<>>
    /\ Kept /\ Nano

AddSubprog ==
    /\ phase = "subprog"
    /\ subprogs' = IF add_subprog_ok(insns) THEN Entries(insns) ELSE {}
    /\ Goto(IF ~add_subprog_ok(insns) THEN "reject_subprog"
            ELSE IF mode = "env" THEN "stack" ELSE "ends")
    /\ Kept /\ UNCHANGED <<insns, color, stack, heads>>

\* check_combined_stack_depth: verify runs it, the mutator does not.
CheckStack ==
    /\ phase = "stack"
    /\ Goto(IF check_stack_call_chains(insns, subprogs) THEN "ends" ELSE "reject_stack")
    /\ Kept /\ Nano /\ UNCHANGED insns

\* check_cfg: the last instruction of every subprogram, then the search from 0.
CheckEnds ==
    /\ phase = "ends"
    /\ IF EndsOk(insns, subprogs)
       THEN /\ Goto("search")
            /\ color' = [pc \in Pcs(insns) |-> IF pc = 0 THEN "discovering" ELSE "not_visited"]
            /\ stack' = <<<<0, 0>>>>
       ELSE Goto("reject_cfg") /\ UNCHANGED <<color, stack>>
    /\ Kept /\ UNCHANGED <<insns, subprogs, heads>>

\* The entry that goes back on the stack before the child.
\* (bug) the child index is not advanced.
StuckEntry(pc, child) == <<pc, child>>
NextEntry(pc, child) == <<pc, child + 1>>

\* One turn of the search loop on the top of the stack.
SearchFails ==
    /\ phase = "search" /\ stack # <<>>
    /\ ~visit_insn_ok(insns, subprogs, Last(stack)[1])
    /\ Goto("reject_cfg")
    /\ Kept /\ Nano /\ UNCHANGED insns

SearchChild ==
    /\ phase = "search" /\ stack # <<>>
    /\ LET pc == Last(stack)[1]
           child == Last(stack)[2]
           nexts == Nexts(insns, subprogs, pc)
       IN  /\ visit_insn_ok(insns, subprogs, pc)
           /\ child < Len(nexts)
           /\ LET nxt == nexts[child + 1]
                  parent == Append(Front(stack), NextEntry(pc, child))
              IN  /\ stack' = IF color[nxt] = "not_visited" THEN Append(parent, <<nxt, 0>>) ELSE parent
                  /\ color' = IF color[nxt] = "not_visited"
                              THEN [color EXCEPT ![nxt] = "discovering"] ELSE color
                  /\ heads' = IF color[nxt] = "discovering" THEN heads \cup {nxt} ELSE heads
    /\ Kept /\ UNCHANGED <<phase, insns, subprogs>>

\* (bug) a finished node stays gray.
LeavesGray ==
    /\ phase = "search" /\ stack # <<>>
    /\ LET pc == Last(stack)[1] IN
        /\ visit_insn_ok(insns, subprogs, pc)
        /\ Last(stack)[2] = Len(Nexts(insns, subprogs, pc))
    /\ stack' = Front(stack)
    /\ Kept /\ UNCHANGED <<phase, insns, subprogs, color, heads>>

\* All children explored: the node is finished.
SearchLeaves ==
    /\ phase = "search" /\ stack # <<>>
    /\ LET pc == Last(stack)[1] IN
        /\ visit_insn_ok(insns, subprogs, pc)
        /\ Last(stack)[2] = Len(Nexts(insns, subprogs, pc))
        /\ color' = [color EXCEPT ![pc] = "explored"]
        /\ stack' = Front(stack)
    /\ Kept /\ UNCHANGED <<phase, insns, subprogs, heads>>

\* The search is over: dead code is rejected; an accepted mutant is encoded
\* and loaded like any other program.
SearchEnds ==
    /\ phase = "search" /\ stack = <<>>
    /\ IF \E pc \in Pcs(insns) : color[pc] = "not_visited"
       THEN Goto("reject_cfg") /\ UNCHANGED <<slots, insns, mode, subprogs, color, heads>>
       ELSE IF mode = "env"
       THEN Goto("accept") /\ UNCHANGED <<slots, insns, mode, subprogs, color, heads>>
       ELSE /\ slots' = EncodeAll(insns) /\ insns' = <<>> /\ mode' = "env" /\ Goto("decode")
            /\ subprogs' = {} /\ color' = <<>> /\ heads' = {}
    /\ UNCHANGED <<origin, stack, mutations>>

\* try_mutate returns None for a mutant its checks reject.
DropMutant ==
    /\ mode = "nano" /\ phase \in {"reject_subprog", "reject_cfg"}
    /\ Goto("dropped")
    /\ Kept /\ Nano /\ UNCHANGED insns

\* A seed as the campaign keeps it: decoded when it was read.
Decoded(p) ==
    [n \in DOMAIN p |->
        CASE p[n].op = "ld64" -> parse_ldimm64(p[n])
          [] p[n].op = "pad"  -> [p[n] EXCEPT !.op = "second"]
          [] OTHER            -> parse_insn(p[n])]

\* try_mutate on a seed that was loaded, with another seed to splice.
Mutate ==
    /\ mode = "env" /\ mutations < MaxMutations
    /\ phase \in Final \ {"reject_decode"}
    /\ slots \in Seeds /\ Len(insns) >= 3
    /\ \E q \in Seeds :
        /\ \E m \in Mutants(insns, Decoded(q)) : insns' = m
        /\ origin' = IF HasWide(slots) \/ HasWide(q) THEN "wide_mutant" ELSE "mutant"
    /\ mode' = "nano" /\ Goto("subprog") /\ mutations' = mutations + 1
    /\ subprogs' = {} /\ color' = <<>> /\ stack' = <<>> /\ heads' = {}
    /\ UNCHANGED slots

Next ==
    \/ DecodeSlot \/ DecodeWide \/ ResolveMaps \/ AddSubprog \/ CheckStack \/ CheckEnds
    \/ SearchFails \/ SearchChild \/ SearchLeaves \/ SearchEnds \/ DropMutant \/ Mutate

Spec == Init /\ [][Next]_vars /\ WF_vars(Next)

-----------------------------------------------------------------------------
(* Properties.                                                              *)

\* The pipeline's state keeps its types, and every pc the search touches is
\* an instruction of the program (state[nxt as usize] is in range).
TypeOK ==
    /\ origin \in {"file", "gen", "mutant", "wide_mutant"}
    /\ mode \in {"env", "nano"}
    /\ phase \in Final \cup {"decode", "subprog", "stack", "ends", "search"}
    /\ mutations \in 0 .. MaxMutations
    /\ \A n \in DOMAIN slots : slots[n] \in Insns
    /\ \A n \in DOMAIN insns : insns[n] \in Insns
    /\ subprogs \subseteq Pcs(insns)
    /\ color # <<>> => color \in [Pcs(insns) -> {"not_visited", "discovering", "explored"}]
    /\ \A n \in DOMAIN stack : stack[n][1] \in Pcs(insns)
    /\ heads \subseteq Pcs(insns)

\* What the decoder may forget of a slot: the reserved fields it never reads.
Canonical(s) ==
    CASE s.op = "neg"                       -> [s EXCEPT !.imm = 0]
      [] s.op \in {"exit", "ldabs", "ldind"} -> [s EXCEPT !.off = 0]
      [] s.op = "st"                        -> [s EXCEPT !.src = 0]
      [] OTHER                              -> s

\* A decoded program is the file: one instruction per slot, and encoding it
\* again gives the same slots up to the reserved fields (parse_insn,
\* parse_ldimm64 and insn_lib::encode agree on every opcode).
SlotsKept ==
    mode = "env" /\ phase \notin {"decode", "reject_decode"} =>
        EncodeAll(insns) = [n \in DOMAIN slots |-> Canonical(slots[n])]

\* Pcs reachable from pc over at least one edge of the graph succ.
Reachable(succ, pc) ==
    LET grow[n \in 0 .. Cardinality(DOMAIN succ)] ==
            IF n = 0 THEN succ[pc] ELSE grow[n - 1] \cup UNION {succ[q] : q \in grow[n - 1]}
    IN  grow[Cardinality(DOMAIN succ)]

\* The loop heads check_cfg returns are exactly what the exploration has to
\* bound: every cycle of the graph runs through one, and each lies on a cycle.
LoopHeadsExact ==
    phase = "accept" =>
        LET succ == [pc \in Pcs(insns) |-> Range(Nexts(insns, subprogs, pc))]
            cut  == [pc \in Pcs(insns) |-> succ[pc] \ heads]
        IN  /\ \A pc \in Pcs(insns) : pc \notin Reachable(cut, pc)
            /\ \A h \in heads : h \in Reachable(succ, h)

\* One step of an execution: a pc, the return addresses below it and the
\* subprograms entered, the innermost last.
Steps(p, c) ==
    LET pc == c.pc
        i == At(p, pc)
        to(t) == [c EXCEPT !.pc = t]
    IN  CASE i.op = "exit" /\ c.ret = <<>> -> {}
          [] i.op = "exit" /\ c.ret # <<>> ->
                {[pc |-> Last(c.ret), ret |-> Front(c.ret), entry |-> Front(c.entry)]}
          [] i.op = "callsub" -> {[pc |-> Target(p, pc), ret |-> Append(c.ret, pc + 1),
                                   entry |-> Append(c.entry, Target(p, pc))]}
          [] i.op = "ja"      -> {to(Target(p, pc))}
          [] i.op \in Conditional -> {to(Target(p, pc)), to(pc + 1)}
          [] i.op \in Wide    -> {to(pc + 2)}
          [] OTHER            -> {to(pc + 1)}

\* The configurations executions of p reach, until one leaves the program.
Configs(p) ==
    LET bound == Len(p) * (MaxCallFrames + 1)
        inside(c) == c.pc \in Pcs(p) /\ Len(c.entry) <= MaxCallFrames
        grow[n \in 0 .. bound] ==
            IF n = 0 THEN {[pc |-> 0, ret |-> <<>>, entry |-> <<0>>]}
            ELSE LET prev == grow[n - 1]
                 IN  prev \cup UNION {Steps(p, c) : c \in {d \in prev : inside(d)}}
    IN  grow[bound]

\* The lowest stack byte a frame touches directly, as a depth.
FrameDepth(p, e, s) ==
    LET uses == {-At(p, pc).off : pc \in {q \in s .. SubEnd(p, e, s) - 1 :
                    \/ At(p, q).op \in {"st", "stx"} /\ At(p, q).dst = 10
                    \/ At(p, q).op = "ldx" /\ At(p, q).src = 10}}
    IN  IF uses = {} THEN 0 ELSE CHOOSE m \in uses : \A u \in uses : u <= m

FrameStack(p, e, c) ==
    LET total[n \in 0 .. Len(c)] == IF n = 0 THEN 0 ELSE total[n - 1] + FrameDepth(p, e, c[n])
    IN  total[Len(c)]

\* No execution of an accepted program leaves it, runs the second half of an
\* ldimm64, enters another subprogram except by a call, nests deeper than
\* MAX_CALL_FRAMES or uses more stack over its call chain than STACK_SIZE.
AcceptedStaysInside ==
    phase = "accept" =>
        \A c \in Configs(insns) :
            /\ c.pc \in Pcs(insns)
            /\ At(insns, c.pc).op # "second"
            /\ SubStart(subprogs, c.pc) = Last(c.entry)
            /\ Len(c.entry) <= MaxCallFrames
            /\ Len(c.entry) > 1 => FrameStack(insns, subprogs, c.entry) <= StackSize

\* check_cfg rejects dead code: when no subprogram has two call sites, every
\* instruction of an accepted program is run by some execution.  (With two
\* call sites the return edges of one may make code reachable that only the
\* other, dead one returns to.)
DeadCodeRejected ==
    phase = "accept" /\ Cardinality(CallSites(insns)) = Cardinality(subprogs) - 1 =>
        \A pc \in Pcs(insns) :
            \/ \E c \in Configs(insns) : c.pc = pc
            \/ At(insns, pc).op = "second"

\* What the generator and the idiom templates emit decodes and passes the
\* nano checks ("by construction", generator.rs); only the combined stack
\* depth may reject it.
GeneratedPasses ==
    origin = "gen" => phase \notin {"reject_decode", "reject_subprog", "reject_cfg"}

\* A mutant that passed the mutator's checks decodes and passes them again
\* once encoded, if its seeds have no ldimm64.
MutantPasses ==
    origin = "mutant" /\ mode = "env" =>
        phase \notin {"reject_decode", "reject_subprog", "reject_cfg"}

\* The same of every mutant's decoding: "so the output always decodes"
\* (mutator.rs).
MutantDecodes == origin \in {"mutant", "wide_mutant"} => phase # "reject_decode"

\* Every program gets an answer, the search of a graph with cycles included.
Settles == <>[](phase \in Final)

=============================================================================
