------------------------------- MODULE MCMini -------------------------------
(***************************************************************************)
(* Programs for the model checking of Mini.  A family is a skeleton that    *)
(* the structural pass lets by, with some instructions left open; a single  *)
(* program is one that shows a disagreement.                                *)
(***************************************************************************)
EXTENDS Mini

Program(insns, heads) == [insns |-> insns, loop_heads |-> heads]

\* The code's thresholds for storing a checkpoint; the budgets are those of a
\* short program.
CodeLimits ==
    [MinInsns |-> 8, MinJumps |-> 2, BusyInsns |-> 100, BusyJumps |-> 20,
     ForceHistory |-> 64, max_states |-> 1024, max_steps |-> 32,
     max_loop_iterations |-> 5, MaxRun |-> 40]

LongLimits == [CodeLimits EXCEPT !.max_steps = 100]

\* A checkpoint at almost every jump, and budgets that are soon spent.
TightLimits ==
    [CodeLimits EXCEPT !.MinInsns = 1, !.MinJumps = 1, !.ForceHistory = 6,
        !.max_states = 3, !.max_loop_iterations = 4, !.MaxRun = 0]

Under(programs, l) ==
    {[insns |-> p.insns, loop_heads |-> p.loop_heads, limits |-> l] : p \in programs}

\* A loop over map offsets: a branch, two open instructions and a back edge,
\* to before the branch or to after it, and then an access.
LoopPrograms ==
    {Program(<<LdMapValue(8, 0), LdImm64Second, MovImm(6, 0), LdByte(7, 1, 0),
               JgtImm(7, 8, 1), x, y, back, LdMem(0, 8, 0), MovImm(0, 0), Exit>>,
             {7 + 1 + back.off})
       : x \in {AddImm(6, 8), MovImm(7, 0), AddReg(8, 7), Jmp(0), JeqImm(6, 8, 2)},
         y \in {AddImm(6, 8), MovImm(6, 0), AddReg(8, 6), LdByte(7, 1, 0)},
         back \in {JgtImm(6, 8, -4), JgtImm(6, 0, -2), JeqImm(6, 0, -4),
                   JeqImm(6, 8, -2)}}

\* Two compares that fence a byte in, and an access at that offset.
FencePrograms ==
    {Program(<<LdMapValue(8, o), LdImm64Second, LdByte(7, 1, 0), hi,
               lo, Jmp(2), AddReg(8, 7), LdMem(6, 8, 0), MovImm(0, 0), Exit>>, {})
       : o \in {0, 8}, hi \in {JgtImm(7, b, 4) : b \in {0, 8, 9}},
         lo \in {JgtImm(7, 7, 1), JeqImm(7, 0, 1), JeqImm(7, 8, 1)}}

\* A subprogram whose exit is a jump target, called from `calls`, and sometimes
\* a second subprogram below it.
CallsFrom(calls) ==
    {Program(<<LdByte(6, 1, 0), JgtImm(6, 0, 1), x, CallSub(3), y,
               MovImm(0, 0), Exit,
               LdByte(7, 1, 0), JgtImm(7, b, 1), z, Jmp(0), Exit>>
               \o (IF z = CallSub(2) THEN <<MovImm(0, 1), Exit>> ELSE <<>>),
             IF y.off = -2 THEN {3} ELSE {})
       : b \in {0, 255}, x \in calls,
         y \in {AddReg(6, 0), AddImm(6, 1), JgtImm(6, 0, -2)},
         z \in {CallSub(2), MovImm(0, 0), MovImm(7, 1), LdByte(0, 1, 0)}}

\* One call site, or two.
CallPrograms == CallsFrom({MovImm(6, 0)})
TwoCallPrograms == CallsFrom({CallSub(4)})

\* A ladder of compares: a checkpoint on every rung.
LadderPrograms ==
    {Program(<<LdByte(7, 1, 0), JgtImm(7, a, 1), MovImm(6, 0), JgtImm(7, b, 0),
               JgtImm(7, c, 0), JeqImm(7, d, 0), MovImm(0, 0), Exit>>, {})
       : a, b, c, d \in {0, 8}}

ExplorePrograms ==
    LoopPrograms \cup FencePrograms \cup CallPrograms \cup TwoCallPrograms
    \cup LadderPrograms

\* Two paths that reach the first checkpoint, at 8, with other values of r6
\* (or of r8), and use them before the next checkpoint.
PrunePrograms ==
    {Program(<<LdMapValue(8, 0), LdImm64Second, LdByte(7, 1, 0), u,
               JgtImm(7, 8, 1), Jmp(1), v, Jmp(0),
               w, use, LdMem(0, 8, 0), MovImm(0, 0), Exit>>, {})
       : u \in {MovImm(6, 16), MovImm(6, 8), AddImm(8, 8), LdByte(6, 1, 0)},
         v \in {MovImm(6, 0), MovImm(6, 16), AddImm(8, 16)},
         w \in {MovImm(0, 0), JeqImm(6, 8, 3), JgtImm(6, 0, 1), AddImm(6, 8)},
         use \in {AddReg(8, 6), AddReg(6, 7), AddImm(8, 0)}}

AcceptPrograms ==
    LoopPrograms \cup FencePrograms \cup CallPrograms \cup PrunePrograms

\* A step limit below the length of the program.
FewSteps == [TightLimits EXCEPT !.max_steps = 4]

MCPrograms ==
    Under(ExplorePrograms, TightLimits) \cup Under(AcceptPrograms, CodeLimits)
    \cup Under(LadderPrograms, FewSteps)

\* r6 is 0 on the taken side and 16 on the other; both pass the checkpoints
\* at 8 and 17 before r6 moves the pointer.
ChainProgram ==
    Under({Program(<<LdMapValue(8, 0), LdImm64Second, LdByte(7, 1, 0), MovImm(6, 16),
               JgtImm(7, 0, 1), Jmp(1), MovImm(6, 0), Jmp(0),
               MovImm(0, 0), MovImm(0, 0), MovImm(0, 0), MovImm(0, 0),
               MovImm(0, 0), MovImm(0, 0), Jmp(0), MovImm(0, 0), Jmp(0),
               AddReg(8, 6), LdMem(0, 8, 0), MovImm(0, 0), Exit>>, {})}, LongLimits)

\* The first path leaves the checkpoint at 22, with r6 marked; the second
\* stores the one at 15 and is pruned at 22; the third arrives at 15 with
\* another r6.
PrunedMarksProgram ==
    Under({Program(<<LdMapValue(8, 0), LdImm64Second, LdByte(7, 1, 0), MovImm(6, 0),
               JgtImm(7, 0, 11), LdByte(7, 1, 0),
               MovImm(0, 0), MovImm(0, 0), MovImm(0, 0), MovImm(0, 0),
               MovImm(0, 0), MovImm(0, 0),
               JgtImm(7, 0, 1), MovImm(6, 16), Jmp(0), Jmp(6),
               MovImm(0, 0), MovImm(0, 0), MovImm(0, 0), MovImm(0, 0),
               MovImm(0, 0), Jmp(0),
               AddReg(8, 6), LdMem(0, 8, 0), MovImm(0, 0), Exit>>, {})}, LongLimits)

\* The same, but the checkpoint is inside a subprogram, at 13, and r6 belongs
\* to the caller.
FrameProgram ==
    Under({Program(<<LdMapValue(8, 0), LdImm64Second, LdByte(7, 1, 0), MovImm(6, 16),
               JgtImm(7, 0, 1), Jmp(1), MovImm(6, 0),
               CallSub(4), AddReg(8, 6), LdMem(0, 8, 0), MovImm(0, 0), Exit,
               Jmp(0), MovImm(0, 0), Exit>>, {})}, LongLimits)

\* Two calls of one subprogram; the second finds r1 clobbered.
CallSiteProgram ==
    Under({Program(<<LdByte(6, 1, 0), JgtImm(6, 0, 1), CallSub(4), CallSub(3),
               AddImm(6, 1), MovImm(0, 0), Exit,
               LdByte(7, 1, 0), MovImm(0, 0), MovImm(0, 0), Jmp(0), Exit>>, {})}, LongLimits)

\* A byte of at most 7 moves the pointer, then a constant does.
AlignProgram ==
    Under({Program(<<LdMapValue(8, 0), LdImm64Second, LdByte(7, 1, 0), JgtImm(7, 7, 3),
               AddReg(8, 7), AddImm(8, 1), LdMem(0, 8, 0), MovImm(0, 0), Exit>>,
             {})}, LongLimits)

\* A loop without progress around a call; the exit of the subprogram is a jump
\* target, where the checkpoint is stored.
NestedExitProgram ==
    Under({Program(<<MovImm(6, 0), CallSub(3), JeqImm(6, 0, -2), MovImm(0, 0), Exit,
               MovImm(7, 0), MovImm(0, 0), Jmp(0), MovImm(0, 0), Jmp(0), Exit>>,
             {1})}, LongLimits)
=============================================================================
