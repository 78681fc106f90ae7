---------------------------- MODULE MCFrontend ----------------------------
(* Instances of Frontend: short files, and one-slot files with every field. *)
EXTENDS Frontend

S(op, dst, src, off, imm) == Insn(op, dst, src, off, imm)

\* The slots of the files: straight-line code, both calls, jumps and loops of
\* both kinds, a stack access, the halves of an ldimm64 and an unknown opcode.
MCAlphabet ==
    {S("aluk", 1, 0, 0, 1), S("exit", 0, 0, 0, 0), S("jk", 1, 0, 1, 0), S("jsetx", 1, 2, -2, 0),
     S("j32k", 1, 0, 1, 0), S("ja", 0, 0, -2, 0), S("ja", 0, 0, 1, 0), S("call", 0, 1, 0, 1),
     S("call", 0, 1, 0, -3), S("stx", 10, 1, -16, 0), S("ld64", 1, 1, 0, 3), S("pad", 0, 0, 0, 0),
     S("call", 0, 1, 0, 0)}

MCOps == Ops \ {"callsub", "kfunc", "second", "ldimm64", "ldmapfd", "ldmapvalue"}
MCSingles ==
    {S(op, d, s, o, i) : op \in MCOps, d \in {0, 10, 11}, s \in {0, 1, 2, 3, 11}, o \in {0, 1, 3}, i \in {0, 1, 2}}

\* A loop, a call, and an ldimm64 seed.
MCSeeds ==
    {<<S("aluk", 0, 0, 0, 0), S("divk", 1, 0, 0, 1), S("jk", 1, 0, -2, 0), S("exit", 0, 0, 0, 0)>>,
     <<S("aluk", 0, 0, 0, 0), S("call", 0, 1, 0, 1), S("exit", 0, 0, 0, 0), S("ldx", 1, 10, -8, 0), S("exit", 0, 0, 0, 0)>>,
     <<S("aluk", 0, 0, 0, 0), S("ld64", 1, 2, 0, 3), S("pad", 0, 0, 0, 4), S("exit", 0, 0, 0, 0)>>}

MCOffsets == {-3, -1, 0, 2}
=============================================================================
