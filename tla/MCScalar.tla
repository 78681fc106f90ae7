------------------------------ MODULE MCScalar ------------------------------
EXTENDS ScalarRun

\* Every operation and comparison but those of the violation run.
SoundOps    == (AluOps \X BOOLEAN) \ {<<"rsh", TRUE>>, <<"arsh", TRUE>>, <<"mod", FALSE>>}
SoundRegOps == SoundOps \ {<<"arsh", FALSE>>}
SoundConds  == CondOps \ {"uge", "sge"}
MCImms      == {-1, 1}
AllOps      == AluOps \X BOOLEAN
============================================================================
