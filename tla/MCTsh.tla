------------------------------- MODULE MCTsh --------------------------------
(* The shell with a few processes.                                         *)
EXTENDS TshInv

OnePid  == {1}
TwoPids == {1, 2}
BothKeys == {"INT", "TSTP"}
CtrlZ == {"TSTP"}

=============================================================================
