--------------------------- MODULE MCHelloDriver ---------------------------
(* Model values and request sets for model checking HelloDriver.           *)
EXTENDS HelloDriver, TLC

CONSTANTS t1, t2, a

TwoTasks == {t1, t2}
BytesA == {Zero, a}

LegalCmds == {"read", "write", "other"}
WrongCmds == {"read", "write", "bad"}
AllFaults == {"kmalloc", "region", "cdev", "class"}

TaskSymmetry == Permutations(Tasks)
=============================================================================
