---------------------------- MODULE MCKvmServer ----------------------------
(* Clients, requests and commands for model checking KvmServer.            *)
EXTENDS KvmDatagram, TLC

CONSTANTS c1, c2, c3

TwoClients == {c1, c2}
ThreeClients == {c1, c2, c3}
TwoCommands == {"v", "getkvm"}
Lengths == [c \in Commands |-> IF c = "v" THEN 1 ELSE 6]
AllKinds == {"KVM", "PoChannel", "blank", "empty"}
KvmOrEmpty == {"KVM", "empty"}
AllArguments == {"getkvm", NoArg}
GoodArguments == Commands
AllUartFaults == {"open", "write", "hangup", "memory"}
OpenOrMemory == {"open", "memory"}
Symmetry == Permutations(Clients)
=============================================================================
