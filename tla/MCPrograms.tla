----------------------------- MODULE MCPrograms -----------------------------
(* The programs that run by themselves, one of them in each behaviour, for *)
(* model checking.                                                         *)
EXTENDS Lollipop, EepromInputs, SmallPrograms, TcpEcho

CONSTANTS c1, c2

SomeArgs == -3 .. 20

TwoClients == {c1, c2}
AnyFault == {"bind", "select", "accept", "recv"}

-----------------------------------------------------------------------------
UpTo(n, chars) == UNION {[1 .. k -> chars] : k \in 0 .. n}

Splits ==
  [string : UpTo(6, {"p", ",", ";"}), word : {<<>>, <<",">>, <<",", ";">>, <<";", ",">>}]

\* Words of 2 bits; the names are of the characters "A" and "B", spaces and
\* terminators, in one word or in two.
Drive(low, high, counts, flags) ==
  [lba |-> flags[1], valid |-> flags[2], wide |-> flags[3], w60 |-> low, w61 |-> high,
   w100 |-> counts[1], w101 |-> counts[2], w102 |-> counts[3], w103 |-> counts[4]]

NoLba == Drive(0, 0, <<0, 0, 0, 0>>, <<FALSE, 0, FALSE>>)

Capacities ==
  {Drive(low, high, <<low, mid, top, over>>, <<lba, valid, wide>>) :
     low \in 0 .. 3, high \in {0, 3}, mid \in {0, 3}, top \in {0, 2}, over \in {0, 1, 3},
     lba \in BOOLEAN, valid \in {0, 1, 3}, wide \in BOOLEAN}

Read(opens, identifies, names, drive) ==
  [opens |-> opens, identifies |-> identifies, names |-> names, drive |-> drive]

Disks ==
  {Read(TRUE, "identify", <<name, <<65, 32>>>>, NoLba) :
     name \in [1 .. 4 -> {0, 32, 65, 66}] \cup [1 .. 2 -> {0, 32, 65}]}
  \cup {Read(TRUE, "pidentify", <<>>, drive) : drive \in Capacities}
  \cup {Read(opens, identifies, <<<<65, 66>>>>, NoLba) :
          opens \in BOOLEAN, identifies \in {"identify", "pidentify", "fail"}}

-----------------------------------------------------------------------------
\* The programs that do not run: no argument, nothing to build, all ended.
LollipopIdle ==
  a = 0 /\ b = 0 /\ result = FALSE /\ result2 = FALSE /\ printed = FALSE

BuildIdle ==
  /\ pc = "done" /\ builder = "232h" /\ eeprom = default232H
  /\ ret = 0 /\ output = None /\ decoded = None

TcpIdle ==
  /\ srv = "ended" /\ rqst = NoClient /\ recvlen = 0 /\ queue = <<>>
  /\ cli = [c \in Clients |-> "ended"]
  /\ argument = [c \in Clients |-> 0]
  /\ flying = [c \in Clients |-> 0] /\ arrived = [c \in Clients |-> 0]
  /\ reply = [c \in Clients |-> 0]
  /\ socket = [c \in Clients |-> "none"]
  /\ answer = [c \in Clients |-> 0]

ProgramsInit ==
  \/ Init /\ SmallIdle("lollipop") /\ BuildIdle /\ TcpIdle
  \/ BuildInit /\ SmallIdle("eeprom") /\ LollipopIdle /\ TcpIdle
  \/ TcpInit /\ SmallIdle("tcp") /\ LollipopIdle /\ BuildIdle
  \/ SmallInit /\ LollipopIdle /\ BuildIdle /\ TcpIdle

ProgramsNext ==
  \/ Next /\ program = "lollipop" /\ UNCHANGED <<buildVars, smallVars, tcpVars>>
  \/ BuildNext /\ UNCHANGED <<vars, smallVars, tcpVars>>
  \/ TcpNext /\ UNCHANGED <<vars, buildVars, smallVars>>
  \/ SmallNext /\ UNCHANGED <<vars, buildVars, tcpVars>>

ProgramsSpec ==
  ProgramsInit /\ [][ProgramsNext]_<<vars, buildVars, smallVars, tcpVars>> /\ TcpFairness
=============================================================================
