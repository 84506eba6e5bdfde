-------------------------- MODULE SpiMasterProofs ---------------------------
(***************************************************************************)
(* Proofs of the properties of SpiMaster, for bytes of any width.          *)
(*                                                                         *)
(* The inductive invariant says of every step how far the setup has come   *)
(* (SetupAt), how many bits the slave is behind (StepAt), and, as long as  *)
(* the clock works, what both sides have of the byte (DataAt).             *)
(***************************************************************************)
EXTENDS SpiMaster, TLAPS

DirectSteps == {"dir miso", "dir mosi", "dir csn", "dir sck"}
LowerSteps == {"low sck", "low csn", "low mosi"}
BitSteps == {"mosi", "rise", "read", "fall"}
EndSteps == {"end sck", "end mosi"}

TypeOK ==
  /\ pc \in {"closed", "idle"} \cup DirectSteps \cup LowerSteps \cup BitSteps \cup EndSteps
  /\ fds \in Nat /\ wired \in BOOLEAN /\ out \subseteq Outputs /\ spi \in BOOLEAN
  /\ level \in [Outputs -> {0, 1}]
  /\ bit \in 1 .. Width /\ bData \in Bytes /\ InByte \in [1 .. Width -> {0, 1}]
  /\ taken \in Seq({0, 1}) /\ Len(taken) <= Width
  /\ offer \in Bytes /\ got \in [1 .. Width -> {0, 1}]
  /\ clean \in BOOLEAN
  /\ bad \in [mosi : SUBSET (1 .. Width), miso : SUBSET (1 .. Width)]
  /\ lost \in 0 .. Width - 1

\* Descriptors that failed setups left open.
Leaked == IF pc = "closed" THEN fds ELSE fds - 1

\* What the setup does is not undone: the open descriptor is from a setup of
\* the SPI pins, or all the setups so far went through.
Sound == Leaked = 0 \/ (spi /\ pc # "closed")

\* Nothing is driven before the first setup, and a sound one has done what its
\* earlier steps do.
SetupAt ==
  /\ Leaked >= 0
  /\ Selected => wired
  /\ pc \in DirectSteps \cup LowerSteps => wired /\ spi
  /\ wired /\ Sound =>
       /\ pc \in {"dir csn", "dir sck"} => "mosi" \in out
       /\ pc = "dir sck" => "csn" \in out
       /\ pc \notin DirectSteps => out = Outputs
       /\ pc \notin DirectSteps \cup {"low sck", "low csn"} => Selected \/ "csn" \in failing

\* The clock edges of this exchange that are behind it.
Edges ==
  IF pc \in {"mosi", "rise"} THEN bit - 1 ELSE IF pc \in {"read", "fall"} THEN bit ELSE 0

\* What the slave has and the edges it missed are, but for whole bytes, the
\* edges there were.  A byte is full only until the clock falls.
StepAt ==
  /\ Len(taken) = Width => level["sck"] = 1
  /\ ~Selected => taken = <<>> /\ lost = 0
  /\ Selected => Len(taken) + lost \in {Edges - Width, Edges, Edges + Width}

\* Bits that MISO was read for.
Read == IF pc = "fall" THEN bit ELSE bit - 1

\* In an exchange that began in step and lost no edge, both sides have the
\* bits so far, those apart whose calls failed.
DataAt ==
  clean /\ pc \in BitSteps =>
    /\ wired /\ out = Outputs /\ Selected
    /\ level["sck"] = 1 <=> pc \in {"read", "fall"}
    /\ Len(taken) = Edges
    /\ \A k \in 1 .. Edges : k \notin bad.mosi => taken[k] = bData[k]
    /\ pc = "rise" /\ bit \notin bad.mosi => level["mosi"] = bData[bit]
    /\ \A k \in 1 .. Width :
         InByte[k] = IF k > Read \/ k \in bad.miso THEN 0 ELSE offer[k]
    /\ bad.miso \subseteq 1 .. Read

IInv == TypeOK /\ SetupAt /\ StepAt /\ DataAt

-----------------------------------------------------------------------------
(* What driving a pin does.                                                *)

\* Only the clock concerns the slave.
LEMMA DriveData ==
  ASSUME TypeOK, NEW pin \in {"csn", "mosi"}, NEW value \in {0, 1}, setGpioValue(pin, value)
  PROVE  /\ level' \in [Outputs -> {0, 1}]
         /\ level' = IF wired /\ pin \in out THEN [level EXCEPT ![pin] = value] ELSE level
         /\ level'["sck"] = level["sck"]
         /\ UNCHANGED <<taken, offer, got>>
<1>1. /\ level' \in [Outputs -> {0, 1}]
      /\ level' = IF wired /\ pin \in out THEN [level EXCEPT ![pin] = value] ELSE level
      /\ level'["sck"] = level["sck"]
  BY DEF TypeOK, Outputs, setGpioValue
<1>2. UNCHANGED <<taken, offer, got>>
  BY <1>1 DEF setGpioValue, SlaveSees, slave
<1> QED
  BY <1>1, <1>2

LEMMA DriveUp ==
  ASSUME TypeOK, setGpioValue("sck", 1)
  PROVE  /\ level' \in [Outputs -> {0, 1}]
         /\ level' = IF wired /\ "sck" \in out THEN [level EXCEPT !["sck"] = 1] ELSE level
         /\ level'["csn"] = level["csn"] /\ level'["mosi"] = level["mosi"]
         /\ UNCHANGED <<offer, got>>
         /\ taken' = IF Selected /\ level' # level THEN Append(taken, level["mosi"]) ELSE taken
<1>1. /\ level' \in [Outputs -> {0, 1}]
      /\ level' = IF wired /\ "sck" \in out THEN [level EXCEPT !["sck"] = 1] ELSE level
      /\ level'["csn"] = level["csn"] /\ level'["mosi"] = level["mosi"]
  BY DEF TypeOK, Outputs, setGpioValue
<1>2. level' # level <=> level["sck"] = 0 /\ level'["sck"] = 1
  BY <1>1 DEF TypeOK, Outputs
<1>3. ~(level["sck"] = 1 /\ level'["sck"] = 0)
  BY <1>1, <1>2 DEF TypeOK, Outputs
<1>4. UNCHANGED <<offer, got>>
      /\ taken' = IF Selected /\ level' # level THEN Append(taken, level["mosi"]) ELSE taken
  BY <1>2, <1>3 DEF setGpioValue, SlaveSees, slave
<1> QED
  BY <1>1, <1>4

LEMMA DriveDown ==
  ASSUME TypeOK, setGpioValue("sck", 0)
  PROVE  /\ level' \in [Outputs -> {0, 1}]
         /\ level' = IF wired /\ "sck" \in out THEN [level EXCEPT !["sck"] = 0] ELSE level
         /\ level'["csn"] = level["csn"] /\ level'["mosi"] = level["mosi"]
         /\ IF Selected /\ level' # level /\ Len(taken) = Width
            THEN taken' = <<>> /\ got' = taken /\ offer' \in Bytes
            ELSE UNCHANGED <<taken, offer, got>>
<1>1. /\ level' \in [Outputs -> {0, 1}]
      /\ level' = IF wired /\ "sck" \in out THEN [level EXCEPT !["sck"] = 0] ELSE level
      /\ level'["csn"] = level["csn"] /\ level'["mosi"] = level["mosi"]
  BY DEF TypeOK, Outputs, setGpioValue
<1>2. level' # level <=> level["sck"] = 1 /\ level'["sck"] = 0
  BY <1>1 DEF TypeOK, Outputs
<1>3. ~(level["sck"] = 0 /\ level'["sck"] = 1)
  BY <1>1, <1>2 DEF TypeOK, Outputs
<1>4. IF Selected /\ level' # level /\ Len(taken) = Width
      THEN taken' = <<>> /\ got' = taken /\ offer' \in Bytes
      ELSE UNCHANGED <<taken, offer, got>>
  BY <1>2, <1>3 DEF setGpioValue, SlaveSees, slave
<1> QED
  BY <1>1, <1>4

\* One more edge missed, counted in whole bytes.
LEMMA CountUp ==
  ASSUME NEW n \in 0 .. Width - 1
  PROVE  (n + 1) % Width = IF n + 1 = Width THEN 0 ELSE n + 1
<1>1. Width \in Nat \ {0}
  BY SpiAssumption
<1>2. \A d \in 0 .. Width - 1 : d % Width = d
  BY <1>1
<1>3. Width % Width = 0
  BY <1>1
<1> QED
  BY <1>1, <1>2, <1>3

-----------------------------------------------------------------------------
(* The invariant.                                                          *)

LEMMA Start == Init => IInv
<1> SUFFICES ASSUME Init PROVE IInv
  OBVIOUS
<1> USE SpiAssumption
<1>1. Zero \in Bytes /\ Zero \in [1 .. Width -> {0, 1}]
  BY DEF Zero
<1>2. TypeOK
  <2>1. NoneBad \in [mosi : SUBSET (1 .. Width), miso : SUBSET (1 .. Width)]
    BY DEF NoneBad
  <2>2. taken \in Seq({0, 1}) /\ Len(taken) <= Width
    BY DEF Init
  <2>3. lost \in 0 .. Width - 1 /\ bit \in 1 .. Width
    BY DEF Init
  <2> QED
    BY <1>1, <2>1, <2>2, <2>3 DEF Init, TypeOK
<1>3. SetupAt /\ DataAt
  BY DEF Init, SetupAt, DataAt, Leaked, Sound, Selected, DirectSteps, LowerSteps, BitSteps
<1>4. StepAt
  BY DEF Init, StepAt, Selected
<1> QED
  BY <1>2, <1>3, <1>4 DEF IInv

LEMMA KeptByOpen ==
  ASSUME IInv, NEW mode \in {0, 1}, gpio_open_dev(mode)
  PROVE  IInv'
<1> USE DEF IInv
<1>a. fds \in Nat /\ fds' = fds + 1
  BY DEF TypeOK, gpio_open_dev
<1>1. TypeOK'
  <2>1. wired' \in BOOLEAN /\ spi' \in BOOLEAN
    BY DEF gpio_open_dev
  <2>2. pc' = "dir miso" \/ pc' = "idle"
    BY DEF gpio_open_dev
  <2>3. fds' \in Nat
    BY <1>a
  <2> QED
    BY <2>1, <2>2, <2>3 DEF TypeOK, gpio_open_dev, DirectSteps, master, slave, history
<1>2. SetupAt'
  <2>1. pc = "closed" /\ fds' = fds + 1
    BY DEF gpio_open_dev
  <2>2. \/ pc' = "dir miso" /\ wired' /\ spi'
        \/ pc' = "idle" /\ (wired' <=> wired) /\ ~spi'
    BY DEF gpio_open_dev
  <2>4. Leaked' = Leaked
    <3>1. pc' # "closed"
      BY <2>2
    <3>2. Leaked = fds /\ Leaked' = fds' - 1
      BY <2>1, <3>1 DEF Leaked
    <3> QED
      BY <1>a, <3>2
  <2>3. UNCHANGED <<out, level, failing>>
    BY DEF gpio_open_dev
  <2> QED
    BY <2>1, <2>2, <2>3, <2>4 DEF SetupAt, Sound, Selected, DirectSteps, LowerSteps
<1>3. StepAt'
  BY DEF TypeOK, StepAt, Edges, Selected, gpio_open_dev, slave, history
<1>4. DataAt'
  BY DEF DataAt, BitSteps, gpio_open_dev
<1> QED
  BY <1>1, <1>2, <1>3, <1>4

\* A call that gives up leaves its descriptor.
LEMMA OneLeft ==
  ASSUME TypeOK, SetupAt, pc # "closed", pc' = "closed", fds' = fds
  PROVE  Leaked' # 0 /\ Leaked' >= 0
<1>1. Leaked = fds - 1 /\ Leaked' = fds /\ fds \in Nat
  BY DEF Leaked, TypeOK
<1>2. Leaked >= 0
  BY DEF SetupAt
<1> QED
  BY <1>1, <1>2

\* The steps that direct the pins.
LEMMA DirectSetup ==
  ASSUME TypeOK, SetupAt,
         \/ pc = "dir miso" /\ pc' = "dir mosi" /\ out' = out
         \/ pc = "dir mosi" /\ pc' = "dir csn" /\ out' = out \cup {"mosi"}
         \/ pc = "dir csn" /\ pc' = "dir sck" /\ out' = out \cup {"csn"}
         \/ pc = "dir sck" /\ pc' = "low sck" /\ out' = out \cup {"sck"}
         \/ pc \in DirectSteps /\ pc' = "closed" /\ out' = out,
         UNCHANGED <<fds, wired, spi, level, failing>>
  PROVE  SetupAt'
<1>1. pc \in DirectSteps
  BY DEF DirectSteps
<1>2. Selected' = Selected
  BY DEF Selected
<1>3. fds \in Nat /\ out \subseteq Outputs
  BY DEF TypeOK
<1>4. CASE pc' = "closed"
  <2>1. Leaked' # 0 /\ Leaked' >= 0
    BY <1>1, <1>4, OneLeft DEF DirectSteps
  <2> QED
    BY <1>2, <1>4, <2>1 DEF SetupAt, Sound, DirectSteps, LowerSteps
<1>5. CASE pc' # "closed"
  <2>1. Leaked' = Leaked
    BY <1>1, <1>5 DEF Leaked, DirectSteps
  <2>2. Sound /\ spi' /\ wired
    BY <1>1 DEF SetupAt, Sound, DirectSteps
  <2>3. pc' = "low sck" => out' = Outputs
    BY <1>3, <2>2 DEF SetupAt, Outputs
  <2> QED
    BY <1>1, <1>2, <1>5, <2>1, <2>2, <2>3 DEF SetupAt, DirectSteps, LowerSteps
<1> QED
  BY <1>4, <1>5

LEMMA KeptByDirect ==
  ASSUME IInv,
         \/ gpio_set_dir("miso", "dir mosi") \/ gpio_set_dir("mosi", "dir csn")
         \/ gpio_set_dir("csn", "dir sck") \/ gpio_set_dir("sck", "low sck")
  PROVE  IInv'
<1> USE DEF IInv
<1>1. /\ \/ pc = "dir miso" /\ pc' = "dir mosi" /\ out' = out
         \/ pc = "dir mosi" /\ pc' = "dir csn" /\ out' = out \cup {"mosi"}
         \/ pc = "dir csn" /\ pc' = "dir sck" /\ out' = out \cup {"csn"}
         \/ pc = "dir sck" /\ pc' = "low sck" /\ out' = out \cup {"sck"}
         \/ pc \in DirectSteps /\ pc' = "closed" /\ out' = out
      /\ UNCHANGED <<fds, wired, spi, level, master, slave, failing, history>>
  <2>1. /\ Direct["miso"] = "dir miso" /\ Direct["mosi"] = "dir mosi"
        /\ Direct["csn"] = "dir csn" /\ Direct["sck"] = "dir sck"
    BY DEF Direct
  <2>2. /\ {"miso"} \cap Outputs = {} /\ {"mosi"} \cap Outputs = {"mosi"}
        /\ {"csn"} \cap Outputs = {"csn"} /\ {"sck"} \cap Outputs = {"sck"}
    BY DEF Outputs
  <2>3. CASE gpio_set_dir("miso", "dir mosi")
    BY <2>1, <2>2, <2>3 DEF gpio_set_dir, DirectSteps
  <2>4. CASE gpio_set_dir("mosi", "dir csn")
    BY <2>1, <2>2, <2>4 DEF gpio_set_dir, DirectSteps
  <2>5. CASE gpio_set_dir("csn", "dir sck")
    BY <2>1, <2>2, <2>5 DEF gpio_set_dir, DirectSteps
  <2>6. CASE gpio_set_dir("sck", "low sck")
    BY <2>1, <2>2, <2>6 DEF gpio_set_dir, DirectSteps
  <2> QED
    BY <2>3, <2>4, <2>5, <2>6
<1>2. pc \in DirectSteps /\ pc \notin BitSteps /\ pc' \notin BitSteps
  BY <1>1 DEF DirectSteps, BitSteps
<1>3. TypeOK'
  BY <1>1 DEF TypeOK, DirectSteps, LowerSteps, Outputs, master, slave, history
<1>4. SetupAt'
  BY <1>1, DirectSetup
<1>5. StepAt'
  <2>1. Edges = 0 /\ Edges' = 0
    BY <1>2 DEF Edges, BitSteps
  <2> QED
    BY <1>1, <2>1 DEF StepAt, Selected, slave, history
<1>6. DataAt'
  BY <1>2 DEF DataAt
<1> QED
  BY <1>3, <1>4, <1>5, <1>6

LEMMA KeptByClose == IInv /\ gpio_close_dev => IInv'
<1> SUFFICES ASSUME IInv, gpio_close_dev PROVE IInv'
  OBVIOUS
<1> USE DEF IInv
<1>1. TypeOK'
  BY DEF TypeOK, SetupAt, Leaked, gpio_close_dev, master, slave, history
<1>2. SetupAt'
  BY DEF TypeOK, SetupAt, Leaked, Sound, Selected, gpio_close_dev, DirectSteps, LowerSteps
<1>3. StepAt'
  BY DEF TypeOK, StepAt, Edges, Selected, gpio_close_dev, slave, history
<1>4. DataAt'
  BY DEF DataAt, BitSteps, gpio_close_dev
<1> QED
  BY <1>1, <1>2, <1>3, <1>4

LEMMA KeptByCall ==
  ASSUME IInv, NEW byte \in Bytes, spi_send_receive(byte)
  PROVE  IInv'
<1> USE DEF IInv
<1>1. Zero \in [1 .. Width -> {0, 1}] /\ \A k \in 1 .. Width : Zero[k] = 0
  BY DEF Zero
<1>2. TypeOK'
  <2>1. /\ pc' = "mosi" /\ bData' = byte /\ InByte' = Zero /\ bit' = 1
        /\ bad' = NoneBad /\ UNCHANGED <<setup, level, slave, failing, lost>>
    BY DEF spi_send_receive
  <2>2. clean' \in BOOLEAN
    BY DEF spi_send_receive, InStep
  <2>3. NoneBad \in [mosi : SUBSET (1 .. Width), miso : SUBSET (1 .. Width)]
    BY DEF NoneBad
  <2>4. 1 \in 1 .. Width
    BY SpiAssumption
  <2> QED
    BY <1>1, <2>1, <2>2, <2>3, <2>4 DEF TypeOK, BitSteps, setup, slave
<1>3. SetupAt'
  BY DEF TypeOK, SetupAt, Leaked, Sound, Selected, spi_send_receive, DirectSteps, LowerSteps, setup
<1>4. StepAt'
  BY DEF TypeOK, StepAt, Edges, Selected, spi_send_receive, slave
<1>5. DataAt'
  <2> SUFFICES ASSUME clean' PROVE DataAt'
    BY DEF DataAt
  <2>1. InStep /\ UNCHANGED <<wired, out, level, taken, offer>>
    BY DEF spi_send_receive, setup, slave
  <2>2. wired' /\ out' = Outputs /\ Selected' /\ level'["sck"] = 0 /\ taken' = <<>>
    BY <2>1 DEF InStep, Selected
  <2>3. pc' = "mosi" /\ bit' = 1 /\ bad' = NoneBad /\ InByte' = Zero
    BY DEF spi_send_receive
  <2>4. Edges' = 0 /\ Read' = 0 /\ bad'.miso = {}
    BY <2>3 DEF Edges, Read, NoneBad
  <2>5. \A k \in 1 .. Width : InByte'[k] = 0 /\ k > 0
    BY <1>1, <2>3
  <2> QED
    BY <2>2, <2>3, <2>4, <2>5 DEF DataAt
<1> QED
  BY <1>2, <1>3, <1>4, <1>5

-----------------------------------------------------------------------------
(* The steps that take the clock down.                                     *)

ClockDown == setGpioValue("sck", 0) \/ setGpioValueFails("sck")

LEMMA ClockDownDoes ==
  ASSUME TypeOK, ClockDown
  PROVE  /\ level' \in [Outputs -> {0, 1}]
         /\ level'["csn"] = level["csn"] /\ level'["mosi"] = level["mosi"]
         /\ level["sck"] = 0 => level'["sck"] = 0
         /\ \/ /\ Selected /\ Len(taken) = Width /\ level'["sck"] = 0
               /\ taken' = <<>> /\ got' = taken /\ offer' \in Bytes
            \/ /\ level' # level => ~Selected \/ Len(taken) # Width
               /\ UNCHANGED <<taken, offer, got>>
<1>1. CASE setGpioValue("sck", 0)
  <2>1. level' # level => level'["sck"] = 0
    BY <1>1, DriveDown DEF TypeOK
  <2> QED
    BY <1>1, <2>1, DriveDown DEF TypeOK, Outputs
<1>2. CASE setGpioValueFails("sck")
  BY <1>2 DEF setGpioValueFails, slave, TypeOK
<1> QED
  BY <1>1, <1>2 DEF ClockDown

LEMMA ClockDownTypes ==
  ASSUME TypeOK, ClockDown
  PROVE  /\ level' \in [Outputs -> {0, 1}]
         /\ taken' \in Seq({0, 1}) /\ Len(taken') <= Width
         /\ offer' \in Bytes /\ got' \in [1 .. Width -> {0, 1}]
<1>1. Width \in Nat
  BY SpiAssumption
<1>2. Len(taken) = Width => taken \in [1 .. Width -> {0, 1}]
  BY DEF TypeOK
<1>3. <<>> \in Seq({0, 1}) /\ Len(<<>>) <= Width
  BY <1>1
<1>4. level' \in [Outputs -> {0, 1}]
  BY ClockDownDoes
<1>5. CASE UNCHANGED <<taken, offer, got>>
  BY <1>4, <1>5 DEF TypeOK
<1>6. CASE Len(taken) = Width /\ taken' = <<>> /\ got' = taken /\ offer' \in Bytes
  BY <1>2, <1>3, <1>4, <1>6
<1> QED
  BY <1>5, <1>6, ClockDownDoes

\* Taking the clock down, the slave at most begins a new byte.
LEMMA ClockDownSteps ==
  ASSUME TypeOK, StepAt, ClockDown, lost' = lost,
         Edges \in 0 .. Width, Edges' = Edges \/ (Edges = Width /\ Edges' = 0)
  PROVE  StepAt'
<1>1. Width \in Nat \ {0}
  BY SpiAssumption
<1>2. lost \in 0 .. Width - 1 /\ Len(taken) \in 0 .. Width
  BY DEF TypeOK
<1>3. Selected' = Selected /\ level["sck"] \in {0, 1} /\ level'["sck"] \in {0, 1}
  BY ClockDownDoes DEF Selected, TypeOK, Outputs
<1>4. CASE /\ Selected /\ Len(taken) = Width /\ level'["sck"] = 0
           /\ taken' = <<>>
  <2>1. Len(taken') = 0
    BY <1>4
  <2>2. Len(taken) + lost \in {Edges - Width, Edges, Edges + Width}
    BY <1>4 DEF StepAt
  <2>3. Len(taken') + lost' \in {Edges' - Width, Edges', Edges' + Width}
    BY <1>1, <1>2, <1>4, <2>1, <2>2
  <2> QED
    BY <1>1, <1>3, <1>4, <2>1, <2>3 DEF StepAt
<1>5. CASE /\ level' # level => ~Selected \/ Len(taken) # Width
           /\ taken' = taken
  <2>1. CASE Selected
    <3>1. Len(taken) + lost \in {Edges - Width, Edges, Edges + Width}
      BY <2>1 DEF StepAt
    <3>2. Len(taken') + lost' \in {Edges' - Width, Edges', Edges' + Width}
      BY <1>1, <1>2, <1>5, <3>1
    <3>3. Len(taken') = Width => level'["sck"] = 1
      BY <1>5, <2>1 DEF StepAt
    <3> QED
      BY <1>3, <2>1, <3>2, <3>3 DEF StepAt
  <2>2. CASE ~Selected
    BY <1>1, <1>3, <1>5, <2>2 DEF StepAt
  <2> QED
    BY <2>1, <2>2
<1> QED
  BY <1>4, <1>5, ClockDownDoes

-----------------------------------------------------------------------------
(* The steps that lower the pins of a setup.                               *)

LowerClock == InitLow("sck", "low csn")
LowerSelect == InitLow("csn", "low mosi")
LowerData == InitLow("mosi", "idle")

\* Steps between the setup and the end of an exchange.
Running == {"idle"} \cup BitSteps \cup EndSteps

LEMMA SetupKept ==
  ASSUME SetupAt, UNCHANGED <<fds, wired, out, spi, failing>>, level'["csn"] = level["csn"],
         \/ pc \in {"low mosi"} \cup Running /\ pc' \in Running
         \/ pc = "low sck" /\ pc' = "low csn"
  PROVE  SetupAt'
<1>1. pc \notin DirectSteps /\ pc' \notin DirectSteps
  BY DEF Running, DirectSteps, BitSteps, EndSteps
<1>2. Leaked' = Leaked /\ Sound' = Sound
  BY DEF Leaked, Sound, Running, BitSteps, EndSteps
<1>3. Selected' = Selected
  BY DEF Selected
<1>4. pc' \in LowerSteps => pc \in LowerSteps
  BY DEF Running, BitSteps, EndSteps, LowerSteps
<1> QED
  BY <1>1, <1>2, <1>3, <1>4 DEF SetupAt, Running, BitSteps, EndSteps, DirectSteps, LowerSteps

LEMMA KeptByLowerClock == IInv /\ LowerClock => IInv'
<1> SUFFICES ASSUME IInv, LowerClock PROVE IInv'
  OBVIOUS
<1> USE DEF IInv
<1>1. /\ pc = "low sck" /\ pc' = "low csn" /\ ClockDown
      /\ UNCHANGED <<setup, master, failing, history>>
  BY DEF LowerClock, InitLow, Lower, ClockDown
<1>2. TypeOK'
  BY <1>1, ClockDownTypes DEF TypeOK, LowerSteps, setup, master, history
<1>3. SetupAt'
  BY <1>1, ClockDownDoes, SetupKept DEF setup
<1>4. StepAt'
  <2>1. Edges = 0 /\ Edges' = 0
    BY <1>1 DEF Edges
  <2>2. 0 \in 0 .. Width
    BY SpiAssumption
  <2> QED
    BY <1>1, <2>1, <2>2, ClockDownSteps DEF history
<1>5. DataAt'
  BY <1>1 DEF DataAt, BitSteps
<1> QED
  BY <1>2, <1>3, <1>4, <1>5

LEMMA KeptByLowerSelect == IInv /\ LowerSelect => IInv'
<1> SUFFICES ASSUME IInv, LowerSelect PROVE IInv'
  OBVIOUS
<1> USE DEF IInv
<1>1. /\ pc = "low csn" /\ pc' = "low mosi"
      /\ UNCHANGED <<setup, master, failing, history>>
  BY DEF LowerSelect, InitLow, Lower
<1>2. /\ level' \in [Outputs -> {0, 1}]
      /\ level'["sck"] = level["sck"]
      /\ level'["csn"] = 0 \/ level'["csn"] = level["csn"]
      /\ wired /\ "csn" \in out => level'["csn"] = 0 \/ "csn" \in failing
      /\ UNCHANGED <<taken, offer, got>>
  <2>1. CASE setGpioValue("csn", 0)
    BY <2>1, DriveData DEF TypeOK, Outputs
  <2>2. CASE setGpioValueFails("csn")
    BY <2>2 DEF setGpioValueFails, slave, TypeOK
  <2> QED
    BY <2>1, <2>2 DEF LowerSelect, InitLow
<1>3. TypeOK'
  BY <1>1, <1>2 DEF TypeOK, LowerSteps, setup, master, history
<1>4. SetupAt'
  <2>1. wired /\ spi /\ UNCHANGED <<fds, wired, out, spi, failing>>
    BY <1>1 DEF SetupAt, LowerSteps, setup
  <2>2. Leaked' = Leaked
    BY <1>1, <2>1 DEF Leaked
  <2>3. out = Outputs /\ "csn" \in out
    BY <1>1, <2>1 DEF SetupAt, Sound, DirectSteps, Outputs
  <2> QED
    BY <1>1, <1>2, <2>1, <2>2, <2>3 DEF SetupAt, Selected, DirectSteps, LowerSteps
<1>5. StepAt'
  <2>1. Edges = 0 /\ Edges' = 0
    BY <1>1 DEF Edges
  <2>2. Width \in Nat \ {0} /\ level["csn"] \in {0, 1} /\ lost' = lost
    BY <1>1, SpiAssumption DEF TypeOK, Outputs, history
  <2>3. Selected' => Len(taken') + lost' \in {Edges' - Width, Edges', Edges' + Width}
    <3>1. CASE Selected
      BY <1>2, <2>1, <2>2, <3>1 DEF StepAt
    <3>2. CASE ~Selected
      <4>1. Len(taken') = 0 /\ lost' = 0
        BY <1>2, <2>2, <3>2 DEF StepAt
      <4> QED
        BY <2>1, <2>2, <4>1
    <3> QED
      BY <3>1, <3>2
  <2> QED
    BY <1>2, <2>2, <2>3 DEF StepAt, Selected
<1>6. DataAt'
  BY <1>1 DEF DataAt, BitSteps
<1> QED
  BY <1>3, <1>4, <1>5, <1>6

\* What driving MOSI does: nothing to the slave.
DataDriven(value) == setGpioValue("mosi", value) \/ setGpioValueFails("mosi")

LEMMA DataDrivenDoes ==
  ASSUME TypeOK, NEW value \in {0, 1}, DataDriven(value)
  PROVE  /\ level' \in [Outputs -> {0, 1}]
         /\ level'["sck"] = level["sck"] /\ level'["csn"] = level["csn"]
         /\ UNCHANGED <<taken, offer, got>>
<1>1. CASE setGpioValue("mosi", value)
  BY <1>1, DriveData DEF TypeOK, Outputs
<1>2. CASE setGpioValueFails("mosi")
  BY <1>2 DEF setGpioValueFails, slave, TypeOK
<1> QED
  BY <1>1, <1>2 DEF DataDriven

\* What the slave has is the same as before as long as nothing it sees moves.
LEMMA StepKept ==
  ASSUME StepAt, level'["sck"] = level["sck"], level'["csn"] = level["csn"],
         taken' = taken, lost' = lost, Edges' = Edges
  PROVE  StepAt'
BY DEF StepAt, Selected

LEMMA KeptByLowerData == IInv /\ LowerData => IInv'
<1> SUFFICES ASSUME IInv, LowerData PROVE IInv'
  OBVIOUS
<1> USE DEF IInv
<1>1. /\ pc = "low mosi" /\ pc' = "idle" /\ DataDriven(0)
      /\ UNCHANGED <<setup, master, failing, history>>
  BY DEF LowerData, InitLow, Lower, DataDriven
<1>2. TypeOK'
  BY <1>1, DataDrivenDoes DEF TypeOK, setup, master, history
<1>3. SetupAt'
  BY <1>1, DataDrivenDoes, SetupKept DEF setup, Running
<1>4. StepAt'
  <2>1. Edges = 0 /\ Edges' = 0
    BY <1>1 DEF Edges
  <2> QED
    BY <1>1, <2>1, DataDrivenDoes, StepKept DEF history
<1>5. DataAt'
  BY <1>1 DEF DataAt, BitSteps
<1> QED
  BY <1>2, <1>3, <1>4, <1>5

-----------------------------------------------------------------------------
(* The steps of an exchange.                                               *)

LEMMA KeptByPutBit == IInv /\ PutBit => IInv'
<1> SUFFICES ASSUME IInv, PutBit PROVE IInv'
  OBVIOUS
<1> USE DEF IInv
<1>1. /\ pc = "mosi" /\ pc' = "rise"
      /\ UNCHANGED <<setup, master, failing, clean, lost>>
      /\ \/ setGpioValue("mosi", bData[bit]) /\ UNCHANGED bad
         \/ setGpioValueFails("mosi") /\ bad' = [bad EXCEPT !.mosi = @ \cup {bit}]
  BY DEF PutBit
<1>2. bData[bit] \in {0, 1} /\ DataDriven(bData[bit])
  BY <1>1, SpiAssumption DEF TypeOK, DataDriven
<1>3. /\ bad' \in [mosi : SUBSET (1 .. Width), miso : SUBSET (1 .. Width)]
      /\ bad'.miso = bad.miso /\ bad.mosi \subseteq bad'.mosi
      /\ bit \notin bad'.mosi => UNCHANGED bad
  BY <1>1 DEF TypeOK
<1>4. TypeOK'
  BY <1>1, <1>2, <1>3, DataDrivenDoes DEF TypeOK, BitSteps, setup, master
<1>5. SetupAt'
  BY <1>1, <1>2, DataDrivenDoes, SetupKept DEF setup, Running, BitSteps
<1>6. StepAt'
  <2>1. Edges' = Edges
    BY <1>1 DEF Edges, master
  <2> QED
    BY <1>1, <1>2, <2>1, DataDrivenDoes, StepKept
<1>7. DataAt'
  <2> SUFFICES ASSUME clean' PROVE DataAt'
    BY DEF DataAt
  <2>1. /\ wired /\ out = Outputs /\ Selected
        /\ level["sck"] # 1
        /\ Len(taken) = bit - 1
        /\ \A k \in 1 .. bit - 1 : k \notin bad.mosi => taken[k] = bData[k]
        /\ \A k \in 1 .. Width :
             InByte[k] = IF k > bit - 1 \/ k \in bad.miso THEN 0 ELSE offer[k]
        /\ bad.miso \subseteq 1 .. bit - 1
    BY <1>1 DEF DataAt, BitSteps, Edges, Read
  <2>2. wired' /\ out' = Outputs /\ Selected' /\ level'["sck"] # 1
    BY <1>1, <1>2, <2>1, DataDrivenDoes DEF Selected, setup
  <2>3. UNCHANGED <<taken, offer, bit, bData, InByte>>
    BY <1>1, <1>2, DataDrivenDoes DEF master
  <2>4. Edges' = bit - 1 /\ Read' = bit - 1
    BY <1>1, <2>3 DEF Edges, Read
  <2>5. bit \notin bad'.mosi => level'["mosi"] = bData[bit]
    <3>1. CASE setGpioValue("mosi", bData[bit])
      BY <1>2, <2>1, <3>1, DriveData DEF TypeOK, Outputs
    <3>2. CASE bad' = [bad EXCEPT !.mosi = @ \cup {bit}]
      BY <3>2 DEF TypeOK
    <3> QED
      BY <1>1, <3>1, <3>2
  <2> QED
    BY <1>1, <1>3, <2>1, <2>2, <2>3, <2>4, <2>5 DEF DataAt
<1> QED
  BY <1>4, <1>5, <1>6, <1>7

\* A rising edge reaches the slave or is counted as lost.
LEMMA RiseDoes ==
  ASSUME TypeOK, SetupAt, Rise
  PROVE  /\ level' \in [Outputs -> {0, 1}]
         /\ level'["csn"] = level["csn"] /\ level'["mosi"] = level["mosi"]
         /\ UNCHANGED <<offer, got>>
         /\ \/ Selected /\ level' = level /\ taken' = taken /\ lost' = (lost + 1) % Width
            \/ /\ Selected /\ level["sck"] = 0 /\ level'["sck"] = 1
               /\ taken' = Append(taken, level["mosi"]) /\ lost' = lost
            \/ ~Selected /\ UNCHANGED <<taken, lost>>
         /\ clean' => clean /\ (wired /\ "sck" \in out => level'["sck"] = 1)
<1>1. Selected => wired
  BY DEF SetupAt
<1>2. CASE setGpioValue("sck", 1) /\ UNCHANGED clean
  <2>1. level' # level => level["sck"] = 0 /\ level'["sck"] = 1
    BY <1>2, DriveUp DEF TypeOK, Outputs
  <2>2. wired /\ "sck" \in out => level'["sck"] = 1
    BY <1>2, DriveUp DEF TypeOK, Outputs
  <2> QED
    BY <1>1, <1>2, <2>1, <2>2, DriveUp DEF Rise
<1>3. CASE setGpioValueFails("sck") /\ clean' = FALSE
  BY <1>1, <1>3 DEF Rise, setGpioValueFails, slave, TypeOK
<1> QED
  BY <1>2, <1>3 DEF Rise

LEMMA RiseSteps ==
  ASSUME TypeOK, SetupAt, StepAt, Rise,
         Edges \in 0 .. Width - 1, Edges' = Edges + 1
  PROVE  StepAt' /\ Len(taken') <= Width /\ taken' \in Seq({0, 1}) /\ lost' \in 0 .. Width - 1
<1>1. Width \in Nat \ {0}
  BY SpiAssumption
<1>2. lost \in 0 .. Width - 1 /\ Len(taken) \in 0 .. Width /\ taken \in Seq({0, 1})
  BY DEF TypeOK
<1>3. Selected' = Selected
  BY RiseDoes DEF Selected
<1>4. CASE Selected /\ level' = level /\ taken' = taken /\ lost' = (lost + 1) % Width
  <2>1. lost' = IF lost + 1 = Width THEN 0 ELSE lost + 1
    BY <1>2, <1>4, CountUp
  <2>2. Len(taken) + lost \in {Edges - Width, Edges, Edges + Width}
    BY <1>4 DEF StepAt
  <2>3. Len(taken') + lost' \in {Edges' - Width, Edges', Edges' + Width}
    BY <1>1, <1>2, <1>4, <2>1, <2>2
  <2>4. lost' \in 0 .. Width - 1
    BY <1>1, <1>2, <2>1
  <2> QED
    BY <1>2, <1>3, <1>4, <2>3, <2>4 DEF StepAt
<1>5. CASE /\ Selected /\ level["sck"] = 0 /\ level'["sck"] = 1
           /\ taken' = Append(taken, level["mosi"]) /\ lost' = lost
  <2>1. level["mosi"] \in {0, 1}
    BY DEF TypeOK, Outputs
  <2>2. Len(taken') = Len(taken) + 1 /\ taken' \in Seq({0, 1})
    BY <1>2, <1>5, <2>1
  <2>3. Len(taken) # Width
    BY <1>5 DEF StepAt
  <2>4. Len(taken) + lost \in {Edges - Width, Edges, Edges + Width}
    BY <1>5 DEF StepAt
  <2>5. Len(taken') + lost' \in {Edges' - Width, Edges', Edges' + Width}
    BY <1>1, <1>2, <1>5, <2>2, <2>4
  <2>6. Len(taken') <= Width
    BY <1>1, <1>2, <2>2, <2>3
  <2> QED
    BY <1>2, <1>3, <1>5, <2>2, <2>5, <2>6 DEF StepAt
<1>6. CASE ~Selected /\ UNCHANGED <<taken, lost>>
  <2>1. Len(taken') = 0
    BY <1>6 DEF StepAt
  <2> QED
    BY <1>1, <1>2, <1>3, <1>6, <2>1 DEF StepAt
<1> QED
  BY <1>4, <1>5, <1>6, RiseDoes

LEMMA KeptByRise == IInv /\ Rise => IInv'
<1> SUFFICES ASSUME IInv, Rise PROVE IInv'
  OBVIOUS
<1> USE DEF IInv
<1>1. /\ pc = "rise" /\ pc' = "read" /\ UNCHANGED <<setup, master, failing, bad>>
      /\ UNCHANGED clean \/ clean' = FALSE
  BY DEF Rise
<1>2. Width \in Nat \ {0} /\ bit \in 1 .. Width /\ bit' = bit
  BY <1>1, SpiAssumption DEF TypeOK, master
<1>3. Edges = bit - 1 /\ Edges' = bit /\ Read = bit - 1 /\ Read' = bit - 1
  BY <1>1, <1>2 DEF Edges, Read
<1>4. StepAt' /\ Len(taken') <= Width /\ taken' \in Seq({0, 1}) /\ lost' \in 0 .. Width - 1
  BY <1>2, <1>3, RiseSteps
<1>5. TypeOK'
  <2>1. clean' \in BOOLEAN
    BY <1>1 DEF TypeOK
  <2> QED
    BY <1>1, <1>4, <2>1, RiseDoes DEF TypeOK, BitSteps, setup, master
<1>6. SetupAt'
  BY <1>1, RiseDoes, SetupKept DEF setup, Running, BitSteps
<1>7. DataAt'
  <2> SUFFICES ASSUME clean' PROVE DataAt'
    BY DEF DataAt
  <2>1. /\ wired /\ out = Outputs /\ Selected
        /\ level["sck"] # 1
        /\ Len(taken) = bit - 1
        /\ \A k \in 1 .. bit - 1 : k \notin bad.mosi => taken[k] = bData[k]
        /\ bit \notin bad.mosi => level["mosi"] = bData[bit]
        /\ \A k \in 1 .. Width :
             InByte[k] = IF k > bit - 1 \/ k \in bad.miso THEN 0 ELSE offer[k]
        /\ bad.miso \subseteq 1 .. bit - 1
    BY <1>1, <1>3, RiseDoes DEF DataAt, BitSteps
  <2>2. level'["sck"] = 1
    BY <2>1, RiseDoes DEF Outputs
  <2>3. taken' = Append(taken, level["mosi"])
    BY <2>1, <2>2, RiseDoes
  <2>4. \A k \in 1 .. bit : k \notin bad.mosi => taken'[k] = bData[k]
    <3>1. taken \in Seq({0, 1}) /\ level["mosi"] \in {0, 1}
      BY DEF TypeOK, Outputs
    <3>2. \A k \in 1 .. bit - 1 : taken'[k] = taken[k]
      BY <1>2, <2>1, <2>3, <3>1
    <3>3. taken'[bit] = level["mosi"]
      BY <1>2, <2>1, <2>3, <3>1
    <3> QED
      BY <1>2, <2>1, <3>2, <3>3
  <2>5. Len(taken') = bit
    BY <1>2, <2>1, <2>3 DEF TypeOK
  <2>6. UNCHANGED <<wired, out, offer, bData, InByte, bad>> /\ Selected'
    BY <1>1, <2>1, RiseDoes DEF setup, master, Selected
  <2> QED
    BY <1>1, <1>2, <1>3, <2>1, <2>2, <2>4, <2>5, <2>6 DEF DataAt
<1> QED
  BY <1>4, <1>5, <1>6, <1>7

LEMMA KeptByGetBit == IInv /\ GetBit => IInv'
<1> SUFFICES ASSUME IInv, GetBit PROVE IInv'
  OBVIOUS
<1> USE DEF IInv
<1>1. /\ pc = "read" /\ pc' = "fall"
      /\ UNCHANGED <<setup, level, bit, bData, slave, failing, clean, lost>>
      /\ \/ \E v \in getGpioValue : InByte' = [InByte EXCEPT ![bit] = v] /\ UNCHANGED bad
         \/ bad' = [bad EXCEPT !.miso = @ \cup {bit}] /\ UNCHANGED InByte
  BY DEF GetBit
<1>2. Width \in Nat \ {0} /\ bit \in 1 .. Width /\ bit' = bit /\ Len(taken) \in 0 .. Width
  BY <1>1, SpiAssumption DEF TypeOK
<1>3. /\ bad' \in [mosi : SUBSET (1 .. Width), miso : SUBSET (1 .. Width)]
      /\ bad'.mosi = bad.mosi
  BY <1>1 DEF TypeOK
<1>4. getGpioValue \subseteq {0, 1}
  <2>1. CASE wired /\ Selected
    <3>1. offer \in [1 .. Width -> {0, 1}]
      BY SpiAssumption DEF TypeOK
    <3>2. level["sck"] \in {0, 1}
      BY DEF TypeOK, Outputs
    <3>3. level["sck"] = 0 => Len(taken) # Width
      BY DEF StepAt
    <3>4. taken # <<>> => Len(taken) # 0
      BY DEF TypeOK
    <3>5. Presented \in {0, 1}
      <4>1. CASE level["sck"] = 1 /\ taken # <<>>
        BY <1>2, <3>1, <3>4, <4>1 DEF Presented
      <4>2. CASE ~(level["sck"] = 1 /\ taken # <<>>)
        <5>1. Len(taken) + 1 \in 1 .. Width
          <6>1. CASE taken = <<>>
            BY <1>2, <6>1
          <6>2. CASE level["sck"] = 0
            BY <1>2, <3>3, <6>2
          <6> QED
            BY <3>2, <4>2, <6>1, <6>2
        <5> QED
          BY <3>1, <4>2, <5>1 DEF Presented
      <4> QED
        BY <4>1, <4>2
    <3> QED
      BY <2>1, <3>5 DEF getGpioValue
  <2>2. CASE ~(wired /\ Selected)
    BY <2>2 DEF getGpioValue
  <2> QED
    BY <2>1, <2>2
<1>5. InByte' \in [1 .. Width -> {0, 1}]
  BY <1>1, <1>4 DEF TypeOK
<1>6. TypeOK'
  BY <1>1, <1>2, <1>3, <1>5 DEF TypeOK, BitSteps, setup, slave
<1>7. SetupAt'
  BY <1>1, SetupKept DEF setup, Running, BitSteps
<1>8. StepAt'
  <2>1. Edges' = Edges
    BY <1>1, <1>2 DEF Edges
  <2> QED
    BY <1>1, <2>1, StepKept DEF slave
<1>9. DataAt'
  <2> SUFFICES ASSUME clean' PROVE DataAt'
    BY DEF DataAt
  <2>1. /\ wired /\ out = Outputs /\ Selected
        /\ level["sck"] = 1
        /\ Len(taken) = bit
        /\ \A k \in 1 .. bit : k \notin bad.mosi => taken[k] = bData[k]
        /\ \A k \in 1 .. Width :
             InByte[k] = IF k > bit - 1 \/ k \in bad.miso THEN 0 ELSE offer[k]
        /\ bad.miso \subseteq 1 .. bit - 1
    BY <1>1 DEF DataAt, BitSteps, Edges, Read
  <2>2. Edges' = bit /\ Read' = bit
    BY <1>1, <1>2 DEF Edges, Read
  <2>3. UNCHANGED <<wired, out, level, taken, offer, bData>> /\ Selected'
    BY <1>1, <2>1 DEF setup, slave, Selected
  <2>4. /\ \A k \in 1 .. Width :
             InByte'[k] = IF k > bit \/ k \in bad'.miso THEN 0 ELSE offer[k]
        /\ bad'.miso \subseteq 1 .. bit
    <3>1. CASE /\ \E v \in getGpioValue : InByte' = [InByte EXCEPT ![bit] = v]
               /\ UNCHANGED bad
      <4>1. taken # <<>>
        BY <1>2, <2>1
      <4>2. getGpioValue = {offer[bit]}
        BY <2>1, <4>1 DEF getGpioValue, Presented
      <4>3. InByte' = [InByte EXCEPT ![bit] = offer[bit]]
        BY <3>1, <4>2
      <4>4. InByte \in [1 .. Width -> {0, 1}] /\ bit \notin bad.miso
        BY <1>2, <2>1 DEF TypeOK
      <4>5. \A k \in 1 .. Width : k # bit => (k > bit - 1 <=> k > bit)
        BY <1>2
      <4>6. \A k \in 1 .. Width : InByte'[k] = IF k = bit THEN offer[bit] ELSE InByte[k]
        BY <4>3, <4>4
      <4> QED
        BY <1>2, <2>1, <3>1, <4>4, <4>5, <4>6
    <3>2. CASE bad' = [bad EXCEPT !.miso = @ \cup {bit}] /\ UNCHANGED InByte
      <4>1. bad'.miso = bad.miso \cup {bit}
        BY <3>2 DEF TypeOK
      <4>2. \A k \in 1 .. Width : k > bit - 1 \/ k \in bad.miso <=> k > bit \/ k \in bad'.miso
        BY <1>2, <4>1
      <4> QED
        BY <1>2, <2>1, <3>2, <4>1, <4>2
    <3> QED
      BY <1>1, <3>1, <3>2
  <2> QED
    BY <1>1, <1>2, <1>3, <2>1, <2>2, <2>3, <2>4 DEF DataAt
<1> QED
  BY <1>6, <1>7, <1>8, <1>9

LEMMA KeptByFall == IInv /\ Fall => IInv'
<1> SUFFICES ASSUME IInv, Fall PROVE IInv'
  OBVIOUS
<1> USE DEF IInv
<1>1. /\ pc = "fall" /\ ClockDown
      /\ UNCHANGED <<setup, bData, InByte, failing, bad, lost>>
      /\ UNCHANGED clean \/ clean' = FALSE
  BY DEF Fall, ClockDown
<1>2. Width \in Nat \ {0} /\ bit \in 1 .. Width
  BY SpiAssumption DEF TypeOK
<1>3. \/ bit < Width /\ pc' = "mosi" /\ bit' = bit + 1
      \/ bit = Width /\ pc' = "end sck" /\ bit' = bit
  <2>1. CASE bit < Width
    BY <2>1 DEF Fall
  <2>2. CASE ~(bit < Width)
    <3>1. bit = Width
      BY <1>2, <2>2
    <3> QED
      BY <2>2, <3>1 DEF Fall
  <2> QED
    BY <2>1, <2>2
<1>4. bit' \in 1 .. Width /\ pc' \in {"mosi", "end sck"}
  <2>1. CASE bit < Width /\ pc' = "mosi" /\ bit' = bit + 1
    BY <1>2, <2>1
  <2>2. CASE bit = Width /\ pc' = "end sck" /\ bit' = bit
    BY <1>2, <2>2
  <2> QED
    BY <1>3, <2>1, <2>2
<1>5. Edges = bit /\ (Edges' = bit \/ (bit = Width /\ Edges' = 0))
  <2>1. Edges = bit
    BY <1>1 DEF Edges
  <2>2. CASE pc' = "mosi" /\ bit' = bit + 1
    <3>1. Edges' = bit' - 1
      BY <2>2 DEF Edges
    <3> QED
      BY <1>2, <2>1, <2>2, <3>1
  <2>3. CASE bit = Width /\ pc' = "end sck"
    BY <2>1, <2>3 DEF Edges
  <2> QED
    BY <1>3, <2>2, <2>3
<1>6. TypeOK'
  <2>1. clean' \in BOOLEAN
    BY <1>1 DEF TypeOK
  <2> QED
    BY <1>1, <1>4, <2>1, ClockDownTypes DEF TypeOK, BitSteps, EndSteps, setup
<1>7. SetupAt'
  BY <1>1, <1>4, ClockDownDoes, SetupKept DEF setup, Running, BitSteps, EndSteps
<1>8. StepAt'
  <2>1. Edges \in 0 .. Width /\ (Edges' = Edges \/ (Edges = Width /\ Edges' = 0))
    BY <1>2, <1>5
  <2> QED
    BY <1>1, <2>1, ClockDownSteps
<1>9. DataAt'
  <2> SUFFICES ASSUME clean', pc' \in BitSteps PROVE DataAt'
    BY DEF DataAt
  <2>1. bit < Width /\ pc' = "mosi" /\ bit' = bit + 1
    BY <1>3 DEF BitSteps
  <2>2. /\ wired /\ out = Outputs /\ Selected
        /\ Len(taken) = bit
        /\ \A k \in 1 .. bit : k \notin bad.mosi => taken[k] = bData[k]
        /\ \A k \in 1 .. Width :
             InByte[k] = IF k > bit \/ k \in bad.miso THEN 0 ELSE offer[k]
        /\ bad.miso \subseteq 1 .. bit
    BY <1>1, <1>5 DEF DataAt, BitSteps, Read
  <2>3. setGpioValue("sck", 0)
    BY DEF Fall
  <2>4. level'["sck"] = 0 /\ UNCHANGED <<taken, offer>>
    <3>1. Len(taken) # Width
      BY <1>2, <2>1, <2>2
    <3> QED
      BY <2>2, <2>3, <3>1, DriveDown DEF TypeOK, Outputs
  <2>5. Edges' = bit /\ Read' = bit
    BY <1>2, <2>1 DEF Edges, Read
  <2>6. UNCHANGED <<wired, out, bData, InByte, bad>> /\ Selected'
    BY <1>1, <2>2, ClockDownDoes DEF setup, Selected
  <2> QED
    BY <2>1, <2>2, <2>4, <2>5, <2>6 DEF DataAt
<1> QED
  BY <1>6, <1>7, <1>8, <1>9

LEMMA KeptByEndClock == IInv /\ EndClock => IInv'
<1> SUFFICES ASSUME IInv, EndClock PROVE IInv'
  OBVIOUS
<1> USE DEF IInv
<1>1. /\ pc = "end sck" /\ pc' = "end mosi" /\ ClockDown
      /\ UNCHANGED <<setup, master, failing, history>>
  BY DEF EndClock, ClockDown
<1>2. TypeOK'
  BY <1>1, ClockDownTypes DEF TypeOK, EndSteps, setup, master, history
<1>3. SetupAt'
  BY <1>1, ClockDownDoes, SetupKept DEF setup, Running, EndSteps
<1>4. StepAt'
  <2>1. Edges = 0 /\ Edges' = 0
    BY <1>1 DEF Edges
  <2>2. 0 \in 0 .. Width
    BY SpiAssumption
  <2> QED
    BY <1>1, <2>1, <2>2, ClockDownSteps DEF history
<1>5. DataAt'
  BY <1>1 DEF DataAt, BitSteps
<1> QED
  BY <1>2, <1>3, <1>4, <1>5

LEMMA KeptByEndData == IInv /\ EndData => IInv'
<1> SUFFICES ASSUME IInv, EndData PROVE IInv'
  OBVIOUS
<1> USE DEF IInv
<1>1. /\ pc = "end mosi" /\ pc' = "idle" /\ DataDriven(0)
      /\ bit' = 1 /\ bData' = Zero /\ InByte' = Zero
      /\ clean' = FALSE /\ bad' = NoneBad /\ UNCHANGED <<setup, failing, lost>>
  BY DEF EndData, DataDriven
<1>2. TypeOK'
  <2>1. Zero \in Bytes /\ Zero \in [1 .. Width -> {0, 1}]
    BY SpiAssumption DEF Zero
  <2>2. NoneBad \in [mosi : SUBSET (1 .. Width), miso : SUBSET (1 .. Width)]
    BY DEF NoneBad
  <2>3. 1 \in 1 .. Width
    BY SpiAssumption
  <2> QED
    BY <1>1, <2>1, <2>2, <2>3, DataDrivenDoes DEF TypeOK, setup
<1>3. SetupAt'
  BY <1>1, DataDrivenDoes, SetupKept DEF setup, Running, EndSteps
<1>4. StepAt'
  <2>1. Edges = 0 /\ Edges' = 0
    BY <1>1 DEF Edges
  <2> QED
    BY <1>1, <2>1, DataDrivenDoes, StepKept
<1>5. DataAt'
  BY <1>1 DEF DataAt
<1> QED
  BY <1>2, <1>3, <1>4, <1>5

-----------------------------------------------------------------------------
(* The theorems.                                                           *)

LEMMA Kept == IInv /\ [Next]_vars => IInv'
<1> SUFFICES ASSUME IInv, [Next]_vars PROVE IInv'
  OBVIOUS
<1>1. CASE \E mode \in {0, 1} : gpio_open_dev(mode)
  BY <1>1, KeptByOpen
<1>2. CASE Setup
  <2>1. CASE InitLow("sck", "low csn")
    BY <2>1, KeptByLowerClock DEF LowerClock
  <2>2. CASE InitLow("csn", "low mosi")
    BY <2>2, KeptByLowerSelect DEF LowerSelect
  <2>3. CASE InitLow("mosi", "idle")
    BY <2>3, KeptByLowerData DEF LowerData
  <2> QED
    BY <1>2, <2>1, <2>2, <2>3, KeptByDirect DEF Setup
<1>3. CASE gpio_close_dev
  BY <1>3, KeptByClose
<1>4. CASE \E byte \in Bytes : spi_send_receive(byte)
  BY <1>4, KeptByCall
<1>5. CASE Exchange
  BY <1>5, KeptByPutBit, KeptByRise, KeptByGetBit, KeptByFall, KeptByEndClock, KeptByEndData
  DEF Exchange
<1>6. CASE UNCHANGED vars
  BY <1>6 DEF vars, setup, master, slave, history, IInv, TypeOK, SetupAt, StepAt, DataAt,
              Leaked, Sound, Edges, Read, Selected
<1> QED
  BY <1>1, <1>2, <1>3, <1>4, <1>5, <1>6 DEF Next

\* Every reachable state satisfies the inductive invariant.
THEOREM Invariance == Spec => []IInv
BY Start, Kept, PTL DEF Spec

\* However ioctls fail, the slave is behind by exactly the clock edges that
\* were swallowed: nothing in spi_send_receive or in closing and opening again
\* brings the two back in step (spi_gpio.c, the commented-out CSN calls).
THEOREM EdgesStayLost == Spec => []StepIsLostForGood
<1>1. IInv => StepIsLostForGood
  <2> SUFFICES ASSUME IInv, pc = "idle", Selected PROVE (Len(taken) + lost) % Width = 0
    BY DEF StepIsLostForGood
  <2>1. Edges = 0
    BY DEF Edges
  <2>2. Width \in Nat \ {0} /\ Len(taken) + lost \in Nat
    BY SpiAssumption DEF IInv, TypeOK
  <2>3. Len(taken) + lost = 0 \/ Len(taken) + lost = Width
    BY <2>1, <2>2 DEF IInv, StepAt
  <2>4. 0 % Width = 0 /\ Width % Width = 0
    BY <2>2
  <2> QED
    BY <2>3, <2>4
<1> QED
  BY <1>1, Invariance, PTL

\* As long as the clock works, a failed MOSI or MISO call damages only its own
\* bit, for bytes of any width.
THEOREM ErrorsStayInTheirBit == Spec => []DataErrorsStayInTheirBit
<1>1. IInv => DataErrorsStayInTheirBit
  <2> SUFFICES ASSUME IInv, pc = "fall", clean
      PROVE  /\ Len(taken) = bit
             /\ \A k \in 1 .. bit :
                  /\ k \notin bad.mosi => taken[k] = bData[k]
                  /\ InByte[k] = IF k \in bad.miso THEN 0 ELSE offer[k]
    BY DEF DataErrorsStayInTheirBit
  <2>1. Edges = bit /\ Read = bit /\ pc \in BitSteps
    BY DEF Edges, Read, BitSteps
  <2>2. bit \in 1 .. Width /\ Width \in Nat
    BY SpiAssumption DEF IInv, TypeOK
  <2> QED
    BY <2>1, <2>2 DEF IInv, DataAt
<1> QED
  BY <1>1, Invariance, PTL

\* Behind an open of the SPI pins that succeeded they are driven and the slave
\* is selected, unless the call that does it failed unnoticed, whatever setups
\* failed before; and so they are while no descriptor was left open.
THEOREM OpenDrivesThePins == Spec => []OpenedIsReady
<1>1. IInv => OpenedIsReady
  BY DEF IInv, SetupAt, Sound, OpenedIsReady, Leaked, DirectSteps, LowerSteps
<1> QED
  BY <1>1, Invariance, PTL

-----------------------------------------------------------------------------
(* Without failures the exchanges swap bytes.                              *)

\* Outside an exchange master and slave are in step once the pins are known,
\* within one no edge and no bit is lost, and at its end the answer is a byte.
PerfectAt ==
  Perfect =>
    /\ Leaked = 0
    /\ pc \notin BitSteps \/ ~wired => taken = <<>>
    /\ pc \in {"low csn", "low mosi"} => level["sck"] = 0
    /\ wired /\ pc \in {"closed", "idle"} \cup EndSteps =>
         out = Outputs /\ Selected /\ level["sck"] = 0
    /\ wired /\ pc \in BitSteps => clean /\ bad = NoneBad
    /\ wired /\ pc \in EndSteps => InByte \in Bytes

\* What a step of the exchanges may be.
Step == [Protocol!Next]_Protocol!vars

LEMMA Stutter ==
  ASSUME UNCHANGED <<failing, offer, got>>, Call' = Call
  PROVE  Step
BY DEF Step, Protocol!vars, Offer, Got, Perfect

LEMMA EmptyIsNotFull == taken = <<>> => Len(taken) # Width
BY SpiAssumption

LEMMA SameBits ==
  ASSUME NEW f \in [1 .. Width -> {0, 1}], NEW g \in [1 .. Width -> {0, 1}],
         \A k \in 1 .. Width : f[k] = g[k]
  PROVE  f = g
<1>1. f = [k \in 1 .. Width |-> f[k]] /\ g = [k \in 1 .. Width |-> g[k]]
  OBVIOUS
<1> QED
  BY <1>1

LEMMA PerfectStart == Init => PerfectAt
BY DEF Init, PerfectAt, Leaked, BitSteps, EndSteps

LEMMA PerfectOpen ==
  ASSUME IInv, PerfectAt, Perfect, NEW mode \in {0, 1}, gpio_open_dev(mode)
  PROVE  PerfectAt' /\ Step
<1>1. /\ pc = "closed" /\ fds' = fds + 1 /\ UNCHANGED <<out, level, taken, failing, offer, got>>
      /\ (pc' = "dir miso") \/ (pc' = "idle" /\ wired' = wired)
  BY DEF gpio_open_dev, slave, IInv, TypeOK
<1>2. Leaked' = 0
  <2>1. fds = 0
    BY <1>1 DEF PerfectAt, Leaked
  <2>2. Leaked' = fds' - 1
    BY <1>1 DEF Leaked
  <2>3. fds' = fds + 1
    BY <1>1
  <2> QED
    BY <2>1, <2>2, <2>3
<1>3. PerfectAt'
  BY <1>1, <1>2 DEF PerfectAt, BitSteps, EndSteps, Selected
<1>4. Call' = Call
  BY <1>1 DEF Call
<1> QED
  BY <1>1, <1>3, <1>4, Stutter

LEMMA PerfectDirect ==
  ASSUME IInv, PerfectAt, Perfect,
         \/ gpio_set_dir("miso", "dir mosi") \/ gpio_set_dir("mosi", "dir csn")
         \/ gpio_set_dir("csn", "dir sck") \/ gpio_set_dir("sck", "low sck")
  PROVE  PerfectAt' /\ Step
<1>1. /\ pc \in DirectSteps /\ pc' \in DirectSteps \cup {"low sck"}
      /\ UNCHANGED <<fds, wired, level, taken, failing, offer, got>>
  <2>1. /\ Direct["miso"] = "dir miso" /\ Direct["mosi"] = "dir mosi"
        /\ Direct["csn"] = "dir csn" /\ Direct["sck"] = "dir sck"
    BY DEF Direct
  <2> QED
    BY <2>1 DEF gpio_set_dir, DirectSteps, Perfect, slave
<1>2. Leaked' = Leaked
  BY <1>1 DEF Leaked, DirectSteps
<1>3. PerfectAt'
  BY <1>1, <1>2 DEF PerfectAt, BitSteps, EndSteps, DirectSteps, Selected
<1>4. Call' = Call
  BY <1>1 DEF Call, DirectSteps, Perfect
<1> QED
  BY <1>1, <1>3, <1>4, Stutter

\* Lowering the clock of a slave that has no bit yet leaves it alone.
LEMMA ClockDownEmpty ==
  ASSUME IInv, Perfect, ClockDown, taken = <<>>
  PROVE  /\ UNCHANGED <<taken, offer, got>>
         /\ level'["csn"] = level["csn"]
         /\ wired /\ out = Outputs => level'["sck"] = 0
<1>1. setGpioValue("sck", 0)
  BY DEF ClockDown, setGpioValueFails, Perfect
<1>2. TypeOK
  BY DEF IInv
<1> QED
  BY <1>1, <1>2, EmptyIsNotFull, DriveDown DEF TypeOK, Outputs

LEMMA PerfectLower ==
  ASSUME IInv, PerfectAt, Perfect, LowerClock \/ LowerSelect \/ LowerData
  PROVE  PerfectAt' /\ Step
<1>1. UNCHANGED <<fds, wired, out, failing>> /\ wired /\ Leaked = 0 /\ taken = <<>> /\ out = Outputs
  <2>1. UNCHANGED <<fds, wired, out, failing>> /\ pc \in LowerSteps
    BY DEF LowerClock, LowerSelect, LowerData, InitLow, Lower, LowerSteps, setup
  <2> QED
    BY <2>1 DEF PerfectAt, IInv, SetupAt, Sound, LowerSteps, DirectSteps, BitSteps
<1>2. CASE LowerClock
  <2>1. pc = "low sck" /\ pc' = "low csn" /\ ClockDown
    BY <1>2 DEF LowerClock, InitLow, Lower, ClockDown
  <2>2. Leaked' = Leaked /\ Call' = Call
    BY <1>1, <2>1 DEF Leaked, Call, Perfect
  <2>3. PerfectAt'
    BY <1>1, <2>1, <2>2, ClockDownEmpty DEF PerfectAt, BitSteps, EndSteps
  <2> QED
    BY <1>1, <2>1, <2>2, <2>3, ClockDownEmpty, Stutter
<1>3. CASE LowerSelect
  <2>1. pc = "low csn" /\ pc' = "low mosi" /\ setGpioValue("csn", 0)
    BY <1>3 DEF LowerSelect, InitLow, Lower, setGpioValueFails, Perfect
  <2>2. level'["sck"] = level["sck"] /\ UNCHANGED <<taken, offer, got>>
    BY <2>1, DriveData DEF IInv
  <2>3. Leaked' = Leaked /\ Call' = Call
    BY <1>1, <2>1 DEF Leaked, Call, Perfect
  <2>4. PerfectAt'
    BY <1>1, <2>1, <2>2, <2>3 DEF PerfectAt, BitSteps, EndSteps
  <2> QED
    BY <1>1, <2>2, <2>3, <2>4, Stutter
<1>4. CASE LowerData
  <2>1. pc = "low mosi" /\ pc' = "idle" /\ DataDriven(0)
    BY <1>4 DEF LowerData, InitLow, Lower, DataDriven
  <2>2. level'["sck"] = level["sck"] /\ level'["csn"] = level["csn"] /\ UNCHANGED <<taken, offer, got>>
    BY <2>1, DataDrivenDoes DEF IInv
  <2>3. Leaked' = Leaked /\ Call' = Call
    BY <1>1, <2>1 DEF Leaked, Call, Perfect
  <2>4. Selected /\ level["sck"] = 0
    BY <1>1, <2>1 DEF PerfectAt, IInv, SetupAt, Sound, DirectSteps, Perfect
  <2>5. PerfectAt'
    BY <1>1, <2>1, <2>2, <2>3, <2>4 DEF PerfectAt, BitSteps, EndSteps, Selected
  <2> QED
    BY <1>1, <2>2, <2>3, <2>5, Stutter
<1> QED
  BY <1>2, <1>3, <1>4

LEMMA PerfectClose ==
  ASSUME IInv, PerfectAt, Perfect, gpio_close_dev
  PROVE  PerfectAt' /\ Step
<1>1. /\ pc = "idle" /\ pc' = "closed" /\ fds' = fds - 1
      /\ UNCHANGED <<wired, out, level, taken, failing, offer, got>>
  BY DEF gpio_close_dev, slave
<1>2. Leaked' = Leaked
  BY <1>1 DEF Leaked
<1>3. PerfectAt'
  BY <1>1, <1>2 DEF PerfectAt, BitSteps, EndSteps, Selected
<1>4. Call' = Call
  BY <1>1 DEF Call
<1> QED
  BY <1>1, <1>3, <1>4, Stutter

LEMMA PerfectCall ==
  ASSUME IInv, PerfectAt, Perfect, NEW byte \in Bytes, spi_send_receive(byte)
  PROVE  PerfectAt' /\ Step
<1>1. /\ pc = "idle" /\ pc' = "mosi" /\ bData' = byte
      /\ clean' = InStep /\ bad' = NoneBad
      /\ UNCHANGED <<fds, wired, out, level, taken, failing, offer, got>>
  BY DEF spi_send_receive, setup, slave
<1>2. Leaked' = Leaked
  BY <1>1 DEF Leaked
<1>3. wired => InStep
  BY <1>1 DEF PerfectAt, InStep, BitSteps
<1>4. PerfectAt'
  BY <1>1, <1>2, <1>3 DEF PerfectAt, BitSteps, EndSteps, Perfect, NoneBad
<1>5. CASE wired
  <2>1. Protocol!Ask(byte)
    BY <1>1, <1>5 DEF Protocol!Ask, Protocol!Idle, Protocol!Asked, Call, Offer, Got, Perfect
  <2> QED
    BY <1>4, <2>1 DEF Step, Protocol!Next
<1>6. CASE ~wired
  <2>1. Call' = Call
    BY <1>1, <1>6 DEF Call
  <2> QED
    BY <1>1, <1>4, <2>1, Stutter
<1> QED
  BY <1>5, <1>6

\* The first three steps of a bit.
LEMMA PerfectBit ==
  ASSUME IInv, PerfectAt, Perfect, PutBit \/ Rise \/ GetBit
  PROVE  PerfectAt' /\ Step
<1>1. /\ pc \in BitSteps /\ pc' \in BitSteps
      /\ UNCHANGED <<fds, wired, out, failing, bData, clean, bad, offer, got>>
      /\ ~wired => UNCHANGED taken
  <2>1. bData[bit] \in {0, 1}
    BY SpiAssumption DEF IInv, TypeOK
  <2>2. CASE PutBit
    <3>1. setGpioValue("mosi", bData[bit])
      BY <2>2 DEF PutBit, setGpioValueFails, Perfect
    <3> QED
      BY <2>1, <2>2, <3>1, DriveData
      DEF IInv, PutBit, BitSteps, setup, master, setGpioValueFails, Perfect
  <2>3. CASE Rise
    <3>1. setGpioValue("sck", 1) /\ UNCHANGED clean
      BY <2>3 DEF Rise, setGpioValueFails, Perfect
    <3>2. ~wired => ~Selected
      BY DEF IInv, SetupAt
    <3> QED
      BY <2>3, <3>1, <3>2, DriveUp DEF IInv, Rise, BitSteps, setup, master
  <2>4. CASE GetBit
    BY <2>4 DEF GetBit, getGpioValueFails, BitSteps, setup, slave, Perfect
  <2> QED
    BY <2>2, <2>3, <2>4
<1>2. Leaked' = Leaked
  BY <1>1 DEF Leaked, BitSteps
<1>3. PerfectAt'
  BY <1>1, <1>2 DEF PerfectAt, BitSteps, EndSteps
<1>4. Call' = Call
  BY <1>1 DEF Call, BitSteps, Perfect
<1> QED
  BY <1>1, <1>3, <1>4, Stutter

\* The last step of a bit, which swaps the bytes when the bit was the last.
LEMMA PerfectFall ==
  ASSUME IInv, PerfectAt, Perfect, Fall
  PROVE  PerfectAt' /\ Step
<1>1. /\ pc = "fall" /\ setGpioValue("sck", 0)
      /\ UNCHANGED <<fds, wired, out, failing, bData, InByte, clean, bad>>
  BY DEF Fall, setup, setGpioValueFails, Perfect
<1>2. TypeOK /\ Width \in Nat \ {0} /\ bit \in 1 .. Width
  BY SpiAssumption DEF IInv, TypeOK
<1>3. (pc' = "mosi" /\ bit < Width) \/ (pc' = "end sck" /\ bit = Width)
  <2>1. ~(bit < Width) => bit = Width
    BY <1>2
  <2> QED
    BY <2>1 DEF Fall
<1>4. Leaked' = Leaked
  BY <1>1, <1>3 DEF Leaked
<1>5. CASE ~wired
  <2>1. taken = <<>>
    BY <1>5 DEF PerfectAt
  <2>2. UNCHANGED <<taken, offer, got>>
    BY <1>1, <2>1, ClockDownEmpty DEF ClockDown
  <2>3. Call' = Call
    BY <1>1, <1>5 DEF Call
  <2>4. PerfectAt'
    BY <1>1, <1>3, <1>4, <1>5, <2>1, <2>2 DEF PerfectAt
  <2> QED
    BY <1>1, <2>2, <2>3, <2>4, Stutter
<1>6. CASE wired
  <2>1. /\ out = Outputs /\ Selected /\ level["sck"] = 1
        /\ Len(taken) = bit
        /\ \A k \in 1 .. bit : taken[k] = bData[k]
        /\ \A k \in 1 .. Width : InByte[k] = IF k > bit THEN 0 ELSE offer[k]
    BY <1>1, <1>6 DEF IInv, DataAt, Edges, Read, BitSteps, PerfectAt, NoneBad
  <2>2. level'["sck"] = 0 /\ level'["csn"] = level["csn"] /\ level' # level
    BY <1>1, <1>2, <1>6, <2>1, DriveDown DEF TypeOK, Outputs
  <2>3. CASE pc' = "mosi" /\ bit < Width
    <3>1. UNCHANGED <<taken, offer, got>>
      <4>1. Len(taken) # Width
        BY <1>2, <2>1, <2>3
      <4> QED
        BY <1>1, <1>2, <4>1, DriveDown
    <3>2. Call' = Call
      BY <1>1, <2>3 DEF Call, Perfect
    <3>3. PerfectAt'
      BY <1>1, <1>4, <1>6, <2>3 DEF PerfectAt, BitSteps, EndSteps
    <3> QED
      BY <1>1, <3>1, <3>2, <3>3, Stutter
  <2>4. CASE pc' = "end sck" /\ bit = Width
    <3>1. taken' = <<>> /\ got' = taken /\ offer' \in Bytes
      BY <1>1, <1>2, <2>1, <2>2, <2>4, DriveDown
    <3>2. taken = bData
      <4>1. Len(taken) = Width /\ \A k \in 1 .. Width : taken[k] = bData[k]
        BY <2>1, <2>4
      <4>2. taken \in [1 .. Width -> {0, 1}]
        BY <1>2, <4>1 DEF TypeOK
      <4>3. bData \in [1 .. Width -> {0, 1}]
        BY <1>2, SpiAssumption DEF TypeOK
      <4> QED
        BY <4>1, <4>2, <4>3, SameBits
    <3>3. InByte = offer
      <4>1. InByte \in [1 .. Width -> {0, 1}] /\ offer \in [1 .. Width -> {0, 1}]
        BY SpiAssumption, <1>2 DEF TypeOK
      <4>2. \A k \in 1 .. Width : ~(k > bit)
        <5>1. bit = Width
          BY <2>4
        <5> QED
          BY <1>2, <5>1
      <4>3. \A k \in 1 .. Width : InByte[k] = offer[k]
        BY <2>1, <4>2
      <4> QED
        BY <4>1, <4>3, SameBits
    <3>4. bData \in Bytes /\ offer \in Bytes
      BY <1>2 DEF TypeOK
    <3>5. PerfectAt'
      BY <1>1, <1>4, <1>6, <2>1, <2>2, <2>4, <3>1, <3>3, <3>4
      DEF PerfectAt, BitSteps, EndSteps, Selected
    <3>6. Protocol!Swap(bData)
      BY <1>1, <1>6, <2>4, <3>1, <3>2, <3>3
      DEF Protocol!Swap, Protocol!Asked, Protocol!Answered, Call, Offer, Got, Perfect
    <3> QED
      BY <3>4, <3>5, <3>6 DEF Step, Protocol!Next
  <2> QED
    BY <1>3, <2>3, <2>4
<1> QED
  BY <1>5, <1>6

\* The two steps after the last bit, the second of which returns the answer.
LEMMA PerfectEnd ==
  ASSUME IInv, PerfectAt, Perfect, EndClock \/ EndData
  PROVE  PerfectAt' /\ Step
<1>1. /\ UNCHANGED <<fds, wired, out, failing>>
      /\ taken = <<>>
      /\ wired => out = Outputs /\ Selected /\ level["sck"] = 0 /\ InByte \in Bytes
      /\ Leaked = 0
  BY DEF EndClock, EndData, setup, PerfectAt, BitSteps, EndSteps
<1>2. CASE EndClock
  <2>1. pc = "end sck" /\ pc' = "end mosi" /\ ClockDown /\ InByte' = InByte
    BY <1>2 DEF EndClock, ClockDown, master
  <2>2. Leaked' = Leaked /\ Call' = Call
    BY <1>1, <2>1 DEF Leaked, Call, Perfect
  <2>3. PerfectAt'
    BY <1>1, <2>1, <2>2, ClockDownEmpty DEF PerfectAt, BitSteps, EndSteps, Selected
  <2> QED
    BY <1>1, <2>1, <2>2, <2>3, ClockDownEmpty, Stutter
<1>3. CASE EndData
  <2>1. pc = "end mosi" /\ pc' = "idle" /\ DataDriven(0)
    BY <1>3 DEF EndData, DataDriven
  <2>2. level'["sck"] = level["sck"] /\ level'["csn"] = level["csn"] /\ UNCHANGED <<taken, offer, got>>
    BY <2>1, DataDrivenDoes DEF IInv
  <2>3. Leaked' = Leaked
    BY <1>1, <2>1 DEF Leaked
  <2>4. PerfectAt'
    BY <1>1, <2>1, <2>2, <2>3 DEF PerfectAt, BitSteps, EndSteps, Selected
  <2>5. CASE wired
    <3>1. Protocol!Return
      BY <1>1, <2>1, <2>2, <2>5
      DEF Protocol!Return, Protocol!Answered, Protocol!Idle, Call, Offer, Got, Perfect
    <3> QED
      BY <2>4, <3>1 DEF Step, Protocol!Next
  <2>6. CASE ~wired
    <3>1. Call' = Call
      BY <1>1, <2>6 DEF Call
    <3> QED
      BY <1>1, <2>2, <2>4, <3>1, Stutter
  <2> QED
    BY <2>5, <2>6
<1> QED
  BY <1>2, <1>3

\* With failures nothing is promised and nothing moves.
LEMMA Imperfect == ~Perfect /\ failing' = failing => PerfectAt' /\ Step
<1> SUFFICES ASSUME ~Perfect, failing' = failing PROVE PerfectAt' /\ Step
  OBVIOUS
<1>1. ~Perfect'
  BY DEF Perfect
<1>2. PerfectAt'
  BY <1>1 DEF PerfectAt
<1>3. UNCHANGED <<Call, Offer, Got>>
  BY <1>1 DEF Call, Offer, Got
<1> QED
  BY <1>2, <1>3 DEF Step, Protocol!vars

LEMMA FailingIsFixed == [Next]_vars => failing' = failing
BY DEF Next, vars, Setup, Exchange, gpio_open_dev, gpio_set_dir, InitLow, gpio_close_dev,
       spi_send_receive, PutBit, Rise, GetBit, Fall, EndClock, EndData, history

LEMMA PerfectKept == IInv /\ PerfectAt /\ [Next]_vars => PerfectAt' /\ Step
<1> SUFFICES ASSUME IInv, PerfectAt, [Next]_vars PROVE PerfectAt' /\ Step
  OBVIOUS
<1>7. failing' = failing
  BY FailingIsFixed
<1>8. CASE ~Perfect
  BY <1>7, <1>8, Imperfect
<1> SUFFICES ASSUME Perfect PROVE PerfectAt' /\ Step
  BY <1>8
<1>1. CASE \E mode \in {0, 1} : gpio_open_dev(mode)
  BY <1>1, PerfectOpen
<1>2. CASE Setup
  BY <1>2, PerfectDirect, PerfectLower DEF Setup, LowerClock, LowerSelect, LowerData
<1>3. CASE gpio_close_dev
  BY <1>3, PerfectClose
<1>4. CASE \E byte \in Bytes : spi_send_receive(byte)
  BY <1>4, PerfectCall
<1>5. CASE Exchange
  BY <1>5, PerfectBit, PerfectFall, PerfectEnd DEF Exchange
<1>6. CASE UNCHANGED vars
  <2>1. PerfectAt'
    BY <1>6 DEF vars, setup, master, slave, history, PerfectAt, Perfect, Leaked, Selected
  <2>2. UNCHANGED <<failing, offer, got>> /\ Call' = Call
    BY <1>6 DEF vars, setup, master, slave, history, Call, Perfect
  <2> QED
    BY <2>1, <2>2, Stutter
<1> QED
  BY <1>1, <1>2, <1>3, <1>4, <1>5, <1>6 DEF Next

LEMMA ProtocolStart == Init => Protocol!Init
<1> SUFFICES ASSUME Init PROVE Protocol!Init
  OBVIOUS
<1>1. Zero \in Bytes
  BY SpiAssumption DEF Zero
<1>2. (CHOOSE b \in Bytes : TRUE) \in Bytes
  BY <1>1
<1> QED
  BY <1>1, <1>2 DEF Init, Protocol!Init, Protocol!Idle, Call, Offer, Got

\* When no ioctl fails, spi_send_receive swaps a byte with the slave, for bytes
\* of any width and any number of calls, opens and closes.
THEOREM CallsSwapBytes == Spec => ImplementsExchange
<1>1. Init /\ IInv => PerfectAt
  BY PerfectStart
<1>2. IInv /\ PerfectAt /\ [Next]_vars => PerfectAt' /\ [Protocol!Next]_Protocol!vars
  BY PerfectKept DEF Step
<1> QED
  BY <1>1, <1>2, ProtocolStart, Invariance, PTL DEF Spec, ImplementsExchange, Protocol!Spec
=============================================================================
