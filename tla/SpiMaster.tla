----------------------------- MODULE SpiMaster ------------------------------
(***************************************************************************)
(* gpio-spi/spi_gpio.c: a SPI master made of GPIO pins, every pin access   *)
(* one ioctl.  The results of the ioctls that drive and read pins are      *)
(* printed and dropped: a failed one leaves the pin as it was, or reads as *)
(* a low line.                                                             *)
(*                                                                         *)
(* The file has no main; its caller is external: it opens the device,      *)
(* exchanges bytes and closes it, again and again.  So is the slave: while *)
(* CSN is low it samples MOSI when the clock rises and presents its next   *)
(* bit when it falls, most significant bit first.                          *)
(***************************************************************************)
EXTENDS Integers, Sequences

CONSTANTS
  Width,       \* bits of a byte (8)
  Bytes,       \* bytes the caller and the slave send; index 1 is bit 0x80
  Failures,    \* sets of ioctls, one of which may fail now and then
  MaxFds       \* descriptors of the process (a bound)

Outputs == {"sck", "csn", "mosi"}

ASSUME SpiAssumption ==
  /\ Width \in Nat \ {0} /\ MaxFds \in Nat \ {0}
  /\ Bytes \subseteq [1 .. Width -> {0, 1}]
  /\ [k \in 1 .. Width |-> 0] \in Bytes
  /\ Failures \subseteq SUBSET (Outputs \cup {"read", "direction"})

VARIABLES
  pc,          \* the next ioctl of the caller's thread
  fds,         \* open descriptors, those that failed calls left open included
  wired,       \* the spi_ globals hold the four pin numbers, not 0
  out,         \* pins directed out
  spi,         \* history: the last open was that of the SPI pins, mode 0
  level,       \* of the output pins
  bit, bData, InByte,
  taken,       \* bits the slave has sampled of the present byte
  offer,       \* the byte the slave is sending
  got,         \* the last byte the slave took
  failing,     \* the ioctls that may fail in this behaviour
  clean,       \* history: this exchange began in step and lost no clock edge
  bad,         \* history: bits of this exchange whose MOSI or MISO call failed
  lost         \* history: clock edges that never reached the pin, modulo Width

setup == <<fds, wired, out, spi>>
master == <<bit, bData, InByte>>
slave == <<taken, offer, got>>
history == <<clean, bad, lost>>
vars == <<pc, setup, level, master, slave, failing, history>>

Zero == [k \in 1 .. Width |-> 0]
NoneBad == [mosi |-> {}, miso |-> {}]
Selected == level["csn"] = 0

Init ==
  /\ pc = "closed" /\ fds = 0 /\ wired = FALSE /\ out = {} /\ spi = FALSE
  /\ level \in {l \in [Outputs -> {0, 1}] : l["csn"] = 1}
  /\ bit = 1 /\ bData = Zero /\ InByte = Zero
  /\ taken = <<>> /\ offer \in Bytes /\ got = Zero
  /\ failing \in Failures
  /\ clean = FALSE /\ bad = NoneBad /\ lost = 0

-----------------------------------------------------------------------------
(* The slave.                                                              *)

\* The bit on MISO.
Presented ==
  IF level["sck"] = 1 /\ taken # <<>> THEN offer[Len(taken)]
  ELSE offer[Len(taken) + 1]

\* What the slave does when the levels become new.
SlaveSees(new) ==
  LET rises == Selected /\ level["sck"] = 0 /\ new["sck"] = 1
      falls == Selected /\ level["sck"] = 1 /\ new["sck"] = 0
  IN \/ /\ rises
        /\ taken' = Append(taken, level["mosi"])
        /\ UNCHANGED <<offer, got>>
     \/ /\ falls /\ Len(taken) = Width
        /\ taken' = <<>>
        /\ got' = taken
        /\ offer' \in Bytes
     \/ /\ ~rises /\ ~(falls /\ Len(taken) = Width)
        /\ UNCHANGED slave

-----------------------------------------------------------------------------
(* The ioctls.                                                             *)

\* setGpioValue with gpio_set_int or gpio_clear_int.  With the globals still
\* 0 it is GPIO 0 that is driven.
setGpioValue(pin, value) ==
  /\ level' = IF wired /\ pin \in out THEN [level EXCEPT ![pin] = value] ELSE level
  /\ SlaveSees(level')

\* The ioctl fails, and nobody is told.
setGpioValueFails(pin) ==
  /\ pin \in failing
  /\ UNCHANGED <<level, slave>>

\* Mutated form of getGpioValue: a low line is taken for a high one.
getGpioValueInverted ==
  IF wired /\ Selected THEN {1 - Presented} ELSE {0, 1}

\* getGpioValue: an unconnected line may read as anything.
getGpioValue ==
  IF wired /\ Selected THEN {Presented} ELSE {0, 1}

\* gpio_read_int clears the value before the ioctl.
getGpioValueFails == "read" \in failing

-----------------------------------------------------------------------------
(* gpio_open_dev and gpio_close_dev.                                       *)

\* Without a descriptor left, open fails and nothing is changed.  A mode other
\* than 0 returns the descriptor and touches no pin.
gpio_open_dev(mode) ==
  /\ pc = "closed" /\ fds < MaxFds
  /\ fds' = fds + 1
  /\ pc' = IF mode = 0 THEN "dir miso" ELSE "idle"
  /\ wired' = (wired \/ mode = 0)
  /\ spi' = (mode = 0)
  /\ UNCHANGED <<out, level, master, slave, failing, history>>

\* The steps of the setup.
Direct == [miso |-> "dir miso", mosi |-> "dir mosi", csn |-> "dir csn", sck |-> "dir sck"]
Lower == [sck |-> "low sck", csn |-> "low csn", mosi |-> "low mosi"]

\* Mutated form of gpio_set_dir: a failure is not looked at.
gpio_set_dir_unchecked(pin, next) ==
  /\ pc = Direct[pin]
  /\ \/ out' = out \cup ({pin} \cap Outputs)
     \/ "direction" \in failing /\ UNCHANGED out
  /\ pc' = next
  /\ UNCHANGED <<fds, wired, spi, level, master, slave, failing, history>>

\* A failure makes gpio_open_dev return -1 with the descriptor open.
gpio_set_dir(pin, next) ==
  /\ pc = Direct[pin]
  /\ \/ out' = out \cup ({pin} \cap Outputs) /\ pc' = next
     \/ "direction" \in failing /\ pc' = "closed" /\ UNCHANGED out
  /\ UNCHANGED <<fds, wired, spi, level, master, slave, failing, history>>

InitLow(pin, next) ==
  /\ pc = Lower[pin]
  /\ setGpioValue(pin, 0) \/ setGpioValueFails(pin)
  /\ pc' = next
  /\ UNCHANGED <<setup, master, failing, history>>

Setup ==
  \/ gpio_set_dir("miso", "dir mosi") \/ gpio_set_dir("mosi", "dir csn")
  \/ gpio_set_dir("csn", "dir sck") \/ gpio_set_dir("sck", "low sck")
  \/ InitLow("sck", "low csn") \/ InitLow("csn", "low mosi") \/ InitLow("mosi", "idle")

gpio_close_dev ==
  /\ pc = "idle"
  /\ pc' = "closed" /\ fds' = fds - 1
  /\ UNCHANGED <<wired, out, spi, level, master, slave, failing, history>>

-----------------------------------------------------------------------------
(* spi_send_receive.                                                       *)

InStep == wired /\ out = Outputs /\ Selected /\ level["sck"] = 0 /\ taken = <<>>

spi_send_receive(byte) ==
  /\ pc = "idle"
  /\ pc' = "mosi"
  /\ bData' = byte /\ InByte' = Zero /\ bit' = 1
  /\ clean' = InStep /\ bad' = NoneBad
  /\ UNCHANGED <<setup, level, slave, failing, lost>>

\* Mutated form of PutBit: the least significant bit goes first.
PutBitLsbFirst ==
  /\ pc = "mosi" /\ pc' = "rise"
  /\ \/ setGpioValue("mosi", bData[Width + 1 - bit]) /\ UNCHANGED bad
     \/ setGpioValueFails("mosi") /\ bad' = [bad EXCEPT !.mosi = @ \cup {bit}]
  /\ UNCHANGED <<setup, master, failing, clean, lost>>

PutBit ==
  /\ pc = "mosi" /\ pc' = "rise"
  /\ \/ setGpioValue("mosi", bData[bit]) /\ UNCHANGED bad
     \/ setGpioValueFails("mosi") /\ bad' = [bad EXCEPT !.mosi = @ \cup {bit}]
  /\ UNCHANGED <<setup, master, failing, clean, lost>>

\* An edge is lost to the slave when the call fails or finds the clock high.
Rise ==
  /\ pc = "rise" /\ pc' = "read"
  /\ \/ setGpioValue("sck", 1) /\ UNCHANGED clean
     \/ setGpioValueFails("sck") /\ clean' = FALSE
  /\ lost' = IF wired /\ Selected /\ level' = level THEN (lost + 1) % Width ELSE lost
  /\ UNCHANGED <<setup, master, failing, bad>>

GetBit ==
  /\ pc = "read" /\ pc' = "fall"
  /\ \/ /\ \E v \in getGpioValue : InByte' = [InByte EXCEPT ![bit] = v]
        /\ UNCHANGED bad
     \/ /\ getGpioValueFails
        /\ bad' = [bad EXCEPT !.miso = @ \cup {bit}]
        /\ UNCHANGED InByte
  /\ UNCHANGED <<setup, level, bit, bData, slave, failing, clean, lost>>

\* Mutated form of Fall: the loop ends one bit early.
FallEndingEarly ==
  /\ pc = "fall"
  /\ \/ setGpioValue("sck", 0) /\ UNCHANGED clean
     \/ setGpioValueFails("sck") /\ clean' = FALSE
  /\ IF bit < Width - 1 THEN pc' = "mosi" /\ bit' = bit + 1
                        ELSE pc' = "end sck" /\ UNCHANGED bit
  /\ UNCHANGED <<setup, bData, InByte, failing, bad, lost>>

Fall ==
  /\ pc = "fall"
  /\ \/ setGpioValue("sck", 0) /\ UNCHANGED clean
     \/ setGpioValueFails("sck") /\ clean' = FALSE
  /\ IF bit < Width THEN pc' = "mosi" /\ bit' = bit + 1
                    ELSE pc' = "end sck" /\ UNCHANGED bit
  /\ UNCHANGED <<setup, bData, InByte, failing, bad, lost>>

\* The clock is cleared once more.
EndClock ==
  /\ pc = "end sck" /\ pc' = "end mosi"
  /\ setGpioValue("sck", 0) \/ setGpioValueFails("sck")
  /\ UNCHANGED <<setup, master, failing, history>>

\* MOSI is cleared, CSN stays low, and the locals end with the call.
EndData ==
  /\ pc = "end mosi" /\ pc' = "idle"
  /\ setGpioValue("mosi", 0) \/ setGpioValueFails("mosi")
  /\ bit' = 1 /\ bData' = Zero /\ InByte' = Zero
  /\ clean' = FALSE /\ bad' = NoneBad
  /\ UNCHANGED <<setup, failing, lost>>

Exchange == PutBit \/ Rise \/ GetBit \/ Fall \/ EndClock \/ EndData

Next ==
  \/ \E mode \in {0, 1} : gpio_open_dev(mode)
  \/ Setup \/ gpio_close_dev
  \/ \E byte \in Bytes : spi_send_receive(byte)
  \/ Exchange

Spec == Init /\ [][Next]_vars

-----------------------------------------------------------------------------
(* Properties.                                                             *)

\* As long as the clock works, a failed data call damages at most its own
\* bit: MOSI keeps an old level for that bit, and a failed read is a zero.
DataErrorsStayInTheirBit ==
  pc = "fall" /\ clean =>
    /\ Len(taken) = bit
    /\ \A k \in 1 .. bit :
         /\ k \notin bad.mosi => taken[k] = bData[k]
         /\ InByte[k] = IF k \in bad.miso THEN 0 ELSE offer[k]

\* A clock edge swallowed by a failed call puts master and slave out of step
\* by one bit for good: as CSN is never raised (its calls are commented out,
\* spi_gpio.c:297 and 315), neither the next exchange nor closing and opening
\* again brings them back; only further lost edges can.
StepIsLostForGood ==
  pc = "idle" /\ Selected => (Len(taken) + lost) % Width = 0

\* An open of the SPI pins that succeeds leaves them driven and the slave
\* selected, unless the call that selects failed unnoticed: whatever setups
\* failed before it, and whatever descriptors and pins they left.  So does an
\* open in another mode behind it, as long as no descriptor was left open;
\* after a setup that failed, an exchange may drive pins that are still inputs
\* (spi_gpio.c:60) only when the open before it was in another mode.
OpenedIsReady ==
  pc = "idle" /\ wired /\ (spi \/ fds = 1) =>
    out = Outputs /\ (Selected \/ "csn" \in failing)

Perfect == failing = {}

\* What the caller sees of the exchanges, as long as no ioctl fails.
Call ==
  IF ~Perfect \/ ~wired THEN <<"idle">>
  ELSE IF pc \in {"mosi", "rise", "read", "fall"} THEN <<"asked", bData>>
  ELSE IF pc \in {"end sck", "end mosi"} THEN <<"answered", InByte>>
  ELSE <<"idle">>

Offer == IF Perfect THEN offer ELSE CHOOSE b \in Bytes : TRUE
Got == IF Perfect THEN got ELSE CHOOSE b \in Bytes : TRUE

Protocol == INSTANCE ByteExchange WITH call <- Call, offer <- Offer, got <- Got

\* When no ioctl fails, each call swaps one byte with the slave.
ImplementsExchange == Protocol!Spec
=============================================================================
