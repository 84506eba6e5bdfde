---------------------------- MODULE ByteExchange ----------------------------
(***************************************************************************)
(* What gpio-spi/spi_gpio.c promises: each call of spi_send_receive swaps  *)
(* one byte with the slave, in a single step between the call and its      *)
(* return.                                                                 *)
(***************************************************************************)
CONSTANT Bytes

VARIABLES
  call,        \* the state of the caller: idle, asked or answered, and its byte
  offer,       \* the byte the slave will send
  got          \* the byte the slave received last

vars == <<call, offer, got>>

Idle == <<"idle">>
Asked(b) == <<"asked", b>>
Answered(b) == <<"answered", b>>

Init ==
  /\ call = Idle
  /\ offer \in Bytes /\ got \in Bytes

Ask(b) ==
  /\ call = Idle
  /\ call' = Asked(b)
  /\ UNCHANGED <<offer, got>>

Swap(b) ==
  /\ call = Asked(b)
  /\ call' = Answered(offer)
  /\ got' = b
  /\ offer' \in Bytes

Return ==
  /\ call \in {Answered(b) : b \in Bytes}
  /\ call' = Idle
  /\ UNCHANGED <<offer, got>>

Next == Return \/ \E b \in Bytes : Ask(b) \/ Swap(b)

Spec == Init /\ [][Next]_vars
=============================================================================
