---------------------------- MODULE EepromBuild ----------------------------
(***************************************************************************)
(* The two builders of ftdi-eeprom/eeprom.c applied to a struct, and       *)
(* ftdi_66eeprom_decode applied to what they built.                        *)
(***************************************************************************)
EXTENDS EepromImage

CONSTANT Inputs        \* the pairs <<builder, struct ftdi_eeprom>> to try

ASSUME InputsAssumption == Inputs \subseteq {"232h", "2232h"} \X ftdi_eeprom

VARIABLES pc, builder, eeprom, ret, output, decoded
buildVars == <<pc, builder, eeprom, ret, output, decoded>>

BuildInit ==
  /\ \E i \in Inputs : builder = i[1] /\ eeprom = i[2]
  /\ pc = "build" /\ ret = 0 /\ output = None /\ decoded = None

ftdi_eeprom_build ==
  /\ pc = "build" /\ pc' = "decode"
  /\ ret' = Ret(builder, eeprom)
  /\ output' = IF ret' >= 0 THEN Build(builder, eeprom) ELSE None
  /\ UNCHANGED <<builder, eeprom, decoded>>

\* decode takes every image for one of 256 bytes.
ftdi_66eeprom_decode ==
  /\ pc = "decode" /\ pc' = "done"
  /\ output # None /\ eeprom.size = 256
  /\ ~NullText(output) /\ ~PastEnd(output)
  /\ decoded' = Decode(output)
  /\ UNCHANGED <<builder, eeprom, ret, output>>

BuildNext == ftdi_eeprom_build \/ ftdi_66eeprom_decode
BuildSpec == BuildInit /\ [][BuildNext]_buildVars

-----------------------------------------------------------------------------
\* What survives a build and a decode: not the size, not high_current, not
\* the type TYPE_2232C, the USB version only when it is to be changed, of a
\* number what fits its bytes, and of a string what the builder takes for it.
Kept(e) == [e EXCEPT
  !.size = 0,
  !.high_current = decoded.high_current,
  !.type = IF @ \in Decoded THEN @ ELSE TYPE_AM,
  !.vendor_id = @ % 65536, !.product_id = @ % 65536,
  !.max_power = Low(@), !.invert = Low(@),
  !.usb_version = IF "change_usb_version" \in e.flags THEN @ % 65536 ELSE 0,
  !.manufacturer = SubSeq(@, 1, Size(@)),
  !.product = SubSeq(@, 1, Size(@)),
  !.serial = SubSeq(@, 1, Size(@))]

\* The addresses a build writes, with those of the checksum.
Addresses ==
  LET writes == Writes(builder, eeprom)
  IN  [k \in 1 .. Len(writes) |-> writes[k][1]] \o <<eeprom.size - 2, eeprom.size - 1>>

\* ftdi_232h_eeprom_build reserves enough space: what it accepts is laid out
\* without a byte written twice.  And decoding an image of 256 bytes meets no
\* fault, gives the struct it was built from and finds the checksum right, for
\* every struct that ftdi_232h_eeprom_build takes and for those with at most 47
\* characters that ftdi_2232h_eeprom_build takes.
BuiltIsDecoded ==
  output # None =>
    /\ builder = "232h" => IsInjective(Addresses)
    /\ eeprom.size = 256 /\ (builder = "232h" \/ Chars(eeprom) <= 47) =>
         /\ ~NullText(output) /\ ~PastEnd(output)
         /\ decoded # None => decoded = Kept(eeprom) /\ Verifies(output)

\* The comment "28 are always in use (fixed)" (eeprom.c:275): what
\* ftdi_2232h_eeprom_build accepts is laid out without a byte written twice.
FixedSpaceIsEnough ==
  builder = "2232h" /\ output # None => IsInjective(Addresses)
=============================================================================
