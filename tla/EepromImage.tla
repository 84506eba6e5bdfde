---------------------------- MODULE EepromImage ----------------------------
(***************************************************************************)
(* The image of the configuration EEPROM of an FTDI chip, as built and     *)
(* decoded by ftdi-eeprom/eeprom.c.  A build is the sequence of the byte   *)
(* writes the code makes, in its order, so that a write that lands on an   *)
(* earlier one is seen.  A struct ftdi_eeprom is a record whose one-bit    *)
(* fields are collected in the set flags; a string is a sequence of bytes. *)
(***************************************************************************)
EXTENDS Integers, Sequences, FiniteSets, FiniteSetsExt, Functions

\* What there is while nothing is built, decoded or written.
None == <<>>

\* An int stored in an unsigned char, and one shifted right by eight; the
\* values of an unsigned char and of an unsigned short.
Octets == 0 .. 255
Character == Octets \ {0}
Low(x) == x % 256
High(x) == (x \div 256) % 256
USHRT_MAX == 65535
Shorts == 0 .. USHRT_MAX
Word(low, high) == low + 256 * high

\* enum ftdi_chip_type of libftdi.
TYPE_AM == 0
TYPE_BM == 1
TYPE_2232C == 2
TYPE_R == 3
TYPE_2232H == 4
TYPE_4232H == 5
TYPE_232H == 6

\* Byte 7 of an image of each type, and of any other.
Release(type) == IF type \in TYPE_AM .. TYPE_232H THEN <<2, 4, 5, 6, 7, 8, 9>>[type + 1] ELSE 0

\* The types decode tells apart: TYPE_2232C is not among them.
Decoded == {TYPE_AM, TYPE_BM, TYPE_R, TYPE_2232H, TYPE_4232H, TYPE_232H}

ConfigBits == [remote_wakeup |-> 32, self_powered |-> 64]
ChipBits == [in_is_isochronous |-> 1, out_is_isochronous |-> 2,
             suspend_pull_downs |-> 4, use_serial |-> 8, change_usb_version |-> 16]
Bit(bits, f, flags) == IF f \in flags THEN bits[f] ELSE 0
ConfigByte(flags) ==
  128 + Bit(ConfigBits, "self_powered", flags) + Bit(ConfigBits, "remote_wakeup", flags)
ChipByte(flags) ==
  Bit(ChipBits, "in_is_isochronous", flags) + Bit(ChipBits, "out_is_isochronous", flags)
    + Bit(ChipBits, "suspend_pull_downs", flags) + Bit(ChipBits, "use_serial", flags)
    + Bit(ChipBits, "change_usb_version", flags)
AllFlags == DOMAIN ConfigBits \cup DOMAIN ChipBits
Flags(bits, byte) == {f \in DOMAIN bits : (byte \div bits[f]) % 2 = 1}

\* The structs a builder can be given: its masks need a size that is a power
\* of two, and those of the chips are 128 and 256.
ftdi_eeprom == [
  vendor_id : Nat, product_id : Nat, type : Nat, flags : SUBSET AllFlags, usb_version : Nat,
  max_power : Nat, high_current : Nat, invert : Nat, size : {128, 256}, cbus : [1 .. 5 -> Nat],
  manufacturer : Seq(Character), product : Seq(Character), serial : Seq(Character)]

-----------------------------------------------------------------------------
\* strlen, kept in an unsigned char.
Size(s) == Len(s) % 256
Chars(e) == Size(e.manufacturer) + Size(e.product) + Size(e.serial)

CbusMax == <<13, 13, 13, 13, 9>>

\* Mutated form of Space: ftdi_232h_eeprom_build uses the line it has
\* commented out, the one of ftdi_2232h_eeprom_build.
SpaceOf2232h(v, e) == IF e.size >= 256 THEN 120 ELSE e.size - 28

\* The space a builder believes to have for the strings.
Space(v, e) ==
  CASE v = "232h" -> 80
    [] v = "2232h" -> IF e.size >= 256 THEN 120 ELSE e.size - 28

\* The builder's return value; the output is written only when it is >= 0.
Ret(v, e) ==
  IF \E c \in 1 .. 5 : e.cbus[c] > CbusMax[c] \/ (e.cbus[c] # 0 /\ e.type # TYPE_R) THEN -3
  ELSE IF e.type # TYPE_R /\ e.invert # 0 THEN -4
  ELSE IF e.type # TYPE_R /\ e.high_current # 0 THEN -5
  ELSE Max({-1, Space(v, e) - 2 * Chars(e)})

\* A string in the image: its length, its type and its characters in UTF-16.
Text(s) ==
  <<Low(2 * Size(s) + 2), 3>>
    \o [k \in 1 .. 2 * Size(s) |-> IF k % 2 = 1 THEN s[(k + 1) \div 2] ELSE 0]

\* Written from the unsigned char i on, masked with size - 1, a power of two.
At(i, bytes, size) == [k \in 1 .. Len(bytes) |-> <<((i + k - 1) % 256) % size, bytes[k]>>]

Own(v) ==
  CASE v = "232h" -> <<<<0, 16>>, <<1, 0>>, <<30, 102>>, <<138, 72>>>>
    [] v = "2232h" -> <<<<0, 8>>, <<1, 8>>, <<24, 70>>>>

Fixed(e) ==
  <<<<2, Low(e.vendor_id)>>, <<3, High(e.vendor_id)>>,
    <<4, Low(e.product_id)>>, <<5, High(e.product_id)>>,
    <<6, 0>>, <<7, Release(e.type)>>,
    <<8, ConfigByte(e.flags)>>, <<9, Low(e.max_power)>>,
    <<10, ChipByte(e.flags)>>, <<11, Low(e.invert)>>,
    <<15, Low(2 * Size(e.manufacturer) + 2)>>, <<17, Low(2 * Size(e.product) + 2)>>,
    <<19, Low(2 * Size(e.serial) + 2)>>,
    <<20, e.cbus[1] + 16 * e.cbus[2]>>, <<21, e.cbus[3] + 16 * e.cbus[4]>>,
    <<22, e.cbus[5]>>>>

Version(e) ==
  IF "change_usb_version" \in e.flags
    THEN <<<<12, Low(e.usb_version)>>, <<13, High(e.usb_version)>>>>
    ELSE <<>>

\* Where the strings begin.
Manufacturer(v) == IF v = "232h" THEN 160 ELSE 154
Product(v, e) == Manufacturer(v) + 2 * Size(e.manufacturer) + 2
Serial(v, e) == Product(v, e) + 2 * Size(e.product) + 2
Or128(i) == 128 + (i % 128)

\* The writes of a build but the checksum, in order.
Writes(v, e) ==
  Own(v) \o Fixed(e) \o Version(e)
    \o <<<<14, Manufacturer(v)>>>> \o At(Manufacturer(v), Text(e.manufacturer), e.size)
    \o <<<<16, Or128(Product(v, e))>>>> \o At(Product(v, e), Text(e.product), e.size)
    \o <<<<18, Or128(Serial(v, e))>>>> \o At(Serial(v, e), Text(e.serial), e.size)

\* The last write to a byte holds; memset cleared the others.
WritesTo(writes, a) == {k \in DOMAIN writes : writes[k][1] = a}
Apply(writes, size) ==
  [a \in 0 .. size - 1 \cup {writes[k][1] : k \in DOMAIN writes} |->
     IF WritesTo(writes, a) = {} THEN 0 ELSE writes[Max(WritesTo(writes, a))][2]]

-----------------------------------------------------------------------------
\* An unsigned short as the set of its bits that are one.
TwoTo == <<1, 2, 4, 8, 16, 32, 64, 128, 256, 512, 1024, 2048, 4096, 8192, 16384, 32768>>
Bits(x) == {b \in 0 .. 15 : (x \div TwoTo[b + 1]) % 2 = 1}

\* And back, from the highest bit on.
Short(bits) ==
  LET read[n \in 0 .. 16] ==
        IF n = 0 THEN 0 ELSE 2 * read[n - 1] + (IF 16 - n \in bits THEN 1 ELSE 0)
  IN  read[16]

\* Mutated form of Rotated: the bits shifted out are lost.
ShiftedOut(bits, times) == {b + times : b \in {c \in bits : c + times < 16}}

\* Rotated left by one, times times.
Rotated(bits, times) == {(b + times) % 16 : b \in bits}

\* The checksum of the first n words.  Each round of the loop adds a word to
\* the sum by exclusive or and rotates it, so at the end word i has been
\* rotated n - i times and the initial 0xAAAA, here at n, as often as there are
\* rounds.  A bit of the sum is one when an odd number of them have it.
Turned(buf, n, i) ==
  IF i = n THEN Rotated(Bits(43690), n)
  ELSE Rotated(Bits(Word(buf[2 * i], buf[2 * i + 1])), n - i)
Ones(buf, n) == UNION {{<<i, b>> : b \in Turned(buf, n, i)} : i \in 0 .. n}
Sum(buf, n) ==
  LET ones == Ones(buf, n)
  IN  {b \in 0 .. 15 : Cardinality({one \in ones : one[2] = b}) % 2 = 1}

\* The checksum of all words but the last.
Checksum(buf, size) == Short(Sum(buf, size \div 2 - 1))

Build(v, e) ==
  LET buf == Apply(Writes(v, e), e.size)
      sum == Checksum(buf, e.size)
  IN  [buf EXCEPT ![e.size - 2] = Low(sum), ![e.size - 1] = High(sum)]

-----------------------------------------------------------------------------
\* Mutated form of Length: without the NUL that is to end the string.
LengthOfText(buf, a) == (buf[a + 1] - 2) \div 2

\* Mutated form of Length: in bytes.
LengthInBytes(buf, a) == buf[a + 1]

\* The bytes of the string whose offset is at address a and length at a + 1.
Length(buf, a) == buf[a + 1] \div 2
TextAt(buf, a) == [j \in 1 .. Length(buf, a) - 1 |-> 2 * j + buf[a]]
Strings == {14, 16, 18}

\* What printf shows of them: everything before the first NUL.
Shown(s) ==
  LET end == Min({Len(s)} \cup {k - 1 : k \in {j \in 1 .. Len(s) : s[j] = 0}})
  IN  SubSeq(s, 1, end)

\* A string of length byte 0 or 1 is not allocated, and its terminating NUL
\* is written all the same; a string may be read past the end of the buffer.
NullText(buf) == \E a \in Strings : Length(buf, a) = 0
PastEnd(buf) == \E a \in Strings : \E j \in DOMAIN TextAt(buf, a) : TextAt(buf, a)[j] > 255

\* ftdi_66eeprom_decode of 256 bytes without such a fault.
Decode(buf) ==
  LET string(a) == Shown([j \in DOMAIN TextAt(buf, a) |-> buf[TextAt(buf, a)[j]]])
      types == {t \in Decoded : buf[6] = 0 /\ Release(t) = buf[7]}
      type == IF types = {} THEN TYPE_AM ELSE CHOOSE t \in types : TRUE
      flags == Flags(ConfigBits, buf[8]) \cup Flags(ChipBits, buf[10])
      nibbles == <<buf[20] % 16, buf[20] \div 16, buf[21] % 16, buf[21] \div 16, buf[22] % 16>>
  IN  [type |-> type, flags |-> flags, size |-> 0,
       high_current |-> 16 * ((buf[2] \div 16) % 2),
       vendor_id |-> Word(buf[2], buf[3]), product_id |-> Word(buf[4], buf[5]),
       max_power |-> buf[9], invert |-> buf[11],
       usb_version |-> IF "change_usb_version" \in flags THEN Word(buf[12], buf[13]) ELSE 0,
       cbus |-> IF type = TYPE_R THEN nibbles ELSE <<0, 0, 0, 0, 0>>,
       manufacturer |-> string(14), product |-> string(16), serial |-> string(18)]

\* decode returns 0.
Verifies(buf) == Word(buf[254], buf[255]) = Checksum(buf, 256)
=============================================================================
