---------------------------- MODULE EepromTool -----------------------------
(***************************************************************************)
(* The command line tool of ftdi-eeprom/eeprom.c: a sequence of runs of    *)
(* it on one device.  Each run is one command; what lasts is the EEPROM.   *)
(* libftdi is external: its transfers go word by word and may stop after   *)
(* any of them, and the tool looks at the result of none.                  *)
(***************************************************************************)
EXTENDS EepromImage

CONSTANTS
  Serials,     \* arguments of write_serial, sequences of characters
  Places,      \* word addresses read and written singly
  Values,      \* words written singly
  Cuts,        \* after how many words a transfer may stop
  Contents,    \* what a device may hold when the tool first meets it
  MaxWrites    \* bound on the words written singly since the last whole image

VARIABLES
  memory,      \* the 128 words of the EEPROM
  told,        \* what the last command told its user
  found,       \* history: the words that were found in it
  image,       \* history: the words of the last whole image written, or None
  serial,      \* history: its serial number
  singles      \* history: the words written singly since

Words == 0 .. 127

ASSUME ToolAssumption ==
  /\ Serials \subseteq Seq(Character)
  /\ Places \subseteq Words /\ Values \subseteq Int /\ Cuts \subseteq Words
  /\ Contents \subseteq [Words -> Shorts]

toolVars == <<memory, told, found, image, serial, singles>>

Erased == [w \in Words |-> 65535]

Bytes(m) == [a \in 0 .. 255 |-> IF a % 2 = 0 THEN Low(m[a \div 2]) ELSE High(m[a \div 2])]
ToWords(buf) == [w \in Words |-> Word(buf[2 * w], buf[2 * w + 1])]

\* What default232H_EEPROM fills in: "FTDI" and "USB <-> Serial Converter".
default232H_EEPROM == [
  vendor_id |-> 1027, product_id |-> 24596, type |-> TYPE_232H,
  flags |-> {"use_serial"}, usb_version |-> 0, max_power |-> 50,
  high_current |-> 0, invert |-> 0, size |-> 256, cbus |-> <<0, 0, 0, 0, 0>>,
  manufacturer |-> <<70, 84, 68, 73>>,
  product |-> <<85, 83, 66, 32, 60, 45, 62, 32, 83, 101, 114, 105, 97, 108, 32,
                67, 111, 110, 118, 101, 114, 116, 101, 114>>,
  serial |-> <<>>]

\* The digits, A to F, and a to e.
Hex == (48 .. 57) \cup (65 .. 70) \cup (97 .. 101)

\* The length is kept in a char; twelve characters are looked at and used.
Accepted(n) == Len(n) % 256 = 12 /\ \A k \in 1 .. 12 : n[k] \in Hex

Struct(n) == [default232H_EEPROM EXCEPT !.serial = SubSeq(n, 1, 12)]
\* The numbers write_serial takes, each with the image built for it.
Images == {[number |-> n, words |-> ToWords(Build("232h", Struct(n)))] :
             n \in {m \in Serials : Accepted(m)}}

\* Another tool, or this one, may have programmed the device before.
ToolInit ==
  /\ found \in Contents /\ memory = found
  /\ told = [command |-> "none"]
  /\ image = None /\ serial = <<>> /\ singles = {}

-----------------------------------------------------------------------------
Help ==
  /\ told' = [command |-> "help"]
  /\ UNCHANGED <<memory, found, image, serial, singles>>

\* value stays uninitialized when the transfer fails.
Read(w) ==
  /\ told' \in {[command |-> "read", word |-> w, value |-> v] : v \in {memory[w], -1}}
  /\ UNCHANGED <<memory, found, image, serial, singles>>

\* eeprom_buf is zero where the transfer of n words did not reach.
ReadAll(n) ==
  LET buf == Bytes([w \in Words |-> IF w < n THEN memory[w] ELSE 0])
      fault == IF NullText(buf) THEN "null" ELSE IF PastEnd(buf) THEN "past end" ELSE "no"
  IN  /\ told' =
           [command |-> "readall", words |-> n, fault |-> fault,
            verified |-> fault = "no" /\ Verifies(buf),
            shown |-> IF fault = "no" THEN Decode(buf) ELSE None]
      /\ UNCHANGED <<memory, found, image, serial, singles>>

Erase ==
  /\ \/ memory' = Erased /\ singles' = {}
     \/ UNCHANGED <<memory, singles>>
  /\ told' = [command |-> "erase"]
  /\ UNCHANGED <<found, image, serial>>

Write(w, v) ==
  /\ Cardinality(singles \cup {w}) <= MaxWrites
  /\ \/ memory' = [memory EXCEPT ![w] = v % 65536] /\ singles' = singles \cup {w}
     \/ UNCHANGED <<memory, singles>>
  /\ told' = [command |-> "write"]
  /\ UNCHANGED <<found, image, serial>>

\* The user is told of success whatever ftdi_write_eeprom returned.
WriteSerial(new, n) ==
  /\ memory' = [w \in Words |-> IF w < n THEN new.words[w] ELSE memory[w]]
  /\ told' = [command |-> "write_serial", image |-> new.words]
  /\ UNCHANGED found
  /\ IF n = 128
       THEN image' = new.words /\ serial' = new.number /\ singles' = {}
       ELSE UNCHANGED <<image, serial, singles>>

WriteSerialRejected(number) ==
  /\ ~Accepted(number)
  /\ told' = [command |-> "write_serial help", number |-> number]
  /\ UNCHANGED <<memory, found, image, serial, singles>>

ToolNext ==
  \/ Help \/ Erase
  \/ \E w \in Places : Read(w) \/ \E v \in Values : Write(w, v)
  \/ \E n \in Cuts \cup {128} : ReadAll(n) \/ \E new \in Images : WriteSerial(new, n)
  \/ \E number \in Serials : WriteSerialRejected(number)

ToolSpec == ToolInit /\ [][ToolNext]_toolVars

-----------------------------------------------------------------------------
Complete == told.command = "readall" /\ told.words = 128

\* Where the last complete image stands untouched, readall finds its checksum
\* right and shows the serial number that was written.
WrittenIsShown ==
  Complete /\ image # None /\ memory = image
    => told.verified /\ told.shown.serial = SubSeq(serial, 1, 12)

\* When a single word of it has changed, readall does not verify it.
DamageIsNoticed ==
  Complete /\ image # None /\ Cardinality({w \in Words : memory[w] # image[w]}) = 1
    => ~told.verified

\* readall dereferences NULL (eeprom.c:616-632) only when the transfer
\* stopped short, or the word of a length is one that was written singly or
\* one without a length that was found in the device; no erasing and no
\* image, cut off wherever, leaves such a word.  It reads past its buffer only
\* when the EEPROM does not hold a whole image.
FaultsNeedDamage ==
  told.command = "readall" =>
    /\ told.fault = "null" =>
         ~Complete \/ \E w \in {7, 8, 9} :
                        w \in singles \/ (memory[w] = found[w] /\ High(found[w]) < 2)
    /\ told.fault = "past end" => memory # image
=============================================================================
