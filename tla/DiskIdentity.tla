---------------------------- MODULE DiskIdentity ----------------------------
(***************************************************************************)
(* hdmbr/mbr.c and main.c: the identity and the capacity of a disk, from   *)
(* the words it answers to an identify command.                            *)
(*                                                                         *)
(* The numbers of the code are constants here: 2^16, 512, 1000 and 10^9.   *)
(***************************************************************************)
EXTENDS Naturals, Sequences, FiniteSetsExt

CONSTANTS
  Word16,        \* the number of values of a word (2^16)
  SectorSize,    \* 512
  Thousand,      \* 1000
  Groups,        \* of digits that are printed at most (7)
  Giga           \* 10^9

\* A uint64_t holds four words.
Word64 == Word16 * Word16 * Word16 * Word16

\* The powers of 1000.
ThousandTo[n \in 0 .. Groups] == IF n = 0 THEN 1 ELSE ThousandTo[n - 1] * Thousand

\* Groups are just enough for a uint64_t.
ASSUME DiskAssumption ==
  /\ {Word16, SectorSize, Thousand, Groups, Giga} \subseteq Nat \ {0}
  /\ Thousand > 1
  /\ ThousandTo[Groups - 1] < Word64 /\ Word64 <= ThousandTo[Groups]

Nul == 0
Blank == 32

-----------------------------------------------------------------------------
(* Names.  A drive puts the first of two characters in the high byte of a  *)
(* word, which is the second byte in memory.                               *)

copyWordEndianString(source, len) ==
  [k \in 1 .. 2 * len + 1 |->
     IF k > 2 * len THEN Nul ELSE IF k % 2 = 1 THEN source[k + 1] ELSE source[k - 1]]

StrLen(buf) == Min({k \in DOMAIN buf : buf[k] = Nul}) - 1
CString(buf) == SubSeq(buf, 1, StrLen(buf))

FrontSpaces(buf) ==
  Min({k \in 1 .. StrLen(buf) : buf[k] # Blank} \cup {StrLen(buf) + 1}) - 1

\* Mutated form of RearSpaces: a space inside the name is not forgotten when
\* a character follows.
RearSpacesNotReset(buf) ==
  Cardinality({k \in FrontSpaces(buf) + 1 .. StrLen(buf) : buf[k] = Blank})

\* The spaces behind the last other character, none when there is none.
RearSpaces(buf) ==
  IF FrontSpaces(buf) = StrLen(buf) THEN 0
  ELSE StrLen(buf) - Max({k \in 1 .. StrLen(buf) : buf[k] # Blank})

\* The rear is cut first; then what is left, its terminator included, moves
\* down by the spaces in front.
stringTrimSpace(buf) ==
  LET i     == StrLen(buf)
      front == FrontSpaces(buf)
      rear  == RearSpaces(buf)
      cut   == IF rear = 0 THEN buf ELSE [buf EXCEPT ![i - rear + 1] = Nul]
  IN  IF front = 0 THEN cut
      ELSE [k \in DOMAIN buf |-> IF k <= i - front THEN cut[k + front]
                                 ELSE IF k = i - front + 1 THEN Nul ELSE cut[k]]

-----------------------------------------------------------------------------
(* Capacity.  The words of a drive are a record: lba is bit 9 of word 49,  *)
(* valid bits 15 and 14 of word 83 and wide its bit 10; w60 and w61, w100  *)
(* to w103 are counts of sectors.                                          *)

get_num_sectors(drive) ==
  LET lba32 == drive.w61 * Word16 + drive.w60
      lba64 == IF drive.valid = 1 /\ drive.wide
               THEN ((drive.w103 * Word16 + drive.w102) * Word16
                       + drive.w101) * Word16 + drive.w100
               ELSE 0
  IN  IF ~drive.lba THEN 0 ELSE Max({lba32, lba64})

Capacity(drive) == (get_num_sectors(drive) * SectorSize) % Word64

\* What the groups in front of each leave of the capacity, and the groups.
Left(capacity) ==
  LET left[k \in 0 .. Groups] ==
        IF k = 0 THEN capacity ELSE left[k - 1] % ThousandTo[Groups - k]
  IN  left
Group(capacity, k) == Left(capacity)[k] \div ThousandTo[Groups - 1 - k]

\* The groups that determine_capacity prints: from the first that is not zero,
\* and the last in any case.
Digits(capacity) ==
  LET started == Min({k \in 0 .. Groups - 1 : Group(capacity, k) > 0} \cup {Groups - 1})
  IN  [n \in 1 .. Groups - started |-> Group(capacity, started + n - 1)]

-----------------------------------------------------------------------------
(* The program.                                                            *)

\* EIO, for whatever errno a failed call leaves.
Errno == 5

\* The identify command, and the one for packet devices if it fails.
readMBR(opens, identifies) ==
  IF ~opens \/ identifies \notin {"identify", "pidentify"} THEN Errno ELSE 0

TrimmedName(source) ==
  CString(stringTrimSpace(copyWordEndianString(source, Len(source) \div 2)))

\* main prints the error, or the three names and the gigabytes.
PrintDisk(opens, identifies, names, drive) ==
  IF readMBR(opens, identifies) # 0 THEN [ret |-> readMBR(opens, identifies)]
  ELSE [ret |-> 0,
        names |-> [n \in DOMAIN names |-> TrimmedName(names[n])],
        digits |-> Digits(Capacity(drive)),
        size |-> Capacity(drive) \div Giga]
=============================================================================
