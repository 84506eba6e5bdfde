--------------------------- MODULE SmallPrograms ---------------------------
(***************************************************************************)
(* The programs of token and hdmbr, each of which computes once from its   *)
(* input and prints: the input, the step and what must hold of the         *)
(* outcome.                                                                *)
(***************************************************************************)
EXTENDS TokenSplitter, DiskIdentity

CONSTANTS
  TokenInputs,   \* pairs of a string and a word of delimiters
  DiskInputs     \* what open, the identify commands and the drive answer

\* A string is a finite sequence of characters.
ASSUME TokenAssumption ==
  \A pair \in TokenInputs : Len(pair.string) \in Nat /\ Len(pair.word) \in Nat

\* A name is in whole words.
ASSUME DriveAssumption ==
  \A disk \in DiskInputs :
    /\ disk.opens \in BOOLEAN /\ disk.identifies \in {"identify", "pidentify", "fail"}
    /\ \A n \in DOMAIN disk.names : disk.names[n] \in Seq(Nat) /\ Len(disk.names[n]) % 2 = 0
    /\ {disk.drive.w60, disk.drive.w61, disk.drive.w100, disk.drive.w101,
        disk.drive.w102, disk.drive.w103} \subseteq 0 .. Word16 - 1

VARIABLES program, input, outcome
smallVars == <<program, input, outcome>>

NoInput == <<>>
NoOutcome == <<>>

SmallInit ==
  /\ outcome = NoOutcome
  /\ \/ program = "token" /\ input \in TokenInputs
     \/ program = "disk" /\ input \in DiskInputs

SmallIdle(which) == program = which /\ input = NoInput /\ outcome = NoOutcome

Runs(which) ==
  program = which /\ outcome = NoOutcome /\ UNCHANGED <<program, input>>

SplitToken ==
  Runs("token") /\ outcome' = enStrTok(input.string, input.word)

ReadDisk ==
  Runs("disk") /\ outcome' = PrintDisk(input.opens, input.identifies, input.names, input.drive)

SmallNext == SplitToken \/ ReadDisk

SmallSpec == SmallInit /\ [][SmallNext]_smallVars

-----------------------------------------------------------------------------
(* Properties.                                                             *)

Ran(which) == program = which /\ outcome # NoOutcome

\* enStrTok (token.c:5-35) returns the fields of the string in their order,
\* none empty, and stores them inside what it allocated, whatever the runs of
\* delimiters in front, between and behind; except for a word of several
\* characters of which the string holds another than the first.
FieldsFitTheArray ==
  Ran("token") =>
    /\ IsSplit(input.string, input.word, outcome.array)
    /\ ~Uncounted(input.string, input.word) => Len(outcome.array) <= outcome.argc

\* The names a drive gives, read in the order of their characters: up to the
\* first terminator, without the spaces around them.
NameOf(source) ==
  LET chars  == [k \in 1 .. Len(source) |-> source[IF k % 2 = 1 THEN k + 1 ELSE k - 1]]
      ends   == {k \in 1 .. Len(source) : chars[k] = Nul} \cup {Len(source) + 1}
      solid  == {k \in 1 .. Min(ends) - 1 : chars[k] # Blank}
  IN  IF solid = {} THEN <<>> ELSE SubSeq(chars, Min(solid), Max(solid))

\* The value of groups of digits.
Value(groups) ==
  LET value[n \in 0 .. Len(groups)] ==
        IF n = 0 THEN 0 ELSE value[n - 1] * Thousand + groups[n]
  IN  value[Len(groups)]

\* What main of hdmbr prints and what it writes into its strings is what the
\* drive identified itself as: printed, its names without the spaces around them
\* and with those inside, and, as long as the bytes of its sectors fit 64 bits,
\* whole gigabytes; in a string that main does not print, all the digits of those
\* bytes, in groups of three without a group of zeros in front.  Nothing is
\* printed unless one of the commands succeeded.
PrintsTheDrive ==
  Ran("disk") =>
    /\ outcome.ret = 0 <=> input.opens /\ input.identifies # "fail"
    /\ outcome.ret = 0 =>
         LET bytes == get_num_sectors(input.drive) * SectorSize IN
         /\ outcome.names = [n \in DOMAIN input.names |-> NameOf(input.names[n])]
         /\ bytes < Word64 =>
              /\ Value(outcome.digits) = bytes
              /\ outcome.size = bytes \div Giga
         /\ outcome.digits[1] = 0 => Len(outcome.digits) = 1

=============================================================================
