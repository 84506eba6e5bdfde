------------------------------ MODULE Lollipop ------------------------------
(***************************************************************************)
(* The comparison of circular sequence numbers of lollipop/lollipop.c, and *)
(* the program that prints it both ways for its two arguments.             *)
(***************************************************************************)
EXTENDS Integers

CONSTANTS
  Region,      \* RPL_LOLLIPOP_CIRCULAR_REGION, the largest number (65535)
  Window,      \* RPL_LOLLIPOP_SEQUENCE_WINDOWS (5)
  Args         \* what atoi may return for an argument

ASSUME LollipopAssumption ==
  /\ Region \in Nat /\ Window \in Nat
  /\ 2 * Window < Region + 1
  /\ Args \subseteq Int

VARIABLES a, b, result, result2,
          printed      \* the program has printed its two results
vars == <<a, b, result, result2, printed>>

Numbers == 0 .. Region

\* Mutated form of lollipop_greater_than: the size of the circle is Region.
GreaterThanOnRegion(x, y) ==
  \/ x > y /\ x - y <= Window
  \/ x < y /\ y - x >= Region - Window

\* The operands are uint16_t promoted to int: the differences do not wrap.
lollipop_greater_than(x, y) ==
  \/ x > y /\ x - y <= Window
  \/ x < y /\ y - x >= Region + 1 - Window

\* atoi stored in a uint16_t: Region + 1 is 2^16.
Init ==
  /\ \E x, y \in Args : a = x % (Region + 1) /\ b = y % (Region + 1)
  /\ result = FALSE /\ result2 = FALSE /\ printed = FALSE

Compare ==
  /\ ~printed /\ printed' = TRUE
  /\ result' = lollipop_greater_than(a, b)
  /\ result2' = lollipop_greater_than(b, a)
  /\ UNCHANGED <<a, b>>

Next == Compare
Spec == Init /\ [][Next]_vars

-----------------------------------------------------------------------------
\* How far x is ahead of y on the circle of Region + 1 numbers.
Ahead(x, y) == (x - y) % (Region + 1)

\* The results and the operands stay in their C types.
TypeOK ==
  /\ a \in Numbers /\ b \in Numbers
  /\ result \in BOOLEAN /\ result2 \in BOOLEAN /\ printed \in BOOLEAN

\* What lollipop.c prints: a result is 1 exactly if its first number is ahead
\* of its second by at least one and at most Window steps around the circle,
\* the cases of the macro for wrapping included; otherwise it is 0.
ComparesOnTheCircle ==
  printed =>
    /\ result <=> Ahead(a, b) \in 1 .. Window
    /\ result2 <=> Ahead(b, a) \in 1 .. Window

\* No two numbers are each newer than the other; beyond the window both
\* results are 0, which the caller must not take for equality.
NeverBothNewer == ~(result /\ result2)
=============================================================================
