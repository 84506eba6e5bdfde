---------------------------- MODULE ConSequence ----------------------------
(***************************************************************************)
(* What the connection list of linklist/testlink.c stands for: a sorted    *)
(* sequence of connection IDs with a cursor that stays where the last      *)
(* operation ended.  An ID equal to the one under the cursor is dropped;   *)
(* any other is inserted, a second time too.                               *)
(***************************************************************************)
EXTENDS Naturals, SequencesExt

CONSTANTS CIDs, Capacity      \* at most Capacity entries

VARIABLES
  list,       \* the IDs in ascending order
  cursor      \* an index of list, 0 when it is empty

vars == <<list, cursor>>

Init == list = <<>> /\ cursor = 0

Right(c) == {i \in cursor + 1 .. Len(list) : list[i] = c}
Left(c)  == {i \in 1 .. cursor - 1 : list[i] = c}

\* The first entry with ID c met when walking away from the cursor.
Met(c) ==
  IF c = list[cursor] THEN cursor
  ELSE IF c > list[cursor] THEN Min(Right(c)) ELSE Max(Left(c))

\* Where an insertion walk that starts at the cursor puts c.
Slot(c) ==
  IF c > list[cursor]
  THEN Min({i \in cursor + 1 .. Len(list) : c <= list[i]} \cup {Len(list) + 1})
  ELSE Max({i \in 1 .. cursor - 1 : list[i] <= c} \cup {0}) + 1

InsertFirst(c) ==
  /\ list = <<>>
  /\ list' = <<c>>
  /\ cursor' = 1

Insert(c) ==
  /\ list # <<>> /\ Len(list) < Capacity
  /\ c # list[cursor]
  /\ list' = InsertAt(list, Slot(c), c)
  /\ cursor' = Slot(c)

Find(c) ==
  /\ cursor # 0 /\ c \in Range(list)
  /\ cursor' = Met(c)
  /\ UNCHANGED list

\* The cursor moves to the following entry, or to the last one left.
Delete(c) ==
  /\ cursor # 0 /\ c \in Range(list)
  /\ list' = RemoveAt(list, Met(c))
  /\ cursor' = Min({Met(c), Len(list) - 1})

Next == \E c \in CIDs : InsertFirst(c) \/ Insert(c) \/ Find(c) \/ Delete(c)

Spec == Init /\ [][Next]_vars
=============================================================================
